------------------------- MODULE InstallJobsProofs -------------------------
(***************************************************************************)
(* Proofs about InstallJobs, for any number of managers, jobs and plans.   *)
(***************************************************************************)
EXTENDS InstallJobs, TLAPS, FiniteSetTheorems

\* Everything a step may do to the durable receipt of job j.
Unchanged(j) == disk'[j] = disk[j]
Forgotten(j) ==
    /\ disk[j] # None /\ disk'[j] = None
    /\ Terminal(disk[j]) \/ ~SteadyClock
Created(j) ==
    /\ disk[j] = None /\ j \notin used /\ j \in used'
    /\ \E p \in Plans : disk'[j] = NewReceipt(p)
CancelMarked(j) ==
    /\ disk[j] # None /\ disk[j].phase \in CancellablePhases
    /\ disk'[j] = [disk[j] EXCEPT !.revision = @ + 1,
                                  !.cancel_requested = TRUE]
Reclaimed(j) ==
    /\ Active(disk[j]) /\ disk[j].phase # "healthy_unclaimed"
    /\ disk'[j] = ClaimedReceipt(disk[j])
Moved(j) ==
    \E ph \in Phases, root \in RootModes \cup {None},
       result \in ResultCodes \cup {None}, entry \in EntryIds \cup {None} :
        /\ disk[j] # None
        /\ NextPhase(disk[j].phase, ph)
        /\ disk[j].cancel_requested =>
               ph \in {"cancelled", "failed", "recovery_required"}
        /\ RootAllowed(disk[j], ph, root)
        /\ OutcomeAllowed(disk[j], ph, result, entry)
        /\ disk'[j] = MovedReceipt(disk[j], ph, root, result, entry)
JobStep(j) ==
    \/ Unchanged(j) \/ Forgotten(j) \/ Created(j)
    \/ CancelMarked(j) \/ Reclaimed(j) \/ Moved(j)

\* Identifiers seen anywhere were drawn.
UsedInv ==
    \A j \in JobIds : j \notin used =>
        /\ disk[j] = None
        /\ \A m \in Managers :
               /\ claimed[m][j] = None
               /\ cache[m] # None => cache[m][j] = None

\* ------------------------------------------------------------------------
\* One step, one job.

\* A save leaves every job as it was or as the saved document has it.
LEMMA SavedDisk ==
    ASSUME NEW m \in Managers, NEW jobs, NEW claims, Saved(m, jobs, claims)
    PROVE  disk' \in {disk, jobs}
  BY DEF Saved

\* A prune drops finished receipts, the stamped one only if the clock may jump.
LEMMA KeptJobs ==
    ASSUME NEW jobs, NEW s, NEW gone \in Prunable(jobs, s), NEW k \in JobIds
    PROVE  \/ Without(jobs, gone)[k] = jobs[k]
           \/ /\ Without(jobs, gone)[k] = None /\ Terminal(jobs[k])
              /\ k = s => ~SteadyClock
  BY DEF Prunable, Without

\* Every step of the system is, for each job, one of the moves above.
LEMMA NextIsJobStep ==
    ASSUME TypeOK, UsedInv, Next, NEW k \in JobIds
    PROVE  JobStep(k)
<1> PICK m \in Managers :
      \/ Refresh(m) \/ Fault(m) \/ Restart(m)
      \/ \E j \in JobIds, p \in Plans : Create(m, j, p)
      \/ \E j \in JobIds : JobCall(m, j) \/ BarrierCall(m, j)
  BY DEF Next
<1> USE DEF JobStep
<1>1. CASE Refresh(m) \/ Fault(m) \/ Restart(m)
  BY <1>1 DEF Refresh, Fault, Restart, Unchanged
<1>2. ASSUME NEW j \in JobIds, NEW p \in Plans, Create(m, j, p)
      PROVE  JobStep(k)
  <2>1. PICK gone \in Prunable(disk, None) :
          disk' \in {disk, [Without(disk, gone) EXCEPT ![j] = NewReceipt(p)]}
    BY <1>2, SavedDisk DEF Create
  <2>2. Without(disk, gone)[k] = disk[k]
          \/ (Terminal(disk[k]) /\ Without(disk, gone)[k] = None)
    BY KeptJobs
  <2>3. Without(disk, gone) = [i \in JobIds |-> Without(disk, gone)[i]]
    BY DEF Without
  <2>4. CASE k = j /\ disk' # disk
    <3>1. disk'[k] = NewReceipt(p)
      BY <2>1, <2>3, <2>4
    <3>2. disk[k] = None /\ k \notin used /\ k \in used'
      BY <1>2, <2>4 DEF Create, UsedInv
    <3>3. QED BY <3>1, <3>2 DEF Created
  <2>5. CASE k # j \/ disk' = disk
    BY <2>1, <2>2, <2>3, <2>5 DEF Unchanged, Forgotten, Terminal
  <2>6. QED BY <2>4, <2>5
<1>3. ASSUME NEW j \in JobIds, NEW rev \in 0 .. MaxRevision,
             RequestCancel(m, j, rev)
      PROVE  JobStep(k)
  <2>1. disk' \in {disk, [disk EXCEPT ![j].revision = rev + 1,
                                      ![j].cancel_requested = TRUE]}
    BY <1>3, SavedDisk DEF RequestCancel
  <2>2. CASE k = j /\ disk' # disk
    <3>1. disk'[k] = [disk[k] EXCEPT !.revision = @ + 1,
                                     !.cancel_requested = TRUE]
      BY <1>3, <2>1, <2>2 DEF RequestCancel, Current, TypeOK, Receipt
    <3>2. QED BY <3>1, <1>3, <2>2 DEF CancelMarked, RequestCancel, Current
  <2>3. CASE k # j \/ disk' = disk
    BY <2>1, <2>3 DEF Unchanged, TypeOK
  <2>4. QED BY <2>2, <2>3
<1>4. ASSUME NEW j \in JobIds, NEW r, disk[j] # None,
             \E gone \in Prunable([disk EXCEPT ![j] = r], j) :
                 disk' \in {disk, Without([disk EXCEPT ![j] = r], gone)}
      PROVE  Unchanged(k) \/ Forgotten(k) \/ (k = j /\ disk'[k] = r)
  <2> DEFINE jobs == [disk EXCEPT ![j] = r]
  <2>1. PICK gone \in Prunable(jobs, j) : disk' \in {disk, Without(jobs, gone)}
    BY <1>4
  <2>2. k = j => jobs[k] = r
    BY DEF TypeOK
  <2>3. k # j => jobs[k] = disk[k]
    BY DEF TypeOK
  <2> HIDE DEF jobs
  <2>4. CASE disk' = disk
    BY <2>4 DEF Unchanged
  <2>5. CASE disk' = Without(jobs, gone)
    <3>1. \/ disk'[k] = jobs[k]
          \/ (disk'[k] = None /\ Terminal(jobs[k]) /\ (k = j => ~SteadyClock))
      BY <2>5, KeptJobs
    <3>2. QED BY <3>1, <2>2, <2>3, <1>4 DEF Unchanged, Forgotten, Terminal
  <2>6. QED BY <2>1, <2>4, <2>5
<1>5. ASSUME NEW j \in JobIds, NEW rev \in 0 .. MaxRevision,
             NEW cleaned \in BOOLEAN, Claim(m, j, rev, cleaned)
      PROVE  JobStep(k)
  <2>1. \E gone \in Prunable([disk EXCEPT ![j] = ClaimedReceipt(disk[j])], j) :
          disk' \in {disk, Without([disk EXCEPT ![j] = ClaimedReceipt(disk[j])],
                                   gone)}
    BY <1>5, SavedDisk DEF Claim
  <2>2. Unchanged(k) \/ Forgotten(k)
          \/ (k = j /\ disk'[k] = ClaimedReceipt(disk[j]))
    BY <2>1, <1>4, <1>5 DEF Claim, Current
  <2>3. QED BY <2>2, <1>5 DEF Claim, Claimable, Reclaimed
<1>6. ASSUME NEW j \in JobIds, NEW rev \in 0 .. MaxRevision,
             NEW ph \in Phases, NEW root \in RootModes \cup {None},
             NEW result \in ResultCodes \cup {None},
             NEW entry \in EntryIds \cup {None},
             Transition(m, j, rev, ph, root, result, entry)
      PROVE  JobStep(k)
  <2> DEFINE r == MovedReceipt(disk[j], ph, root, result, entry)
  <2>1. \E gone \in Prunable([disk EXCEPT ![j] = r], j) :
          disk' \in {disk, Without([disk EXCEPT ![j] = r], gone)}
    BY <1>6, SavedDisk DEF Transition, Admitted, Stamped
  <2>2. Unchanged(k) \/ Forgotten(k) \/ (k = j /\ disk'[k] = r)
    BY <2>1, <1>4, <1>6 DEF Transition, Admitted, Current
  <2>3. CASE k = j /\ disk'[k] = r
    BY <2>3, <1>6 DEF Transition, Admitted, CancelAllows, Current, Moved
  <2>4. QED BY <2>2, <2>3
<1>7. ASSUME NEW j \in JobIds, BarrierCall(m, j)
      PROVE  JobStep(k)
  BY <1>7 DEF BarrierCall, VerifyBarrier, Unchanged
<1>8. ASSUME NEW j \in JobIds, JobCall(m, j)
      PROVE  JobStep(k)
  BY <1>8, <1>3, <1>5, <1>6 DEF JobCall
<1>9. QED BY <1>1, <1>2, <1>7, <1>8

\* What a claim makes of a receipt.
LEMMA ClaimedShape ==
    ASSUME NEW r \in Receipt
    PROVE  LET c == ClaimedReceipt(r) IN
           /\ c \in Receipt /\ c # None
           /\ c.revision = r.revision + 1
           /\ c.plan = r.plan /\ c.cancel_requested = r.cancel_requested
           /\ c.root = r.root /\ c.apk = r.apk
           /\ c.health = r.health /\ c.entry = r.entry
           /\ \/ c.phase = r.phase /\ c.result = r.result
              \/ /\ c.phase = "recovery_required"
                 /\ c.result = "verification_required"
           /\ r.phase \in AmbiguousPhases => c.phase = "recovery_required"
           /\ \/ c.generation = r.generation + 1 /\ r.generation < MaxAttempts
              \/ c.generation = r.generation /\ c.phase = "recovery_required"
<1> DEFINE c == ClaimedReceipt(r)
           quarantine(g) == [r EXCEPT !.revision = r.revision + 1,
                                      !.generation = g,
                                      !.phase = "recovery_required",
                                      !.result = "verification_required"]
<1>1. /\ "recovery_required" \in Phases
      /\ "verification_required" \in ResultCodes
  BY DEF Phases, TerminalPhases, ResultCodes, RecoveryCodes
<1>2. MaxAttempts \in Nat
  BY LimitsAssumption
<1>3. r.generation \in Nat /\ r.revision \in Nat
  BY DEF Receipt
<1>4. ASSUME NEW g \in Nat
      PROVE  /\ quarantine(g) \in Receipt
             /\ quarantine(g).revision = r.revision + 1
             /\ quarantine(g).generation = g
             /\ quarantine(g).phase = "recovery_required"
             /\ quarantine(g).result = "verification_required"
             /\ quarantine(g).plan = r.plan
             /\ quarantine(g).cancel_requested = r.cancel_requested
             /\ quarantine(g).root = r.root /\ quarantine(g).apk = r.apk
             /\ quarantine(g).health = r.health
             /\ quarantine(g).entry = r.entry
  <2>1. r.revision + 1 \in Nat
    BY <1>3
  <2>2. quarantine(g) \in Receipt
    BY <1>1, <1>4, <2>1 DEF Receipt
  <2>3. QED BY <2>2 DEF Receipt
<1>5. CASE r.generation >= MaxAttempts
  <2>1. c = quarantine(r.generation)
    BY <1>5 DEF ClaimedReceipt, Receipt
  <2> HIDE DEF c, quarantine
  <2>2. QED BY <2>1, <1>3, <1>4, NoneAssumption DEF c
<1>6. CASE r.generation < MaxAttempts /\ r.phase \in AmbiguousPhases
  <2>1. c = quarantine(r.generation + 1)
    BY <1>2, <1>3, <1>6 DEF ClaimedReceipt
  <2>2. r.generation + 1 \in Nat
    BY <1>3
  <2> HIDE DEF c, quarantine
  <2>3. QED BY <2>1, <2>2, <1>4, <1>6, NoneAssumption DEF c
<1>7. CASE r.generation < MaxAttempts /\ r.phase \notin AmbiguousPhases
  <2>1. c = [r EXCEPT !.revision = r.revision + 1,
                      !.generation = r.generation + 1]
    BY <1>2, <1>3, <1>7 DEF ClaimedReceipt
  <2> HIDE DEF c
  <2>2. c \in Receipt
    <3>1. r.revision + 1 \in Nat /\ r.generation + 1 \in Nat
      BY <1>3
    <3>2. QED BY <2>1, <3>1 DEF Receipt
  <2>3. /\ c.revision = r.revision + 1 /\ c.generation = r.generation + 1
        /\ c.plan = r.plan /\ c.cancel_requested = r.cancel_requested
        /\ c.root = r.root /\ c.apk = r.apk /\ c.health = r.health
        /\ c.entry = r.entry /\ c.phase = r.phase /\ c.result = r.result
    BY <2>1 DEF Receipt
  <2>4. QED BY <2>2, <2>3, <1>7, NoneAssumption DEF c
<1>8. QED BY <1>2, <1>3, <1>5, <1>6, <1>7

\* A step writes the memory of one manager: it forgets everything, or adopts
\* the file and keeps some claims, the one it has just renewed among them.
Renewed(j) ==
    /\ disk[j] # None /\ disk'[j] # None
    /\ disk'[j].generation = disk[j].generation + 1
Remembers(m, claims) ==
    /\ Adopted(m, disk', claims)
    /\ \A j \in JobIds : claims[j] # None =>
           \/ claims[j] = claimed[m][j]
           \/ Renewed(j) /\ claims[j] = disk'[j].generation

\* A save that fails forgets; one that succeeds has written what it adopts.
LEMMA SavedMemory ==
    ASSUME NEW m \in Managers, NEW jobs, NEW claims, Saved(m, jobs, claims)
    PROVE  Invalidated(m) \/ (disk' = jobs /\ Adopted(m, disk', claims))
  BY DEF Saved

\* Reconciling only drops claims.
LEMMA ReconciledClaims ==
    ASSUME NEW claims \in [JobIds -> Nat \cup {None}], NEW jobs
    PROVE  /\ Reconciled(claims, jobs) \in [JobIds -> Nat \cup {None}]
           /\ \A j \in JobIds : Reconciled(claims, jobs)[j] \in {claims[j], None}
  BY DEF Reconciled

\* The memory half of a step.
LEMMA NextIsMemoryStep ==
    ASSUME TypeOK, Next
    PROVE  \E m \in Managers :
               \/ Invalidated(m)
               \/ \E claims \in [JobIds -> Nat \cup {None}] : Remembers(m, claims)
<1> PICK m \in Managers :
      \/ Refresh(m) \/ Fault(m) \/ Restart(m)
      \/ \E j \in JobIds, p \in Plans : Create(m, j, p)
      \/ \E j \in JobIds : JobCall(m, j) \/ BarrierCall(m, j)
  BY DEF Next
<1> DEFINE Done == \/ Invalidated(m)
                   \/ \E claims \in [JobIds -> Nat \cup {None}] :
                          Remembers(m, claims)
           Once(jobs) == Reconciled(claimed[m], jobs)
           Twice(jobs) == Reconciled(Once(disk), jobs)
<1>1. claimed[m] \in [JobIds -> Nat \cup {None}]
  BY DEF TypeOK
<1>2. ASSUME NEW jobs
      PROVE  /\ Once(jobs) \in [JobIds -> Nat \cup {None}]
             /\ Twice(jobs) \in [JobIds -> Nat \cup {None}]
             /\ \A j \in JobIds : /\ Once(jobs)[j] \in {claimed[m][j], None}
                                  /\ Twice(jobs)[j] \in {claimed[m][j], None}
  <2>1. /\ Once(jobs) \in [JobIds -> Nat \cup {None}]
        /\ \A j \in JobIds : Once(jobs)[j] \in {claimed[m][j], None}
        /\ Once(disk) \in [JobIds -> Nat \cup {None}]
        /\ \A j \in JobIds : Once(disk)[j] \in {claimed[m][j], None}
    BY <1>1, ReconciledClaims
  <2> HIDE DEF Once
  <2>2. /\ Twice(jobs) \in [JobIds -> Nat \cup {None}]
        /\ \A j \in JobIds : Twice(jobs)[j] \in {Once(disk)[j], None}
    BY <2>1, ReconciledClaims
  <2> HIDE DEF Twice
  <2>3. QED BY <2>1, <2>2
<1> HIDE DEF Once, Twice
<1>3. ASSUME NEW jobs, Saved(m, jobs, Twice(jobs))
      PROVE  Done
  BY <1>2, <1>3, SavedMemory DEF Remembers
<1>4. CASE Refresh(m)
  <2>1. Adopted(m, disk', Once(disk))
    BY <1>4 DEF Refresh, Once
  <2>2. QED BY <2>1, <1>2 DEF Remembers
<1>5. CASE Fault(m) \/ Restart(m)
  BY <1>5 DEF Fault, Restart
<1>6. ASSUME NEW j \in JobIds, NEW p \in Plans, Create(m, j, p)
      PROVE  Done
  BY <1>3, <1>6 DEF Create, Once, Twice
<1>7. ASSUME NEW j \in JobIds, NEW rev \in 0 .. MaxRevision,
             RequestCancel(m, j, rev)
      PROVE  Done
  BY <1>3, <1>7 DEF RequestCancel, Once, Twice
<1>8. ASSUME NEW j \in JobIds, NEW rev \in 0 .. MaxRevision,
             NEW cleaned \in BOOLEAN, Claim(m, j, rev, cleaned)
      PROVE  Done
  <2> DEFINE r == ClaimedReceipt(disk[j])
  <2>1. PICK gone \in Prunable([disk EXCEPT ![j] = r], j) :
          LET kept == Without([disk EXCEPT ![j] = r], gone)
          IN Saved(m, kept, IF Terminal(r) THEN Twice(kept)
                            ELSE [Twice(kept) EXCEPT ![j] = r.generation])
    BY <1>8 DEF Claim, Once, Twice
  <2> DEFINE kept == Without([disk EXCEPT ![j] = r], gone)
  <2>2. CASE Terminal(r)
    BY <2>1, <2>2, <1>3
  <2>3. CASE ~Terminal(r)
    <3>1. \/ Invalidated(m)
          \/ /\ disk' = kept
             /\ Adopted(m, disk', [Twice(kept) EXCEPT ![j] = r.generation])
      BY <2>1, <2>3, SavedMemory
    <3>2. /\ disk[j] \in Receipt
          /\ disk[j] # None
      BY <1>8 DEF Claim, Current, TypeOK
    <3>3. r # None /\ r.generation = disk[j].generation + 1
      BY <2>3, <3>2, ClaimedShape DEF Terminal, TerminalPhases
    <3>4. disk' = kept => disk'[j] = r
      <4> DEFINE jobs == [disk EXCEPT ![j] = r]
      <4>1. jobs[j] = r
        BY DEF TypeOK
      <4>2. kept = Without(jobs, gone) /\ gone \in Prunable(jobs, j)
        OBVIOUS
      <4> HIDE DEF r, jobs, kept
      <4>3. kept[j] = r \/ Terminal(r)
        BY <4>1, <4>2, KeptJobs
      <4>4. QED BY <4>3, <2>3
    <3>5. r.generation \in Nat
      BY <3>2, <3>3 DEF Receipt
    <3> HIDE DEF r, kept
    <3>6. [Twice(kept) EXCEPT ![j] = r.generation]
            \in [JobIds -> Nat \cup {None}]
      BY <1>2, <3>5
    <3>7. ASSUME disk' = kept, NEW i \in JobIds,
                 [Twice(kept) EXCEPT ![j] = r.generation][i] # None
          PROVE  \/ [Twice(kept) EXCEPT ![j] = r.generation][i] = claimed[m][i]
                 \/ /\ Renewed(i)
                    /\ [Twice(kept) EXCEPT ![j] = r.generation][i]
                         = disk'[i].generation
      <4>1. CASE i = j
        BY <4>1, <3>7, <3>2, <3>3, <3>4, <1>2 DEF Renewed
      <4>2. CASE i # j
        BY <4>2, <3>7, <1>2
      <4>3. QED BY <4>1, <4>2
    <3>8. QED BY <3>1, <3>6, <3>7 DEF Remembers
  <2>4. QED BY <2>2, <2>3
<1>9. ASSUME NEW j \in JobIds, NEW rev \in 0 .. MaxRevision,
             NEW ph \in Phases, NEW root \in RootModes \cup {None},
             NEW result \in ResultCodes \cup {None},
             NEW entry \in EntryIds \cup {None},
             Transition(m, j, rev, ph, root, result, entry)
      PROVE  Done
  BY <1>3, <1>9 DEF Transition, Admitted, Stamped, Once, Twice
<1>10. ASSUME NEW j \in JobIds, BarrierCall(m, j)
       PROVE  Done
  <2>1. Adopted(m, disk', Once(disk))
    BY <1>10 DEF BarrierCall, VerifyBarrier, Once
  <2>2. QED BY <2>1, <1>2 DEF Remembers
<1>11. ASSUME NEW j \in JobIds, JobCall(m, j)
       PROVE  Done
  BY <1>11, <1>7, <1>8, <1>9 DEF JobCall
<1>12. QED BY <1>4, <1>5, <1>6, <1>10, <1>11

\* ------------------------------------------------------------------------
\* Type correctness.

\* c is r moved to phase ph, field by field.
MovedAs(c, r, ph, root, result, entry) ==
    /\ c \in Receipt /\ c # None
    /\ c.plan = r.plan
    /\ c.phase = ph
    /\ c.revision = r.revision + 1
    /\ c.generation = r.generation
    /\ c.cancel_requested = r.cancel_requested
    /\ c.root = IF root = None THEN r.root ELSE root
    /\ c.apk <=> (r.apk \/ ph = "artifact_ready")
    /\ c.health <=> IF r.phase = "healthy_unclaimed"
                    THEN r.health /\ ph # "recovery_required"
                    ELSE r.health \/ ph = "healthy_unclaimed"
    /\ c.result = result
    /\ c.entry = entry

\* What a transition makes of a receipt.
LEMMA MovedShape ==
    ASSUME NEW r \in Receipt, NEW ph \in Phases,
           NEW root \in RootModes \cup {None},
           NEW result \in ResultCodes \cup {None},
           NEW entry \in EntryIds \cup {None}
    PROVE  MovedAs(MovedReceipt(r, ph, root, result, entry),
                   r, ph, root, result, entry)
<1> DEFINE c == MovedReceipt(r, ph, root, result, entry)
           v == r.revision + 1
           q == IF root = None THEN r.root ELSE root
           a == (r.apk \/ ph = "artifact_ready")
           h == IF r.phase = "healthy_unclaimed"
                THEN r.health /\ ph # "recovery_required"
                ELSE r.health \/ ph = "healthy_unclaimed"
<1>1. /\ v \in Nat
      /\ q \in RootModes \cup {None}
      /\ a \in BOOLEAN
      /\ h \in BOOLEAN
  <2>1. /\ r.revision \in Nat /\ r.root \in RootModes \cup {None}
        /\ r.apk \in BOOLEAN /\ r.health \in BOOLEAN
    BY DEF Receipt
  <2>2. v \in Nat /\ q \in RootModes \cup {None}
    BY <2>1
  <2>3. a \in BOOLEAN
    BY Zenon DEF a
  <2>4. h \in BOOLEAN
    <3>1. CASE r.phase = "healthy_unclaimed"
      <4>1. h = (r.health /\ ph # "recovery_required")
        BY <3>1
      <4>2. QED BY <4>1, Zenon
    <3>2. CASE r.phase # "healthy_unclaimed"
      <4>1. h = (r.health \/ ph = "healthy_unclaimed")
        BY <3>2
      <4>2. QED BY <4>1, Zenon
    <3>3. QED BY <3>1, <3>2
  <2>5. QED BY <2>2, <2>3, <2>4
<1>2. c = [r EXCEPT !.revision = v, !.phase = ph, !.root = q, !.apk = a,
                    !.health = h, !.result = result, !.entry = entry]
  BY DEF MovedReceipt
<1> HIDE DEF c, v, q, a, h
<1>3. c \in Receipt
  BY <1>1, <1>2 DEF Receipt
<1>4. /\ c.plan = r.plan /\ c.phase = ph /\ c.revision = v
      /\ c.generation = r.generation
      /\ c.cancel_requested = r.cancel_requested
      /\ c.root = q /\ c.apk = a /\ c.health = h
      /\ c.result = result /\ c.entry = entry
  BY <1>2 DEF Receipt
<1>5. QED BY <1>3, <1>4, NoneAssumption DEF c, v, q, a, h, MovedAs

\* A new receipt is a receipt.
LEMMA NewShape ==
    ASSUME NEW p \in Plans
    PROVE  NewReceipt(p) \in Receipt /\ NewReceipt(p) # None
<1>1. "approved" \in Phases
  BY DEF Phases, CancellablePhases
<1>2. NewReceipt(p) \in Receipt
  BY <1>1 DEF NewReceipt, Receipt
<1>3. QED BY <1>2, NoneAssumption

\* A cancel mark leaves a receipt.
LEMMA MarkedShape ==
    ASSUME NEW r \in Receipt
    PROVE  LET c == [r EXCEPT !.revision = r.revision + 1,
                              !.cancel_requested = TRUE] IN
           /\ c \in Receipt /\ c # None
           /\ c.revision = r.revision + 1
           /\ c.cancel_requested = TRUE
           /\ c.plan = r.plan /\ c.phase = r.phase
           /\ c.generation = r.generation /\ c.root = r.root
           /\ c.apk = r.apk /\ c.health = r.health
           /\ c.result = r.result /\ c.entry = r.entry
<1> DEFINE c == [r EXCEPT !.revision = r.revision + 1,
                          !.cancel_requested = TRUE]
<1>1. r.revision + 1 \in Nat
  BY DEF Receipt
<1>2. c \in Receipt
  BY <1>1 DEF Receipt
<1>3. QED BY <1>2, NoneAssumption DEF Receipt

LEMMA MarkedJob ==
    ASSUME TypeOK, NEW j \in JobIds, CancelMarked(j)
    PROVE  /\ disk[j] \in Receipt /\ disk'[j] \in Receipt
           /\ disk'[j].revision = disk[j].revision + 1
           /\ disk'[j].cancel_requested = TRUE
           /\ disk'[j].plan = disk[j].plan /\ disk'[j].phase = disk[j].phase
           /\ disk'[j].generation = disk[j].generation
           /\ disk'[j].root = disk[j].root /\ disk'[j].apk = disk[j].apk
           /\ disk'[j].health = disk[j].health
           /\ disk'[j].result = disk[j].result /\ disk'[j].entry = disk[j].entry
<1>1. disk[j] \in Receipt
  BY DEF TypeOK, CancelMarked
<1>2. PICK r \in Receipt : r = disk[j]
  BY <1>1
<1>3. disk'[j] = [r EXCEPT !.revision = r.revision + 1, !.cancel_requested = TRUE]
  BY <1>2 DEF CancelMarked
<1>4. r.revision + 1 \in Nat
  BY DEF Receipt
<1>5. disk'[j] \in Receipt
  BY <1>3, <1>4 DEF Receipt
<1>6. /\ disk'[j].revision = r.revision + 1
      /\ disk'[j].cancel_requested = TRUE
      /\ disk'[j].plan = r.plan /\ disk'[j].phase = r.phase
      /\ disk'[j].generation = r.generation
      /\ disk'[j].root = r.root /\ disk'[j].apk = r.apk
      /\ disk'[j].health = r.health
      /\ disk'[j].result = r.result /\ disk'[j].entry = r.entry
  BY <1>3 DEF Receipt
<1> QED BY <1>1, <1>2, <1>5, <1>6

\* The durable receipt of a job is always a receipt or absent.
LEMMA JobStepType ==
    ASSUME TypeOK, NEW j \in JobIds, JobStep(j)
    PROVE  disk'[j] \in Receipt \cup {None}
<1>0. disk[j] \in Receipt \cup {None}
  BY DEF TypeOK
<1>1. CASE Unchanged(j) \/ Forgotten(j)
  BY <1>0, <1>1 DEF Unchanged, Forgotten
<1>2. CASE Created(j)
  BY <1>2, NewShape DEF Created
<1>3. CASE CancelMarked(j)
  BY <1>3, MarkedJob
<1>4. CASE Reclaimed(j)
  BY <1>0, <1>4, ClaimedShape DEF Reclaimed, Active
<1>5. CASE Moved(j)
  <2>1. disk[j] \in Receipt
    BY <1>0, <1>5 DEF Moved
  <2>2. PICK ph \in Phases, root \in RootModes \cup {None},
             result \in ResultCodes \cup {None}, entry \in EntryIds \cup {None} :
          disk'[j] = MovedReceipt(disk[j], ph, root, result, entry)
    BY <1>5 DEF Moved
  <2>3. MovedAs(disk'[j], disk[j], ph, root, result, entry)
    BY <2>1, <2>2, MovedShape
  <2>4. QED BY <2>3 DEF MovedAs
<1>6. QED BY <1>1, <1>2, <1>3, <1>4, <1>5 DEF JobStep

\* The document stays a function of the job identifiers; identifiers once
\* drawn stay drawn.
LEMMA NextDocument ==
    ASSUME TypeOK, Next
    PROVE  /\ disk' = [j \in JobIds |-> disk'[j]]
           /\ used \subseteq used' /\ used' \subseteq JobIds
<1> PICK m \in Managers :
      \/ Refresh(m) \/ Fault(m) \/ Restart(m)
      \/ \E j \in JobIds, p \in Plans : Create(m, j, p)
      \/ \E j \in JobIds : JobCall(m, j) \/ BarrierCall(m, j)
  BY DEF Next
<1>0. disk = [j \in JobIds |-> disk[j]] /\ used \subseteq JobIds
  BY DEF TypeOK
<1>1. CASE Refresh(m) \/ Fault(m) \/ Restart(m)
  BY <1>0, <1>1 DEF Refresh, Fault, Restart
<1>2. ASSUME NEW j \in JobIds, NEW p \in Plans, Create(m, j, p)
      PROVE  /\ disk' = [i \in JobIds |-> disk'[i]]
             /\ used \subseteq used' /\ used' \subseteq JobIds
  <2>1. PICK gone \in Prunable(disk, None) :
          disk' \in {disk, [Without(disk, gone) EXCEPT ![j] = NewReceipt(p)]}
    BY <1>2, SavedDisk DEF Create
  <2>2. disk' = [i \in JobIds |-> disk'[i]]
    BY <2>1, <1>0 DEF Without
  <2>3. QED BY <2>2, <1>2, <1>0 DEF Create
<1>3. ASSUME NEW j \in JobIds, BarrierCall(m, j)
      PROVE  disk' = disk /\ used' = used
  BY <1>3 DEF BarrierCall, VerifyBarrier
<1>4. ASSUME NEW j \in JobIds, JobCall(m, j)
      PROVE  /\ disk' = [i \in JobIds |-> disk'[i]]
             /\ used' = used
  <2>1. PICK rev \in 0 .. MaxRevision :
          \/ RequestCancel(m, j, rev)
          \/ \E cleaned \in BOOLEAN : Claim(m, j, rev, cleaned)
          \/ \E ph \in Phases, root \in RootModes \cup {None},
                result \in ResultCodes \cup {None},
                entry \in EntryIds \cup {None} :
                 Transition(m, j, rev, ph, root, result, entry)
    BY <1>4 DEF JobCall
  <2>2. CASE RequestCancel(m, j, rev)
    <3>1. disk' \in {disk, [disk EXCEPT ![j].revision = rev + 1,
                                        ![j].cancel_requested = TRUE]}
      BY <2>2, SavedDisk DEF RequestCancel
    <3>2. QED BY <3>1, <2>2, <1>0 DEF RequestCancel
  <2>3. ASSUME NEW cleaned \in BOOLEAN, Claim(m, j, rev, cleaned)
        PROVE  /\ disk' = [i \in JobIds |-> disk'[i]]
               /\ used' = used
    <3>1. \E jobs, gone : disk' \in {disk, Without(jobs, gone)}
      BY <2>3, SavedDisk DEF Claim
    <3>2. QED BY <3>1, <2>3, <1>0 DEF Claim, Without
  <2>4. ASSUME NEW ph \in Phases, NEW root \in RootModes \cup {None},
               NEW result \in ResultCodes \cup {None},
               NEW entry \in EntryIds \cup {None},
               Transition(m, j, rev, ph, root, result, entry)
        PROVE  /\ disk' = [i \in JobIds |-> disk'[i]]
               /\ used' = used
    <3>1. \E jobs, gone : disk' \in {disk, Without(jobs, gone)}
      BY <2>4, SavedDisk DEF Transition, Admitted, Stamped
    <3>2. QED BY <3>1, <2>4, <1>0 DEF Transition, Admitted, Without
  <2>5. QED BY <2>1, <2>2, <2>3, <2>4
<1>5. QED BY <1>0, <1>1, <1>2, <1>3, <1>4

\* TypeOK is inductive together with UsedInv.
LEMMA TypeStep ==
    ASSUME TypeOK, UsedInv, Next
    PROVE  TypeOK'
<1>1. disk' \in [JobIds -> Receipt \cup {None}]
  BY NextDocument, NextIsJobStep, JobStepType
<1>2. /\ cache' \in [Managers -> [JobIds -> Receipt \cup {None}] \cup {None}]
      /\ claimed' \in [Managers -> [JobIds -> Nat \cup {None}]]
  <2>1. PICK m \in Managers :
          \/ Invalidated(m)
          \/ \E claims \in [JobIds -> Nat \cup {None}] : Remembers(m, claims)
    BY NextIsMemoryStep
  <2>2. CASE Invalidated(m)
    <3>1. NoClaims \in [JobIds -> Nat \cup {None}]
      BY DEF NoClaims
    <3>2. QED BY <2>2, <3>1 DEF TypeOK, Invalidated
  <2>3. CASE \E claims \in [JobIds -> Nat \cup {None}] : Remembers(m, claims)
    BY <1>1, <2>3 DEF TypeOK, Remembers, Adopted
  <2>4. QED BY <2>1, <2>2, <2>3
<1>3. QED BY <1>1, <1>2, NextDocument DEF TypeOK

\* A drawn identifier leaves its traces; one not drawn leaves none.
LEMMA UsedStep ==
    ASSUME TypeOK, UsedInv, Next
    PROVE  UsedInv'
<1> SUFFICES ASSUME NEW j \in JobIds, j \notin used'
             PROVE  /\ disk'[j] = None
                    /\ \A m \in Managers :
                           /\ claimed'[m][j] = None
                           /\ cache'[m] # None => cache'[m][j] = None
  BY DEF UsedInv
<1>1. j \notin used /\ disk[j] = None
  BY NextDocument DEF UsedInv
<1>2. disk'[j] = None
  BY <1>1, NextIsJobStep
     DEF JobStep, Unchanged, Forgotten, Created, CancelMarked, Reclaimed,
         Active, Moved
<1>3. \A m \in Managers : /\ claimed[m][j] = None
                          /\ cache[m] # None => cache[m][j] = None
  BY <1>1 DEF UsedInv
<1>4. PICK m \in Managers :
        \/ Invalidated(m)
        \/ \E claims \in [JobIds -> Nat \cup {None}] : Remembers(m, claims)
  BY NextIsMemoryStep
<1>5. CASE Invalidated(m)
  BY <1>2, <1>3, <1>5 DEF Invalidated, NoClaims, TypeOK
<1>6. ASSUME NEW claims \in [JobIds -> Nat \cup {None}], Remembers(m, claims)
      PROVE  \A n \in Managers : /\ claimed'[n][j] = None
                                 /\ cache'[n] # None => cache'[n][j] = None
  <2>1. claims[j] = None
    BY <1>1, <1>3, <1>6 DEF Remembers, Renewed
  <2>2. QED BY <2>1, <1>2, <1>3, <1>6 DEF Remembers, Adopted, TypeOK
<1>7. QED BY <1>2, <1>4, <1>5, <1>6

\* In every behaviour the store, the memories and the claims are well formed.
THEOREM TypeCorrect == Spec => []TypeOK
<1>1. Init => TypeOK /\ UsedInv
  BY DEF Init, TypeOK, UsedInv, NoClaims
<1>2. TypeOK /\ UsedInv /\ [Next]_vars => TypeOK' /\ UsedInv'
  <2> SUFFICES ASSUME TypeOK, UsedInv, [Next]_vars
               PROVE  TypeOK' /\ UsedInv'
    OBVIOUS
  <2>1. CASE Next
    BY <2>1, TypeStep, UsedStep
  <2>2. CASE UNCHANGED vars
    BY <2>2 DEF vars, TypeOK, UsedInv
  <2>3. QED BY <2>1, <2>2
<1>3. QED BY <1>1, <1>2, PTL DEF Spec

----------------------------------------------------------------------------
(* The safety theorems, each for any number of managers, jobs and plans.    *)
(* They rest on what is shown above of one step: for the durable receipt it *)
(* is a JobStep, for the memories it is a memory step of one manager.       *)

\* ------------------------------------------------------------------------
\* Receipts stay readable.

\* A claim keeps a receipt valid.
LEMMA ReclaimedValid ==
    ASSUME NEW r \in Receipt, ValidReceipt(r),
           r.phase \notin TerminalPhases, r.phase # "healthy_unclaimed"
    PROVE  ValidReceipt(ClaimedReceipt(r))
<1> DEFINE c == ClaimedReceipt(r)
<1>1. /\ c.revision = r.revision + 1
      /\ c.generation \in {r.generation, r.generation + 1}
      /\ c.generation <= MaxAttempts
      /\ c.cancel_requested = r.cancel_requested
      /\ c.root = r.root /\ c.apk = r.apk
      /\ c.health = r.health /\ c.entry = r.entry
      /\ \/ c.phase = r.phase /\ c.result = r.result
         \/ c.phase = "recovery_required" /\ c.result = "verification_required"
  <2>1. r.generation \in Nat /\ MaxAttempts \in Nat
    BY LimitsAssumption DEF Receipt
  <2>2. r.generation <= MaxAttempts
    BY DEF ValidReceipt, ValidCounters
  <2>3. QED BY <2>1, <2>2, ClaimedShape
<1>2. r.revision \in Nat /\ r.generation \in Nat
  BY DEF Receipt
<1> HIDE DEF c
<1>3. ValidCounters(c)
  BY <1>1, <1>2 DEF ValidReceipt, ValidCounters
<1>4. ValidEvidence(c)
  BY <1>1
     DEF ValidReceipt, ValidEvidence, ArtifactPhases, TerminalPhases
<1>5. ValidOutcome(c)
  BY <1>1 DEF ValidReceipt, ValidOutcome, TerminalPhases, RecoveryCodes
<1>6. QED BY <1>3, <1>4, <1>5 DEF c, ValidReceipt

\* A transition keeps a receipt valid.
LEMMA MovedValid ==
    ASSUME NEW r \in Receipt, ValidReceipt(r),
           NEW ph \in Phases, NEW root \in RootModes \cup {None},
           NEW result \in ResultCodes \cup {None},
           NEW entry \in EntryIds \cup {None},
           NextPhase(r.phase, ph),
           RootAllowed(r, ph, root), OutcomeAllowed(r, ph, result, entry)
    PROVE  ValidReceipt(MovedReceipt(r, ph, root, result, entry))
<1> DEFINE c == MovedReceipt(r, ph, root, result, entry)
<1>1. MovedAs(c, r, ph, root, result, entry)
  BY MovedShape
<1> HIDE DEF c
<1>2. r.revision \in Nat /\ r.generation \in Nat
  BY DEF Receipt
<1>3. ValidCounters(c)
  BY <1>1, <1>2 DEF ValidReceipt, ValidCounters, MovedAs
<1>4. CASE <<r.phase, ph>> \in Forward
  <2>1. /\ ph \in {"approved", "authorizing", "preflight"} => c.root = None
        /\ ph \in ArtifactPhases \cup {"downloading"} => c.root # None
    BY <1>1, <1>4
       DEF MovedAs, Forward, ValidReceipt, ValidEvidence, RootAllowed,
           ArtifactPhases
  <2>2. /\ ph \in ArtifactPhases => c.apk
        /\ ph \notin ArtifactPhases \cup TerminalPhases => ~c.apk
    BY <1>1, <1>4
       DEF MovedAs, Forward, ValidReceipt, ValidEvidence, ArtifactPhases,
           TerminalPhases
  <2>3. c.health <=> ph \in {"healthy_unclaimed", "consumed"}
    BY <1>1, <1>4 DEF MovedAs, Forward, ValidReceipt, ValidEvidence
  <2>4. ValidEvidence(c)
    BY <1>1, <2>1, <2>2, <2>3 DEF MovedAs, ValidEvidence
  <2>5. ValidOutcome(c)
    BY <1>1, <1>4
       DEF MovedAs, Forward, OutcomeAllowed, ValidOutcome, TerminalPhases
  <2>6. QED BY <1>3, <2>4, <2>5 DEF ValidReceipt, c
<1>5. CASE ph \in {"cancelled", "failed", "recovery_required"}
  <2>1. r.phase \notin TerminalPhases
    BY <1>5 DEF NextPhase, Forward, TerminalPhases, CancellablePhases,
               RecoverySources, AmbiguousPhases
  <2>2. ~c.health
    BY <1>1, <1>5, <2>1
       DEF MovedAs, ValidReceipt, ValidEvidence, NextPhase, TerminalPhases,
           Forward, CancellablePhases
  <2>3. ValidEvidence(c)
    BY <1>1, <1>5, <2>2
       DEF MovedAs, ValidEvidence, ArtifactPhases, TerminalPhases
  <2>4. c.entry = None
    BY <1>1, <1>5 DEF MovedAs, OutcomeAllowed
  <2>5. ph = "cancelled" => c.result \in CancelCodes /\ c.cancel_requested
    BY <1>1 DEF MovedAs, OutcomeAllowed, CancelCodes
  <2>6. ph = "failed" => c.result \in FailureCodes
    BY <1>1 DEF MovedAs, OutcomeAllowed, FailureCodesOf, FailureCodes
  <2>7. ph = "recovery_required" => c.result \in RecoveryCodes
    BY <1>1 DEF MovedAs, OutcomeAllowed
  <2>8. ValidOutcome(c)
    BY <1>1, <1>5, <2>4, <2>5, <2>6, <2>7
       DEF MovedAs, ValidOutcome, TerminalPhases
  <2>9. QED BY <1>3, <2>3, <2>8 DEF ValidReceipt, c
<1>6. QED BY <1>4, <1>5 DEF NextPhase

\* One step keeps the durable receipt of a job valid.
LEMMA ReadableStep ==
    ASSUME TypeOK, NEW j \in JobIds, JobStep(j),
           disk[j] # None => ValidReceipt(disk[j])
    PROVE  disk'[j] # None => ValidReceipt(disk'[j])
<1>0. disk[j] \in Receipt \cup {None}
  BY DEF TypeOK
<1>1. CASE Unchanged(j) \/ Forgotten(j)
  BY <1>1 DEF Unchanged, Forgotten
<1>2. CASE Created(j)
  <2>1. PICK p \in Plans : disk'[j] = NewReceipt(p)
    BY <1>2 DEF Created
  <2>2. QED
    BY <2>1, LimitsAssumption
       DEF NewReceipt, ValidReceipt, ValidCounters, ValidEvidence,
           ValidOutcome, ArtifactPhases, TerminalPhases
<1>3. CASE CancelMarked(j)
  <2>1. disk[j] \in Receipt /\ disk[j].phase \notin TerminalPhases
    BY <1>0, <1>3 DEF CancelMarked, CancellablePhases, TerminalPhases
  <2>2. disk[j].revision \in Nat /\ disk[j].generation \in Nat
    BY <2>1 DEF Receipt
  <2>3. /\ disk'[j].revision = disk[j].revision + 1
        /\ disk'[j].cancel_requested = TRUE
        /\ disk'[j].phase = disk[j].phase
        /\ disk'[j].generation = disk[j].generation
        /\ disk'[j].root = disk[j].root /\ disk'[j].apk = disk[j].apk
        /\ disk'[j].health = disk[j].health
        /\ disk'[j].result = disk[j].result /\ disk'[j].entry = disk[j].entry
    BY <1>3, MarkedJob
  <2>4. ValidReceipt(disk[j])
    BY <1>3 DEF CancelMarked
  <2>5. ValidCounters(disk'[j])
    BY <2>2, <2>3, <2>4 DEF ValidReceipt, ValidCounters
  <2>6. ValidEvidence(disk'[j])
    BY <2>3, <2>4 DEF ValidReceipt, ValidEvidence
  <2>7. ValidOutcome(disk'[j])
    BY <2>1, <2>3, <2>4 DEF ValidReceipt, ValidOutcome
  <2>8. QED BY <2>5, <2>6, <2>7 DEF ValidReceipt
<1>4. CASE Reclaimed(j)
  BY <1>0, <1>4, ReclaimedValid DEF Reclaimed, Active
<1>5. CASE Moved(j)
  <2>1. disk[j] \in Receipt
    BY <1>0, <1>5 DEF Moved
  <2>2. PICK ph \in Phases, root \in RootModes \cup {None},
             result \in ResultCodes \cup {None}, entry \in EntryIds \cup {None} :
          /\ NextPhase(disk[j].phase, ph)
          /\ RootAllowed(disk[j], ph, root)
          /\ OutcomeAllowed(disk[j], ph, result, entry)
          /\ disk'[j] = MovedReceipt(disk[j], ph, root, result, entry)
    BY <1>5 DEF Moved
  <2>3. ValidReceipt(disk[j])
    BY <2>1, NoneAssumption
  <2>4. ValidReceipt(MovedReceipt(disk[j], ph, root, result, entry))
    BY <2>1, <2>2, <2>3, MovedValid
  <2>5. QED BY <2>2, <2>4
<1>6. QED BY <1>1, <1>2, <1>3, <1>4, <1>5 DEF JobStep

\* ------------------------------------------------------------------------
\* How a receipt changes.

\* A transition starts from an unfinished phase.
LEMMA FinishedIsFinal ==
    ASSUME NEW from, NEW to, NextPhase(from, to)
    PROVE  from \notin TerminalPhases
  BY DEF NextPhase, Forward, CancellablePhases, RecoverySources,
         AmbiguousPhases, TerminalPhases

\* r becomes s: one revision further, on the same plan, in the same generation
\* or, except out of an unknown effect, in the next.
Advanced(r, s) ==
    /\ r.phase \notin TerminalPhases
    /\ s.revision = r.revision + 1
    /\ s.plan = r.plan
    /\ r.cancel_requested => s.cancel_requested
    /\ s.generation \in {r.generation, r.generation + 1}
    /\ r.phase \in AmbiguousPhases /\ s.generation # r.generation =>
           s.phase = "recovery_required"

\* A receipt that survives a step is untouched or advanced.
LEMMA StepAdvances ==
    ASSUME TypeOK, NEW j \in JobIds, JobStep(j),
           disk[j] # None, disk'[j] # None
    PROVE  disk'[j] = disk[j] \/ Advanced(disk[j], disk'[j])
<1>0. disk[j] \in Receipt
  BY DEF TypeOK
<1>1. ~Forgotten(j) /\ ~Created(j)
  BY DEF Forgotten, Created
<1>2. CASE CancelMarked(j)
  <2>1. disk[j].phase \notin TerminalPhases
    BY <1>2 DEF CancelMarked, CancellablePhases, TerminalPhases
  <2>2. QED BY <1>2, <2>1, MarkedJob DEF Advanced
<1>3. CASE Reclaimed(j)
  BY <1>0, <1>3, ClaimedShape DEF Reclaimed, Active, Advanced
<1>4. CASE Moved(j)
  <2>1. PICK ph \in Phases, root \in RootModes \cup {None},
             result \in ResultCodes \cup {None}, entry \in EntryIds \cup {None} :
          /\ NextPhase(disk[j].phase, ph)
          /\ disk'[j] = MovedReceipt(disk[j], ph, root, result, entry)
    BY <1>4 DEF Moved
  <2>2. MovedAs(disk'[j], disk[j], ph, root, result, entry)
    BY <1>0, <2>1, MovedShape
  <2>3. disk[j].phase \notin TerminalPhases
    BY <2>1, FinishedIsFinal
  <2>4. QED BY <2>2, <2>3 DEF MovedAs, Advanced
<1>5. QED BY <1>1, <1>2, <1>3, <1>4 DEF JobStep, Unchanged

\* ------------------------------------------------------------------------
\* The inductive invariant.

\* Claims and memories are never ahead of the file, and a memory that has
\* caught up is the file.
ClaimsBehind ==
    \A m \in Managers, j \in JobIds :
        claimed[m][j] # None /\ disk[j] # None =>
            claimed[m][j] <= disk[j].generation
MemoryBehind ==
    \A m \in Managers, j \in JobIds :
        cache[m] # None /\ cache[m][j] # None /\ disk[j] # None =>
            cache[m][j].revision <= disk[j].revision

IInv ==
    /\ TypeOK
    /\ UsedInv
    /\ StoreStaysReadable
    /\ CancelHonoured
    /\ ActiveTargetsDisjoint
    /\ ClaimsBehind
    /\ ClaimsAreFenced
    /\ MemoryBehind
    /\ RevisionIdentifies

\* A durable cancel request is never walked past.
LEMMA CancelStep ==
    ASSUME TypeOK, CancelHonoured, NEW j \in JobIds, JobStep(j),
           disk'[j] # None, disk'[j].cancel_requested
    PROVE  disk'[j].phase \in
               CancellablePhases \cup {"cancelled", "failed", "recovery_required"}
<1>0. disk[j] \in Receipt \cup {None}
  BY DEF TypeOK
<1>1. CASE Unchanged(j) \/ Forgotten(j)
  BY <1>1 DEF Unchanged, Forgotten, CancelHonoured
<1>2. CASE Created(j)
  BY <1>2 DEF Created, NewReceipt, CancellablePhases
<1>3. CASE CancelMarked(j)
  BY <1>0, <1>3, MarkedShape DEF CancelMarked
<1>4. CASE Reclaimed(j)
  BY <1>0, <1>4, ClaimedShape DEF Reclaimed, Active, CancelHonoured
<1>5. CASE Moved(j)
  <2>1. PICK ph \in Phases, root \in RootModes \cup {None},
             result \in ResultCodes \cup {None}, entry \in EntryIds \cup {None} :
          /\ disk[j] # None
          /\ disk[j].cancel_requested =>
                 ph \in {"cancelled", "failed", "recovery_required"}
          /\ disk'[j] = MovedReceipt(disk[j], ph, root, result, entry)
    BY <1>5 DEF Moved
  <2>2. MovedAs(disk'[j], disk[j], ph, root, result, entry)
    BY <1>0, <2>1, MovedShape
  <2>3. QED BY <2>1, <2>2 DEF MovedAs
<1>6. QED BY <1>1, <1>2, <1>3, <1>4, <1>5 DEF JobStep

\* Two managers never hold a claim that the file honours.
LEMMA ClaimsStep ==
    ASSUME IInv, Next, TypeOK'
    PROVE  ClaimsBehind' /\ ClaimsAreFenced'
<1>1. PICK m \in Managers :
        \/ Invalidated(m)
        \/ \E claims \in [JobIds -> Nat \cup {None}] : Remembers(m, claims)
  BY NextIsMemoryStep DEF IInv
<1>2. SUFFICES ASSUME NEW j \in JobIds, disk'[j] # None
      PROVE  /\ \A n \in Managers : claimed'[n][j] # None =>
                    claimed'[n][j] <= disk'[j].generation
             /\ \A n, k \in Managers :
                    /\ claimed'[n][j] = disk'[j].generation
                    /\ claimed'[k][j] = disk'[j].generation
                    => n = k
  BY DEF ClaimsBehind, ClaimsAreFenced
<1>3. disk'[j].generation \in Nat /\ disk'[j].generation # None
  BY <1>2, NoneAssumption DEF TypeOK, Receipt
<1>4. \A n \in Managers : claimed[n][j] \in Nat \cup {None}
  BY DEF IInv, TypeOK
<1>5. CASE disk[j] = None
  <2>1. \A n \in Managers : claimed[n][j] = None
    <3>1. j \notin used
      BY <1>2, <1>5, NextIsJobStep
         DEF IInv, JobStep, Unchanged, Forgotten, Created, CancelMarked,
             Reclaimed, Active, Moved
    <3>2. QED BY <3>1 DEF IInv, UsedInv
  <2>2. \A n \in Managers : claimed'[n][j] = None
    BY <1>1, <1>5, <2>1
       DEF IInv, TypeOK, Invalidated, NoClaims, Remembers, Adopted, Renewed
  <2>3. QED BY <1>3, <2>2
<1>6. CASE disk[j] # None
  <2>1. disk[j].generation \in Nat
    BY <1>6 DEF IInv, TypeOK, Receipt
  <2>2. disk'[j].generation \in {disk[j].generation, disk[j].generation + 1}
    BY <1>2, <1>6, NextIsJobStep, StepAdvances DEF IInv, Advanced
  <2>3. \A n \in Managers :
          claimed[n][j] # None => claimed[n][j] <= disk[j].generation
    BY <1>6 DEF IInv, ClaimsBehind
  <2>4. \A n, k \in Managers :
          /\ claimed[n][j] = disk[j].generation
          /\ claimed[k][j] = disk[j].generation
          => n = k
    BY <1>6 DEF IInv, ClaimsAreFenced
  <2>5. \A n \in Managers :
          \/ claimed'[n][j] \in {claimed[n][j], None}
          \/ /\ n = m /\ claimed'[n][j] = disk'[j].generation
             /\ disk'[j].generation = disk[j].generation + 1
    BY <1>1
       DEF IInv, TypeOK, Invalidated, NoClaims, Remembers, Adopted, Renewed
  <2>6. \A n \in Managers :
          claimed'[n][j] # None => claimed'[n][j] <= disk'[j].generation
    BY <1>3, <1>4, <2>1, <2>2, <2>3, <2>5
  <2>7. ASSUME NEW n \in Managers, NEW k \in Managers,
               claimed'[n][j] = disk'[j].generation,
               claimed'[k][j] = disk'[j].generation
        PROVE  n = k
    BY <1>3, <1>4, <2>1, <2>2, <2>3, <2>4, <2>5, <2>7
  <2>8. QED BY <2>6, <2>7
<1>7. QED BY <1>5, <1>6

\* A memory with the revision of the file is the file.
LEMMA MemoryStep ==
    ASSUME IInv, Next, TypeOK'
    PROVE  MemoryBehind' /\ RevisionIdentifies'
<1>1. PICK m \in Managers :
        \/ Invalidated(m)
        \/ \E claims \in [JobIds -> Nat \cup {None}] : Remembers(m, claims)
  BY NextIsMemoryStep DEF IInv
<1>2. SUFFICES ASSUME NEW n \in Managers, NEW j \in JobIds,
                      cache'[n] # None, cache'[n][j] # None, disk'[j] # None
      PROVE  /\ cache'[n][j].revision <= disk'[j].revision
             /\ cache'[n][j].revision = disk'[j].revision =>
                    cache'[n][j] = disk'[j]
  BY DEF MemoryBehind, RevisionIdentifies
<1>3. cache'[n] \in {disk', cache[n]}
  BY <1>1, <1>2 DEF IInv, TypeOK, Invalidated, Remembers, Adopted
<1>4. disk'[j].revision \in Nat
  BY <1>2 DEF TypeOK, Receipt
<1>5. CASE cache'[n] = disk'
  BY <1>4, <1>5
<1>6. CASE cache'[n] = cache[n]
  <2>1. cache[n] # None /\ cache[n][j] # None
    BY <1>2, <1>6
  <2>2. j \in used
    BY <2>1 DEF IInv, UsedInv
  <2>3. disk[j] # None
    BY <1>2, <2>2, NextIsJobStep
       DEF IInv, JobStep, Unchanged, Forgotten, Created, CancelMarked,
           Reclaimed, Active, Moved
  <2>4. /\ cache[n][j].revision <= disk[j].revision
        /\ cache[n][j].revision = disk[j].revision => cache[n][j] = disk[j]
    BY <2>1, <2>3 DEF IInv, MemoryBehind, RevisionIdentifies
  <2>5. cache[n][j].revision \in Nat /\ disk[j].revision \in Nat
    BY <2>1, <2>3 DEF IInv, TypeOK, Receipt
  <2>6. disk'[j] = disk[j] \/ disk'[j].revision = disk[j].revision + 1
    BY <1>2, <2>3, NextIsJobStep, StepAdvances DEF IInv, Advanced
  <2>7. QED BY <1>6, <2>4, <2>5, <2>6
<1>7. QED BY <1>3, <1>5, <1>6

\* Only a creation draws an identifier.
LEMMA OnlyCreateDraws ==
    ASSUME Next, used' # used
    PROVE  \E m \in Managers, j \in JobIds, p \in Plans : Create(m, j, p)
<1> PICK m \in Managers :
      \/ Refresh(m) \/ Fault(m) \/ Restart(m)
      \/ \E j \in JobIds, p \in Plans : Create(m, j, p)
      \/ \E j \in JobIds : JobCall(m, j) \/ BarrierCall(m, j)
  BY DEF Next
<1>1. ASSUME NEW j \in JobIds, JobCall(m, j)
      PROVE  used' = used
  BY <1>1 DEF JobCall, RequestCancel, Claim, Transition, Admitted
<1>2. ASSUME NEW j \in JobIds, BarrierCall(m, j)
      PROVE  used' = used
  BY <1>2 DEF BarrierCall, VerifyBarrier
<1>3. QED BY <1>1, <1>2 DEF Refresh, Fault, Restart

\* A receipt that appears is apart from every active one, and appears alone.
LEMMA CreationApart ==
    ASSUME TypeOK, UsedInv, Next, NEW j \in JobIds,
           disk[j] = None, disk'[j] # None
    PROVE  /\ \A k \in JobIds : Active(disk[k]) =>
                  ~SameTarget(disk[k].plan, disk'[j].plan)
           /\ \A k \in JobIds : k # j /\ disk[k] = None => disk'[k] = None
<1>1. j \notin used /\ j \in used'
  BY NextIsJobStep
     DEF JobStep, Unchanged, Forgotten, Created, CancelMarked, Reclaimed,
         Active, Moved
<1>2. PICK m \in Managers, i \in JobIds, p \in Plans : Create(m, i, p)
  BY <1>1, OnlyCreateDraws
<1>3. i = j
  BY <1>1, <1>2 DEF Create
<1>4. PICK gone \in Prunable(disk, None) :
        disk' = [Without(disk, gone) EXCEPT ![j] = NewReceipt(p)]
  BY <1>2, <1>3, SavedDisk DEF Create
<1>5. \A k \in JobIds : k # j => disk'[k] = Without(disk, gone)[k]
  BY <1>4 DEF Without
<1>6. disk'[j].plan = p
  BY <1>4 DEF Without, NewReceipt
<1>7. QED BY <1>2, <1>3, <1>5, <1>6, KeptJobs DEF Create, TargetClear, Terminal

\* Two active receipts never share a target.
LEMMA TargetsStep ==
    ASSUME IInv, Next
    PROVE  ActiveTargetsDisjoint'
<1> SUFFICES ASSUME NEW i \in JobIds, NEW j \in JobIds, i # j,
                    Active(disk'[i]), Active(disk'[j])
             PROVE  ~SameTarget(disk'[i].plan, disk'[j].plan)
  BY DEF ActiveTargetsDisjoint, Active
<1>1. disk'[i] # None /\ disk'[j] # None
  BY DEF Active
<1>2. ASSUME NEW k \in JobIds, Active(disk'[k]), disk[k] # None
      PROVE  Active(disk[k]) /\ disk'[k].plan = disk[k].plan
  <2>1. disk'[k] # None
    BY <1>2 DEF Active
  <2>2. JobStep(k)
    BY NextIsJobStep DEF IInv
  <2>3. QED BY <1>2, <2>1, <2>2, StepAdvances DEF IInv, Advanced, Active
<1>3. CASE disk[i] # None /\ disk[j] # None
  BY <1>2, <1>3 DEF IInv, ActiveTargetsDisjoint
<1>4. CASE disk[i] = None
  <2>1. disk[j] # None
    BY <1>1, <1>4, CreationApart DEF IInv
  <2>2. ~SameTarget(disk[j].plan, disk'[i].plan)
    BY <1>1, <1>2, <1>4, <2>1, CreationApart DEF IInv
  <2>3. QED BY <1>2, <2>1, <2>2 DEF SameTarget
<1>5. CASE disk[j] = None
  <2>1. disk[i] # None
    BY <1>1, <1>5, CreationApart DEF IInv
  <2>2. ~SameTarget(disk[i].plan, disk'[j].plan)
    BY <1>1, <1>2, <1>5, <2>1, CreationApart DEF IInv
  <2>3. QED BY <1>2, <2>1, <2>2
<1>6. QED BY <1>3, <1>4, <1>5

\* The inductive invariant holds initially and every step keeps it.
LEMMA Inductive ==
    /\ Init => IInv
    /\ IInv /\ [Next]_vars => IInv'
<1>1. ASSUME Init PROVE IInv
  BY <1>1 DEF Init, IInv, TypeOK, UsedInv, StoreStaysReadable, CancelHonoured,
              ActiveTargetsDisjoint, Active, ClaimsBehind, ClaimsAreFenced,
              MemoryBehind, RevisionIdentifies, NoClaims
<1>2. ASSUME IInv, Next PROVE IInv'
  <2>1. TypeOK' /\ UsedInv'
    BY <1>2, TypeStep, UsedStep DEF IInv
  <2>2. \A j \in JobIds : JobStep(j)
    BY <1>2, NextIsJobStep DEF IInv
  <2>3. StoreStaysReadable'
    BY <1>2, <2>2, ReadableStep DEF IInv, StoreStaysReadable
  <2>4. CancelHonoured'
    BY <1>2, <2>2, CancelStep DEF IInv, CancelHonoured
  <2>5. QED
    BY <1>2, <2>1, <2>3, <2>4, TargetsStep, ClaimsStep, MemoryStep DEF IInv
<1>3. ASSUME IInv, UNCHANGED vars PROVE IInv'
  BY <1>3 DEF vars, IInv, TypeOK, UsedInv, StoreStaysReadable, ValidReceipt,
              ValidCounters, ValidEvidence, ValidOutcome, CancelHonoured,
              ActiveTargetsDisjoint, ClaimsBehind, ClaimsAreFenced,
              MemoryBehind, RevisionIdentifies
<1>4. QED BY <1>1, <1>2, <1>3

\* The invariant holds throughout.
THEOREM Invariant == Spec => []IInv
  BY Inductive, PTL DEF Spec

\* ------------------------------------------------------------------------
\* The properties.

\* Whatever sequence of calls, faults and restarts, no receipt is written that
\* the parser refuses.
THEOREM ReadableTheorem == Spec => []StoreStaysReadable
<1>1. IInv => StoreStaysReadable
  BY DEF IInv
<1>2. QED BY <1>1, Invariant, PTL

\* A durable cancel request is honoured however many managers race with it.
THEOREM CancelTheorem == Spec => []CancelHonoured
<1>1. IInv => CancelHonoured
  BY DEF IInv
<1>2. QED BY <1>1, Invariant, PTL

\* No two unfinished installs ever work on one panel.
THEOREM TargetsTheorem == Spec => []ActiveTargetsDisjoint
<1>1. IInv => ActiveTargetsDisjoint
  BY DEF IInv
<1>2. QED BY <1>1, Invariant, PTL

\* Of any number of managers at most one holds a claim the file honours.
THEOREM FenceTheorem == Spec => []ClaimsAreFenced
<1>1. IInv => ClaimsAreFenced
  BY DEF IInv
<1>2. QED BY <1>1, Invariant, PTL

\* Comparing revisions compares receipts.
THEOREM RevisionTheorem == Spec => []RevisionIdentifies
<1>1. IInv => RevisionIdentifies
  BY DEF IInv
<1>2. QED BY <1>1, Invariant, PTL

\* A receipt disappears only by being pruned.
LEMMA OnlyPruned ==
    ASSUME TypeOK, NEW j \in JobIds, JobStep(j), disk[j] # None, disk'[j] = None
    PROVE  Forgotten(j)
<1>0. disk[j] \in Receipt
  BY DEF TypeOK
<1>1. ~CancelMarked(j)
  BY <1>0, MarkedShape DEF CancelMarked
<1>2. ~Reclaimed(j)
  BY <1>0, ClaimedShape DEF Reclaimed
<1>3. ~Moved(j)
  <2> SUFFICES ASSUME NEW ph \in Phases, NEW root \in RootModes \cup {None},
                      NEW result \in ResultCodes \cup {None},
                      NEW entry \in EntryIds \cup {None},
                      disk'[j] = MovedReceipt(disk[j], ph, root, result, entry)
               PROVE  FALSE
    BY DEF Moved
  <2>1. MovedAs(disk'[j], disk[j], ph, root, result, entry)
    BY <1>0, MovedShape
  <2>2. QED BY <2>1 DEF MovedAs
<1>4. QED BY <1>1, <1>2, <1>3 DEF JobStep, Unchanged, Created

\* A finished receipt is never rewritten and a forgotten one never returns.
THEOREM FinalTheorem == Spec => OutcomeIsFinal
<1>1. ASSUME IInv, Next, NEW j \in JobIds
      PROVE  /\ Terminal(disk[j]) => disk'[j] \in {disk[j], None}
             /\ disk[j] = None /\ j \in used => disk'[j] = None
  <2>1. JobStep(j)
    BY <1>1, NextIsJobStep DEF IInv
  <2>2. Terminal(disk[j]) => disk'[j] \in {disk[j], None}
    BY <1>1, <2>1, StepAdvances DEF IInv, Advanced, Terminal
  <2>3. disk[j] = None /\ j \in used => disk'[j] = None
    BY <2>1 DEF JobStep, Unchanged, Forgotten, Created, CancelMarked,
                Reclaimed, Active, Moved
  <2>4. QED BY <2>2, <2>3
<1>2. ASSUME UNCHANGED vars, NEW j \in JobIds
      PROVE  disk'[j] = disk[j]
  BY <1>2 DEF vars
<1>3. IInv /\ [Next]_vars =>
        [\A j \in JobIds :
            /\ Terminal(disk[j]) => disk'[j] \in {disk[j], None}
            /\ disk[j] = None /\ j \in used => disk'[j] = None]_vars
  BY <1>1, <1>2
<1>4. QED BY <1>3, Invariant, PTL DEF Spec, OutcomeIsFinal

\* Every change of an unfinished job is one revision of the same plan.
THEOREM ProgressTheorem == Spec => ProgressIsStamped
<1>1. ASSUME IInv, Next, NEW j \in JobIds, Active(disk[j])
      PROVE  /\ SteadyClock => disk'[j] # None
             /\ disk'[j] \notin {disk[j], None} =>
                    /\ disk'[j].plan = disk[j].plan
                    /\ disk[j].cancel_requested => disk'[j].cancel_requested
                    /\ disk'[j].revision = disk[j].revision + 1
  <2>1. TypeOK /\ JobStep(j)
    BY <1>1, NextIsJobStep DEF IInv
  <2>2. SteadyClock => disk'[j] # None
    BY <1>1, <2>1, OnlyPruned DEF Forgotten, Active, Terminal
  <2>3. QED BY <1>1, <2>1, <2>2, StepAdvances DEF Advanced, Active
<1>2. IInv /\ [Next]_vars =>
        [\A j \in JobIds : Active(disk[j]) =>
           /\ SteadyClock => disk'[j] # None
           /\ disk'[j] \notin {disk[j], None} =>
                  /\ disk'[j].plan = disk[j].plan
                  /\ disk[j].cancel_requested => disk'[j].cancel_requested
                  /\ disk'[j].revision = disk[j].revision + 1]_vars
  BY <1>1
<1>3. QED BY <1>2, Invariant, PTL DEF Spec, ProgressIsStamped

\* Work with an unknown effect is quarantined by whoever takes it over.
THEOREM AmbiguityTheorem == Spec => AmbiguousNeverReplayed
<1>1. ASSUME IInv, Next, NEW j \in JobIds,
             Active(disk[j]), disk[j].phase \in AmbiguousPhases,
             disk'[j] # None, disk'[j].generation # disk[j].generation
      PROVE  disk'[j].phase = "recovery_required"
  <2>1. TypeOK /\ JobStep(j)
    BY <1>1, NextIsJobStep DEF IInv
  <2>2. QED BY <1>1, <2>1, StepAdvances DEF Advanced, Active
<1>2. IInv /\ [Next]_vars =>
        [\A j \in JobIds :
           /\ Active(disk[j]) /\ disk[j].phase \in AmbiguousPhases
           /\ disk'[j] # None /\ disk'[j].generation # disk[j].generation
           => disk'[j].phase = "recovery_required"]_vars
  BY <1>1
<1>3. QED BY <1>2, Invariant, PTL DEF Spec, AmbiguousNeverReplayed

\* A healthy receipt waits unchanged for its finalization.
THEOREM HealthyTheorem == Spec => HealthyWaits
<1>1. ASSUME IInv, Next, NEW j \in JobIds,
             disk[j] # None, disk[j].phase = "healthy_unclaimed",
             disk'[j] # disk[j]
      PROVE  IF disk'[j] = None THEN ~SteadyClock
             ELSE disk'[j].phase \in {"consumed", "recovery_required"}
  <2>1. TypeOK /\ JobStep(j)
    BY <1>1, NextIsJobStep DEF IInv
  <2>2. ~Unchanged(j) /\ ~Created(j) /\ ~CancelMarked(j) /\ ~Reclaimed(j)
    BY <1>1 DEF Unchanged, Created, CancelMarked, Reclaimed, CancellablePhases
  <2>3. CASE Forgotten(j)
    BY <1>1, <2>3 DEF Forgotten, Terminal, TerminalPhases
  <2>4. CASE Moved(j)
    <3>1. PICK ph \in Phases, root \in RootModes \cup {None},
               result \in ResultCodes \cup {None}, entry \in EntryIds \cup {None} :
            /\ NextPhase(disk[j].phase, ph)
            /\ disk'[j] = MovedReceipt(disk[j], ph, root, result, entry)
      BY <2>4 DEF Moved
    <3>2. ph \in {"consumed", "recovery_required"}
      BY <1>1, <3>1 DEF NextPhase, Forward, CancellablePhases
    <3>3. disk[j] \in Receipt
      BY <1>1, <2>1 DEF TypeOK
    <3>4. disk'[j] # None /\ disk'[j].phase = ph
      BY <3>1, <3>3, MovedShape DEF MovedAs
    <3>5. QED BY <3>2, <3>4
  <2>5. QED BY <2>1, <2>2, <2>3, <2>4 DEF JobStep
<1>2. IInv /\ [Next]_vars =>
        [\A j \in JobIds :
           /\ disk[j] # None /\ disk[j].phase = "healthy_unclaimed"
           /\ disk'[j] # disk[j]
           => IF disk'[j] = None THEN ~SteadyClock
              ELSE disk'[j].phase \in {"consumed", "recovery_required"}]_vars
  BY <1>1
<1>3. QED BY <1>2, Invariant, PTL DEF Spec, HealthyWaits

\* ------------------------------------------------------------------------
\* The receipts implement the promise.

\* The stage of a present receipt.
Stage(r) ==
    IF r.phase \in TerminalPhases THEN r.phase
    ELSE IF r.phase = "healthy_unclaimed" THEN "healthy"
    ELSE IF r.cancel_requested THEN "cancelling"
    ELSE IF r.phase \in CancellablePhases THEN "open"
    ELSE "committed"

\* One step moves a job along the promise, or not at all.
LEMMA StageStep ==
    ASSUME SteadyClock, IInv, Next, NEW j \in JobIds
    PROVE  \/ StageOf(j)' = StageOf(j)
           \/ <<StageOf(j), StageOf(j)'>> \in Promise!Moves
<1>0. /\ disk[j] \in Receipt \cup {None}
      /\ JobStep(j)
      /\ used \subseteq used'
  BY NextIsJobStep, NextDocument DEF IInv, TypeOK
<1>1. /\ disk[j] # None => StageOf(j) = Stage(disk[j])
      /\ disk'[j] # None => StageOf(j)' = Stage(disk'[j])
      /\ disk'[j] = None => StageOf(j)' = IF j \in used' THEN "forgotten"
                                          ELSE "unknown"
      /\ disk[j] = None => StageOf(j) = IF j \in used THEN "forgotten"
                                        ELSE "unknown"
  BY DEF StageOf, Stage
<1>2. CASE Unchanged(j)
  BY <1>0, <1>1, <1>2 DEF Unchanged, Promise!Moves
<1>3. CASE Forgotten(j)
  <2>1. j \in used'
    BY <1>0, <1>3 DEF Forgotten, IInv, UsedInv
  <2>2. QED
    BY <1>1, <1>3, <2>1
       DEF Forgotten, Terminal, Stage, Promise!Moves, Promise!Outcomes,
           TerminalPhases
<1>4. CASE Created(j)
  <2>1. StageOf(j) = "unknown"
    BY <1>1, <1>4 DEF Created
  <2>2. disk'[j] # None /\ Stage(disk'[j]) = "open"
    BY <1>4, NewShape
       DEF Created, NewReceipt, Stage, TerminalPhases, CancellablePhases
  <2>3. QED BY <1>1, <2>1, <2>2 DEF Promise!Moves
<1>5. CASE CancelMarked(j)
  <2>1. /\ disk[j] \in Receipt
        /\ disk[j].phase \in CancellablePhases
    BY <1>0, <1>5 DEF CancelMarked
  <2>2. /\ disk'[j] # None /\ disk'[j].phase = disk[j].phase
        /\ disk'[j].cancel_requested = TRUE
    BY <1>5, <2>1, MarkedShape DEF CancelMarked
  <2>3. /\ Stage(disk[j]) \in {"open", "cancelling"}
        /\ Stage(disk'[j]) = "cancelling"
    BY <2>1, <2>2 DEF Stage, CancellablePhases, TerminalPhases
  <2>4. QED BY <1>0, <1>1, <1>5, <2>2, <2>3 DEF CancelMarked, Promise!Moves
<1>6. CASE Reclaimed(j)
  <2>1. /\ disk[j] \in Receipt /\ disk[j] # None
        /\ disk[j].phase \notin TerminalPhases
        /\ disk[j].phase # "healthy_unclaimed"
    BY <1>0, <1>6 DEF Reclaimed, Active
  <2>2. /\ disk'[j] # None
        /\ disk'[j].cancel_requested = disk[j].cancel_requested
        /\ disk'[j].phase \in {disk[j].phase, "recovery_required"}
    BY <1>6, <2>1, ClaimedShape DEF Reclaimed
  <2>3. /\ Stage(disk[j]) \in {"open", "cancelling", "committed"}
        /\ Stage(disk'[j]) \in {Stage(disk[j]), "recovery_required"}
    BY <2>1, <2>2 DEF Stage, TerminalPhases
  <2>4. QED BY <1>1, <2>1, <2>2, <2>3 DEF Promise!Moves
<1>7. CASE Moved(j)
  <2>1. PICK ph \in Phases, root \in RootModes \cup {None},
             result \in ResultCodes \cup {None}, entry \in EntryIds \cup {None} :
          /\ disk[j] # None
          /\ NextPhase(disk[j].phase, ph)
          /\ disk[j].cancel_requested =>
                 ph \in {"cancelled", "failed", "recovery_required"}
          /\ OutcomeAllowed(disk[j], ph, result, entry)
          /\ disk'[j] = MovedReceipt(disk[j], ph, root, result, entry)
    BY <1>7 DEF Moved
  <2>2. MovedAs(disk'[j], disk[j], ph, root, result, entry)
    BY <1>0, <2>1, MovedShape
  <2>3. /\ disk'[j] # None /\ disk'[j].phase = ph
        /\ disk'[j].cancel_requested = disk[j].cancel_requested
    BY <2>2 DEF MovedAs
  <2>4. disk[j].cancel_requested => disk[j].phase \in
          CancellablePhases \cup {"cancelled", "failed", "recovery_required"}
    BY <2>1 DEF IInv, CancelHonoured
  <2>5. ph = "cancelled" => disk[j].cancel_requested
    BY <2>1 DEF OutcomeAllowed
  <2>6. \/ Stage(disk'[j]) = Stage(disk[j])
        \/ <<Stage(disk[j]), Stage(disk'[j])>> \in Promise!Moves
    BY <2>1, <2>3, <2>4, <2>5
       DEF Stage, NextPhase, Forward, TerminalPhases, CancellablePhases,
           RecoverySources, AmbiguousPhases, Promise!Moves, Promise!Outcomes
  <2>7. QED BY <1>1, <2>1, <2>3, <2>6
<1>8. QED BY <1>0, <1>2, <1>3, <1>4, <1>5, <1>6, <1>7 DEF JobStep

\* While the clock is steady the store implements the promise.
THEOREM PromiseTheorem == SteadyClock => (Spec => KeepsPromise)
<1> SUFFICES ASSUME SteadyClock PROVE Spec => KeepsPromise
  OBVIOUS
<1>1. Init => Promise!Init
  BY DEF Init, Promise!Init, StageOf
<1>2. IInv /\ [Next]_vars => [Promise!Next]_([j \in JobIds |-> StageOf(j)])
  <2>1. ASSUME IInv, Next PROVE Promise!Next
    <3>1. \A j \in JobIds : StageOf(j)' \in Promise!Stages
      BY DEF StageOf, Promise!Stages, Promise!Outcomes, TerminalPhases
    <3>2. QED BY <2>1, <3>1, StageStep DEF Promise!Next
  <2>2. ASSUME UNCHANGED vars
        PROVE  [j \in JobIds |-> StageOf(j)]' = [j \in JobIds |-> StageOf(j)]
    BY <2>2 DEF vars, StageOf
  <2>3. QED BY <2>1, <2>2
<1>3. QED BY <1>1, <1>2, Invariant, PTL DEF Spec, KeepsPromise, Promise!Spec

----------------------------------------------------------------------------
(* The bounds of the document of receipts, for any number of jobs and for   *)
(* any capacity: that the store never fills up by leaking a finished        *)
(* receipt, and never admits one active receipt too many.                   *)

ActiveJobs(jobs) == {k \in JobIds : Active(jobs[k])}
Finished(jobs) == {k \in JobIds : Terminal(jobs[k])}

LEMMA Counted ==
    ASSUME NEW S \in SUBSET JobIds, NEW T \in SUBSET S
    PROVE  /\ IsFiniteSet(S)
           /\ Cardinality(S) \in Nat /\ Cardinality(T) \in Nat
           /\ Cardinality(T) <= Cardinality(S)
<1>1. IsFiniteSet(S) /\ IsFiniteSet(T)
  BY LimitsAssumption, FS_Subset
<1> QED
  BY <1>1, FS_Subset, FS_CardinalityType

\* A prune leaves no more finished receipts than the bound allows.
LEMMA PrunedFinished ==
    ASSUME NEW jobs, NEW s, NEW gone \in Prunable(jobs, s)
    PROVE  Cardinality(Finished(Without(jobs, gone))) <= MaxTerminal
<1>1. Finished(Without(jobs, gone)) = Finished(jobs) \ gone
  BY DEF Finished, Without, Terminal
<1>2. Cardinality(Finished(jobs) \ gone) <= MaxTerminal
  BY DEF Prunable, Finished
<1> QED
  BY <1>1, <1>2

\* A step after which no job is newly active, and no job newly finished unless
\* the document was pruned.
LEMMA NothingGained ==
    ASSUME DocumentBounded,
           \A k \in JobIds : Active(disk'[k]) => Active(disk[k]),
           \/ \A k \in JobIds : Terminal(disk'[k]) => Terminal(disk[k])
           \/ Cardinality(Finished(disk')) <= MaxTerminal
    PROVE  DocumentBounded'
<1>1. Cardinality(ActiveJobs(disk')) <= MaxActive
  <2>1. ActiveJobs(disk') \in SUBSET ActiveJobs(disk)
    BY DEF ActiveJobs
  <2>2. ActiveJobs(disk) \in SUBSET JobIds
    BY DEF ActiveJobs
  <2>3. /\ Cardinality(ActiveJobs(disk')) <= Cardinality(ActiveJobs(disk))
        /\ Cardinality(ActiveJobs(disk')) \in Nat
        /\ Cardinality(ActiveJobs(disk)) \in Nat
    BY <2>1, <2>2, Counted
  <2> QED
    BY <2>3, LimitsAssumption DEF DocumentBounded, ActiveJobs
<1>2. Cardinality(Finished(disk')) <= MaxTerminal
  <2>1. CASE \A k \in JobIds : Terminal(disk'[k]) => Terminal(disk[k])
    <3>1. Finished(disk') \in SUBSET Finished(disk)
      BY <2>1 DEF Finished
    <3>2. Finished(disk) \in SUBSET JobIds
      BY DEF Finished
    <3>3. /\ Cardinality(Finished(disk')) <= Cardinality(Finished(disk))
          /\ Cardinality(Finished(disk')) \in Nat
          /\ Cardinality(Finished(disk)) \in Nat
      BY <3>1, <3>2, Counted
    <3> QED
      BY <3>3, LimitsAssumption DEF DocumentBounded, Finished
  <2> QED
    BY <2>1
<1> QED
  BY <1>1, <1>2 DEF DocumentBounded, ActiveJobs, Finished

\* A receipt that is there and active after a step was active before.
LEMMA StaysActive ==
    ASSUME IInv, Next, NEW k \in JobIds, Active(disk'[k]), disk[k] # None
    PROVE  Active(disk[k])
<1>1. disk'[k] # None
  BY DEF Active
<1>2. JobStep(k)
  BY NextIsJobStep DEF IInv
<1> QED
  BY <1>1, <1>2, StepAdvances DEF IInv, Advanced, Active

\* A creation prunes, and adds one active receipt while there is room.
LEMMA CreateBounded ==
    ASSUME IInv, Next, DocumentBounded,
           NEW m \in Managers, NEW j \in JobIds, NEW p \in Plans, Create(m, j, p)
    PROVE  DocumentBounded'
<1>1. PICK gone \in Prunable(disk, None) :
        disk' \in {disk, [Without(disk, gone) EXCEPT ![j] = NewReceipt(p)]}
  BY SavedDisk DEF Create
<1>2. CASE disk' = disk
  BY <1>2 DEF DocumentBounded
<1>3. CASE disk' = [Without(disk, gone) EXCEPT ![j] = NewReceipt(p)]
  <2>1. /\ disk'[j] = NewReceipt(p)
        /\ \A k \in JobIds \ {j} : disk'[k] = Without(disk, gone)[k]
    BY <1>3 DEF Without
  <2>2. ~Terminal(disk'[j])
    BY <2>1 DEF Terminal, NewReceipt, TerminalPhases
  <2>3. \A k \in JobIds : Active(disk'[k]) => k = j \/ Active(disk[k])
    BY <2>1 DEF Without, Active
  <2>4. \A k \in JobIds : Terminal(disk'[k]) => Terminal(disk[k])
    BY <2>1, <2>2 DEF Without, Terminal
  <2>5. Cardinality(ActiveJobs(disk')) <= MaxActive
    <3>1. IsFiniteSet(ActiveJobs(disk)) /\ IsFiniteSet(ActiveJobs(disk) \cup {j})
      BY Counted, FS_AddElement DEF ActiveJobs
    <3>2. /\ Cardinality(ActiveJobs(disk) \cup {j}) <= Cardinality(ActiveJobs(disk)) + 1
          /\ Cardinality(ActiveJobs(disk)) \in Nat
      BY <3>1, FS_AddElement, FS_CardinalityType
    <3>3. ActiveJobs(disk') \in SUBSET (ActiveJobs(disk) \cup {j})
      BY <2>3 DEF ActiveJobs
    <3>4. /\ Cardinality(ActiveJobs(disk')) <= Cardinality(ActiveJobs(disk) \cup {j})
          /\ Cardinality(ActiveJobs(disk')) \in Nat
          /\ Cardinality(ActiveJobs(disk) \cup {j}) \in Nat
      <4>1. ActiveJobs(disk) \cup {j} \in SUBSET JobIds
        BY DEF ActiveJobs
      <4> QED
        BY <3>3, <4>1, Counted
    <3>5. Cardinality(ActiveJobs(disk)) < MaxActive
      BY DEF Create, ActiveJobs
    <3> QED
      BY <3>2, <3>4, <3>5, LimitsAssumption
  <2>6. Cardinality(Finished(disk')) <= MaxTerminal
    <3>1. Finished(disk') \in SUBSET Finished(disk) /\ Finished(disk) \in SUBSET JobIds
      BY <2>4 DEF Finished
    <3>2. /\ Cardinality(Finished(disk')) <= Cardinality(Finished(disk))
          /\ Cardinality(Finished(disk')) \in Nat
          /\ Cardinality(Finished(disk)) \in Nat
      BY <3>1, Counted
    <3> QED
      BY <3>2, LimitsAssumption DEF DocumentBounded, Finished
  <2> QED
    BY <2>5, <2>6 DEF DocumentBounded, ActiveJobs, Finished
<1> QED
  BY <1>1, <1>2, <1>3

\* A stamped receipt may be newly finished: its call prunes.
LEMMA StampedBounded ==
    ASSUME IInv, Next, DocumentBounded, NEW m \in Managers, NEW j \in JobIds, NEW r,
           disk[j] # None,
           \E gone \in Prunable([disk EXCEPT ![j] = r], j) :
               disk' \in {disk, Without([disk EXCEPT ![j] = r], gone)}
    PROVE  DocumentBounded'
<1> DEFINE jobs == [disk EXCEPT ![j] = r]
<1>1. PICK gone \in Prunable(jobs, j) : disk' \in {disk, Without(jobs, gone)}
  OBVIOUS
<1>2. CASE disk' = disk
  BY <1>2 DEF DocumentBounded
<1>3. CASE disk' = Without(jobs, gone)
  <2>1. Cardinality(Finished(disk')) <= MaxTerminal
    BY <1>3, PrunedFinished
  <2>2. \A k \in JobIds : Active(disk'[k]) => disk[k] # None
    BY <1>3 DEF Without, Active
  <2>3. \A k \in JobIds : Active(disk'[k]) => Active(disk[k])
    BY <2>2, StaysActive
  <2> QED
    BY <2>1, <2>3, NothingGained
<1> QED
  BY <1>1, <1>2, <1>3

\* A request to cancel rewrites an active receipt, and prunes nothing.
LEMMA RequestCancelBounded ==
    ASSUME IInv, Next, DocumentBounded, NEW m \in Managers, NEW j \in JobIds,
           NEW rev \in 0 .. MaxRevision, RequestCancel(m, j, rev)
    PROVE  DocumentBounded'
<1>1. disk' \in {disk, [disk EXCEPT ![j].revision = rev + 1,
                                    ![j].cancel_requested = TRUE]}
  BY SavedDisk DEF RequestCancel
<1>2. CASE disk' = disk
  BY <1>2 DEF DocumentBounded
<1>3. CASE disk' # disk
  <2>1. /\ \A k \in JobIds \ {j} : disk'[k] = disk[k]
        /\ disk'[j].phase = disk[j].phase
        /\ disk[j] # None /\ disk[j].phase \notin TerminalPhases
    BY <1>1, <1>3 DEF RequestCancel, Current, IInv, TypeOK, Receipt,
                      CancellablePhases, TerminalPhases
  <2>2. \A k \in JobIds : Terminal(disk'[k]) => Terminal(disk[k])
    BY <2>1 DEF Terminal
  <2>3. \A k \in JobIds : Active(disk'[k]) => Active(disk[k])
    BY <2>1 DEF Active
  <2> QED
    BY <2>2, <2>3, NothingGained
<1> QED
  BY <1>2, <1>3

LEMMA BoundedStep == ASSUME IInv, Next, DocumentBounded PROVE DocumentBounded'
<1> PICK m \in Managers :
      \/ Refresh(m) \/ Fault(m) \/ Restart(m)
      \/ \E j \in JobIds, p \in Plans : Create(m, j, p)
      \/ \E j \in JobIds : JobCall(m, j) \/ BarrierCall(m, j)
  BY DEF Next
<1>1. CASE Refresh(m) \/ Fault(m) \/ Restart(m)
  BY <1>1 DEF Refresh, Fault, Restart, DocumentBounded
<1>2. ASSUME NEW j \in JobIds, NEW p \in Plans, Create(m, j, p)
      PROVE  DocumentBounded'
  BY <1>2, CreateBounded
<1>3. ASSUME NEW j \in JobIds, NEW rev \in 0 .. MaxRevision,
             NEW cleaned \in BOOLEAN, Claim(m, j, rev, cleaned)
      PROVE  DocumentBounded'
  <2>1. \E gone \in Prunable([disk EXCEPT ![j] = ClaimedReceipt(disk[j])], j) :
          disk' \in {disk, Without([disk EXCEPT ![j] = ClaimedReceipt(disk[j])],
                                   gone)}
    BY <1>3, SavedDisk DEF Claim
  <2>2. disk[j] # None
    BY <1>3 DEF Claim, Current
  <2> QED
    BY <2>1, <2>2, StampedBounded
<1>4. ASSUME NEW j \in JobIds, NEW rev \in 0 .. MaxRevision,
             NEW ph \in Phases, NEW root \in RootModes \cup {None},
             NEW result \in ResultCodes \cup {None},
             NEW entry \in EntryIds \cup {None},
             Transition(m, j, rev, ph, root, result, entry)
      PROVE  DocumentBounded'
  <2> DEFINE r == MovedReceipt(disk[j], ph, root, result, entry)
  <2>1. \E gone \in Prunable([disk EXCEPT ![j] = r], j) :
          disk' \in {disk, Without([disk EXCEPT ![j] = r], gone)}
    BY <1>4, SavedDisk DEF Transition, Admitted, Stamped
  <2>2. disk[j] # None
    BY <1>4 DEF Transition, Current
  <2> HIDE DEF r
  <2> QED
    BY <2>1, <2>2, StampedBounded
<1>5. ASSUME NEW j \in JobIds, BarrierCall(m, j) PROVE DocumentBounded'
  BY <1>5 DEF BarrierCall, VerifyBarrier, DocumentBounded
<1>6. ASSUME NEW j \in JobIds, JobCall(m, j) PROVE DocumentBounded'
  BY <1>6, <1>3, <1>4, RequestCancelBounded DEF JobCall
<1> QED
  BY <1>1, <1>2, <1>5, <1>6

\* For any capacity and any number of jobs, the document that install_jobs
\* saves stays within _MAX_ACTIVE_JOBS and _MAX_TERMINAL_JOBS: what create and
\* _prune admit, the next load never refuses.
THEOREM BoundsTheorem == Spec => []DocumentBounded
<1>1. Init => DocumentBounded
  <2> SUFFICES ASSUME Init PROVE DocumentBounded
    OBVIOUS
  <2>1. /\ {k \in JobIds : Active(disk[k])} = {}
        /\ {k \in JobIds : Terminal(disk[k])} = {}
    BY DEF Init, Active, Terminal
  <2> QED
    BY <2>1, FS_EmptySet, LimitsAssumption DEF DocumentBounded
<1>2. IInv /\ DocumentBounded /\ [Next]_vars => DocumentBounded'
  <2>1. ASSUME UNCHANGED vars, DocumentBounded PROVE DocumentBounded'
    BY <2>1 DEF vars, DocumentBounded
  <2> QED
    BY <2>1, BoundedStep
<1> QED
  BY <1>1, <1>2, Invariant, PTL DEF Spec

============================================================================
