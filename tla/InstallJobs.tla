---------------------------- MODULE InstallJobs ----------------------------
(***************************************************************************)
(* The durable receipt authority of a first install                        *)
(* (custom_components/panel_assistant/install_jobs.py).  Every public call *)
(* of InstallJobManager runs under one lock, re-reads the private store    *)
(* file, checks the caller's expected revision and writes the whole        *)
(* document back before it returns, so a call is one action here.  What    *)
(* makes it hard is what the lock does not cover: a call may fail after    *)
(* the file was written, a caller may be cancelled half way, the process   *)
(* may restart, and a second manager may work on the same file.            *)
(*                                                                         *)
(* Abstractions: the frozen plan (target, artifact, plan digest,           *)
(* credential) is one value; attempt and executor_generation, which the    *)
(* code moves together, are one counter; timestamps are left out, so the   *)
(* age at which a finished receipt expires is a free choice, the clock     *)
(* check of a save is one more way for it to fail, and whether the receipt *)
(* a call stamps is the newest one depends on SteadyClock.                 *)
(*                                                                         *)
(* A definition marked "mutant" is a faulty variant of the one below it;   *)
(* nothing uses it.  PROJECT.json names the property that tells them apart.*)
(***************************************************************************)
EXTENDS Naturals, FiniteSets

CONSTANTS
    Managers,      \* InstallJobManager objects that share one store file
    JobIds,        \* the opaque identifiers token_hex may return
    Plans,         \* frozen plans: [address, pinned, serial, artifact]
    RootModes,     \* what a preflight can learn about root
    EntryIds,      \* config-entry identifiers
    None,          \* Python's None, and "no such receipt"
    MaxAttempts,   \* _MAX_ATTEMPTS
    MaxRevision,   \* the largest revision the parser accepts
    MaxActive,     \* _MAX_ACTIVE_JOBS
    MaxTerminal,   \* _MAX_TERMINAL_JOBS
    SteadyClock    \* is a new stamp always the newest of the document?

ASSUME LimitsAssumption ==
    /\ MaxAttempts \in Nat /\ MaxRevision \in Nat
    /\ MaxActive \in Nat /\ MaxTerminal \in Nat \ {0}
    /\ IsFiniteSet(JobIds)
    /\ SteadyClock \in BOOLEAN

VARIABLES
    disk,      \* the store file: job id -> receipt or None
    cache,     \* manager -> _jobs: the last document it saw, or None
    claimed,   \* manager -> _claimed_jobs: job id -> generation or None
    used       \* ghost: identifiers drawn so far (128 random bits never repeat)

vars == <<disk, cache, claimed, used>>

----------------------------------------------------------------------------
(* Phases and the tables over them. *)

TerminalPhases == {"consumed", "cancelled", "failed", "recovery_required"}

CancellablePhases ==
    {"approved", "authorizing", "preflight", "downloading", "artifact_ready",
     "revalidating", "staging"}

\* Phases in which an earlier process may already have changed the panel.
AmbiguousPhases == {"staging", "installing", "launching"}

RecoverySources ==
    AmbiguousPhases \cup {"installed", "health_check", "healthy_unclaimed"}

ArtifactPhases ==
    {"artifact_ready", "revalidating", "staging", "installing", "installed",
     "launching", "health_check", "healthy_unclaimed", "consumed"}

Phases ==
    CancellablePhases \cup RecoverySources \cup TerminalPhases

FailureCodes ==
    {"authorization_failed", "preflight_rejected", "artifact_rejected",
     "transport_failed", "install_failed", "launch_failed",
     "health_check_failed"}

RecoveryCodes == {"ambiguous_mutation", "verification_required"}

CancelCodes == {"cancelled_by_user", "cancelled_after_staging_cleanup"}

ResultCodes ==
    FailureCodes \cup RecoveryCodes \cup CancelCodes \cup {"entry_created"}

\* The one phase that continues the workflow from ph.
Forward ==
    {<<"approved", "authorizing">>, <<"authorizing", "preflight">>,
     <<"preflight", "downloading">>, <<"downloading", "artifact_ready">>,
     <<"artifact_ready", "revalidating">>, <<"revalidating", "staging">>,
     <<"staging", "installing">>, <<"installing", "installed">>,
     <<"installed", "launching">>, <<"launching", "health_check">>,
     <<"health_check", "healthy_unclaimed">>,
     <<"healthy_unclaimed", "consumed">>}

\* to \in _NEXT_PHASE[from].
NextPhaseShortcut(from, to) ==                                   \* mutant
    \/ <<from, to>> \in Forward \cup {<<"health_check", "consumed">>}
    \/ to = "cancelled" /\ from \in CancellablePhases
    \/ to = "recovery_required" /\ from \in RecoverySources
    \/ /\ to = "failed"
       /\ from \in Phases \ (TerminalPhases \cup {"healthy_unclaimed"})
NextPhase(from, to) ==
    \/ <<from, to>> \in Forward
    \/ to = "cancelled" /\ from \in CancellablePhases
    \/ to = "recovery_required" /\ from \in RecoverySources
    \/ /\ to = "failed"
       /\ from \in Phases \ (TerminalPhases \cup {"healthy_unclaimed"})

FailureCodesOf(ph) ==
    CASE ph = "authorizing" -> {"authorization_failed", "transport_failed"}
      [] ph = "preflight" -> {"preflight_rejected", "transport_failed"}
      [] ph \in {"downloading", "artifact_ready", "staging"} ->
           {"artifact_rejected", "transport_failed"}
      [] ph = "revalidating" ->
           {"artifact_rejected", "preflight_rejected", "transport_failed"}
      [] ph \in {"installing", "installed"} -> {"install_failed"}
      [] ph = "launching" -> {"launch_failed", "transport_failed"}
      [] ph = "health_check" -> {"health_check_failed", "transport_failed"}
      [] OTHER -> {}

----------------------------------------------------------------------------
(* Receipts. *)

Receipt ==
    [plan : Plans,
     phase : Phases,
     revision : Nat,
     generation : Nat,
     cancel_requested : BOOLEAN,
     root : RootModes \cup {None},        \* preflight_root_mode
     apk : BOOLEAN,                       \* actual_apk_bytes is recorded
     health : BOOLEAN,                    \* health_checked_at is recorded
     result : ResultCodes \cup {None},
     entry : EntryIds \cup {None}]        \* consumed_entry_id

\* None is no value of any other kind.
ASSUME NoneAssumption ==
    /\ None \notin Nat \cup JobIds \cup RootModes \cup EntryIds \cup ResultCodes
    /\ None \notin Receipt
    /\ None \notin [JobIds -> Receipt \cup {None}]

NewReceipt(p) ==
    [plan |-> p, phase |-> "approved", revision |-> 0, generation |-> 0,
     cancel_requested |-> FALSE, root |-> None, apk |-> FALSE,
     health |-> FALSE, result |-> None, entry |-> None]

Active(r) == r # None /\ r.phase \notin TerminalPhases
Terminal(r) == r # None /\ r.phase \in TerminalPhases

\* Two plans that name one panel by any of its three identities.
SameTarget(p, q) ==
    \/ p.address = q.address
    \/ p.pinned = q.pinned
    \/ p.serial = q.serial

\* A new receipt for plan p would work on no panel an active one works on.
TargetClearAddressOnly(p) ==                                     \* mutant
    \A k \in JobIds : Active(disk[k]) => disk[k].plan.address # p.address
TargetClear(p) ==
    \A k \in JobIds : Active(disk[k]) => ~SameTarget(disk[k].plan, p)

Without(jobs, gone) == [j \in JobIds |-> IF j \in gone THEN None ELSE jobs[j]]

\* The sets of finished receipts _prune may drop from jobs: those past their
\* age, and as many as the bound on finished receipts demands.  The receipt
\* this call has just stamped has no age; the bound alone can reach it, when
\* as many others carry a later stamp (the wall clock was set back).
PrunableOneMore(jobs, stamped) ==                                \* mutant
    LET finished == {j \in JobIds : Terminal(jobs[j])}
    IN {gone \in SUBSET (finished \ {stamped}) :
            Cardinality(finished \ gone) <= MaxTerminal + 1}
PrunableOldestFirst(jobs, stamped) ==                            \* mutant
    LET finished == {j \in JobIds : Terminal(jobs[j])}
    IN {gone \in SUBSET finished :
            Cardinality(finished \ gone) <= MaxTerminal}
Prunable(jobs, stamped) ==
    LET finished == {j \in JobIds : Terminal(jobs[j])}
    IN {gone \in SUBSET finished :
            /\ Cardinality(finished \ gone) <= MaxTerminal
            /\ stamped \in gone =>
                   /\ ~SteadyClock
                   /\ Cardinality(finished \ {stamped}) >= MaxTerminal}

----------------------------------------------------------------------------
(* Loading and saving, by manager m. *)

NoClaims == [j \in JobIds |-> None]

\* The claims that survive a look at a fresh document.
ReconciledWhileCancellable(claims, jobs) ==                      \* mutant
    [j \in JobIds |->
        IF /\ claims[j] # None
           /\ Active(jobs[j])
           /\ jobs[j].phase \in CancellablePhases
           /\ jobs[j].generation = claims[j]
        THEN claims[j] ELSE None]
Reconciled(claims, jobs) ==
    [j \in JobIds |->
        IF /\ claims[j] # None
           /\ Active(jobs[j])
           /\ jobs[j].phase # "healthy_unclaimed"
           /\ jobs[j].generation = claims[j]
        THEN claims[j] ELSE None]

\* A refresh refuses a file that disagrees with memory about a claimed job.
LoadOk(m) ==
    cache[m] # None =>
        \A j \in JobIds : claimed[m][j] # None => disk[j] = cache[m][j]

Invalidated(m) ==
    /\ cache' = [cache EXCEPT ![m] = None]
    /\ claimed' = [claimed EXCEPT ![m] = NoClaims]

Adopted(m, jobs, claims) ==
    /\ cache' = [cache EXCEPT ![m] = jobs]
    /\ claimed' = [claimed EXCEPT ![m] = claims]

\* A save either is read back unchanged, or raises: before the write, after
\* it, or because the caller was cancelled while the write was drained.  (The
\* round trip through the parser that a save begins with is no guard here:
\* StoreStaysReadable, DocumentBounded and ActiveTargetsDisjoint show that the
\* calls admit nothing it would refuse.)
Saved(m, jobs, claims) ==
    \/ disk' = jobs /\ Adopted(m, jobs, claims)
    \/ disk' \in {disk, jobs} /\ Invalidated(m)

Current(jobs, j, rev) == jobs[j] # None /\ jobs[j].revision = rev

\* Replace receipt j by r, prune, and save.  (Should the prune take j itself,
\* the file is written all the same; only then does the call raise.)
Stamped(m, j, r) ==
    LET jobs == [disk EXCEPT ![j] = r] IN
    \E gone \in Prunable(jobs, j) :
        LET kept == Without(jobs, gone) IN
        Saved(m, kept, Reconciled(Reconciled(claimed[m], disk), kept))

----------------------------------------------------------------------------
(* The manager's operations. *)

\* async_get, async_list, async_find_active, a create call that joins, and
\* every call refused after its load: the document is re-read, no more.
Refresh(m) ==
    /\ LoadOk(m)
    /\ Adopted(m, disk, Reconciled(claimed[m], disk))
    /\ UNCHANGED <<disk, used>>

\* A load that raises (unreadable file, a claimed receipt that drifted, a
\* cancelled caller), a save refused before it starts, a rejected barrier.
Fault(m) ==
    /\ Invalidated(m)
    /\ UNCHANGED <<disk, used>>

\* A new process: memory is lost, the file is not.
Restart(m) ==
    /\ Invalidated(m)
    /\ UNCHANGED <<disk, used>>

Create(m, j, p) ==
    /\ LoadOk(m)
    /\ j \notin used
    /\ TargetClear(p)
    /\ Cardinality({k \in JobIds : Active(disk[k])}) < MaxActive
    /\ \E gone \in Prunable(disk, None) :
           LET jobs == [Without(disk, gone) EXCEPT ![j] = NewReceipt(p)] IN
           Saved(m, jobs, Reconciled(Reconciled(claimed[m], disk), jobs))
    /\ used' = used \cup {j}

RequestCancel(m, j, rev) ==
    /\ LoadOk(m)
    /\ Current(disk, j, rev)
    /\ disk[j].phase \in CancellablePhases
    /\ ~disk[j].cancel_requested
    /\ rev < MaxRevision
    /\ LET jobs == [disk EXCEPT ![j].revision = rev + 1,
                                ![j].cancel_requested = TRUE]
       IN Saved(m, jobs, Reconciled(Reconciled(claimed[m], disk), jobs))
    /\ UNCHANGED used

\* What a claim writes: the next generation, except that a receipt out of
\* attempts, or left in a phase whose effect is unknown, is quarantined.
ClaimedReceiptSameGeneration(r) ==                               \* mutant
    IF r.generation >= MaxAttempts \/ r.phase \in AmbiguousPhases
    THEN [r EXCEPT !.revision = @ + 1,
                   !.phase = "recovery_required",
                   !.result = "verification_required"]
    ELSE [r EXCEPT !.revision = @ + 1]
ClaimedReceiptReplaying(r) ==                                    \* mutant
    IF r.generation >= MaxAttempts
    THEN [r EXCEPT !.revision = @ + 1,
                   !.phase = "recovery_required",
                   !.result = "verification_required"]
    ELSE [r EXCEPT !.revision = @ + 1,
                   !.generation = @ + 1]
ClaimedReceipt(r) ==
    IF r.generation >= MaxAttempts
    THEN [r EXCEPT !.revision = @ + 1,
                   !.phase = "recovery_required",
                   !.result = "verification_required"]
    ELSE IF r.phase \in AmbiguousPhases
    THEN [r EXCEPT !.revision = @ + 1,
                   !.generation = @ + 1,
                   !.phase = "recovery_required",
                   !.result = "verification_required"]
    ELSE [r EXCEPT !.revision = @ + 1,
                   !.generation = @ + 1]

\* What a claim may be asked for.
Claimable(r) == Active(r) /\ r.phase # "healthy_unclaimed"

\* cleaned: the caller passed cleanup_confirmed_revision, equal to rev.
Claim(m, j, rev, cleaned) ==
    /\ LoadOk(m)
    /\ Current(disk, j, rev)
    /\ Claimable(disk[j])
    /\ claimed[m][j] # disk[j].generation
    /\ Terminal(ClaimedReceipt(disk[j])) => cleaned
    /\ rev < MaxRevision
    /\ LET r == ClaimedReceipt(disk[j])
           jobs == [disk EXCEPT ![j] = r]
       IN \E gone \in Prunable(jobs, j) :
              LET kept == Without(jobs, gone)
                  left == Reconciled(Reconciled(claimed[m], disk), kept)
              IN Saved(m, kept,
                       IF Terminal(r) THEN left
                       ELSE [left EXCEPT ![j] = r.generation])
    /\ UNCHANGED used

\* A receipt that is asked to cancel only moves to an outcome without success.
CancelAllowsProgress(r, ph) ==                                   \* mutant
    r.cancel_requested => ph # "consumed"
CancelAllows(r, ph) ==
    r.cancel_requested => ph \in {"cancelled", "failed", "recovery_required"}

\* The result code and entry id that may accompany a move of r to phase ph.
OutcomeAllowed(r, ph, result, entry) ==
    CASE ph = "cancelled" ->
           /\ r.cancel_requested
           /\ result = IF r.phase = "staging"
                       THEN "cancelled_after_staging_cleanup"
                       ELSE "cancelled_by_user"
           /\ entry = None
      [] ph = "failed" -> result \in FailureCodesOf(r.phase) /\ entry = None
      [] ph = "recovery_required" -> result \in RecoveryCodes /\ entry = None
      [] ph = "consumed" -> result = "entry_created" /\ entry # None
      [] OTHER -> result = None /\ entry = None

\* Root posture is learned once, on the way out of the preflight.
RootAllowed(r, ph, root) ==
    IF r.phase = "preflight" /\ ph = "downloading"
    THEN root # None /\ r.root = None
    ELSE root = None

\* r as a transition to ph leaves it.
MovedReceiptKeepingHealth(r, ph, root, result, entry) ==         \* mutant
    [r EXCEPT !.revision = @ + 1,
              !.phase = ph,
              !.root = IF root = None THEN @ ELSE root,
              !.apk = @ \/ ph = "artifact_ready",
              !.health = @ \/ ph = "healthy_unclaimed",
              !.result = result,
              !.entry = entry]
MovedReceipt(r, ph, root, result, entry) ==
    [r EXCEPT !.revision = @ + 1,
              !.phase = ph,
              !.root = IF root = None THEN @ ELSE root,
              !.apk = @ \/ ph = "artifact_ready",
              !.health = IF r.phase = "healthy_unclaimed"
                         THEN @ /\ ph # "recovery_required"
                         ELSE @ \/ ph = "healthy_unclaimed",
              !.result = result,
              !.entry = entry]

\* What async_transition demands before it writes.
Admitted(m, j, ph, root, result, entry) ==
    /\ NextPhase(disk[j].phase, ph)
    /\ CancelAllows(disk[j], ph)
    /\ disk[j].phase = "healthy_unclaimed" \/ claimed[m][j] = disk[j].generation
    /\ RootAllowed(disk[j], ph, root)
    /\ ph = "artifact_ready" => ~disk[j].apk
    /\ ph = "healthy_unclaimed" => ~disk[j].health
    /\ OutcomeAllowed(disk[j], ph, result, entry)

Transition(m, j, rev, ph, root, result, entry) ==
    /\ LoadOk(m)
    /\ Current(disk, j, rev)
    /\ Admitted(m, j, ph, root, result, entry)
    /\ rev < MaxRevision
    /\ Stamped(m, j, MovedReceipt(disk[j], ph, root, result, entry))
    /\ UNCHANGED used

\* The document a barrier compares the file with.
Memory(m) == IF cache[m] = None THEN disk ELSE cache[m]

\* Fresh authority for an external action of phase ph: the mutation barrier
\* with cancel = FALSE, the cleanup barrier with the polarity of its phase.
Authorized(m, j, rev, ph, cancel) ==
    /\ Current(Memory(m), j, rev) /\ Current(disk, j, rev)
    /\ disk[j] = Memory(m)[j]
    /\ disk[j].phase = ph
    /\ disk[j].cancel_requested = cancel
    /\ claimed[m][j] = disk[j].generation

\* A barrier looks at memory first, then adopts the file, without the check
\* of a refresh; it stands, or fails on the revision of the file (a rejection
\* for any other reason is a Fault).
VerifyBarrier(m, j, rev, ph, cancel) ==
    /\ ph \in AmbiguousPhases
    /\ cancel => ph = "staging"
    /\ Current(Memory(m), j, rev)
    /\ Authorized(m, j, rev, ph, cancel) \/ ~Current(disk, j, rev)
    /\ Adopted(m, disk, Reconciled(claimed[m], disk))
    /\ UNCHANGED <<disk, used>>

----------------------------------------------------------------------------
Init ==
    /\ disk = [j \in JobIds |-> None]
    /\ cache = [m \in Managers |-> None]
    /\ claimed = [m \in Managers |-> NoClaims]
    /\ used = {}

\* Calls on job j at its current revision; a call at any other is a Refresh.
\* (The guards before the inner quantifiers are those of the actions.)
JobCall(m, j) ==
    \E rev \in 0 .. MaxRevision :
        /\ Current(disk, j, rev)
        /\ \/ RequestCancel(m, j, rev)
           \/ \E cleaned \in BOOLEAN : Claim(m, j, rev, cleaned)
           \/ \E ph \in Phases :
                  /\ NextPhase(disk[j].phase, ph)
                  /\ \E root \in RootModes \cup {None},
                        result \in ResultCodes \cup {None},
                        entry \in EntryIds \cup {None} :
                         Transition(m, j, rev, ph, root, result, entry)

\* A barrier call with the revision memory has; at any other it is a Fault.
BarrierCall(m, j) ==
    /\ Memory(m)[j] # None
    /\ \E ph \in AmbiguousPhases, cancel \in BOOLEAN :
           VerifyBarrier(m, j, Memory(m)[j].revision, ph, cancel)

Next ==
    \E m \in Managers :
        \/ Refresh(m)
        \/ Fault(m)
        \/ Restart(m)
        \/ \E j \in JobIds, p \in Plans : Create(m, j, p)
        \/ \E j \in JobIds : JobCall(m, j) \/ BarrierCall(m, j)

Spec == Init /\ [][Next]_vars

----------------------------------------------------------------------------
(* Properties. *)

TypeOK ==
    /\ disk \in [JobIds -> Receipt \cup {None}]
    /\ cache \in [Managers -> [JobIds -> Receipt \cup {None}] \cup {None}]
    /\ claimed \in [Managers -> [JobIds -> Nat \cup {None}]]
    /\ used \subseteq JobIds

\* What _validate_receipt_invariants demands of one receipt: its counters, the
\* evidence collected by its phase, and its outcome.
ValidCounters(r) == r.revision >= r.generation /\ r.generation <= MaxAttempts

ValidEvidence(r) ==
    /\ r.phase \in {"approved", "authorizing", "preflight"} => r.root = None
    /\ r.phase \in ArtifactPhases \cup {"downloading"} => r.root # None
    /\ r.phase \in ArtifactPhases => r.apk
    /\ r.phase \notin ArtifactPhases \cup TerminalPhases => ~r.apk
    /\ r.health <=> r.phase \in {"healthy_unclaimed", "consumed"}

ValidOutcome(r) ==
    /\ r.phase \notin TerminalPhases => r.result = None
    /\ r.phase = "consumed" => r.result = "entry_created"
    /\ r.phase = "cancelled" => r.result \in CancelCodes /\ r.cancel_requested
    /\ r.phase = "failed" => r.result \in FailureCodes
    /\ r.phase = "recovery_required" => r.result \in RecoveryCodes
    /\ r.phase = "consumed" <=> r.entry # None

ValidReceipt(r) == ValidCounters(r) /\ ValidEvidence(r) /\ ValidOutcome(r)

\* What the calls admit, the parser accepts: no legal sequence of calls leads
\* to a receipt that a save, or the next load, would refuse.  A refused document
\* would drop every claim and leave the job unable to move for good.
StoreStaysReadable == \A j \in JobIds : disk[j] # None => ValidReceipt(disk[j])

\* The document-wide half of that: _parse_document bounds the two kinds of
\* receipt and refuses two active ones that share a target identity.
DocumentBounded ==
    /\ Cardinality({j \in JobIds : Active(disk[j])}) <= MaxActive
    /\ Cardinality({j \in JobIds : Terminal(disk[j])}) <= MaxTerminal
ActiveTargetsDisjoint ==
    \A i, j \in JobIds :
        i # j /\ Active(disk[i]) /\ Active(disk[j]) =>
            ~SameTarget(disk[i].plan, disk[j].plan)

\* The generation fences: of all the managers that ever claimed a job, at most
\* one holds the claim the file still honours, through restarts, failed saves
\* and stale memories.  async_transition and both barriers rest on it.
ClaimsAreFenced ==
    \A j \in JobIds : disk[j] # None =>
        \A m, n \in Managers :
            /\ claimed[m][j] = disk[j].generation
            /\ claimed[n][j] = disk[j].generation
            => m = n

\* Compare-and-swap on the revision alone is enough: a remembered receipt with
\* the revision of the durable one is the durable one.
RevisionIdentifies ==
    \A m \in Managers, j \in JobIds :
        /\ cache[m] # None /\ cache[m][j] # None /\ disk[j] # None
        /\ cache[m][j].revision = disk[j].revision
        => cache[m][j] = disk[j]

\* Once a cancel request is durable the job never crosses another mutation
\* barrier and never succeeds, wherever the request landed.
CancelHonoured ==
    \A j \in JobIds :
        disk[j] # None /\ disk[j].cancel_requested =>
            disk[j].phase \in CancellablePhases
                                \cup {"cancelled", "failed", "recovery_required"}

\* A finished receipt never changes again; it can only be forgotten, and its
\* identifier never comes back.
OutcomeIsFinal ==
    [][\A j \in JobIds :
           /\ Terminal(disk[j]) => disk'[j] \in {disk[j], None}
           /\ disk[j] = None /\ j \in used => disk'[j] = None]_vars

\* An unfinished job keeps its frozen plan and its cancel request, every
\* change of it costs exactly one revision, and, while the clock is steady, its
\* outcome is never pruned by the write that records it.
ProgressIsStamped ==
    [][\A j \in JobIds : Active(disk[j]) =>
           /\ SteadyClock => disk'[j] # None
           /\ disk'[j] \notin {disk[j], None} =>
                  /\ disk'[j].plan = disk[j].plan
                  /\ disk[j].cancel_requested => disk'[j].cancel_requested
                  /\ disk'[j].revision = disk[j].revision + 1]_vars

\* Work whose effect on the panel is unknown is never taken over: a new
\* generation in such a phase is a quarantine, never a second try.
AmbiguousNeverReplayed ==
    [][\A j \in JobIds :
           /\ Active(disk[j]) /\ disk[j].phase \in AmbiguousPhases
           /\ disk'[j] # None /\ disk'[j].generation # disk[j].generation
           => disk'[j].phase = "recovery_required"]_vars

\* A healthy receipt stays, revision and all, until it is consumed or refused
\* as no longer what was proved; whoever finalizes it may hold on to the
\* revision it has read.  Only a clock set back prunes what it ends as.
HealthyWaits ==
    [][\A j \in JobIds :
           /\ disk[j] # None /\ disk[j].phase = "healthy_unclaimed"
           /\ disk'[j] # disk[j]
           => IF disk'[j] = None THEN ~SteadyClock
              ELSE disk'[j].phase \in {"consumed", "recovery_required"}]_vars

----------------------------------------------------------------------------
(* The receipts implement the promise. *)

StageOf(j) ==
    IF disk[j] = None THEN IF j \in used THEN "forgotten" ELSE "unknown"
    ELSE IF disk[j].phase \in TerminalPhases THEN disk[j].phase
    ELSE IF disk[j].phase = "healthy_unclaimed" THEN "healthy"
    ELSE IF disk[j].cancel_requested THEN "cancelling"
    ELSE IF disk[j].phase \in CancellablePhases THEN "open"
    ELSE "committed"

Promise == INSTANCE InstallPromise WITH stage <- [j \in JobIds |-> StageOf(j)]

\* Through restarts, failed and half-failed saves, two managers and pruning,
\* the store keeps the promise of InstallPromise as long as the clock is steady.
KeepsPromise == Promise!Spec

============================================================================
