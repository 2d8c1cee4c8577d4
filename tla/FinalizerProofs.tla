-------------------------- MODULE FinalizerProofs --------------------------
(* What holds of Finalizer for every number of jobs, flows, submits and    *)
(* entries: types, the lease, and the entries made under it.               *)
EXTENDS Finalizer, TLAPS

\* A flow's memory is well formed, a release is of the lease it knows of, and
\* only a flow that has the executor releases.
Sane(w) ==
    /\ w \in FlowMemory
    /\ w.owner = None <=> w.job = None
    /\ w.release \in {None, w.job}
    /\ w.release # None => w.exec

\* ------------------------------------------------------------------------
\* What the operations on a flow's memory do, field by field.

LEMMA SetState ==
    ASSUME NEW w \in FlowMemory, NEW x \in {"open", "removed"}
    PROVE  [w EXCEPT !.state = x] \in FlowMemory
  BY Zenon DEF FlowMemory

LEMMA SetJob ==
    ASSUME NEW w \in FlowMemory, NEW x \in Jobs \cup {None}
    PROVE  [w EXCEPT !.job = x] \in FlowMemory
  BY Zenon DEF FlowMemory

LEMMA SetOwner ==
    ASSUME NEW w \in FlowMemory, NEW x \in Submits \cup {"done", None}
    PROVE  [w EXCEPT !.owner = x] \in FlowMemory
  BY Zenon DEF FlowMemory

LEMMA SetExec ==
    ASSUME NEW w \in FlowMemory
    PROVE  [w EXCEPT !.exec = TRUE] \in FlowMemory
  BY Zenon DEF FlowMemory

LEMMA SetFlags ==
    ASSUME NEW w \in FlowMemory
    PROVE  /\ [w EXCEPT !.deferred = TRUE] \in FlowMemory
           /\ [w EXCEPT !.deferred = FALSE] \in FlowMemory
           /\ [w EXCEPT !.retried = TRUE] \in FlowMemory
           /\ [w EXCEPT !.retried = FALSE] \in FlowMemory
  BY Zenon DEF FlowMemory

LEMMA SetRelease ==
    ASSUME NEW w \in FlowMemory, NEW x \in Jobs \cup {None}
    PROVE  [w EXCEPT !.release = x] \in FlowMemory
  BY Zenon DEF FlowMemory

LEMMA ClearedFields ==
    ASSUME NEW w \in FlowMemory
    PROVE  /\ Cleared(w) \in FlowMemory
           /\ Cleared(w).state = w.state /\ Cleared(w).exec = w.exec
           /\ Cleared(w).release = w.release
           /\ Cleared(w).job = None /\ Cleared(w).owner = None
<1> DEFINE a == [w EXCEPT !.job = None]
           b == [a EXCEPT !.owner = None]
           c == [b EXCEPT !.deferred = FALSE]
           d == [c EXCEPT !.retried = FALSE]
<1>1. a \in FlowMemory
  BY SetJob
<1>2. b \in FlowMemory
  <2> HIDE DEF a
  <2> QED BY <1>1, SetOwner
<1>3. c \in FlowMemory
  <2> HIDE DEF b
  <2> QED BY <1>2, SetFlags
<1>4. d \in FlowMemory
  <2> HIDE DEF c
  <2> QED BY <1>3, SetFlags
<1>5. Cleared(w) = d
  BY DEF Cleared, FlowMemory
<1>6. /\ Cleared(w).state = w.state /\ Cleared(w).exec = w.exec
      /\ Cleared(w).release = w.release
      /\ Cleared(w).job = None /\ Cleared(w).owner = None
  BY DEF Cleared, FlowMemory
<1> QED BY <1>4, <1>5, <1>6

\* A release is joined, or started, or there is nothing to release.
LEMMA ReleasingFields ==
    ASSUME NEW w, Sane(w)
    PROVE  /\ Sane(Releasing(w))
           /\ Releasing(w).state = w.state /\ Releasing(w).exec = w.exec
           /\ w.release # None => Releasing(w) = w
           /\ w.release = None /\ (w.job = None \/ ~w.exec)
                => Releasing(w).job = None /\ Releasing(w).release = None
           /\ w.release = None /\ w.job # None /\ w.exec
                => /\ Releasing(w).job = w.job /\ Releasing(w).owner = w.owner
                   /\ Releasing(w).release = w.job
<1>1. w \in FlowMemory
  BY DEF Sane
<1>2. CASE w.release # None
  BY <1>2 DEF Releasing
<1>3. CASE w.release = None /\ (w.job = None \/ ~w.exec)
  <2>1. Releasing(w) = Cleared(w)
    BY <1>3 DEF Releasing
  <2>2. Sane(Cleared(w))
    BY <1>1, <1>3, ClearedFields DEF Sane
  <2>3. QED BY <1>1, <1>3, <2>1, <2>2, ClearedFields
<1>4. CASE w.release = None /\ w.job # None /\ w.exec
  <2>1. Releasing(w) = [w EXCEPT !.release = w.job]
    BY <1>4 DEF Releasing
  <2>2. w.job \in Jobs \cup {None}
    BY <1>1 DEF FlowMemory
  <2>3. Releasing(w) \in FlowMemory
    BY <1>1, <2>1, <2>2, SetRelease
  <2>4. /\ Releasing(w).state = w.state /\ Releasing(w).exec = w.exec
        /\ Releasing(w).job = w.job /\ Releasing(w).owner = w.owner
        /\ Releasing(w).release = w.job
    BY <1>1, <2>1 DEF FlowMemory
  <2>5. QED BY <1>4, <2>3, <2>4 DEF Sane
<1>5. QED BY <1>2, <1>3, <1>4


\* Only the flags change, or the state and the flags.
LEMMA FlagFields ==
    ASSUME NEW w, Sane(w), NEW x \in {"open", "removed"}
    PROVE  /\ Sane([w EXCEPT !.state = x]) /\ Sane([w EXCEPT !.deferred = TRUE])
           /\ Sane([w EXCEPT !.retried = TRUE]) /\ Sane([w EXCEPT !.retried = FALSE])
<1>1. w \in FlowMemory
  BY DEF Sane
<1>2. Sane([w EXCEPT !.state = x])
  BY <1>1, SetState DEF Sane, FlowMemory
<1>3. Sane([w EXCEPT !.deferred = TRUE])
  BY <1>1, SetFlags DEF Sane, FlowMemory
<1>4. Sane([w EXCEPT !.retried = TRUE])
  BY <1>1, SetFlags DEF Sane, FlowMemory
<1>5. Sane([w EXCEPT !.retried = FALSE])
  BY <1>1, SetFlags DEF Sane, FlowMemory
<1>6. QED BY <1>2, <1>3, <1>4, <1>5

LEMMA WithoutFields ==
    ASSUME NEW w, Sane(w), NEW s \in Submits
    PROVE  /\ Sane(Without(w, s))
           /\ Without(w, s).job = w.job /\ Without(w, s).exec = w.exec
           /\ Without(w, s).release = w.release /\ Without(w, s).state = w.state
           /\ w.owner # s => Without(w, s).owner = w.owner
<1>1. w \in FlowMemory
  BY DEF Sane
<1>2. CASE w.owner # s
  BY <1>2 DEF Without
<1>3. CASE w.owner = s
  <2>1. Without(w, s) = [w EXCEPT !.owner = "done"]
    BY <1>3 DEF Without
  <2>2. [w EXCEPT !.owner = "done"] \in FlowMemory
    BY <1>1, SetOwner
  <2>3. s # None /\ "done" # None
    BY FinalizerAssumption
  <2>4. w.job # None
    BY <1>3, <2>3 DEF Sane
  <2>5. QED BY <1>1, <1>3, <2>1, <2>2, <2>3, <2>4 DEF Sane, FlowMemory
<1>4. QED BY <1>2, <1>3

\* A removed flow keeps its lease in mind, and the owner's claim to it.
LEMMA RemovedFields ==
    ASSUME NEW w, Sane(w)
    PROVE  /\ Sane(Removed(w))
           /\ Removed(w).job = w.job /\ Removed(w).owner = w.owner
           /\ Removed(w).exec = w.exec
           /\ w.owner \in Submits => Removed(w).release = w.release
<1> DEFINE v == [w EXCEPT !.state = "removed"]
           x == [v EXCEPT !.deferred = TRUE]
<1>1. /\ Sane(v) /\ v.job = w.job /\ v.owner = w.owner /\ v.exec = w.exec
      /\ v.release = w.release
  BY FlagFields DEF Sane, FlowMemory
<1>2. Removed(w) = IF v.job = None \/ ~v.exec THEN v
                   ELSE IF v.owner \in Submits THEN x ELSE Releasing(v)
  BY DEF Removed
<1> HIDE DEF v
<1>3. CASE v.job = None \/ ~v.exec
  BY <1>1, <1>2, <1>3
<1>4. CASE v.job # None /\ v.exec /\ v.owner \in Submits
  <2>1. Removed(w) = x
    BY <1>2, <1>4
  <2>2. /\ Sane(x) /\ x.job = v.job /\ x.owner = v.owner /\ x.exec = v.exec
        /\ x.release = v.release
    BY <1>1, FlagFields DEF Sane, FlowMemory
  <2>3. QED BY <1>1, <2>1, <2>2
<1>5. CASE v.job # None /\ v.exec /\ v.owner \notin Submits
  <2>1. Removed(w) = Releasing(v)
    BY <1>2, <1>5
  <2>2. /\ Sane(Releasing(v)) /\ Releasing(v).exec = v.exec
        /\ Releasing(v).job = v.job /\ Releasing(v).owner = v.owner
    <3>1. CASE v.release # None
      BY <1>1, <3>1, ReleasingFields
    <3>2. CASE v.release = None
      BY <1>1, <1>5, <3>2, ReleasingFields
    <3>3. QED BY <3>1, <3>2
  <2>3. QED BY <1>1, <1>5, <2>1, <2>2
<1>6. QED BY <1>3, <1>4, <1>5

\* A flow whose release raised keeps what it knows of the lease.
LEMMA KeptFields ==
    ASSUME NEW w, Sane(w), w.release # None
    PROVE  /\ Sane(Kept(w)) /\ Kept(w).exec = w.exec
           /\ Kept(w).job = w.job /\ Kept(w).owner = w.owner
<1> DEFINE v == [w EXCEPT !.release = None]
           x == [v EXCEPT !.retried = TRUE]
<1>1. w \in FlowMemory /\ w.exec /\ w.job # None
  BY DEF Sane
<1>2. v \in FlowMemory
  BY <1>1, SetRelease
<1>3. /\ Sane(v) /\ v.job = w.job /\ v.owner = w.owner /\ v.exec = w.exec
      /\ v.release = None
  BY <1>1, <1>2 DEF Sane, FlowMemory
<1>4. Kept(w) = IF v.state = "removed" /\ v.job # None /\ ~v.retried
                THEN Releasing(x) ELSE v
  BY DEF Kept
<1> HIDE DEF v
<1>5. /\ Sane(x) /\ x.job = v.job /\ x.owner = v.owner /\ x.exec = v.exec
      /\ x.release = v.release
  <2>1. x \in FlowMemory
    BY <1>2 DEF FlowMemory
  <2>2. /\ x.job = v.job /\ x.owner = v.owner /\ x.exec = v.exec
        /\ x.release = v.release
    BY <1>2 DEF FlowMemory
  <2> HIDE DEF x
  <2> QED BY <1>3, <2>1, <2>2 DEF Sane
<1> HIDE DEF x
<1>6. /\ Sane(Releasing(x)) /\ Releasing(x).exec = x.exec
      /\ Releasing(x).job = x.job /\ Releasing(x).owner = x.owner
  <2>1. x.release = None /\ x.job # None /\ x.exec
    BY <1>1, <1>3, <1>5
  <2>2. QED BY <1>5, <2>1, ReleasingFields
<1>7. QED BY <1>3, <1>4, <1>5, <1>6


\* ------------------------------------------------------------------------
\* The invariants, in parts.

FlowsOK ==
    /\ flow \in [Flows -> FlowMemory \cup {None}]
    /\ \A f \in Flows : flow[f] # None => Sane(flow[f])

\* A submit on its way to the lease is the owner that its flow remembers, and
\* what it wants is what the flow remembers.
OnTheWay(x) == x.pc \in {"executor", "acquire"}

TaskOK(t) ==
    LET x == task[t]
        w == flow[t[1]]
    IN x # None =>
          /\ w # None
          /\ OnTheWay(x) => w.owner = t[2] /\ w.job = x.job
          /\ x.pc = "executor" => ~w.exec
          /\ x.pc \notin {"read", "executor"} => w.exec

TasksOK ==
    /\ task \in [Threads -> TaskMemory \cup {None}]
    /\ \A t \in Threads : TaskOK(t)

RestOK ==
    /\ receipt \in [Jobs -> {"working", "healthy", "consumed", "recovery"}]
    /\ entry \in [Entries -> Jobs \cup {"gone", None}]
    /\ lease \in [Jobs -> Flows \cup Entries \cup {None}]
    /\ setup \in [Entries -> {"list", "acquire", "settle", "release", None}]
    /\ faults \in 0 .. MaxReleaseFaults
    /\ \A e \in Entries : setup[e] # None => entry[e] \in Jobs

FInv == FlowsOK /\ TasksOK /\ RestOK /\ NoOrphanLease

\* What a step of submit s may do to what its flow remembers, whatever else
\* runs: the lease is not forgotten, nor who else claims it.
Leaves(s, w, v) ==
    /\ Sane(v) /\ v.exec = w.exec
    /\ w.exec /\ w.job # None =>
          v.job = w.job /\ (w.owner # s => v.owner = w.owner)

\* The claim of another submit is left alone.
Spares(s, w, v) ==
    w.owner \in Submits /\ w.owner # s =>
        v.owner = w.owner /\ v.job = w.job /\ v.release = w.release

LEMMA ThreadParts ==
    ASSUME NEW t \in Threads
    PROVE  /\ t[1] \in Flows /\ t[2] \in Submits /\ t = <<t[1], t[2]>>
           /\ \A u \in Threads : u[1] = t[1] /\ u[2] = t[2] => u = t
<1>1. /\ t[1] \in Flows /\ t[2] \in Submits /\ t = <<t[1], t[2]>>
  BY DEF Threads
<1>2. ASSUME NEW u \in Threads, u[1] = t[1], u[2] = t[2]
      PROVE  u = t
  <2>1. u = <<u[1], u[2]>>
    BY DEF Threads
  <2>2. QED BY <1>1, <1>2, <2>1
<1>3. QED BY <1>1, <1>2

\* ------------------------------------------------------------------------
\* How a submit leaves: it ends, or waits for the release of the lease.

Gone(t, v) ==
    /\ task' = [task EXCEPT ![t] = None]
    /\ flow' = [flow EXCEPT ![t[1]] = v]

Waits(t, v) ==
    /\ v.release # None
    /\ \E n \in Nexts : task' = [task EXCEPT ![t].pc = "release", ![t].next = n]
    /\ flow' = [flow EXCEPT ![t[1]] = v]

LEMMA EndsShape ==
    ASSUME NEW t \in Threads, NEW w, Sane(w), Ends(t, w)
    PROVE  \E v : Gone(t, v) /\ Leaves(t[2], w, v) /\ Spares(t[2], w, v)
<1> DEFINE v == Without(w, t[2])
<1>1. t[2] \in Submits
  BY ThreadParts
<1>2. /\ Sane(v) /\ v.job = w.job /\ v.exec = w.exec /\ v.release = w.release
      /\ w.owner # t[2] => v.owner = w.owner
  BY <1>1, WithoutFields
<1>3. Gone(t, v)
  BY DEF Ends, Gone
<1> HIDE DEF v
<1>4. QED BY <1>2, <1>3 DEF Leaves, Spares

LEMMA ClosesShape ==
    ASSUME NEW t \in Threads, NEW w, Sane(w), Closes(t, w)
    PROVE  \E v : Gone(t, v) /\ Leaves(t[2], w, v) /\ Spares(t[2], w, v)
<1> DEFINE z == IF w.state = "open" THEN Removed(w) ELSE w
<1>1. /\ Sane(z) /\ z.job = w.job /\ z.owner = w.owner /\ z.exec = w.exec
      /\ w.owner \in Submits => z.release = w.release
  BY RemovedFields
<1>2. Ends(t, z)
  BY DEF Closes
<1> HIDE DEF z
<1>3. PICK v : Gone(t, v) /\ Leaves(t[2], z, v) /\ Spares(t[2], z, v)
  BY <1>1, <1>2, EndsShape
<1>4. Leaves(t[2], w, v) /\ Spares(t[2], w, v)
  BY <1>1, <1>3 DEF Leaves, Spares
<1>5. QED BY <1>3, <1>4

LEMMA EndsByShape ==
    ASSUME NEW t \in Threads, NEW w, Sane(w), NEW n, EndsBy(t, n, w)
    PROVE  \E v : Gone(t, v) /\ Leaves(t[2], w, v) /\ Spares(t[2], w, v)
  BY EndsShape, ClosesShape DEF EndsBy

LEMMA LetsGoShape ==
    ASSUME NEW t \in Threads, NEW w, Sane(w), NEW n \in Nexts, LetsGo(t, n, w)
    PROVE  \E v : (Gone(t, v) \/ Waits(t, v)) /\ Leaves(t[2], w, v)
<1> DEFINE z == Releasing(w)
<1>1. Sane(z) /\ z.exec = w.exec
  BY ReleasingFields
<1>2. w.exec /\ w.job # None => z.job = w.job /\ z.owner = w.owner
  BY ReleasingFields
<1>3. Leaves(t[2], w, z)
  BY <1>1, <1>2 DEF Leaves
<1>4. IF z.release = None THEN EndsBy(t, n, z)
      ELSE /\ task' = [task EXCEPT ![t].pc = "release", ![t].next = n]
           /\ flow' = [flow EXCEPT ![t[1]] = z]
  BY DEF LetsGo
<1> HIDE DEF z
<1>5. CASE z.release # None
  BY <1>3, <1>4, <1>5 DEF Waits
<1>6. CASE z.release = None
  <2>1. PICK v : Gone(t, v) /\ Leaves(t[2], z, v) /\ Spares(t[2], z, v)
    BY <1>1, <1>4, <1>6, EndsByShape
  <2>2. Leaves(t[2], w, v)
    BY <1>2, <1>3, <2>1 DEF Leaves
  <2>3. QED BY <2>1, <2>2
<1>7. QED BY <1>5, <1>6


\* ------------------------------------------------------------------------
\* Steps of a submit keep flows and tasks well formed, and no flow that may
\* hold a lease forgets it.

Remembers ==
    \A f \in Flows :
        flow[f] # None /\ flow[f].exec /\ flow[f].job # None =>
            flow'[f] # None /\ flow'[f].exec /\ flow'[f].job = flow[f].job

LEMMA SetPc ==
    ASSUME NEW x \in TaskMemory, NEW pc \in Pcs
    PROVE  [x EXCEPT !.pc = pc] \in TaskMemory
  BY Zenon DEF TaskMemory

LEMMA SetNext ==
    ASSUME NEW x \in TaskMemory, NEW n \in Nexts
    PROVE  [x EXCEPT !.next = n] \in TaskMemory
  BY Zenon DEF TaskMemory

LEMMA SetEntry ==
    ASSUME NEW x \in TaskMemory, NEW e \in Entries
    PROVE  [x EXCEPT !.entry = e] \in TaskMemory
  BY Zenon DEF TaskMemory

LEMMA MemoriesAreNotNone ==
    /\ \A w \in FlowMemory : w # None
    /\ \A x \in TaskMemory : x # None
  BY FinalizerAssumption

\* The task of one submit and the memory of its flow are set.
Sets(t, x, v) ==
    /\ task' = [task EXCEPT ![t] = x]
    /\ flow' = [flow EXCEPT ![t[1]] = v]

LEMMA SetsKeeps ==
    ASSUME FlowsOK, TasksOK, NEW t \in Threads, flow[t[1]] # None,
           NEW v, Sane(v), NEW x \in TaskMemory \cup {None}, Sets(t, x, v),
           x # None =>
              /\ OnTheWay(x) => v.owner = t[2] /\ v.job = x.job
              /\ x.pc = "executor" => ~v.exec
              /\ x.pc \notin {"read", "executor"} => v.exec,
           \A u \in Threads :
              u[1] = t[1] /\ u # t /\ task[u] # None =>
                /\ OnTheWay(task[u]) =>
                      v.owner = flow[t[1]].owner /\ v.job = flow[t[1]].job
                /\ v.exec = flow[t[1]].exec \/ task[u].pc = "read"
    PROVE  FlowsOK' /\ TasksOK'
<1> DEFINE f == t[1]
<1>1. f \in Flows /\ t[2] \in Submits
  BY ThreadParts
<1>2. v \in FlowMemory /\ v # None
  BY MemoriesAreNotNone DEF Sane
<1>3. FlowsOK'
  <2>1. flow' \in [Flows -> FlowMemory \cup {None}]
    BY <1>1, <1>2 DEF FlowsOK, Sets
  <2>2. ASSUME NEW g \in Flows, flow'[g] # None
        PROVE  Sane(flow'[g])
    BY <1>1, <2>2 DEF FlowsOK, Sets
  <2>3. QED BY <2>1, <2>2 DEF FlowsOK, Sane
<1>4. task' \in [Threads -> TaskMemory \cup {None}]
  BY DEF TasksOK, Sets
<1>5. flow'[f] = v /\ \A g \in Flows : g # f => flow'[g] = flow[g]
  BY <1>1 DEF FlowsOK, Sets
<1>6. task'[t] = x /\ \A u \in Threads : u # t => task'[u] = task[u]
  BY DEF TasksOK, Sets
<1>7. ASSUME NEW u \in Threads
      PROVE  TaskOK(u)'
  <2>1. u[1] \in Flows
    BY ThreadParts
  <2>2. CASE u = t
    BY <1>2, <1>5, <1>6, <2>2 DEF TaskOK
  <2>3. CASE u # t /\ u[1] # f
    <3>1. flow'[u[1]] = flow[u[1]] /\ task'[u] = task[u]
      BY <1>5, <1>6, <2>1, <2>3
    <3>2. QED BY <3>1 DEF TasksOK, TaskOK
  <2>4. CASE u # t /\ u[1] = f
    <3>1. flow'[u[1]] = v /\ task'[u] = task[u]
      BY <1>5, <1>6, <2>4
    <3>2. TaskOK(u)
      BY DEF TasksOK
    <3>3. QED BY <1>2, <2>4, <3>1, <3>2 DEF TaskOK
  <2>5. QED BY <2>2, <2>3, <2>4
<1>8. QED BY <1>3, <1>4, <1>7 DEF TasksOK

\* A submit that leaves: its flow remembers the lease for its other submits.
LEMMA LeavingKeeps ==
    ASSUME FlowsOK, TasksOK, NEW t \in Threads, task[t] # None,
           NEW v, Gone(t, v) \/ Waits(t, v), Leaves(t[2], flow[t[1]], v),
           Spares(t[2], flow[t[1]], v) \/ task[t].pc # "read"
    PROVE  FlowsOK' /\ TasksOK' /\ Remembers
<1> DEFINE w == flow[t[1]]
<1>1. t[1] \in Flows /\ t[2] \in Submits /\ TaskOK(t)
  BY ThreadParts DEF TasksOK
<1>2. w # None /\ Sane(w)
  BY <1>1 DEF TaskOK, FlowsOK
<1>3. task[t] \in TaskMemory
  BY DEF TasksOK
<1>4. ASSUME NEW u \in Threads, u[1] = t[1], u # t, task[u] # None
      PROVE  /\ OnTheWay(task[u]) => v.owner = w.owner /\ v.job = w.job
             /\ v.exec = w.exec
  <2>1. v.exec = w.exec
    BY DEF Leaves
  <2>2. SUFFICES ASSUME OnTheWay(task[u])
                 PROVE  v.owner = w.owner /\ v.job = w.job
    BY <2>1
  <2>3. u[2] \in Submits /\ u[2] # t[2]
    BY <1>4, ThreadParts
  <2>4. TaskOK(u)
    BY DEF TasksOK
  <2>5. w.owner = u[2] /\ w.job = task[u].job
    BY <1>4, <2>2, <2>4 DEF TaskOK
  <2>6. w.job # None
    <3>1. u[2] # None
      BY <2>3, FinalizerAssumption
    <3>2. QED BY <1>2, <2>5, <3>1 DEF Sane
  <2>7. CASE w.exec
    BY <2>3, <2>5, <2>6, <2>7 DEF Leaves
  <2>8. CASE Spares(t[2], w, v)
    BY <2>3, <2>5, <2>8 DEF Spares
  <2>9. CASE ~w.exec /\ task[t].pc # "read"
    BY <1>1, <2>3, <2>5, <2>9 DEF TaskOK, OnTheWay
  <2>10. QED BY <2>7, <2>8, <2>9
<1>5. \E x \in TaskMemory \cup {None} :
         /\ Sets(t, x, v)
         /\ x # None => x.pc = "release" /\ v.exec
  <2>1. CASE Gone(t, v)
    BY <2>1 DEF Gone, Sets
  <2>2. CASE Waits(t, v)
    <3>1. PICK n \in Nexts :
             task' = [task EXCEPT ![t].pc = "release", ![t].next = n]
      BY <2>2 DEF Waits
    <3> DEFINE y == [task[t] EXCEPT !.pc = "release"]
               x == [y EXCEPT !.next = n]
    <3>2. "release" \in Pcs
      BY DEF Pcs
    <3>3. y \in TaskMemory /\ y.pc = "release"
      BY <1>3, <3>2, SetPc DEF TaskMemory
    <3>4. task' = [task EXCEPT ![t] = x]
      BY <3>1 DEF TasksOK
    <3> HIDE DEF y
    <3>5. x \in TaskMemory /\ x.pc = "release"
      BY <3>3, SetNext DEF TaskMemory
    <3> HIDE DEF x
    <3>6. v.exec
      BY <2>2 DEF Waits, Leaves, Sane
    <3>7. QED BY <2>2, <3>4, <3>5, <3>6 DEF Sets, Waits
  <2>3. QED BY <2>1, <2>2
<1>6. PICK x \in TaskMemory \cup {None} :
         /\ Sets(t, x, v)
         /\ x # None => x.pc = "release" /\ v.exec
  BY <1>5
<1>7. Sane(v)
  BY DEF Leaves
<1>8. FlowsOK' /\ TasksOK'
  BY <1>2, <1>4, <1>6, <1>7, SetsKeeps DEF OnTheWay
<1>9. Remembers
  <2>1. v # None
    BY <1>7, MemoriesAreNotNone DEF Sane
  <2>2. QED BY <1>1, <1>6, <2>1 DEF Remembers, Sets, FlowsOK, Leaves
<1>10. QED BY <1>8, <1>9

\* A submit reserves the lease of a flow that remembers none.
LEMMA ReserveKeeps ==
    ASSUME FlowsOK, TasksOK, NEW t \in Threads, task[t] # None,
           flow[t[1]].job = None, task[t].job \in Jobs,
           Reserve(t, flow[t[1]])
    PROVE  FlowsOK' /\ TasksOK' /\ Remembers
<1> DEFINE w == flow[t[1]]
           pc == IF w.exec THEN "acquire" ELSE "executor"
           x == [task[t] EXCEPT !.pc = pc]
           a == [w EXCEPT !.job = task[t].job]
           b == [a EXCEPT !.owner = t[2]]
           v == [b EXCEPT !.retried = FALSE]
<1>1. t[1] \in Flows /\ t[2] \in Submits /\ TaskOK(t)
  BY ThreadParts DEF TasksOK
<1>2. w # None /\ Sane(w) /\ w \in FlowMemory
  BY <1>1 DEF TaskOK, FlowsOK, Sane
<1>3. w.owner = None /\ w.release = None
  BY <1>2 DEF Sane
<1>4. task[t] \in TaskMemory /\ pc \in Pcs
  BY DEF TasksOK, Pcs
<1>5. x \in TaskMemory /\ x.pc = pc /\ x.job = task[t].job
  BY <1>4, SetPc DEF TaskMemory
<1>6. /\ a \in FlowMemory /\ a.job = task[t].job /\ a.exec = w.exec
      /\ a.release = w.release
  BY <1>2, SetJob DEF FlowMemory
<1>7. /\ b \in FlowMemory /\ b.job = task[t].job /\ b.exec = w.exec
      /\ b.release = w.release /\ b.owner = t[2]
  <2> HIDE DEF a
  <2> QED BY <1>1, <1>6, SetOwner DEF FlowMemory
<1>8. task[t].job # None /\ t[2] # None
  BY <1>1, FinalizerAssumption
<1>9. Sets(t, x, v)
  BY DEF Reserve, Go, Sets, TasksOK
<1>10. Sane(b)
  <2> HIDE DEF b
  <2> QED BY <1>3, <1>7, <1>8 DEF Sane
<1>11. Sane(v) /\ v.job = task[t].job /\ v.exec = w.exec /\ v.owner = t[2]
  <2> HIDE DEF b
  <2> QED BY <1>7, <1>10, FlagFields DEF FlowMemory
<1>12. ASSUME NEW u \in Threads, u[1] = t[1], u # t, task[u] # None
       PROVE  ~OnTheWay(task[u])
  <2>1. TaskOK(u) /\ u[2] \in Submits
    BY ThreadParts DEF TasksOK
  <2>2. u[2] # None
    BY <2>1, FinalizerAssumption
  <2>3. QED BY <1>3, <1>12, <2>1, <2>2 DEF TaskOK
<1>13. FlowsOK' /\ TasksOK'
  <2> HIDE DEF x, v
  <2>1. \A u \in Threads :
           u[1] = t[1] /\ u # t /\ task[u] # None =>
             /\ OnTheWay(task[u]) => v.owner = flow[t[1]].owner /\ v.job = flow[t[1]].job
             /\ v.exec = flow[t[1]].exec
    BY <1>11, <1>12
  <2>2. /\ OnTheWay(x) => v.owner = t[2] /\ v.job = x.job
        /\ x.pc = "executor" => ~v.exec
        /\ x.pc \notin {"read", "executor"} => v.exec
    BY <1>5, <1>11
  <2>3. QED BY <1>2, <1>5, <1>9, <1>11, <2>1, <2>2, SetsKeeps
<1>14. Remembers
  <2> HIDE DEF x, v
  <2>1. v # None
    BY <1>11, MemoriesAreNotNone DEF Sane
  <2>2. QED BY <1>1, <1>9, <2>1 DEF Remembers, Sets, FlowsOK
<1>15. QED BY <1>13, <1>14


\* A submit goes on with the executor and what its flow remembers as they are.
LEMMA StayKeeps ==
    ASSUME FlowsOK, TasksOK, NEW t \in Threads, task[t] # None, flow[t[1]].exec,
           NEW x \in TaskMemory, x.pc \notin {"read", "executor", "acquire"},
           Sets(t, x, flow[t[1]])
    PROVE  FlowsOK' /\ TasksOK' /\ Remembers
<1>1. t[1] \in Flows /\ TaskOK(t)
  BY ThreadParts DEF TasksOK
<1>2. flow[t[1]] # None /\ Sane(flow[t[1]])
  BY <1>1 DEF TaskOK, FlowsOK
<1>3. FlowsOK' /\ TasksOK'
  BY <1>2, SetsKeeps DEF OnTheWay
<1>4. Remembers
  BY <1>1, <1>2 DEF Remembers, Sets, FlowsOK
<1>5. QED BY <1>3, <1>4

\* The owner of an unloaded executor loads it: no other submit of its flow is
\* past its read.
LEMMA LoadKeeps ==
    ASSUME FlowsOK, TasksOK, NEW t \in Threads, At(t, "executor"),
           Go(t, "acquire", [flow[t[1]] EXCEPT !.exec = TRUE])
    PROVE  FlowsOK' /\ TasksOK' /\ Remembers
<1> DEFINE w == flow[t[1]]
           v == [w EXCEPT !.exec = TRUE]
           x == [task[t] EXCEPT !.pc = "acquire"]
<1>1. t[1] \in Flows /\ t[2] \in Submits /\ TaskOK(t) /\ task[t] # None
  BY ThreadParts DEF TasksOK, At
<1>2. /\ w # None /\ Sane(w) /\ w \in FlowMemory /\ ~w.exec
      /\ w.owner = t[2] /\ w.job = task[t].job
  BY <1>1 DEF TaskOK, FlowsOK, Sane, At, OnTheWay
<1>3. task[t] \in TaskMemory /\ "acquire" \in Pcs
  BY <1>1 DEF TasksOK, Pcs
<1>4. x \in TaskMemory /\ x.pc = "acquire" /\ x.job = task[t].job
  BY <1>3, SetPc DEF TaskMemory
<1>5. Sane(v) /\ v.owner = w.owner /\ v.job = w.job /\ v.exec
  BY <1>2, SetExec DEF Sane, FlowMemory
<1>6. Sets(t, x, v)
  BY DEF Go, Sets, TasksOK
<1>7. ASSUME NEW u \in Threads, u[1] = t[1], u # t, task[u] # None
      PROVE  ~OnTheWay(task[u]) /\ task[u].pc = "read"
  <2>1. TaskOK(u) /\ u[2] # t[2]
    BY <1>7, ThreadParts DEF TasksOK
  <2>2. QED BY <1>2, <1>7, <2>1 DEF TaskOK, OnTheWay
<1> HIDE DEF x, v
<1>8. /\ OnTheWay(x) => v.owner = t[2] /\ v.job = x.job
      /\ x.pc = "executor" => ~v.exec
      /\ x.pc \notin {"read", "executor"} => v.exec
  BY <1>2, <1>4, <1>5
<1>9. FlowsOK' /\ TasksOK'
  <2>1. \A u \in Threads :
           u[1] = t[1] /\ u # t /\ task[u] # None =>
             /\ OnTheWay(task[u]) => v.owner = flow[t[1]].owner /\ v.job = flow[t[1]].job
             /\ v.exec = flow[t[1]].exec \/ task[u].pc = "read"
    BY <1>7
  <2>2. x \in TaskMemory \cup {None}
    BY <1>4
  <2>3. flow[t[1]] # None /\ Sane(v)
    BY <1>2, <1>5
  <2>4. x # None =>
          /\ OnTheWay(x) => v.owner = t[2] /\ v.job = x.job
          /\ x.pc = "executor" => ~v.exec
          /\ x.pc \notin {"read", "executor"} => v.exec
    BY <1>8
  <2> HIDE <1>8
  <2>5. QED BY <1>6, <2>1, <2>2, <2>3, <2>4, SetsKeeps
<1>10. Remembers
  <2>1. v # None
    BY <1>5, MemoriesAreNotNone DEF Sane
  <2>2. QED BY <1>1, <1>2, <1>5, <1>6, <2>1 DEF Remembers, Sets, FlowsOK
<1>11. QED BY <1>9, <1>10

\* ------------------------------------------------------------------------
\* Each step of a submit, for flows and tasks.

LEMMA EndsKeeps ==
    ASSUME FlowsOK, TasksOK, NEW t \in Threads, task[t] # None, NEW n,
           EndsBy(t, n, flow[t[1]]) \/ Ends(t, flow[t[1]]) \/ Closes(t, flow[t[1]])
    PROVE  FlowsOK' /\ TasksOK' /\ Remembers
<1>1. t[1] \in Flows /\ TaskOK(t)
  BY ThreadParts DEF TasksOK
<1>2. Sane(flow[t[1]])
  BY <1>1 DEF TaskOK, FlowsOK
<1>3. PICK v : /\ Gone(t, v) /\ Leaves(t[2], flow[t[1]], v)
               /\ Spares(t[2], flow[t[1]], v)
  BY <1>2, EndsShape, ClosesShape, EndsByShape
<1>4. QED BY <1>3, LeavingKeeps

LEMMA LetsGoKeeps ==
    ASSUME FlowsOK, TasksOK, NEW t \in Threads, task[t] # None,
           task[t].pc # "read" \/ flow[t[1]].owner = "done",
           NEW n \in Nexts, LetsGo(t, n, flow[t[1]])
    PROVE  FlowsOK' /\ TasksOK' /\ Remembers
<1>1. t[1] \in Flows /\ TaskOK(t)
  BY ThreadParts DEF TasksOK
<1>2. Sane(flow[t[1]])
  BY <1>1 DEF TaskOK, FlowsOK
<1>3. PICK v : (Gone(t, v) \/ Waits(t, v)) /\ Leaves(t[2], flow[t[1]], v)
  BY <1>2, LetsGoShape
<1>4. Spares(t[2], flow[t[1]], v) \/ task[t].pc # "read"
  BY FinalizerAssumption DEF Spares
<1>5. QED BY <1>3, <1>4, LeavingKeeps

LEMMA ReadReceiptKeeps ==
    ASSUME FlowsOK, TasksOK, NEW t \in Threads, ReadReceipt(t)
    PROVE  FlowsOK' /\ TasksOK' /\ Remembers
<1> DEFINE w == flow[t[1]]
<1>1. task[t] # None /\ t[1] \in Flows /\ TaskOK(t) /\ At(t, "read")
  BY ThreadParts DEF TasksOK, ReadReceipt, At
<1>2. Sane(w) /\ task[t].job \in Jobs
  BY <1>1 DEF TaskOK, FlowsOK, TasksOK, TaskMemory
<1>3. Ends(t, w) \/ Closes(t, w) \/ (receipt[task[t].job] = "healthy" /\ Enter(t, w))
  BY DEF ReadReceipt
<1>4. CASE Ends(t, w) \/ Closes(t, w)
  BY <1>1, <1>4, EndsKeeps
<1>5. CASE Enter(t, w)
  <2>1. \/ Ends(t, w) \/ Closes(t, w)
        \/ w.owner = None /\ Reserve(t, w)
        \/ w.owner = "done" /\ LetsGo(t, "enter", w)
    <3>1. w.state \in {"open", "removed"} /\ w.owner \in Submits \cup {"done", None}
      BY <1>2 DEF Sane, FlowMemory
    <3>2. QED BY <1>5, <3>1, FinalizerAssumption DEF Enter
  <2>2. CASE w.owner = None /\ Reserve(t, w)
    <3>1. w.job = None
      BY <1>2, <2>2 DEF Sane
    <3>2. QED BY <1>1, <1>2, <2>2, <3>1, ReserveKeeps
  <2>3. CASE w.owner = "done" /\ LetsGo(t, "enter", w)
    BY <1>1, <2>3, LetsGoKeeps DEF Nexts
  <2>4. QED BY <1>1, <2>1, <2>2, <2>3, EndsKeeps
<1>6. QED BY <1>3, <1>4, <1>5


LEMMA ResumeKeeps ==
    ASSUME FlowsOK, TasksOK, NEW t \in Threads, Resume(t)
    PROVE  FlowsOK' /\ TasksOK' /\ Remembers
<1> DEFINE w == flow[t[1]]
<1>1. task[t] # None /\ task[t].job \in Jobs
  BY DEF TasksOK, TaskMemory, Resume, At
<1>2. \/ EndsBy(t, task[t].next, w) \/ Ends(t, w) \/ Closes(t, w)
      \/ w.job = None /\ Reserve(t, w)
  BY DEF Resume
<1>3. QED BY <1>1, <1>2, EndsKeeps, ReserveKeeps

LEMMA LoadExecutorKeeps ==
    ASSUME FlowsOK, TasksOK, NEW t \in Threads, LoadExecutor(t)
    PROVE  FlowsOK' /\ TasksOK' /\ Remembers
<1>1. task[t] # None /\ task[t].pc # "read" /\ "form" \in Nexts
  BY DEF LoadExecutor, At, Nexts
<1>2. At(t, "executor")
  BY DEF LoadExecutor
<1>3. \/ Go(t, "acquire", [flow[t[1]] EXCEPT !.exec = TRUE])
      \/ LetsGo(t, "form", flow[t[1]])
  BY DEF LoadExecutor
<1>4. QED BY <1>1, <1>2, <1>3, LetsGoKeeps, LoadKeeps

\* A submit whose flow has the executor goes on to a later part of its call.
LEMMA GoesKeeps ==
    ASSUME FlowsOK, TasksOK, NEW t \in Threads, task[t] # None,
           task[t].pc \notin {"read", "executor"},
           NEW pc \in {"prove", "reject", "adding", "created"},
           Go(t, pc, flow[t[1]])
    PROVE  FlowsOK' /\ TasksOK' /\ Remembers
<1> DEFINE x == [task[t] EXCEPT !.pc = pc]
<1>1. TaskOK(t) /\ task[t] \in TaskMemory /\ pc \in Pcs
  BY DEF TasksOK, Pcs
<1>2. x \in TaskMemory /\ x.pc = pc
  BY <1>1, SetPc DEF TaskMemory
<1>3. Sets(t, x, flow[t[1]])
  BY DEF Sets, Go, TasksOK
<1>4. flow[t[1]].exec
  BY <1>1 DEF TaskOK
<1> HIDE DEF x
<1>5. QED BY <1>2, <1>3, <1>4, StayKeeps

LEMMA AcquireLeaseKeeps ==
    ASSUME FlowsOK, TasksOK, NEW t \in Threads, AcquireLease(t)
    PROVE  FlowsOK' /\ TasksOK' /\ Remembers
<1>1. /\ task[t] # None /\ task[t].pc \notin {"read", "executor"}
      /\ "form" \in Nexts /\ "abort" \in Nexts
  BY DEF AcquireLease, At, Nexts
<1>2. \/ LetsGo(t, "abort", flow[t[1]]) \/ LetsGo(t, "form", flow[t[1]])
      \/ Go(t, "prove", flow[t[1]])
  BY DEF AcquireLease
<1>3. QED BY <1>1, <1>2, LetsGoKeeps, GoesKeeps

LEMMA ProofKeeps ==
    ASSUME FlowsOK, TasksOK, NEW t \in Threads,
           ProofFails(t) \/ Refuse(t) \/ RejectHealthyReceipt(t) \/ EntryAdded(t)
    PROVE  FlowsOK' /\ TasksOK' /\ Remembers
<1>1. /\ task[t] # None /\ task[t].pc \notin {"read", "executor"}
      /\ "form" \in Nexts /\ "abort" \in Nexts
  BY DEF ProofFails, Refuse, RejectHealthyReceipt, EntryAdded, At, Nexts
<1>2. \/ LetsGo(t, "abort", flow[t[1]]) \/ LetsGo(t, "form", flow[t[1]])
      \/ Go(t, "reject", flow[t[1]]) \/ Go(t, "created", flow[t[1]])
  BY DEF ProofFails, Refuse, RejectHealthyReceipt, EntryAdded
<1>3. QED BY <1>1, <1>2, LetsGoKeeps, GoesKeeps

LEMMA CreateEntryKeeps ==
    ASSUME FlowsOK, TasksOK, NEW t \in Threads, NEW e \in Entries,
           CreateEntry(t, e)
    PROVE  FlowsOK' /\ TasksOK' /\ Remembers
<1> DEFINE y == [task[t] EXCEPT !.pc = "adding"]
           x == [y EXCEPT !.entry = e]
<1>1. /\ task[t] # None /\ task[t].pc = "prove"
      /\ TaskOK(t) /\ task[t] \in TaskMemory /\ "adding" \in Pcs
  BY DEF CreateEntry, At, TasksOK, Pcs
<1>2. y \in TaskMemory /\ y.pc = "adding"
  BY <1>1, SetPc DEF TaskMemory
<1>3. x \in TaskMemory /\ x.pc = "adding"
  <2> HIDE DEF y
  <2> QED BY <1>2, SetEntry DEF TaskMemory
<1>4. task' = [task EXCEPT ![t] = x]
  BY DEF CreateEntry, TasksOK
<1>5. flow[t[1]] \in FlowMemory \cup {None} /\ flow' = flow /\ t[1] \in Flows
  BY ThreadParts DEF CreateEntry, FlowsOK
<1>6. flow' = [flow EXCEPT ![t[1]] = flow[t[1]]]
  BY <1>5 DEF FlowsOK
<1> HIDE DEF x
<1>7. Sets(t, x, flow[t[1]])
  BY <1>4, <1>6 DEF Sets
<1>8. flow[t[1]].exec
  BY <1>1 DEF TaskOK
<1>9. QED BY <1>1, <1>3, <1>7, <1>8, StayKeeps

LEMMA OnCreateEntryKeeps ==
    ASSUME FlowsOK, TasksOK, NEW t \in Threads, OnCreateEntry(t)
    PROVE  FlowsOK' /\ TasksOK' /\ Remembers
<1>1. task[t] # None /\ task[t].pc # "read" /\ "finish" \in Nexts
  BY DEF OnCreateEntry, At, Nexts
<1>2. Closes(t, flow[t[1]]) \/ LetsGo(t, "finish", flow[t[1]])
  BY DEF OnCreateEntry
<1>3. QED BY <1>1, <1>2, LetsGoKeeps, EndsKeeps

\* Cancelled while it finalizes, a submit starts a release on its way out.
LEMMA CancelKeeps ==
    ASSUME FlowsOK, TasksOK, NEW t \in Threads, Cancel(t)
    PROVE  FlowsOK' /\ TasksOK' /\ Remembers
<1> DEFINE w == flow[t[1]]
<1>1. task[t] # None /\ TaskOK(t) /\ "raise" \in Nexts
  BY DEF Cancel, TasksOK, Nexts
<1>2. Sane(w)
  BY <1>1, ThreadParts DEF TaskOK, FlowsOK
<1>3. \/ Ends(t, w)
      \/ task[t].pc # "read" /\ Ends(t, Releasing(w))
      \/ task[t].pc # "read" /\ LetsGo(t, "raise", w)
  BY DEF Cancel, At
<1>4. CASE task[t].pc # "read" /\ Ends(t, Releasing(w))
  <2> DEFINE z == Releasing(w)
  <2>1. /\ Sane(z) /\ z.exec = w.exec
        /\ w.exec /\ w.job # None => z.job = w.job /\ z.owner = w.owner
    BY <1>2, ReleasingFields
  <2>2. Ends(t, z)
    BY <1>4
  <2> HIDE DEF z
  <2>3. PICK v : Gone(t, v) /\ Leaves(t[2], z, v)
    BY <2>1, <2>2, EndsShape
  <2>4. Leaves(t[2], w, v)
    BY <2>1, <2>3 DEF Leaves
  <2>5. QED BY <1>1, <1>4, <2>3, <2>4, LeavingKeeps
<1>5. QED BY <1>1, <1>3, <1>4, EndsKeeps, LetsGoKeeps

LEMMA SubmitStepKeeps ==
    ASSUME FlowsOK, TasksOK, NEW t \in Threads, SubmitStep(t) \/ Cancel(t)
    PROVE  FlowsOK' /\ TasksOK' /\ Remembers
  BY ReadReceiptKeeps, LoadExecutorKeeps, AcquireLeaseKeeps, ProofKeeps,
     OnCreateEntryKeeps, ResumeKeeps, CreateEntryKeeps, CancelKeeps
     DEF SubmitStep


\* ------------------------------------------------------------------------
\* The steps of a flow itself.

\* Only the memory of one flow is set, and its claim is left alone.
LEMMA FlowKeeps ==
    ASSUME FlowsOK, TasksOK, NEW f \in Flows, flow[f] # None,
           NEW v, Sane(v), v.exec = flow[f].exec,
           v.job = flow[f].job, v.owner = flow[f].owner,
           flow' = [flow EXCEPT ![f] = v], task' = task
    PROVE  FlowsOK' /\ TasksOK' /\ Remembers
<1>1. v \in FlowMemory /\ v # None
  BY MemoriesAreNotNone DEF Sane
<1>2. flow'[f] = v /\ \A g \in Flows : g # f => flow'[g] = flow[g]
  BY DEF FlowsOK
<1>3. FlowsOK'
  <2>1. flow' \in [Flows -> FlowMemory \cup {None}]
    BY <1>1 DEF FlowsOK
  <2>2. ASSUME NEW g \in Flows, flow'[g] # None
        PROVE  Sane(flow'[g])
    BY <1>2, <2>2 DEF FlowsOK
  <2>3. QED BY <2>1, <2>2 DEF FlowsOK, Sane
<1>4. ASSUME NEW u \in Threads
      PROVE  TaskOK(u)'
  <2>1. u[1] \in Flows /\ TaskOK(u)
    BY ThreadParts DEF TasksOK
  <2>2. CASE u[1] = f
    BY <1>1, <1>2, <2>1, <2>2 DEF TaskOK
  <2>3. CASE u[1] # f
    BY <1>2, <2>1, <2>3 DEF TaskOK
  <2>4. QED BY <2>2, <2>3
<1>5. TasksOK'
  BY <1>4 DEF TasksOK
<1>6. Remembers
  BY <1>1, <1>2 DEF Remembers
<1>7. QED BY <1>3, <1>5, <1>6

LEMMA RemoveFlowKeeps ==
    ASSUME FlowsOK, TasksOK, NEW f \in Flows, RemoveFlow(f)
    PROVE  FlowsOK' /\ TasksOK' /\ Remembers
<1> DEFINE v == Removed(flow[f])
<1>1. flow[f] # None /\ flow' = [flow EXCEPT ![f] = v] /\ task' = task
  BY DEF RemoveFlow
<1>2. Sane(flow[f])
  BY <1>1 DEF FlowsOK
<1>3. /\ Sane(v) /\ v.exec = flow[f].exec
      /\ v.job = flow[f].job /\ v.owner = flow[f].owner
  BY <1>2, RemovedFields
<1> HIDE DEF v
<1>4. QED BY <1>1, <1>3, FlowKeeps

LEMMA FinalizationDoneKeeps ==
    ASSUME FlowsOK, TasksOK, NEW f \in Flows, FinalizationDone(f)
    PROVE  FlowsOK' /\ TasksOK' /\ Remembers
<1> DEFINE w == flow[f]
           v == Releasing(w)
<1>1. /\ w # None /\ flow' = [flow EXCEPT ![f] = v] /\ task' = task
      /\ w.owner = "done" /\ w.release = None
  BY DEF FinalizationDone
<1>2. Sane(w) /\ w.job # None
  BY <1>1, FinalizerAssumption DEF FlowsOK, Sane
<1>3. CASE w.exec
  <2>1. /\ Sane(v) /\ v.exec = w.exec /\ v.job = w.job /\ v.owner = w.owner
    BY <1>1, <1>2, <1>3, ReleasingFields
  <2> HIDE DEF v
  <2>2. QED BY <1>1, <2>1, FlowKeeps
<1>4. CASE ~w.exec
  <2>1. /\ Sane(v) /\ v.exec = w.exec
    BY <1>2, ReleasingFields
  <2>2. v \in FlowMemory /\ v # None
    BY <2>1, MemoriesAreNotNone DEF Sane
  <2> HIDE DEF v
  <2>3. flow'[f] = v /\ \A g \in Flows : g # f => flow'[g] = flow[g]
    BY <1>1 DEF FlowsOK
  <2>4. FlowsOK'
    <3>1. flow' \in [Flows -> FlowMemory \cup {None}]
      BY <1>1, <2>2 DEF FlowsOK
    <3>2. ASSUME NEW g \in Flows, flow'[g] # None
          PROVE  Sane(flow'[g])
      BY <2>1, <2>3, <3>2 DEF FlowsOK
    <3>3. QED BY <3>1, <3>2 DEF FlowsOK, Sane
  <2>5. ASSUME NEW u \in Threads
        PROVE  TaskOK(u)'
    <3>1. u[1] \in Flows /\ u[2] \in Submits /\ TaskOK(u)
      BY ThreadParts DEF TasksOK
    <3>2. CASE u[1] = f
      <4>1. u[2] # "done"
        BY <3>1, FinalizerAssumption
      <4>2. QED BY <1>1, <2>1, <2>2, <2>3, <3>1, <3>2, <4>1 DEF TaskOK
    <3>3. CASE u[1] # f
      BY <1>1, <2>3, <3>1, <3>3 DEF TaskOK
    <3>4. QED BY <3>2, <3>3
  <2>6. TasksOK'
    BY <1>1, <2>5 DEF TasksOK
  <2>7. Remembers
    BY <1>4, <2>3 DEF Remembers, FlowsOK
  <2>8. QED BY <2>4, <2>6, <2>7
<1>5. QED BY <1>3, <1>4

\* What a flow remembers when its release has succeeded.
LEMMA LetGoFields ==
    ASSUME NEW w, Sane(w), w.release # None
    PROVE  /\ [w EXCEPT !.release = None].job = w.release
           /\ Sane(Cleared([w EXCEPT !.release = None]))
           /\ Cleared([w EXCEPT !.release = None]).exec = w.exec
<1> DEFINE v == [w EXCEPT !.release = None]
<1>1. w \in FlowMemory
  BY DEF Sane
<1>2. v \in FlowMemory
  BY <1>1, SetRelease
<1>3. v.job = w.release /\ v.exec = w.exec /\ v.release = None
  BY <1>1 DEF Sane, FlowMemory
<1> HIDE DEF v
<1>4. Sane(Cleared(v)) /\ Cleared(v).exec = v.exec
  BY <1>2, <1>3, ClearedFields DEF Sane
<1>5. QED BY <1>3, <1>4 DEF v

\* A submit is told how the release ended: it may no longer wait for it.
LEMMA TellKeeps ==
    ASSUME TasksOK, NEW f \in Flows, NEW how \in {"released", "unreleased"},
           Tell(f, how)
    PROVE  /\ task' \in [Threads -> TaskMemory \cup {None}]
           /\ \A t \in Threads :
                 \/ task'[t] = task[t]
                 \/ /\ t[1] = f /\ task[t] # None /\ task[t].pc = "release"
                    /\ task'[t].pc = how
<1>1. \A t \in Threads :
         task'[t] = IF t[1] = f /\ At(t, "release")
                    THEN [task[t] EXCEPT !.pc = how] ELSE task[t]
  BY DEF Tell
<1>2. ASSUME NEW t \in Threads, t[1] = f, At(t, "release")
      PROVE  /\ [task[t] EXCEPT !.pc = how] \in TaskMemory
             /\ [task[t] EXCEPT !.pc = how].pc = how
  <2>1. task[t] \in TaskMemory /\ how \in Pcs
    BY <1>2 DEF At, TasksOK, Pcs
  <2>2. QED BY <2>1, SetPc DEF TaskMemory
<1>3. \A t \in Threads : task'[t] \in TaskMemory \cup {None}
  BY <1>1, <1>2 DEF TasksOK
<1>4. task' \in [Threads -> TaskMemory \cup {None}]
  BY <1>3 DEF Tell
<1>5. QED BY <1>1, <1>2, <1>4 DEF At

\* A release is not run while a submit of its flow waits for the lock.
LEMMA RunReleaseKeeps ==
    ASSUME FlowsOK, TasksOK, NEW f \in Flows, RunRelease(f)
    PROVE  /\ FlowsOK' /\ TasksOK'
           /\ Remembers \/ Free(flow[f].release, f)
           /\ flow[f] # None /\ flow[f].job = flow[f].release
           /\ flow'[f] # None /\ \A g \in Flows : g # f => flow'[g] = flow[g]
<1> DEFINE w == flow[f]
           v == [w EXCEPT !.release = None]
<1>1. w # None /\ w.release # None /\ Sane(w)
  BY DEF RunRelease, FlowsOK
<1>2. w.exec /\ w.job = w.release
  BY <1>1 DEF Sane
<1> DEFINE Ended(z, how) ==
              /\ Sane(z) /\ z.exec = w.exec /\ flow' = [flow EXCEPT ![f] = z]
              /\ Tell(f, how)
              /\ Free(w.release, f) \/ z.job = w.job
<1>3a. \E z : \E how \in {"released", "unreleased"} : Ended(z, how)
  <2>1. CASE /\ Free(w.release, f) /\ Tell(f, "released")
             /\ flow' = [flow EXCEPT ![f] =
                            IF v.job = w.release THEN Cleared(v) ELSE v]
    <3>1. v.job = w.release /\ Sane(Cleared(v)) /\ Cleared(v).exec = w.exec
      BY <1>1, LetGoFields
    <3>2. Ended(Cleared(v), "released")
      BY <2>1, <3>1
    <3> HIDE DEF Ended
    <3>3. QED BY <3>2
  <2>2. CASE flow' = [flow EXCEPT ![f] = Kept(w)] /\ Tell(f, "unreleased")
    <3>1. Sane(Kept(w)) /\ Kept(w).exec = w.exec /\ Kept(w).job = w.job
      BY <1>1, KeptFields
    <3>2. Ended(Kept(w), "unreleased")
      BY <2>2, <3>1
    <3> HIDE DEF Ended
    <3>3. QED BY <3>2
  <2>3. QED BY <2>1, <2>2 DEF RunRelease
<1>3b. PICK z : \E how \in {"released", "unreleased"} : Ended(z, how)
  BY <1>3a
<1>3. PICK how \in {"released", "unreleased"} : Ended(z, how)
  BY <1>3b
<1>4. z \in FlowMemory /\ z # None
  BY <1>3, MemoriesAreNotNone DEF Sane
<1>5. flow'[f] = z /\ \A g \in Flows : g # f => flow'[g] = flow[g]
  BY <1>3 DEF FlowsOK
<1>6. FlowsOK'
  <2>1. flow' \in [Flows -> FlowMemory \cup {None}]
    BY <1>3, <1>4 DEF FlowsOK
  <2>2. ASSUME NEW g \in Flows, flow'[g] # None
        PROVE  Sane(flow'[g])
    BY <1>3, <1>5, <2>2 DEF FlowsOK
  <2>3. QED BY <2>1, <2>2 DEF FlowsOK, Sane
<1>7. /\ task' \in [Threads -> TaskMemory \cup {None}]
      /\ \A t \in Threads :
            \/ task'[t] = task[t]
            \/ /\ t[1] = f /\ task[t] # None /\ task[t].pc = "release"
               /\ task'[t].pc = how
  BY <1>3, TellKeeps
<1>8. ASSUME NEW u \in Threads
      PROVE  TaskOK(u)'
  <2>1. u[1] \in Flows /\ u[2] \in Submits /\ TaskOK(u)
    BY ThreadParts DEF TasksOK
  <2>2. CASE u[1] # f
    BY <1>5, <1>7, <2>1, <2>2 DEF TaskOK
  <2>3. CASE u[1] = f /\ task'[u] = task[u]
    <3>1. SUFFICES ASSUME task[u] # None
                   PROVE  TaskOK(u)'
      BY <2>3 DEF TaskOK
    <3>2. u = <<f, u[2]>>
      BY <2>3, ThreadParts
    <3>3. task[u].pc # "acquire"
      BY <2>1, <3>1, <3>2 DEF RunRelease, At
    <3>4. task[u].pc # "executor"
      BY <1>2, <2>1, <2>3, <3>1 DEF TaskOK
    <3>5. QED BY <1>2, <1>3, <1>4, <1>5, <2>3, <3>3, <3>4 DEF TaskOK, OnTheWay
  <2>4. CASE u[1] = f /\ task'[u].pc = how
    BY <1>2, <1>3, <1>4, <1>5, <2>4 DEF TaskOK, OnTheWay
  <2>5. QED BY <1>7, <2>2, <2>3, <2>4
<1>9. TasksOK'
  BY <1>7, <1>8 DEF TasksOK
<1>10. Remembers \/ Free(w.release, f)
  BY <1>3, <1>4, <1>5 DEF Remembers
<1>11. QED BY <1>1, <1>2, <1>4, <1>5, <1>6, <1>9, <1>10


\* ------------------------------------------------------------------------
\* New flows and new submits.

LEMMA OpenFlowKeeps ==
    ASSUME FlowsOK, TasksOK, NEW f \in Flows, OpenFlow(f)
    PROVE  FlowsOK' /\ TasksOK' /\ Remembers
<1>1. PICK exec \in BOOLEAN : flow' = [flow EXCEPT ![f] = NewFlow(exec)]
  BY DEF OpenFlow
<1> DEFINE v == NewFlow(exec)
<1>2. v \in FlowMemory
  BY Zenon DEF NewFlow, FlowMemory
<1>3. Sane(v)
  BY <1>2 DEF NewFlow, Sane
<1>4. v # None
  BY <1>2, MemoriesAreNotNone
<1>5. flow'[f] = v /\ \A g \in Flows : g # f => flow'[g] = flow[g]
  BY <1>1 DEF FlowsOK
<1>6. FlowsOK'
  <2>1. flow' \in [Flows -> FlowMemory \cup {None}]
    BY <1>1, <1>2 DEF FlowsOK
  <2>2. ASSUME NEW g \in Flows, flow'[g] # None
        PROVE  Sane(flow'[g])
    BY <1>3, <1>5, <2>2 DEF FlowsOK
  <2>3. QED BY <2>1, <2>2 DEF FlowsOK, Sane
<1>7. task' = task /\ flow[f] = None
  BY DEF OpenFlow
<1>8. ASSUME NEW u \in Threads
      PROVE  TaskOK(u)'
  BY <1>5, <1>7, ThreadParts DEF TasksOK, TaskOK
<1>9. TasksOK'
  BY <1>7, <1>8 DEF TasksOK
<1>10. Remembers
  BY <1>5, <1>7 DEF Remembers
<1>11. QED BY <1>6, <1>9, <1>10

LEMMA SubmitKeeps ==
    ASSUME FlowsOK, TasksOK, NEW t \in Threads, Submit(t)
    PROVE  FlowsOK' /\ TasksOK' /\ Remembers
<1>1. PICK j \in Jobs : task' = [task EXCEPT ![t] = NewTask(j, "read")]
  BY DEF Submit
<1> DEFINE x == NewTask(j, "read")
<1>2. x \in TaskMemory
  BY Zenon DEF NewTask, TaskMemory, Pcs, Nexts
<1>3. x.pc = "read"
  BY DEF NewTask
<1>4. flow' = flow /\ flow[t[1]] # None
  BY DEF Submit
<1>5. task' \in [Threads -> TaskMemory \cup {None}]
  BY <1>1, <1>2 DEF TasksOK
<1>6. ASSUME NEW u \in Threads
      PROVE  TaskOK(u)'
  <2>1. CASE u = t
    BY <1>1, <1>3, <1>4, <2>1 DEF TasksOK, TaskOK, OnTheWay
  <2>2. CASE u # t
    BY <1>1, <1>4, <2>2 DEF TasksOK, TaskOK
  <2>3. QED BY <2>1, <2>2
<1>7. TasksOK'
  BY <1>5, <1>6 DEF TasksOK
<1>8. FlowsOK'
  BY <1>4 DEF FlowsOK, Sane
<1>9. Remembers
  BY <1>4 DEF Remembers
<1>10. QED BY <1>7, <1>8, <1>9

LEMMA UnchangedKeeps ==
    ASSUME FlowsOK, TasksOK, UNCHANGED <<flow, task>>
    PROVE  FlowsOK' /\ TasksOK' /\ Remembers
  BY DEF FlowsOK, TasksOK, TaskOK, OnTheWay, Sane, Remembers

\* ------------------------------------------------------------------------
\* The lease, the receipts, the entries and their setup.

\* A lease that is held after a step was held before it, or is of a job that
\* the flow remembers.
LEMMA NoOrphanKept ==
    ASSUME FInv, FlowsOK', Remembers,
           \A j \in Jobs, f \in Flows :
              lease'[j] = f =>
                 \/ lease[j] = f
                 \/ flow[f] # None /\ flow[f].exec /\ flow[f].job = j
    PROVE  NoOrphanLease'
<1> SUFFICES ASSUME NEW j \in Jobs, NEW f \in Flows, lease'[j] = f
             PROVE  flow'[f] # None /\ flow'[f].job = j /\ flow'[f].exec
  BY DEF NoOrphanLease
<1>1. flow[f] # None /\ flow[f].exec /\ flow[f].job = j
  BY DEF FInv, NoOrphanLease
<1>2. j # None
  BY FinalizerAssumption
<1>3. QED BY <1>1, <1>2 DEF Remembers

LEMMA SettleType ==
    ASSUME RestOK, NEW j, NEW phase \in {"consumed", "recovery"}, Settle(j, phase)
    PROVE  receipt' \in [Jobs -> {"working", "healthy", "consumed", "recovery"}]
  BY DEF RestOK, Settle

LEMMA ConsumedType ==
    ASSUME RestOK, NEW j, Consumed(j)
    PROVE  receipt' \in [Jobs -> {"working", "healthy", "consumed", "recovery"}]
  BY SettleType DEF Consumed, RestOK

\* What the submits do to all but flows and tasks.
LEMMA SubmitRest ==
    ASSUME FInv, NEW t \in Threads, SubmitStep(t) \/ Cancel(t)
    PROVE  /\ RestOK'
           /\ \A j \in Jobs, f \in Flows :
                 lease'[j] = f =>
                   \/ lease[j] = f
                   \/ flow[f] # None /\ flow[f].exec /\ flow[f].job = j
<1>1. CASE ReadReceipt(t) \/ LoadExecutor(t) \/ ProofFails(t) \/ Refuse(t)
           \/ Resume(t)
  BY <1>1 DEF FInv, RestOK, Quiet, ReadReceipt, LoadExecutor, ProofFails,
              Refuse, Resume
<1>2. CASE AcquireLease(t)
  <2>1. /\ task[t] # None /\ OnTheWay(task[t]) /\ task[t].pc = "acquire"
        /\ TaskOK(t) /\ task[t] \in TaskMemory
    BY <1>2 DEF AcquireLease, At, OnTheWay, FInv, TasksOK
  <2>2. /\ flow[t[1]] # None /\ flow[t[1]].exec
        /\ flow[t[1]].job = task[t].job /\ task[t].job \in Jobs
    BY <2>1 DEF TaskOK, TaskMemory
  <2>3. t[1] \in Flows
    BY ThreadParts
  <2>4. lease' = lease \/ lease' = [lease EXCEPT ![task[t].job] = t[1]]
    BY <1>2 DEF AcquireLease
  <2>5. RestOK'
    BY <1>2, <2>2, <2>3, <2>4 DEF AcquireLease, FInv, RestOK
  <2>6. QED BY <2>2, <2>4, <2>5 DEF FInv, RestOK
<1>3. CASE RejectHealthyReceipt(t)
  <2>1. Settle(task[t].job, "recovery") /\ UNCHANGED <<entry, lease, setup, faults>>
    BY <1>3 DEF RejectHealthyReceipt
  <2>2. receipt' \in [Jobs -> {"working", "healthy", "consumed", "recovery"}]
    BY <2>1, SettleType DEF FInv
  <2>3. QED BY <2>1, <2>2 DEF FInv, RestOK
<1>4. CASE EntryAdded(t)
  BY <1>4 DEF FInv, RestOK, Quiet, EntryAdded
<1>5. CASE OnCreateEntry(t)
  <2>1. Consumed(flow[t[1]].job) /\ UNCHANGED <<entry, lease, setup, faults>>
    BY <1>5 DEF OnCreateEntry
  <2>2. receipt' \in [Jobs -> {"working", "healthy", "consumed", "recovery"}]
    BY <2>1, ConsumedType DEF FInv
  <2>3. QED BY <2>1, <2>2 DEF FInv, RestOK
<1>6. ASSUME NEW e \in Entries, CreateEntry(t, e)
      PROVE  RestOK' /\ lease' = lease
  <2>1. task[t].job \in Jobs
    BY <1>6 DEF CreateEntry, At, FInv, TasksOK, TaskMemory
  <2>2. Added(e, task[t].job) /\ UNCHANGED <<receipt, lease, faults>>
    BY <1>6 DEF CreateEntry
  <2>3. QED BY <2>1, <2>2 DEF Added, FInv, RestOK
<1>7. CASE Cancel(t)
  <2>1. /\ UNCHANGED <<entry, lease, setup, faults>>
        /\ \/ UNCHANGED receipt
           \/ Settle(task[t].job, "recovery")
           \/ Consumed(flow[t[1]].job)
    BY <1>7 DEF Cancel
  <2>2. receipt' \in [Jobs -> {"working", "healthy", "consumed", "recovery"}]
    BY <2>1, SettleType, ConsumedType DEF FInv, RestOK
  <2>3. QED BY <2>1, <2>2 DEF FInv, RestOK
<1>8. QED BY <1>1, <1>2, <1>3, <1>4, <1>5, <1>6, <1>7 DEF SubmitStep

\* What the setup of an entry does.
LEMMA SetupRest ==
    ASSUME FInv, NEW e \in Entries,
           StartSetup(e) \/ SetupStep(e) \/ CancelSetup(e) \/ RemoveEntry(e)
    PROVE  /\ RestOK' /\ UNCHANGED <<flow, task>>
           /\ \A j \in Jobs, f \in Flows : lease'[j] = f => lease[j] = f
<1>1. CASE StartSetup(e)
  BY <1>1 DEF StartSetup, FInv, RestOK
<1>2. CASE RemoveEntry(e)
  BY <1>2 DEF RemoveEntry, FInv, RestOK
<1>3. CASE CancelSetup(e)
  BY <1>3, FinalizerAssumption DEF CancelSetup, SetupTo, FInv, RestOK
<1>4. CASE ListReceipts(e)
  BY <1>4, FinalizerAssumption DEF ListReceipts, SetupTo, FInv, RestOK
<1>5. CASE SetupAcquires(e)
  <2>1. setup[e] # None /\ entry[e] \in Jobs
    BY <1>5, FinalizerAssumption DEF SetupAcquires, FInv, RestOK
  <2>2. /\ lease' = lease \/ lease' = [lease EXCEPT ![entry[e]] = e]
        /\ setup' = [setup EXCEPT ![e] = "settle"] \/ setup' = [setup EXCEPT ![e] = None]
        /\ UNCHANGED <<receipt, faults, entry, flow, task>>
    BY <1>5 DEF SetupAcquires, SetupTo
  <2>3. \A f \in Flows : f # e
    BY FinalizerAssumption
  <2>4. RestOK'
    BY <2>1, <2>2 DEF FInv, RestOK
  <2>5. QED BY <2>2, <2>3, <2>4 DEF FInv, RestOK
<1>6. CASE SetupSettles(e)
  <2>1. PICK phase \in {"consumed", "recovery"} : Settle(entry[e], phase)
    BY <1>6 DEF SetupSettles
  <2>2. receipt' \in [Jobs -> {"working", "healthy", "consumed", "recovery"}]
    BY <2>1, SettleType DEF FInv
  <2>3. setup[e] # None
    BY <1>6, FinalizerAssumption DEF SetupSettles
  <2>4. QED BY <1>6, <2>2, <2>3 DEF SetupSettles, SetupTo, FInv, RestOK
<1>7. CASE SetupReleases(e)
  <2>1. lease' = lease \/ lease' = [lease EXCEPT ![entry[e]] = None]
    BY <1>7 DEF SetupReleases, Free
  <2>2. faults' \in 0 .. MaxReleaseFaults
    BY <1>7, FinalizerAssumption DEF SetupReleases, FInv, RestOK
  <2>3. /\ setup' = [setup EXCEPT ![e] = None]
        /\ UNCHANGED <<receipt, entry, flow, task>>
    BY <1>7 DEF SetupReleases, SetupTo
  <2>4. RestOK'
    BY <2>1, <2>2, <2>3 DEF FInv, RestOK
  <2>5. \A f \in Flows : f # None
    BY FinalizerAssumption
  <2>6. QED BY <2>1, <2>3, <2>4, <2>5 DEF FInv, RestOK
<1>8. QED BY <1>1, <1>2, <1>3, <1>4, <1>5, <1>6, <1>7 DEF SetupStep


\* What a flow's own steps do to the rest.
LEMMA FlowStepInv ==
    ASSUME FInv, NEW f \in Flows, OpenFlow(f) \/ RemoveFlow(f) \/ FlowStep(f)
    PROVE  FInv'
<1>1. CASE OpenFlow(f) \/ RemoveFlow(f) \/ FinalizationDone(f)
  <2>1. FlowsOK' /\ TasksOK' /\ Remembers
    BY <1>1, OpenFlowKeeps, RemoveFlowKeeps, FinalizationDoneKeeps DEF FInv
  <2>2. UNCHANGED <<receipt, entry, lease, setup, faults>>
    BY <1>1 DEF OpenFlow, RemoveFlow, FinalizationDone, Quiet
  <2>3. RestOK'
    BY <2>2 DEF FInv, RestOK
  <2>4. NoOrphanLease'
    BY <2>1, <2>2, NoOrphanKept
  <2>5. QED BY <2>1, <2>3, <2>4 DEF FInv
<1>2. CASE RunRelease(f)
  <2>1. /\ FlowsOK' /\ TasksOK'
        /\ Remembers \/ Free(flow[f].release, f)
        /\ flow[f] # None /\ flow[f].job = flow[f].release
        /\ flow'[f] # None /\ \A g \in Flows : g # f => flow'[g] = flow[g]
    BY <1>2, RunReleaseKeeps DEF FInv
  <2> DEFINE j == flow[f].release
  <2>2. Free(j, f) \/ lease' = lease
    BY <1>2 DEF RunRelease
  <2>3. /\ UNCHANGED <<receipt, entry, setup>>
        /\ faults' \in 0 .. MaxReleaseFaults
    BY <1>2, FinalizerAssumption DEF RunRelease, FInv, RestOK
  <2>4. RestOK'
    BY <2>2, <2>3 DEF Free, FInv, RestOK
  <2>5. \A i \in Jobs, g \in Flows : lease'[i] = g => lease[i] = g
    BY <2>2, FinalizerAssumption DEF Free, FInv, RestOK
  <2>6. NoOrphanLease'
    <3>1. CASE Remembers
      BY <2>1, <2>5, <3>1, NoOrphanKept
    <3>2. CASE Free(j, f)
      <4>1. ASSUME NEW i \in Jobs, NEW g \in Flows, lease'[i] = g
            PROVE  flow'[g] # None /\ flow'[g].job = i /\ flow'[g].exec
        <5>1. lease[i] = g /\ flow[g] # None /\ flow[g].job = i /\ flow[g].exec
          BY <2>5, <4>1 DEF FInv, NoOrphanLease
        <5>2. g # f
          BY <2>1, <3>2, <4>1, <5>1, FinalizerAssumption DEF Free, FInv, RestOK
        <5>3. QED BY <2>1, <5>1, <5>2
      <4>2. QED BY <4>1 DEF NoOrphanLease
    <3>3. QED BY <2>1, <3>1, <3>2
  <2>7. QED BY <2>1, <2>4, <2>6 DEF FInv
<1>3. QED BY <1>1, <1>2 DEF FlowStep

LEMMA CrashInv ==
    ASSUME FInv, Crash
    PROVE  FInv'
<1>1. /\ lease' = NoLease /\ flow' = NoFlow /\ task' = NoTask /\ setup' = NoSetup
      /\ faults' = 0 /\ receipt' = receipt /\ entry' = entry
  BY DEF Crash
<1>2. FlowsOK' /\ TasksOK'
  BY <1>1 DEF NoFlow, NoTask, FlowsOK, TasksOK, TaskOK, Threads
<1>3. RestOK'
  BY <1>1, FinalizerAssumption DEF NoLease, NoSetup, FInv, RestOK
<1>4. \A j \in Jobs : \A f \in Flows : lease'[j] # f
  BY <1>1, FinalizerAssumption DEF NoLease
<1>5. QED BY <1>2, <1>3, <1>4 DEF FInv, NoOrphanLease

LEMMA FInvInit ==
    FinInit => FInv
<1> SUFFICES ASSUME FinInit PROVE FInv
  OBVIOUS
<1>1. FlowsOK /\ TasksOK
  BY DEF FinInit, NoFlow, NoTask, FlowsOK, TasksOK, TaskOK, Threads
<1>2. RestOK
  BY FinalizerAssumption DEF FinInit, NoLease, NoSetup, RestOK
<1>3. \A j \in Jobs : \A f \in Flows : lease[j] # f
  BY FinalizerAssumption DEF FinInit, NoLease
<1>4. QED BY <1>1, <1>2, <1>3 DEF FInv, NoOrphanLease

LEMMA FInvStep ==
    FInv /\ [FinNext]_finVars => FInv'
<1> SUFFICES ASSUME FInv, [FinNext]_finVars PROVE FInv'
  OBVIOUS
<1>1. ASSUME NEW t \in Threads, Submit(t)
      PROVE  FInv'
  <2>1. FlowsOK' /\ TasksOK' /\ Remembers
    BY <1>1, SubmitKeeps DEF FInv
  <2>2. UNCHANGED <<receipt, entry, lease, setup, faults>>
    BY <1>1 DEF Submit, Quiet
  <2>3. RestOK'
    BY <2>2 DEF FInv, RestOK
  <2>4. NoOrphanLease'
    BY <2>1, <2>2, NoOrphanKept
  <2>5. QED BY <2>1, <2>3, <2>4 DEF FInv
<1>2. ASSUME NEW t \in Threads, SubmitStep(t) \/ Cancel(t)
      PROVE  FInv'
  <2>1. FlowsOK' /\ TasksOK' /\ Remembers
    BY <1>2, SubmitStepKeeps DEF FInv
  <2>2. /\ RestOK'
        /\ \A j \in Jobs, f \in Flows :
              lease'[j] = f =>
                \/ lease[j] = f
                \/ flow[f] # None /\ flow[f].exec /\ flow[f].job = j
    BY <1>2, SubmitRest
  <2>3. NoOrphanLease'
    BY <2>1, <2>2, NoOrphanKept
  <2>4. QED BY <2>1, <2>2, <2>3 DEF FInv
<1>3. ASSUME NEW f \in Flows, OpenFlow(f) \/ RemoveFlow(f) \/ FlowStep(f)
      PROVE  FInv'
  BY <1>3, FlowStepInv
<1>4. ASSUME NEW e \in Entries,
             StartSetup(e) \/ SetupStep(e) \/ CancelSetup(e) \/ RemoveEntry(e)
      PROVE  FInv'
  <2>1. /\ RestOK' /\ UNCHANGED <<flow, task>>
        /\ \A j \in Jobs, f \in Flows : lease'[j] = f => lease[j] = f
    BY <1>4, SetupRest
  <2>2. FlowsOK' /\ TasksOK' /\ Remembers
    BY <2>1, UnchangedKeeps DEF FInv
  <2>3. NoOrphanLease'
    BY <2>1, <2>2, NoOrphanKept
  <2>4. QED BY <2>1, <2>2, <2>3 DEF FInv
<1>5. ASSUME NEW j \in Jobs,
             JobHealthy(j) \/ \E e \in Entries : ConnectFound(e, j)
      PROVE  FInv'
  <2>1. UNCHANGED <<lease, flow, task, faults>>
    BY <1>5 DEF JobHealthy, ConnectFound
  <2>2. RestOK'
    BY <1>5, <2>1 DEF JobHealthy, ConnectFound, Added, FInv, RestOK
  <2>3. FlowsOK' /\ TasksOK' /\ Remembers
    BY <2>1, UnchangedKeeps DEF FInv
  <2>4. NoOrphanLease'
    BY <2>1, <2>3, NoOrphanKept
  <2>5. QED BY <2>2, <2>3, <2>4 DEF FInv
<1>6. CASE Crash
  BY <1>6, CrashInv
<1>7. CASE UNCHANGED finVars
  <2>1. UNCHANGED <<receipt, entry, lease, flow, task, setup, faults>>
    BY <1>7 DEF finVars
  <2>2. FlowsOK' /\ TasksOK' /\ Remembers
    BY <2>1, UnchangedKeeps DEF FInv
  <2>3. RestOK'
    BY <2>1 DEF FInv, RestOK
  <2>4. NoOrphanLease'
    BY <2>1, <2>2, NoOrphanKept
  <2>5. QED BY <2>2, <2>3, <2>4 DEF FInv
<1>8. QED BY <1>1, <1>2, <1>3, <1>4, <1>5, <1>6, <1>7 DEF FinNext

\* Every reachable state is well formed, whatever submits, removals, hang-ups
\* and failed releases come between (the attributes that config_flow.py keeps of
\* its lease, and the executor's _finalizers).
THEOREM FinTypeCorrect == FinSpec => []FinTypeOK
<1>1. FInv => FinTypeOK
  <2> SUFFICES ASSUME FInv PROVE FinTypeOK
    OBVIOUS
  <2>1. \A t \in Threads : task[t] # None => flow[t[1]] # None
    BY DEF FInv, TasksOK, TaskOK
  <2>2. \A f \in Flows : flow[f] # None =>
          /\ flow[f].owner = None <=> flow[f].job = None
          /\ flow[f].release \in {None, flow[f].job}
    BY DEF FInv, FlowsOK, Sane
  <2>3. QED BY <2>1, <2>2 DEF FInv, FlowsOK, TasksOK, RestOK, FinTypeOK
<1>2. QED BY <1>1, FInvInit, FInvStep, PTL DEF FinSpec

\* A flow that holds a lease knows of it, and has the executor to release it
\* with: no order of submits, hang-ups, removals and failed releases makes
\* config_flow.py forget a lease that the executor still keeps for it.
THEOREM NoOrphanTheorem == FinSpec => []NoOrphanLease
<1>1. FInv => NoOrphanLease
  BY DEF FInv
<1>2. QED BY <1>1, FInvInit, FInvStep, PTL DEF FinSpec

\* Added entries have an address that no other entry has.
LEMMA AddedUnique ==
    ASSUME RestOK, AddressUnique, NEW e \in Entries, NEW j \in Jobs,
           ~Configured(j), Added(e, j)
    PROVE  AddressUnique'
<1>1. entry'[e] = j /\ \A d \in Entries : d # e => entry'[d] = entry[d]
  BY DEF Added, RestOK
<1>2. \A d \in Entries : entry[d] # j
  BY DEF Configured
<1>3. QED BY <1>1, <1>2 DEF AddressUnique

\* Entries of one address never exist twice: both ways to an entry look once
\* more, with no await between the look and the add (_address_is_configured).
THEOREM AddressTheorem == FinSpec => []AddressUnique
<1>1. FinInit => AddressUnique
  BY FinalizerAssumption DEF FinInit, AddressUnique
<1>2. FInv /\ AddressUnique /\ [FinNext]_finVars => AddressUnique'
  <2> SUFFICES ASSUME FInv, AddressUnique, [FinNext]_finVars
               PROVE  AddressUnique'
    OBVIOUS
  <2>1. ASSUME NEW t \in Threads, NEW e \in Entries, CreateEntry(t, e)
        PROVE  AddressUnique'
    <3>1. task[t].job \in Jobs
      BY <2>1 DEF CreateEntry, At, FInv, TasksOK, TaskMemory
    <3>2. ~Configured(task[t].job) /\ Added(e, task[t].job)
      BY <2>1 DEF CreateEntry, MayCreate
    <3>3. QED BY <3>1, <3>2, AddedUnique DEF FInv
  <2>2. ASSUME NEW j \in Jobs, NEW e \in Entries, ConnectFound(e, j)
        PROVE  AddressUnique'
    BY <2>2, AddedUnique DEF ConnectFound, FInv
  <2>3. ASSUME NEW e \in Entries, RemoveEntry(e)
        PROVE  AddressUnique'
    BY <2>3, FinalizerAssumption DEF RemoveEntry, AddressUnique, FInv, RestOK
  <2>4. CASE UNCHANGED entry
    BY <2>4 DEF AddressUnique
  <2>5. ASSUME NEW t \in Threads, Submit(t) \/ SubmitStep(t) \/ Cancel(t)
        PROVE  UNCHANGED entry \/ \E e \in Entries : CreateEntry(t, e)
    BY <2>5 DEF Submit, SubmitStep, Cancel, ReadReceipt, LoadExecutor,
       AcquireLease, ProofFails, Refuse, RejectHealthyReceipt, EntryAdded,
       OnCreateEntry, Resume, Quiet
  <2>6. ASSUME NEW f \in Flows, OpenFlow(f) \/ RemoveFlow(f) \/ FlowStep(f)
        PROVE  UNCHANGED entry
    BY <2>6 DEF OpenFlow, RemoveFlow, FlowStep, FinalizationDone, RunRelease, Quiet
  <2>7. ASSUME NEW e \in Entries, StartSetup(e) \/ SetupStep(e) \/ CancelSetup(e)
        PROVE  UNCHANGED entry
    BY <2>7 DEF StartSetup, SetupStep, CancelSetup, ListReceipts, SetupAcquires,
       SetupSettles, SetupReleases, SetupTo
  <2>8. CASE Crash \/ UNCHANGED finVars
    BY <2>4, <2>8 DEF Crash, finVars
  <2>9. ASSUME NEW j \in Jobs, JobHealthy(j)
        PROVE  UNCHANGED entry
    BY <2>9 DEF JobHealthy
  <2>10. QED
    BY <2>1, <2>2, <2>3, <2>4, <2>5, <2>6, <2>7, <2>8, <2>9 DEF FinNext
<1>3. QED BY <1>1, <1>2, FInvInit, FInvStep, PTL DEF FinSpec


\* ------------------------------------------------------------------------
\* The lease while a submit uses it.  A cancelled submit may release the lease
\* of another submit of its flow; what follows is about flows that have one
\* submit at a time, and about submits that nobody cancels.

Single == \A s, u \in Submits : s = u

Calm == Single \/ ~Interruptions

WorkPcs == {"prove", "reject", "adding", "created"}

Owning(t) == task[t] # None /\ task[t].pc \in {"executor", "acquire"} \cup WorkPcs

\* From its reserve on a submit is the owner of the lease of its flow, and
\* nothing releases that lease.
Claim(t) ==
    Owning(t) => /\ flow[t[1]].owner = t[2]
                 /\ flow[t[1]].job = task[t].job
                 /\ flow[t[1]].release = None

Claims == \A t \in Threads : Claim(t)

\* What is being proved is a receipt that is still healthy.
ProvenHealthy ==
    \A t \in Threads :
        task[t] # None /\ task[t].pc \in {"prove", "reject"} =>
            receipt[task[t].job] = "healthy"

\* The setup of an entry settles, and releases, under the lease.
SetupHolds ==
    \A e \in Entries :
        setup[e] \in {"settle", "release"} => lease[entry[e]] = e

LInv == FInv /\ Claims /\ ProvenUnderLease /\ ProvenHealthy /\ SetupHolds

\* No submit begins to work.
NoNewWork ==
    \A u \in Threads :
        \/ task'[u] = task[u]
        \/ task'[u] = None
        \/ task'[u].pc \notin WorkPcs

\* This submit does not work any more.
Stopped(t) == task'[t] = None \/ task'[t].pc = "release"

LEMMA OneOwner ==
    ASSUME Claims, NEW t \in Threads, NEW u \in Threads, u[1] = t[1],
           Owning(t), Owning(u)
    PROVE  u = t
  BY ThreadParts DEF Claims, Claim

\* A submit that leaves takes no claim but its own along.
LEMMA LeavingClaims ==
    ASSUME FlowsOK, TasksOK, Claims, NEW t \in Threads, task[t] # None,
           NEW v, Gone(t, v) \/ Waits(t, v),
           Spares(t[2], flow[t[1]], v) \/ Owning(t) \/ Single
    PROVE  Claims' /\ NoNewWork /\ Stopped(t)
<1>1. t[1] \in Flows /\ t[2] \in Submits /\ TaskOK(t) /\ task[t] \in TaskMemory
  BY ThreadParts DEF TasksOK
<1>2. flow'[t[1]] = v /\ \A g \in Flows : g # t[1] => flow'[g] = flow[g]
  BY <1>1 DEF Gone, Waits, FlowsOK
<1>3. /\ \A u \in Threads : u # t => task'[u] = task[u]
      /\ task'[t] = None \/ task'[t].pc = "release"
  <2>1. CASE Gone(t, v)
    BY <2>1 DEF Gone, TasksOK
  <2>2. CASE Waits(t, v)
    <3>1. PICK n \in Nexts :
             task' = [task EXCEPT ![t].pc = "release", ![t].next = n]
      BY <2>2 DEF Waits
    <3>2. task'[t] = [task[t] EXCEPT !.pc = "release", !.next = n]
      BY <3>1 DEF TasksOK
    <3>3. task'[t].pc = "release"
      BY <1>1, <3>2 DEF TaskMemory
    <3>4. \A u \in Threads : u # t => task'[u] = task[u]
      BY <3>1 DEF TasksOK
    <3>5. QED BY <3>3, <3>4
  <2>3. QED BY <2>1, <2>2
<1>4. NoNewWork
  BY <1>3 DEF NoNewWork, WorkPcs
<1>5. ASSUME NEW u \in Threads, Owning(u)'
      PROVE  Claim(u)'
  <2>1. u # t /\ task'[u] = task[u] /\ Owning(u)
    BY <1>3, <1>5 DEF Owning, WorkPcs
  <2>2. u[1] \in Flows /\ u[2] \in Submits /\ Claim(u)
    BY ThreadParts DEF Claims
  <2>3. CASE u[1] # t[1]
    BY <1>2, <2>1, <2>2, <2>3 DEF Claim
  <2>4. CASE u[1] = t[1]
    <3>1. u[2] # t[2]
      BY <2>1, <2>4, ThreadParts
    <3>2. ~Owning(t) /\ ~Single
      BY <1>1, <2>1, <2>2, <2>4, <3>1, OneOwner DEF Single
    <3>3. Spares(t[2], flow[t[1]], v)
      BY <3>2
    <3>4. v.owner = u[2] /\ v.job = task[u].job /\ v.release = None
      BY <2>1, <2>2, <2>4, <3>1, <3>3 DEF Claim, Spares
    <3>5. QED BY <1>2, <2>1, <2>4, <3>4 DEF Claim
  <2>5. QED BY <2>3, <2>4
<1>6. Claims'
  BY <1>5 DEF Claims, Claim
<1>7. QED BY <1>3, <1>4, <1>6 DEF Stopped

LEMMA EndsClaims ==
    ASSUME FlowsOK, TasksOK, Claims, NEW t \in Threads, task[t] # None, NEW n,
           EndsBy(t, n, flow[t[1]]) \/ Ends(t, flow[t[1]]) \/ Closes(t, flow[t[1]])
    PROVE  Claims' /\ NoNewWork /\ Stopped(t)
<1>1. t[1] \in Flows /\ TaskOK(t)
  BY ThreadParts DEF TasksOK
<1>2. Sane(flow[t[1]])
  BY <1>1 DEF TaskOK, FlowsOK
<1>3. PICK v : /\ Gone(t, v) /\ Leaves(t[2], flow[t[1]], v)
               /\ Spares(t[2], flow[t[1]], v)
  BY <1>2, EndsShape, ClosesShape, EndsByShape
<1>4. QED BY <1>3, LeavingClaims

LEMMA LetsGoClaims ==
    ASSUME FlowsOK, TasksOK, Claims, NEW t \in Threads, task[t] # None,
           Owning(t) \/ Single \/ flow[t[1]].owner = "done",
           NEW n \in Nexts, LetsGo(t, n, flow[t[1]])
    PROVE  Claims' /\ NoNewWork /\ Stopped(t)
<1>1. t[1] \in Flows /\ TaskOK(t)
  BY ThreadParts DEF TasksOK
<1>2. Sane(flow[t[1]])
  BY <1>1 DEF TaskOK, FlowsOK
<1>3. PICK v : (Gone(t, v) \/ Waits(t, v)) /\ Leaves(t[2], flow[t[1]], v)
  BY <1>2, LetsGoShape
<1>4. Spares(t[2], flow[t[1]], v) \/ Owning(t) \/ Single
  BY FinalizerAssumption DEF Spares
<1>5. QED BY <1>3, <1>4, LeavingClaims

\* The submit that reserves is the only owner.
LEMMA ReserveClaims ==
    ASSUME FlowsOK, TasksOK, Claims, NEW t \in Threads, task[t] # None,
           flow[t[1]].job = None, Reserve(t, flow[t[1]])
    PROVE  Claims' /\ NoNewWork
<1> DEFINE w == flow[t[1]]
           pc == IF w.exec THEN "acquire" ELSE "executor"
           v == [w EXCEPT !.job = task[t].job, !.owner = t[2], !.retried = FALSE]
<1>1. t[1] \in Flows /\ t[2] \in Submits /\ TaskOK(t) /\ task[t] \in TaskMemory
  BY ThreadParts DEF TasksOK
<1>2. w # None /\ Sane(w) /\ w \in FlowMemory
  BY <1>1 DEF TaskOK, FlowsOK, Sane
<1>3. w.owner = None /\ w.release = None
  BY <1>2 DEF Sane
<1>4. v.owner = t[2] /\ v.job = task[t].job /\ v.release = None
  BY <1>2, <1>3 DEF FlowMemory
<1>5. flow' = [flow EXCEPT ![t[1]] = v] /\ task' = [task EXCEPT ![t].pc = pc]
  BY DEF Reserve, Go
<1> HIDE DEF v, pc
<1>6. flow'[t[1]] = v /\ \A g \in Flows : g # t[1] => flow'[g] = flow[g]
  BY <1>1, <1>5 DEF FlowsOK
<1>7. /\ \A u \in Threads : u # t => task'[u] = task[u]
      /\ task'[t] = [task[t] EXCEPT !.pc = pc]
  BY <1>5 DEF TasksOK
<1>8. task'[t].pc = pc /\ task'[t].job = task[t].job
  BY <1>1, <1>7 DEF TaskMemory
<1>9. NoNewWork
  BY <1>7, <1>8 DEF NoNewWork, WorkPcs, pc
<1>10. ASSUME NEW u \in Threads, Owning(u)'
       PROVE  Claim(u)'
  <2>1. CASE u = t
    BY <1>4, <1>6, <1>8, <2>1 DEF Claim
  <2>2. CASE u # t
    <3>1. Owning(u) /\ task'[u] = task[u] /\ Claim(u) /\ u[1] \in Flows /\ u[2] \in Submits
      BY <1>7, <1>10, <2>2, ThreadParts DEF Owning, Claims
    <3>2. u[1] # t[1]
      BY <1>3, <3>1, FinalizerAssumption DEF Claim
    <3>3. QED BY <1>6, <3>1, <3>2 DEF Claim
  <2>3. QED BY <2>1, <2>2
<1>11. QED BY <1>9, <1>10 DEF Claims, Claim

\* A submit goes on; its claim stays as it is.
LEMMA GoesClaims ==
    ASSUME FlowsOK, TasksOK, Claims, NEW t \in Threads, Owning(t),
           NEW v, v.owner = flow[t[1]].owner, v.job = flow[t[1]].job,
           v.release = flow[t[1]].release,
           NEW x, x.job = task[t].job, Sets(t, x, v)
    PROVE  Claims'
<1>1. t[1] \in Flows /\ Claim(t)
  BY ThreadParts DEF Claims
<1>2. flow'[t[1]] = v /\ \A g \in Flows : g # t[1] => flow'[g] = flow[g]
  BY <1>1 DEF Sets, FlowsOK
<1>3. task'[t] = x /\ \A u \in Threads : u # t => task'[u] = task[u]
  BY DEF Sets, TasksOK
<1>4. ASSUME NEW u \in Threads, Owning(u)'
      PROVE  Claim(u)'
  <2>1. CASE u = t
    BY <1>1, <1>2, <1>3, <2>1 DEF Claim
  <2>2. CASE u # t
    <3>1. Owning(u) /\ task'[u] = task[u] /\ Claim(u) /\ u[1] \in Flows
      BY <1>3, <1>4, <2>2, ThreadParts DEF Owning, Claims
    <3>2. u[1] # t[1]
      BY <2>2, <3>1, OneOwner
    <3>3. QED BY <1>2, <3>1, <3>2 DEF Claim
  <2>3. QED BY <2>1, <2>2
<1>5. QED BY <1>4 DEF Claims, Claim


\* ------------------------------------------------------------------------
\* Each step of a submit, for the claims and the work.

\* What a move of the submit alone leaves alone.
LEMMA GoFacts ==
    ASSUME TasksOK, NEW t \in Threads, task[t] # None, NEW pc \in Pcs, NEW v,
           Go(t, pc, v)
    PROVE  \E x : /\ x.pc = pc /\ x.job = task[t].job /\ Sets(t, x, v)
                  /\ task'[t] = x /\ \A u \in Threads : u # t => task'[u] = task[u]
<1> DEFINE x == [task[t] EXCEPT !.pc = pc]
<1>1. task[t] \in TaskMemory
  BY DEF TasksOK
<1>2. x.pc = pc /\ x.job = task[t].job
  BY <1>1 DEF TaskMemory
<1>3. task' = [task EXCEPT ![t] = x] /\ flow' = [flow EXCEPT ![t[1]] = v]
  BY DEF Go, TasksOK
<1> HIDE DEF x
<1>4. task'[t] = x /\ \A u \in Threads : u # t => task'[u] = task[u]
  BY <1>3 DEF TasksOK
<1>5. QED BY <1>2, <1>3, <1>4 DEF Sets

LEMMA ReadReceiptClaims ==
    ASSUME FlowsOK, TasksOK, Claims, NEW t \in Threads, ReadReceipt(t)
    PROVE  Claims' /\ NoNewWork
<1> DEFINE w == flow[t[1]]
<1>1. task[t] # None /\ t[1] \in Flows /\ TaskOK(t)
  BY ThreadParts DEF TasksOK, ReadReceipt, At
<1>2. Sane(w)
  BY <1>1 DEF TaskOK, FlowsOK
<1>3. Ends(t, w) \/ Closes(t, w) \/ Enter(t, w)
  BY DEF ReadReceipt
<1>4. CASE Ends(t, w) \/ Closes(t, w)
  BY <1>1, <1>4, EndsClaims
<1>5. CASE Enter(t, w)
  <2>1. \/ Ends(t, w) \/ Closes(t, w)
        \/ w.owner = None /\ Reserve(t, w)
        \/ w.owner = "done" /\ LetsGo(t, "enter", w)
    <3>1. w.state \in {"open", "removed"} /\ w.owner \in Submits \cup {"done", None}
      BY <1>2 DEF Sane, FlowMemory
    <3>2. QED BY <1>5, <3>1, FinalizerAssumption DEF Enter
  <2>2. CASE w.owner = None /\ Reserve(t, w)
    <3>1. w.job = None
      BY <1>2, <2>2 DEF Sane
    <3>2. QED BY <1>1, <2>2, <3>1, ReserveClaims
  <2>3. CASE w.owner = "done" /\ LetsGo(t, "enter", w)
    BY <1>1, <2>3, LetsGoClaims DEF Nexts
  <2>4. QED BY <1>1, <2>1, <2>2, <2>3, EndsClaims
<1>6. QED BY <1>3, <1>4, <1>5

LEMMA ResumeClaims ==
    ASSUME FlowsOK, TasksOK, Claims, NEW t \in Threads, Resume(t)
    PROVE  Claims' /\ NoNewWork
<1> DEFINE w == flow[t[1]]
<1>1. task[t] # None
  BY DEF Resume, At
<1>2. \/ EndsBy(t, task[t].next, w) \/ Ends(t, w) \/ Closes(t, w)
      \/ w.job = None /\ Reserve(t, w)
  BY DEF Resume
<1>3. QED BY <1>1, <1>2, EndsClaims, ReserveClaims

LEMMA LoadExecutorClaims ==
    ASSUME FlowsOK, TasksOK, Claims, NEW t \in Threads, LoadExecutor(t)
    PROVE  Claims' /\ NoNewWork
<1> DEFINE w == flow[t[1]]
           v == [w EXCEPT !.exec = TRUE]
<1>1. task[t] # None /\ Owning(t) /\ "form" \in Nexts /\ "acquire" \in Pcs
  BY DEF LoadExecutor, At, Nexts, Owning, Pcs
<1>2. CASE LetsGo(t, "form", w)
  BY <1>1, <1>2, LetsGoClaims
<1>3. CASE Go(t, "acquire", v)
  <2>1. w \in FlowMemory
    BY <1>1, ThreadParts DEF TasksOK, TaskOK, FlowsOK, Sane
  <2>2. v.owner = w.owner /\ v.job = w.job /\ v.release = w.release
    BY <2>1 DEF FlowMemory
  <2> HIDE DEF v
  <2>3. PICK x : /\ x.pc = "acquire" /\ x.job = task[t].job /\ Sets(t, x, v)
                 /\ task'[t] = x
                 /\ \A u \in Threads : u # t => task'[u] = task[u]
    BY <1>1, <1>3, GoFacts
  <2>4. Claims'
    BY <1>1, <2>2, <2>3, GoesClaims
  <2>5. NoNewWork
    BY <2>3 DEF NoNewWork, WorkPcs
  <2>6. QED BY <2>4, <2>5
<1>4. QED BY <1>2, <1>3 DEF LoadExecutor

\* Submits at work after the step were at work before it, except that t may be.
WorkOnlyOf(t) ==
    \A u \in Threads : u # t => task'[u] = task[u]

LEMMA GoOnClaims ==
    ASSUME FlowsOK, TasksOK, Claims, NEW t \in Threads, Owning(t),
           NEW pc \in WorkPcs, Go(t, pc, flow[t[1]])
    PROVE  /\ Claims' /\ WorkOnlyOf(t)
           /\ task'[t].pc = pc /\ task'[t].job = task[t].job
<1>1. task[t] # None /\ pc \in Pcs
  BY DEF Owning, WorkPcs, Pcs
<1>2. PICK x : /\ x.pc = pc /\ x.job = task[t].job /\ Sets(t, x, flow[t[1]])
               /\ task'[t] = x /\ \A u \in Threads : u # t => task'[u] = task[u]
  BY <1>1, GoFacts
<1>3. Claims'
  BY <1>2, GoesClaims
<1>4. QED BY <1>2, <1>3 DEF WorkOnlyOf

LEMMA AcquireLeaseClaims ==
    ASSUME FlowsOK, TasksOK, Claims, NEW t \in Threads, AcquireLease(t)
    PROVE  /\ Claims'
           /\ \/ NoNewWork
              \/ /\ WorkOnlyOf(t) /\ task'[t].pc = "prove"
                 /\ task'[t].job = task[t].job
                 /\ Grantable(task[t].job, t[1])
                 /\ lease' = [lease EXCEPT ![task[t].job] = t[1]]
<1>1. /\ task[t] # None /\ Owning(t) /\ "form" \in Nexts /\ "abort" \in Nexts
      /\ "prove" \in WorkPcs
  BY DEF AcquireLease, At, Nexts, Owning, WorkPcs
<1>2. \/ LetsGo(t, "abort", flow[t[1]]) \/ LetsGo(t, "form", flow[t[1]])
      \/ /\ Go(t, "prove", flow[t[1]]) /\ Grantable(task[t].job, t[1])
         /\ lease' = [lease EXCEPT ![task[t].job] = t[1]]
  BY DEF AcquireLease
<1>3. QED BY <1>1, <1>2, LetsGoClaims, GoOnClaims

LEMMA ProofClaims ==
    ASSUME FlowsOK, TasksOK, Claims, NEW t \in Threads,
           ProofFails(t) \/ Refuse(t) \/ RejectHealthyReceipt(t) \/ EntryAdded(t)
    PROVE  /\ Claims'
           /\ RejectHealthyReceipt(t) => NoNewWork /\ Stopped(t)
           /\ \/ NoNewWork
              \/ /\ WorkOnlyOf(t) /\ task'[t].job = task[t].job
                 /\ task[t] # None /\ task[t].pc \in {"prove", "adding"}
                 /\ task'[t].pc = "reject" => task[t].pc = "prove"
                 /\ task'[t].pc \in {"reject", "created"}
<1>1. /\ task[t] # None /\ Owning(t) /\ "form" \in Nexts /\ "abort" \in Nexts
      /\ "reject" \in WorkPcs /\ "created" \in WorkPcs
  BY DEF ProofFails, Refuse, RejectHealthyReceipt, EntryAdded, At, Nexts,
         Owning, WorkPcs
<1>2. CASE LetsGo(t, "abort", flow[t[1]]) \/ LetsGo(t, "form", flow[t[1]])
  BY <1>1, <1>2, LetsGoClaims
<1>3. CASE Go(t, "reject", flow[t[1]]) /\ At(t, "prove")
  <2>1. ~RejectHealthyReceipt(t)
    BY <1>3 DEF RejectHealthyReceipt, At
  <2>2. QED BY <1>1, <1>3, <2>1, GoOnClaims DEF At
<1>4. CASE Go(t, "created", flow[t[1]]) /\ At(t, "adding")
  <2>1. ~RejectHealthyReceipt(t)
    BY <1>4 DEF RejectHealthyReceipt, At
  <2>2. QED BY <1>1, <1>4, <2>1, GoOnClaims DEF At
<1>5. QED BY <1>2, <1>3, <1>4
          DEF ProofFails, Refuse, RejectHealthyReceipt, EntryAdded

LEMMA CreateEntryClaims ==
    ASSUME FlowsOK, TasksOK, Claims, NEW t \in Threads, NEW e \in Entries,
           CreateEntry(t, e)
    PROVE  /\ Claims' /\ WorkOnlyOf(t)
           /\ task[t] # None /\ task[t].pc = "prove"
           /\ task'[t].pc = "adding" /\ task'[t].job = task[t].job
<1> DEFINE y == [task[t] EXCEPT !.pc = "adding"]
           x == [y EXCEPT !.entry = e]
<1>1. /\ task[t] # None /\ task[t].pc = "prove" /\ Owning(t)
      /\ TaskOK(t) /\ task[t] \in TaskMemory
  BY DEF CreateEntry, At, TasksOK, Owning, WorkPcs
<1>2. x.pc = "adding" /\ x.job = task[t].job
  BY <1>1 DEF TaskMemory
<1>3. task' = [task EXCEPT ![t] = x]
  BY DEF CreateEntry, TasksOK
<1>4. flow' = [flow EXCEPT ![t[1]] = flow[t[1]]]
  BY ThreadParts DEF CreateEntry, FlowsOK
<1> HIDE DEF x
<1>5. Sets(t, x, flow[t[1]])
  BY <1>3, <1>4 DEF Sets
<1>6. Claims'
  BY <1>1, <1>2, <1>5, GoesClaims
<1>7. task'[t] = x /\ WorkOnlyOf(t)
  BY <1>3 DEF TasksOK, WorkOnlyOf
<1>8. QED BY <1>1, <1>2, <1>6, <1>7

LEMMA OnCreateEntryClaims ==
    ASSUME FlowsOK, TasksOK, Claims, NEW t \in Threads, OnCreateEntry(t)
    PROVE  Claims' /\ NoNewWork /\ Stopped(t)
<1>1. task[t] # None /\ Owning(t) /\ "finish" \in Nexts
  BY DEF OnCreateEntry, At, Nexts, Owning, WorkPcs
<1>2. Closes(t, flow[t[1]]) \/ LetsGo(t, "finish", flow[t[1]])
  BY DEF OnCreateEntry
<1>3. QED BY <1>1, <1>2, LetsGoClaims, EndsClaims

\* Where two submits of a flow run at once, nobody is cancelled.
LEMMA CancelClaims ==
    ASSUME Calm, FlowsOK, TasksOK, Claims, NEW t \in Threads, Cancel(t)
    PROVE  Claims' /\ NoNewWork /\ Stopped(t)
<1> DEFINE w == flow[t[1]]
           z == Releasing(w)
<1>1. task[t] # None /\ TaskOK(t) /\ "raise" \in Nexts /\ Single
  BY DEF Cancel, TasksOK, Nexts, Calm
<1>2. Sane(w)
  BY <1>1, ThreadParts DEF TaskOK, FlowsOK
<1>3. Ends(t, w) \/ Ends(t, z) \/ LetsGo(t, "raise", w)
  BY DEF Cancel
<1>4. CASE Ends(t, z)
  <2>1. Sane(z)
    BY <1>2, ReleasingFields
  <2> HIDE DEF z
  <2>2. PICK v : Gone(t, v)
    BY <1>4, <2>1, EndsShape
  <2>3. QED BY <1>1, <2>2, LeavingClaims
<1>5. QED BY <1>1, <1>3, <1>4, EndsClaims, LetsGoClaims


\* A step that sets the memory of one flow keeps the claims, if it leaves the
\* claim of a submit alone; submits may be told that their release has ended.
LEMMA FlowClaims ==
    ASSUME FlowsOK, TasksOK, Claims, NEW f \in Flows, NEW v,
           flow' = [flow EXCEPT ![f] = v],
           \A u \in Threads : task'[u] = task[u] \/ task'[u] = None
                              \/ ~Owning(u)',
           \A u \in Threads : u[1] = f /\ Owning(u) =>
              /\ v.owner = flow[f].owner /\ v.job = flow[f].job
              /\ v.release = None
    PROVE  Claims'
<1>1. flow'[f] = v /\ \A g \in Flows : g # f => flow'[g] = flow[g]
  BY DEF FlowsOK
<1>2. ASSUME NEW u \in Threads, Owning(u)'
      PROVE  Claim(u)'
  <2>1. task'[u] = task[u] /\ Owning(u) /\ Claim(u) /\ u[1] \in Flows
    BY <1>2, ThreadParts DEF Owning, Claims
  <2>2. CASE u[1] = f
    BY <1>1, <2>1, <2>2 DEF Claim
  <2>3. CASE u[1] # f
    BY <1>1, <2>1, <2>3 DEF Claim
  <2>4. QED BY <2>2, <2>3
<1>3. QED BY <1>2 DEF Claims, Claim

LEMMA FlowStepClaims ==
    ASSUME FlowsOK, TasksOK, Claims, NEW f \in Flows,
           OpenFlow(f) \/ RemoveFlow(f) \/ FlowStep(f)
    PROVE  Claims' /\ NoNewWork
<1>1. CASE OpenFlow(f)
  <2>1. PICK v : flow' = [flow EXCEPT ![f] = v]
    BY <1>1 DEF OpenFlow
  <2>2. task' = task /\ flow[f] = None
    BY <1>1 DEF OpenFlow
  <2>3. \A u \in Threads : u[1] = f => ~Owning(u)
    BY <2>2 DEF TasksOK, TaskOK, Owning
  <2>4. QED BY <2>1, <2>2, <2>3, FlowClaims DEF NoNewWork
<1>2. CASE RemoveFlow(f)
  <2> DEFINE v == Removed(flow[f])
  <2>1. flow[f] # None /\ flow' = [flow EXCEPT ![f] = v] /\ task' = task
    BY <1>2 DEF RemoveFlow
  <2>2. Sane(flow[f])
    BY <2>1 DEF FlowsOK
  <2>3. /\ v.job = flow[f].job /\ v.owner = flow[f].owner
        /\ flow[f].owner \in Submits => v.release = flow[f].release
    BY <2>2, RemovedFields
  <2> HIDE DEF v
  <2>4. ASSUME NEW u \in Threads, u[1] = f, Owning(u)
        PROVE  /\ v.owner = flow[f].owner /\ v.job = flow[f].job
               /\ v.release = None
    BY <2>3, <2>4, ThreadParts DEF Claims, Claim
  <2>5. QED BY <2>1, <2>4, FlowClaims DEF NoNewWork
<1>3. CASE FinalizationDone(f)
  <2> DEFINE v == Releasing(flow[f])
  <2>1. flow' = [flow EXCEPT ![f] = v] /\ task' = task /\ flow[f].owner = "done"
    BY <1>3 DEF FinalizationDone
  <2> HIDE DEF v
  <2>2. \A u \in Threads : u[1] = f => ~Owning(u)
    BY <2>1, ThreadParts, FinalizerAssumption DEF Claims, Claim
  <2>3. QED BY <2>1, <2>2, FlowClaims DEF NoNewWork
<1>4. CASE RunRelease(f)
  <2>1. /\ flow[f].release # None
        /\ \E v : flow' = [flow EXCEPT ![f] = v]
        /\ \E how \in {"released", "unreleased"} : Tell(f, how)
    BY <1>4 DEF RunRelease
  <2>2. PICK v : flow' = [flow EXCEPT ![f] = v]
    BY <2>1
  <2>3. PICK how \in {"released", "unreleased"} : Tell(f, how)
    BY <2>1
  <2>4. \A u \in Threads : task'[u] = task[u] \/ task'[u].pc = how
    BY <2>3, TellKeeps
  <2>5. NoNewWork
    BY <2>4 DEF NoNewWork, WorkPcs
  <2>6. \A u \in Threads : task'[u] = task[u] \/ task'[u] = None \/ ~Owning(u)'
    BY <2>4 DEF Owning, WorkPcs
  <2>7. \A u \in Threads : u[1] = f => ~Owning(u)
    BY <2>1 DEF Claims, Claim
  <2>8. QED BY <2>2, <2>5, <2>6, <2>7, FlowClaims
<1>5. QED BY <1>1, <1>2, <1>3, <1>4 DEF FlowStep

LEMMA SubmitClaims ==
    ASSUME FlowsOK, TasksOK, Claims, NEW t \in Threads, Submit(t)
    PROVE  Claims' /\ NoNewWork
<1>1. PICK j \in Jobs : task' = [task EXCEPT ![t] = NewTask(j, "read")]
  BY DEF Submit
<1>2. task'[t].pc = "read" /\ \A u \in Threads : u # t => task'[u] = task[u]
  BY <1>1 DEF NewTask, TasksOK
<1>3. flow' = flow
  BY DEF Submit
<1>4. ASSUME NEW u \in Threads, Owning(u)'
      PROVE  Claim(u)'
  <2>1. u # t
    BY <1>2, <1>4 DEF Owning, WorkPcs
  <2>2. QED BY <1>2, <1>3, <1>4, <2>1 DEF Owning, Claims, Claim
<1>5. QED BY <1>2, <1>4 DEF Claims, Claim, NoNewWork, WorkPcs

LEMMA UnchangedClaims ==
    ASSUME Claims, UNCHANGED <<flow, task>>
    PROVE  Claims' /\ NoNewWork
  BY DEF Claims, Claim, Owning, NoNewWork

\* ------------------------------------------------------------------------
\* The lease and the receipts under it.

\* Nobody else works on the job of a submit that works.
LEMMA OneWorker ==
    ASSUME Claims, ProvenUnderLease, NEW t \in Threads, NEW u \in Threads,
           NEW j \in Jobs, Working(t, j), Working(u, j)
    PROVE  u = t
  BY OneOwner DEF ProvenUnderLease, Working, Owning, WorkPcs

\* Work that was not begun in a step goes on under the lease.
LEMMA LeaseKept ==
    ASSUME TasksOK, ProvenUnderLease, NoNewWork,
           \A t \in Threads, j \in Jobs : Working(t, j) => lease'[j] = lease[j]
    PROVE  ProvenUnderLease'
<1> SUFFICES ASSUME NEW t \in Threads, NEW j \in Jobs, Working(t, j)'
             PROVE  lease'[j] = t[1]
  BY DEF ProvenUnderLease
<1>1. task'[t] = task[t]
  BY DEF NoNewWork, Working, WorkPcs
<1>2. Working(t, j)
  BY <1>1 DEF Working
<1>3. QED BY <1>2 DEF ProvenUnderLease

\* The same for one submit that goes on with its work.
LEMMA LeaseKeptOnward ==
    ASSUME TasksOK, ProvenUnderLease, NEW t \in Threads, WorkOnlyOf(t),
           task[t] # None, task[t].pc \in WorkPcs, task'[t].job = task[t].job,
           lease' = lease
    PROVE  ProvenUnderLease'
<1> SUFFICES ASSUME NEW u \in Threads, NEW j \in Jobs, Working(u, j)'
             PROVE  lease'[j] = u[1]
  BY DEF ProvenUnderLease
<1>1. Working(u, j)
  BY DEF Working, WorkOnlyOf, WorkPcs
<1>2. QED BY <1>1 DEF ProvenUnderLease

\* What is proved stays healthy where no receipt of a job at work is settled.
LEMMA HealthyKept ==
    ASSUME ProvenHealthy,
           \A u \in Threads :
              task'[u] # None /\ task'[u].pc \in {"prove", "reject"} =>
                 /\ task[u] # None /\ task[u].pc \in {"prove", "reject"}
                 /\ task'[u].job = task[u].job
                 /\ receipt[task[u].job] = "healthy" =>
                       receipt'[task[u].job] = "healthy"
    PROVE  ProvenHealthy'
  BY DEF ProvenHealthy

LEMMA HealthyKeptQuietly ==
    ASSUME ProvenHealthy, NoNewWork,
           \A j \in Jobs : receipt[j] = "healthy" => receipt'[j] = "healthy",
           TasksOK
    PROVE  ProvenHealthy'
<1>1. ASSUME NEW u \in Threads, task'[u] # None,
             task'[u].pc \in {"prove", "reject"}
      PROVE  /\ task[u] # None /\ task[u].pc \in {"prove", "reject"}
             /\ task'[u].job = task[u].job /\ task[u].job \in Jobs
  <2>1. task'[u] = task[u]
    BY <1>1 DEF NoNewWork, WorkPcs
  <2>2. QED BY <1>1, <2>1 DEF TasksOK, TaskMemory
<1>2. QED BY <1>1, HealthyKept


\* A submit that has the lease settles its receipt and stops.
LEMMA SettledByWorker ==
    ASSUME TasksOK, Claims, ProvenUnderLease, ProvenHealthy,
           NEW t \in Threads, NEW j \in Jobs, Working(t, j), NoNewWork, Stopped(t),
           \A i \in Jobs : i # j => receipt'[i] = receipt[i]
    PROVE  ProvenHealthy'
<1>1. ASSUME NEW u \in Threads, task'[u] # None,
             task'[u].pc \in {"prove", "reject"}
      PROVE  /\ task[u] # None /\ task[u].pc \in {"prove", "reject"}
             /\ task'[u].job = task[u].job
             /\ receipt[task[u].job] = "healthy" =>
                   receipt'[task[u].job] = "healthy"
  <2>1. task'[u] = task[u] /\ u # t
    BY <1>1 DEF NoNewWork, WorkPcs, Stopped
  <2>2. task[u].job \in Jobs /\ Working(u, task[u].job)
    BY <1>1, <2>1 DEF TasksOK, TaskMemory, Working
  <2>3. task[u].job # j
    BY <2>1, <2>2, OneWorker
  <2>4. QED BY <1>1, <2>1, <2>2, <2>3
<1>2. QED BY <1>1, HealthyKept

\* Which receipts the submits settle.
LEMMA SubmitSettles ==
    ASSUME FInv, Claims, NEW t \in Threads, SubmitStep(t) \/ Cancel(t)
    PROVE  \/ UNCHANGED receipt
           \/ \E j \in Jobs :
                 /\ Working(t, j) /\ task[t].pc # "prove"
                 /\ \A i \in Jobs : i # j => receipt'[i] = receipt[i]
                 /\ RejectHealthyReceipt(t) \/ OnCreateEntry(t) \/ Cancel(t)
<1>1. ASSUME NEW j \in Jobs, NEW phase, Settle(j, phase)
      PROVE  UNCHANGED receipt \/ \A i \in Jobs : i # j => receipt'[i] = receipt[i]
  BY <1>1 DEF Settle, FInv, RestOK
<1>2. task[t] # None => task[t].job \in Jobs
  BY DEF FInv, TasksOK, TaskMemory
<1>3. CASE RejectHealthyReceipt(t)
  <2>1. At(t, "reject") /\ Settle(task[t].job, "recovery")
    BY <1>3 DEF RejectHealthyReceipt
  <2>2. Working(t, task[t].job) /\ task[t].pc # "prove" /\ task[t].job \in Jobs
    BY <1>2, <2>1 DEF At, Working
  <2>3. QED BY <1>1, <1>3, <2>1, <2>2
<1>4. ASSUME At(t, "created"), Consumed(flow[t[1]].job), OnCreateEntry(t) \/ Cancel(t)
      PROVE  \/ UNCHANGED receipt
             \/ \E j \in Jobs :
                   /\ Working(t, j) /\ task[t].pc # "prove"
                   /\ \A i \in Jobs : i # j => receipt'[i] = receipt[i]
                   /\ RejectHealthyReceipt(t) \/ OnCreateEntry(t) \/ Cancel(t)
  <2>1. Owning(t)
    BY <1>4 DEF At, Owning, WorkPcs
  <2>2. /\ flow[t[1]].job = task[t].job /\ task[t].job \in Jobs
        /\ Working(t, task[t].job) /\ task[t].pc # "prove"
    BY <1>2, <1>4, <2>1 DEF Claims, Claim, At, Working
  <2>3. task[t].job # None
    BY <2>2, FinalizerAssumption
  <2>4. Settle(task[t].job, "consumed")
    BY <1>4, <2>2, <2>3 DEF Consumed
  <2>5. QED BY <1>1, <1>4, <2>2, <2>4
<1>5. CASE OnCreateEntry(t)
  BY <1>4, <1>5 DEF OnCreateEntry
<1>6. CASE Cancel(t)
  <2>1. \/ UNCHANGED receipt
        \/ At(t, "reject") /\ Settle(task[t].job, "recovery")
        \/ At(t, "created") /\ Consumed(flow[t[1]].job)
    BY <1>6 DEF Cancel
  <2>2. CASE At(t, "reject") /\ Settle(task[t].job, "recovery")
    <3>1. Working(t, task[t].job) /\ task[t].pc # "prove" /\ task[t].job \in Jobs
      BY <1>2, <2>2 DEF At, Working
    <3>2. QED BY <1>1, <1>6, <2>2, <3>1
  <2>3. QED BY <1>4, <1>6, <2>1, <2>2
<1>7. CASE ReadReceipt(t) \/ LoadExecutor(t) \/ AcquireLease(t) \/ ProofFails(t)
           \/ Refuse(t) \/ EntryAdded(t) \/ Resume(t)
  BY <1>7 DEF ReadReceipt, LoadExecutor, AcquireLease, ProofFails, Refuse,
              EntryAdded, Resume, Quiet
<1>8. ASSUME NEW e \in Entries, CreateEntry(t, e)
      PROVE  UNCHANGED receipt
  BY <1>8 DEF CreateEntry
<1>9. QED BY <1>3, <1>5, <1>6, <1>7, <1>8 DEF SubmitStep

\* What a submit does to the lease: it takes one that nobody else has.
LEMMA SubmitLease ==
    ASSUME FInv, ProvenUnderLease, SetupHolds,
           NEW t \in Threads, SubmitStep(t) \/ Cancel(t)
    PROVE  /\ \A u \in Threads, j \in Jobs : Working(u, j) => lease'[j] = lease[j]
           /\ SetupHolds'
           /\ AcquireLease(t) \/ lease' = lease
<1>1. t[1] \in Flows
  BY ThreadParts
<1>2. CASE AcquireLease(t)
  <2>1. UNCHANGED <<entry, setup>>
    BY <1>2 DEF AcquireLease
  <2>2. \/ lease' = lease
        \/ /\ lease[task[t].job] \in {None, t[1]}
           /\ lease' = [lease EXCEPT ![task[t].job] = t[1]]
    BY <1>2 DEF AcquireLease, Grantable
  <2>3. \A u \in Threads, j \in Jobs : Working(u, j) => lease[j] \in Flows
    BY ThreadParts DEF ProvenUnderLease
  <2>4. \A u \in Threads, j \in Jobs : Working(u, j) => lease'[j] = lease[j]
    BY <2>2, <2>3, FinalizerAssumption DEF FInv, RestOK
  <2>5. ASSUME NEW e \in Entries, setup[e] \in {"settle", "release"}
        PROVE  lease'[entry[e]] = e
    <3>1. lease[entry[e]] = e /\ setup[e] # None
      BY <2>5, FinalizerAssumption DEF SetupHolds
    <3>2. entry[e] \in Jobs /\ e # None /\ e # t[1]
      BY <1>1, <3>1, FinalizerAssumption DEF FInv, RestOK
    <3>3. QED BY <2>2, <3>1, <3>2 DEF FInv, RestOK
  <2>6. SetupHolds'
    BY <2>1, <2>5 DEF SetupHolds
  <2>7. QED BY <1>2, <2>4, <2>6
<1>3. ASSUME NEW e \in Entries, CreateEntry(t, e)
      PROVE  lease' = lease /\ SetupHolds'
  <2>1. /\ lease' = lease /\ entry' = [entry EXCEPT ![e] = task[t].job]
        /\ setup' = [setup EXCEPT ![e] = "list"]
    BY <1>3 DEF CreateEntry, Added
  <2>2. QED BY <2>1 DEF SetupHolds, FInv, RestOK
<1>4. CASE UNCHANGED <<entry, lease, setup>>
  BY <1>4 DEF SetupHolds
<1>5. CASE \/ ReadReceipt(t) \/ LoadExecutor(t) \/ ProofFails(t) \/ Refuse(t)
           \/ RejectHealthyReceipt(t) \/ EntryAdded(t) \/ OnCreateEntry(t)
           \/ Resume(t) \/ Cancel(t)
  BY <1>4, <1>5 DEF ReadReceipt, LoadExecutor, ProofFails, Refuse,
     RejectHealthyReceipt, EntryAdded, OnCreateEntry, Resume, Cancel, Quiet
<1>6. QED BY <1>2, <1>3, <1>5 DEF SubmitStep

LEMMA SubmitStepLInv ==
    ASSUME Calm, LInv, NEW t \in Threads, SubmitStep(t) \/ Cancel(t)
    PROVE  Claims' /\ ProvenUnderLease' /\ ProvenHealthy' /\ SetupHolds'
<1> USE DEF LInv
<1>1. FlowsOK /\ TasksOK
  BY DEF FInv
<1>2. /\ \A u \in Threads, j \in Jobs : Working(u, j) => lease'[j] = lease[j]
      /\ SetupHolds'
      /\ AcquireLease(t) \/ lease' = lease
  BY SubmitLease
<1>3. CASE NoNewWork /\ Claims'
           /\ (RejectHealthyReceipt(t) \/ OnCreateEntry(t) \/ Cancel(t) => Stopped(t))
  <2>1. ProvenUnderLease'
    BY <1>1, <1>2, <1>3, LeaseKept
  <2>2. CASE UNCHANGED receipt
    BY <1>1, <1>2, <1>3, <2>1, <2>2, HealthyKeptQuietly
  <2>3. CASE ~UNCHANGED receipt
    <3>1. PICK j \in Jobs :
             /\ Working(t, j)
             /\ \A i \in Jobs : i # j => receipt'[i] = receipt[i]
             /\ RejectHealthyReceipt(t) \/ OnCreateEntry(t) \/ Cancel(t)
      BY <2>3, SubmitSettles
    <3>2. QED BY <1>1, <1>2, <1>3, <2>1, <3>1, SettledByWorker
  <2>4. QED BY <1>2, <1>3, <2>1, <2>2, <2>3
<1>4. ASSUME Claims', WorkOnlyOf(t), task[t] # None, task[t].pc \in WorkPcs,
             task'[t].job = task[t].job, lease' = lease, receipt' = receipt,
             task'[t].pc \in {"prove", "reject"} => task[t].pc \in {"prove", "reject"}
      PROVE  Claims' /\ ProvenUnderLease' /\ ProvenHealthy' /\ SetupHolds'
  <2>1. ProvenUnderLease'
    BY <1>1, <1>4, LeaseKeptOnward
  <2>2. ProvenHealthy'
    BY <1>4 DEF ProvenHealthy, WorkOnlyOf
  <2>3. QED BY <1>2, <1>4, <2>1, <2>2
<1>5. CASE ReadReceipt(t) \/ Resume(t) \/ LoadExecutor(t)
  <2>1. Claims' /\ NoNewWork
    BY <1>1, <1>5, ReadReceiptClaims, ResumeClaims, LoadExecutorClaims
  <2>2. UNCHANGED <<receipt, lease>>
    BY <1>5 DEF ReadReceipt, Resume, LoadExecutor, Quiet
  <2>3. ProvenUnderLease'
    BY <1>1, <1>2, <2>1, LeaseKept
  <2>4. ProvenHealthy'
    BY <1>1, <2>1, <2>2, HealthyKeptQuietly
  <2>5. QED BY <1>2, <2>1, <2>3, <2>4
<1>6. CASE Cancel(t) \/ OnCreateEntry(t) \/ RejectHealthyReceipt(t)
  BY <1>1, <1>3, <1>6, CancelClaims, OnCreateEntryClaims, ProofClaims
<1>7. CASE ProofFails(t) \/ Refuse(t) \/ EntryAdded(t)
  <2>1. UNCHANGED <<receipt, lease>>
    BY <1>7 DEF ProofFails, Refuse, EntryAdded, Quiet
  <2>2. /\ Claims'
        /\ \/ NoNewWork
           \/ /\ WorkOnlyOf(t) /\ task'[t].job = task[t].job
              /\ task[t] # None /\ task[t].pc \in {"prove", "adding"}
              /\ task'[t].pc = "reject" => task[t].pc = "prove"
              /\ task'[t].pc \in {"reject", "created"}
    BY <1>1, <1>7, ProofClaims
  <2>3. CASE NoNewWork
    <3>1. ProvenUnderLease'
      BY <1>1, <1>2, <2>3, LeaseKept
    <3>2. ProvenHealthy'
      BY <1>1, <2>1, <2>3, HealthyKeptQuietly
    <3>3. QED BY <1>2, <2>2, <3>1, <3>2
  <2>4. CASE ~NoNewWork
    BY <1>4, <2>1, <2>2, <2>4 DEF WorkPcs
  <2>5. QED BY <2>3, <2>4
<1>8. ASSUME NEW e \in Entries, CreateEntry(t, e)
      PROVE  Claims' /\ ProvenUnderLease' /\ ProvenHealthy' /\ SetupHolds'
  <2>1. /\ Claims' /\ WorkOnlyOf(t) /\ task[t] # None /\ task[t].pc = "prove"
        /\ task'[t].pc = "adding" /\ task'[t].job = task[t].job
    BY <1>1, <1>8, CreateEntryClaims
  <2>2. UNCHANGED <<receipt, lease>>
    BY <1>8 DEF CreateEntry
  <2>3. QED BY <1>4, <2>1, <2>2 DEF WorkPcs
<1>9. CASE AcquireLease(t)
  <2>1. receipt' = receipt
    BY <1>9 DEF AcquireLease
  <2>2. /\ Claims'
        /\ \/ NoNewWork
           \/ /\ WorkOnlyOf(t) /\ task'[t].pc = "prove"
              /\ task'[t].job = task[t].job
              /\ Grantable(task[t].job, t[1])
              /\ lease' = [lease EXCEPT ![task[t].job] = t[1]]
    BY <1>1, <1>9, AcquireLeaseClaims
  <2>3. CASE NoNewWork
    <3>1. ProvenUnderLease'
      BY <1>1, <1>2, <2>3, LeaseKept
    <3>2. ProvenHealthy'
      BY <1>1, <2>1, <2>3, HealthyKeptQuietly
    <3>3. QED BY <1>2, <2>2, <3>1, <3>2
  <2>4. CASE ~NoNewWork
    <3>1. task[t].job \in Jobs
      BY <1>1, <1>9 DEF AcquireLease, At, TasksOK, TaskMemory
    <3>2. ASSUME NEW u \in Threads, NEW j \in Jobs, Working(u, j)'
          PROVE  lease'[j] = u[1]
      <4>1. CASE u = t
        BY <2>2, <2>4, <3>1, <3>2, <4>1 DEF Working, FInv, RestOK
      <4>2. CASE u # t
        <5>1. Working(u, j)
          BY <2>2, <2>4, <3>2, <4>2 DEF WorkOnlyOf, Working
        <5>2. QED BY <1>2, <5>1 DEF ProvenUnderLease
      <4>3. QED BY <4>1, <4>2
    <3>3. ProvenHealthy'
      BY <2>1, <2>2, <2>4 DEF ProvenHealthy, WorkOnlyOf, Grantable
    <3>4. QED BY <1>2, <2>2, <3>2, <3>3 DEF ProvenUnderLease
  <2>5. QED BY <2>3, <2>4
<1>10. QED BY <1>5, <1>6, <1>7, <1>8, <1>9 DEF SubmitStep


\* ------------------------------------------------------------------------
\* The other steps.

LEMMA FlowStepLInv ==
    ASSUME LInv, NEW f \in Flows, OpenFlow(f) \/ RemoveFlow(f) \/ FlowStep(f)
    PROVE  Claims' /\ ProvenUnderLease' /\ ProvenHealthy' /\ SetupHolds'
<1> USE DEF LInv
<1>1. FlowsOK /\ TasksOK
  BY DEF FInv
<1>2. Claims' /\ NoNewWork
  BY <1>1, FlowStepClaims
<1>3. UNCHANGED <<receipt, entry, setup>>
  BY DEF OpenFlow, RemoveFlow, FlowStep, FinalizationDone, RunRelease, Quiet
<1>4. \/ lease' = lease
      \/ flow[f].release # None /\ Free(flow[f].release, f)
  BY DEF OpenFlow, RemoveFlow, FlowStep, FinalizationDone, RunRelease, Quiet
<1>5. ASSUME NEW t \in Threads, NEW j \in Jobs, Working(t, j)
      PROVE  lease'[j] = lease[j]
  <2>1. CASE lease' = lease
    BY <2>1
  <2>2. CASE flow[f].release # None /\ Free(flow[f].release, f)
    <3>1. lease[j] = t[1] /\ Owning(t)
      BY <1>5 DEF ProvenUnderLease, Working, Owning, WorkPcs
    <3>2. t[1] # f
      BY <2>2, <3>1 DEF Claims, Claim
    <3>3. QED BY <2>2, <3>1, <3>2 DEF Free, FInv, RestOK
  <2>3. QED BY <1>4, <2>1, <2>2
<1>6. ProvenUnderLease'
  BY <1>1, <1>2, <1>5, LeaseKept
<1>7. ProvenHealthy'
  BY <1>1, <1>2, <1>3, HealthyKeptQuietly
<1>8. ASSUME NEW e \in Entries, setup[e] \in {"settle", "release"}
      PROVE  lease'[entry[e]] = e
  <2>1. lease[entry[e]] = e /\ e # f
    BY <1>8, FinalizerAssumption DEF SetupHolds
  <2>2. entry[e] \in Jobs
    BY <1>8, FinalizerAssumption DEF FInv, RestOK
  <2>3. QED BY <1>4, <2>1, <2>2 DEF Free, FInv, RestOK
<1>9. SetupHolds'
  BY <1>3, <1>8 DEF SetupHolds
<1>10. QED BY <1>2, <1>6, <1>7, <1>9

\* What a setup does to the lease is not what a submit works under.
LEMMA SetupLInv ==
    ASSUME LInv, NEW e \in Entries,
           StartSetup(e) \/ SetupStep(e) \/ CancelSetup(e) \/ RemoveEntry(e)
    PROVE  Claims' /\ ProvenUnderLease' /\ ProvenHealthy' /\ SetupHolds'
<1> USE DEF LInv
<1>1. FlowsOK /\ TasksOK
  BY DEF FInv
<1>2. UNCHANGED <<flow, task>>
  BY SetupRest
<1>3. Claims' /\ NoNewWork
  BY <1>2, UnchangedClaims
<1>4. \A t \in Threads, j \in Jobs : Working(t, j) =>
         lease[j] = t[1] /\ t[1] \in Flows /\ t[1] # e /\ t[1] # None
  BY ThreadParts, FinalizerAssumption DEF ProvenUnderLease
<1>5. ASSUME UNCHANGED lease
      PROVE  ProvenUnderLease'
  BY <1>1, <1>3, <1>5, LeaseKept
<1>6. ASSUME UNCHANGED receipt
      PROVE  ProvenHealthy'
  BY <1>1, <1>3, <1>6, HealthyKeptQuietly
<1>7. CASE StartSetup(e) \/ RemoveEntry(e) \/ CancelSetup(e) \/ ListReceipts(e)
  <2>1. UNCHANGED <<receipt, lease>>
    BY <1>7 DEF StartSetup, RemoveEntry, CancelSetup, ListReceipts
  <2>2. SetupHolds'
    BY <1>7, FinalizerAssumption
       DEF StartSetup, RemoveEntry, CancelSetup, ListReceipts, SetupTo,
           SetupHolds, FInv, RestOK
  <2>3. QED BY <1>3, <1>5, <1>6, <2>1, <2>2
<1>8. CASE SetupAcquires(e)
  <2> DEFINE j == entry[e]
  <2>1. /\ UNCHANGED <<receipt, entry>> /\ setup[e] = "acquire"
        /\ \/ /\ lease[j] \in {None, e} /\ lease' = [lease EXCEPT ![j] = e]
              /\ setup' = [setup EXCEPT ![e] = "settle"]
           \/ lease' = lease /\ setup' = [setup EXCEPT ![e] = None]
    BY <1>8 DEF SetupAcquires, SetupTo, Grantable
  <2>2. j \in Jobs
    BY <2>1, FinalizerAssumption DEF FInv, RestOK
  <2>3. \A t \in Threads, i \in Jobs : Working(t, i) => lease'[i] = lease[i]
    BY <1>4, <2>1 DEF FInv, RestOK
  <2>4. ProvenUnderLease'
    BY <1>1, <1>3, <2>3, LeaseKept
  <2>5. ASSUME NEW d \in Entries, setup'[d] \in {"settle", "release"}
        PROVE  lease'[entry[d]] = d
    <3>1. CASE d = e
      BY <2>1, <2>2, <2>5, <3>1, FinalizerAssumption DEF FInv, RestOK
    <3>2. CASE d # e
      <4>1. setup'[d] = setup[d]
        BY <2>1, <3>2 DEF FInv, RestOK
      <4>2. lease[entry[d]] = d /\ d # None /\ entry[d] \in Jobs
        BY <2>5, <4>1, FinalizerAssumption DEF SetupHolds, FInv, RestOK
      <4>3. QED BY <2>1, <3>2, <4>2 DEF FInv, RestOK
    <3>3. QED BY <3>1, <3>2
  <2>6. SetupHolds'
    BY <2>1, <2>5 DEF SetupHolds
  <2>7. QED BY <1>3, <1>6, <2>1, <2>4, <2>6
<1>9. CASE SetupSettles(e)
  <2> DEFINE j == entry[e]
  <2>1. PICK phase \in {"consumed", "recovery"} : Settle(j, phase)
    BY <1>9 DEF SetupSettles
  <2>2. /\ UNCHANGED <<entry, lease>> /\ setup[e] = "settle"
        /\ setup' = [setup EXCEPT ![e] = "release"]
    BY <1>9 DEF SetupSettles, SetupTo
  <2>3. lease[j] = e
    BY <2>2 DEF SetupHolds
  <2>4. ASSUME NEW u \in Threads, task'[u] # None,
               task'[u].pc \in {"prove", "reject"}
        PROVE  /\ task[u] # None /\ task[u].pc \in {"prove", "reject"}
               /\ task'[u].job = task[u].job
               /\ receipt[task[u].job] = "healthy" =>
                     receipt'[task[u].job] = "healthy"
    <3>1. task'[u] = task[u]
      BY <1>2
    <3>2. task[u].job \in Jobs /\ Working(u, task[u].job)
      BY <1>1, <2>4, <3>1 DEF TasksOK, TaskMemory, Working
    <3>3. task[u].job # j
      BY <1>4, <2>3, <3>2
    <3>4. QED BY <2>1, <2>4, <3>1, <3>2, <3>3 DEF Settle, FInv, RestOK
  <2>5. ProvenHealthy'
    BY <2>4, HealthyKept
  <2>6. ASSUME NEW d \in Entries, setup'[d] \in {"settle", "release"}
        PROVE  lease'[entry'[d]] = d
    <3>1. CASE d = e
      BY <2>2, <2>3, <3>1
    <3>2. CASE d # e
      <4>1. setup'[d] = setup[d]
        BY <2>2, <3>2 DEF FInv, RestOK
      <4>2. QED BY <2>2, <2>6, <4>1 DEF SetupHolds
    <3>3. QED BY <3>1, <3>2
  <2>7. SetupHolds'
    BY <2>6 DEF SetupHolds
  <2>8. QED BY <1>3, <1>5, <2>2, <2>5, <2>7
<1>10. CASE SetupReleases(e)
  <2>1. /\ UNCHANGED <<receipt, entry>> /\ setup' = [setup EXCEPT ![e] = None]
        /\ \/ lease' = lease
           \/ lease[entry[e]] = e /\ lease' = [lease EXCEPT ![entry[e]] = None]
    BY <1>10 DEF SetupReleases, SetupTo, Free
  <2>2. \A t \in Threads, i \in Jobs : Working(t, i) => lease'[i] = lease[i]
    BY <1>4, <2>1 DEF FInv, RestOK
  <2>3. ProvenUnderLease'
    BY <1>1, <1>3, <2>2, LeaseKept
  <2>4. ASSUME NEW d \in Entries, setup'[d] \in {"settle", "release"}
        PROVE  lease'[entry[d]] = d
    <3>1. d # e /\ setup'[d] = setup[d]
      BY <2>1, <2>4, FinalizerAssumption DEF FInv, RestOK
    <3>2. lease[entry[d]] = d /\ entry[d] \in Jobs
      BY <2>4, <3>1, FinalizerAssumption DEF SetupHolds, FInv, RestOK
    <3>3. QED BY <2>1, <3>1, <3>2 DEF FInv, RestOK
  <2>5. SetupHolds'
    BY <2>1, <2>4 DEF SetupHolds
  <2>6. QED BY <1>3, <1>6, <2>1, <2>3, <2>5
<1>11. QED BY <1>7, <1>8, <1>9, <1>10 DEF SetupStep

LEMMA LInvInit ==
    FinInit => LInv
<1> SUFFICES ASSUME FinInit PROVE LInv
  OBVIOUS
<1>1. FInv
  BY FInvInit
<1>2. \A t \in Threads : task[t] = None
  BY DEF FinInit, NoTask
<1>3. \A e \in Entries : setup[e] = None
  BY DEF FinInit, NoSetup
<1>4. Claims /\ ProvenUnderLease /\ ProvenHealthy
  BY <1>2 DEF Claims, Claim, Owning, ProvenUnderLease, Working, ProvenHealthy
<1>5. SetupHolds
  BY <1>3, FinalizerAssumption DEF SetupHolds
<1>6. QED BY <1>1, <1>4, <1>5 DEF LInv

LEMMA LInvStep ==
    ASSUME Calm
    PROVE  LInv /\ [FinNext]_finVars => LInv'
<1> SUFFICES ASSUME LInv, [FinNext]_finVars PROVE LInv'
  OBVIOUS
<1> USE DEF LInv
<1>1. FInv' /\ FlowsOK /\ TasksOK
  BY FInvStep DEF FInv
<1>2. ASSUME NEW t \in Threads, Submit(t)
      PROVE  Claims' /\ ProvenUnderLease' /\ ProvenHealthy' /\ SetupHolds'
  <2>1. Claims' /\ NoNewWork
    BY <1>1, <1>2, SubmitClaims
  <2>2. UNCHANGED <<receipt, entry, lease, setup>>
    BY <1>2 DEF Submit, Quiet
  <2>3. ProvenUnderLease'
    BY <1>1, <2>1, <2>2, LeaseKept
  <2>4. ProvenHealthy'
    BY <1>1, <2>1, <2>2, HealthyKeptQuietly
  <2>5. QED BY <2>1, <2>2, <2>3, <2>4 DEF SetupHolds
<1>3. ASSUME NEW j \in Jobs,
             JobHealthy(j) \/ \E e \in Entries : ConnectFound(e, j)
      PROVE  Claims' /\ ProvenUnderLease' /\ ProvenHealthy' /\ SetupHolds'
  <2>1. UNCHANGED <<lease, flow, task>>
    BY <1>3 DEF JobHealthy, ConnectFound
  <2>2. \A i \in Jobs : receipt[i] = "healthy" => receipt'[i] = "healthy"
    BY <1>3 DEF JobHealthy, ConnectFound, FInv, RestOK
  <2>3. Claims' /\ NoNewWork
    BY <2>1, UnchangedClaims
  <2>4. ProvenUnderLease'
    BY <1>1, <2>1, <2>3, LeaseKept
  <2>5. ProvenHealthy'
    BY <1>1, <2>2, <2>3, HealthyKeptQuietly
  <2>6. SetupHolds'
    BY <1>3, <2>1 DEF JobHealthy, ConnectFound, Added, SetupHolds, FInv, RestOK
  <2>7. QED BY <2>3, <2>4, <2>5, <2>6
<1>4. CASE Crash
  <2>1. /\ \A t \in Threads : task'[t] = None
        /\ \A e \in Entries : setup'[e] = None
    BY <1>4 DEF Crash, NoTask, NoSetup
  <2>2. Claims' /\ ProvenUnderLease' /\ ProvenHealthy'
    BY <2>1 DEF Claims, Claim, Owning, ProvenUnderLease, Working, ProvenHealthy
  <2>3. SetupHolds'
    BY <2>1, FinalizerAssumption DEF SetupHolds
  <2>4. QED BY <1>1, <2>2, <2>3
<1>5. CASE UNCHANGED finVars
  <2>1. UNCHANGED <<receipt, entry, lease, flow, task, setup>>
    BY <1>5 DEF finVars
  <2>2. Claims' /\ NoNewWork
    BY <2>1, UnchangedClaims
  <2>3. ProvenUnderLease'
    BY <1>1, <2>1, <2>2, LeaseKept
  <2>4. ProvenHealthy'
    BY <1>1, <2>1, <2>2, HealthyKeptQuietly
  <2>5. QED BY <1>1, <2>1, <2>2, <2>3, <2>4 DEF SetupHolds
<1>6. QED
  BY <1>1, <1>2, <1>3, <1>4, <1>5, SubmitStepLInv, FlowStepLInv, SetupLInv
     DEF FinNext

\* A flow proves a panel and acts on its proof only under the lease of the job
\* (the docstring of _async_finalize_healthy_install_locked), if its submits
\* come one at a time or are never cancelled.
THEOREM LeaseTheorem ==
    ASSUME Calm
    PROVE  FinSpec => []ProvenUnderLease
<1>1. LInv => ProvenUnderLease
  BY DEF LInv
<1>2. LInv /\ [FinNext]_finVars => LInv'
  BY LInvStep
<1>3. QED BY <1>1, <1>2, LInvInit, PTL DEF FinSpec

\* Two parties never finalize one job at a time: submits of one flow exclude
\* each other by the flow's owner, flows and entry setups by the lease.
THEOREM OneFinalizerTheorem ==
    ASSUME Calm
    PROVE  FinSpec => []OneFinalizer
<1>1. LInv => OneFinalizer
  <2> SUFFICES ASSUME LInv, NEW j \in Jobs
               PROVE  /\ \A t, u \in Threads : Working(t, j) /\ Working(u, j) => t = u
                      /\ \A e \in Entries : setup[e] = "settle" /\ entry[e] = j =>
                            /\ \A t \in Threads : ~Working(t, j)
                            /\ \A d \in Entries :
                                  setup[d] = "settle" /\ entry[d] = j => d = e
    BY DEF OneFinalizer
  <2>1. \A t, u \in Threads : Working(t, j) /\ Working(u, j) => t = u
    BY OneWorker DEF LInv
  <2>2. ASSUME NEW e \in Entries, setup[e] = "settle", entry[e] = j
        PROVE  lease[j] = e
    BY <2>2 DEF LInv, SetupHolds
  <2>3. \A t \in Threads : Working(t, j) => lease[j] \in Flows
    BY ThreadParts DEF LInv, ProvenUnderLease
  <2>4. QED BY <2>1, <2>2, <2>3, FinalizerAssumption
<1>2. LInv /\ [FinNext]_finVars => LInv'
  BY LInvStep
<1>3. QED BY <1>1, <1>2, LInvInit, PTL DEF FinSpec

\* A flow makes an entry only out of a receipt that is healthy at that moment:
\* nobody settles a receipt between the grant of its lease and the add.
THEOREM EntryTheorem ==
    ASSUME Calm
    PROVE  FinSpec => EntryFromHealthy
<1>1. LInv /\ [FinNext]_finVars =>
        [\A t \in Threads, e \in Entries :
            CreateEntry(t, e) => receipt[task[t].job] = "healthy"]_finVars
  BY DEF LInv, ProvenHealthy, CreateEntry, At
<1>2. LInv /\ [FinNext]_finVars => LInv'
  BY LInvStep
<1>3. QED BY <1>1, <1>2, LInvInit, PTL DEF FinSpec, EntryFromHealthy

\* A healthy receipt is settled only under the lease of its job, by a flow that
\* has proved the panel or by the setup of an entry with its address.
THEOREM SettledTheorem ==
    ASSUME Calm
    PROVE  FinSpec => SettledUnderLease
<1>1. LInv /\ [FinNext]_finVars =>
        [\A j \in Jobs : receipt[j] = "healthy" /\ receipt'[j] # "healthy"
                         => lease[j] # None]_finVars
  <2> SUFFICES ASSUME LInv, [FinNext]_finVars, NEW j \in Jobs,
                      receipt[j] = "healthy", receipt'[j] # "healthy"
               PROVE  lease[j] # None
    OBVIOUS
  <2>1. ASSUME NEW t \in Threads, SubmitStep(t) \/ Cancel(t)
        PROVE  lease[j] # None
    <3>1. PICK i \in Jobs :
             /\ Working(t, i)
             /\ \A k \in Jobs : k # i => receipt'[k] = receipt[k]
      BY <2>1, SubmitSettles DEF LInv
    <3>2. lease[j] = t[1]
      BY <3>1 DEF LInv, ProvenUnderLease
    <3>3. QED BY <3>2, ThreadParts, FinalizerAssumption
  <2>2. ASSUME NEW e \in Entries, SetupSettles(e)
        PROVE  lease[j] # None
    <3>1. PICK phase \in {"consumed", "recovery"} : Settle(entry[e], phase)
      BY <2>2 DEF SetupSettles
    <3>2. j = entry[e]
      BY <3>1 DEF Settle, LInv, FInv, RestOK
    <3>3. lease[j] = e
      BY <2>2, <3>2 DEF SetupSettles, LInv, SetupHolds
    <3>4. QED BY <3>3, FinalizerAssumption
  <2>3. ASSUME NEW e \in Entries,
               StartSetup(e) \/ SetupStep(e) \/ CancelSetup(e) \/ RemoveEntry(e)
        PROVE  lease[j] # None
    BY <2>2, <2>3 DEF StartSetup, CancelSetup, RemoveEntry, SetupStep,
       ListReceipts, SetupAcquires, SetupReleases
  <2>4. ASSUME NEW f \in Flows, OpenFlow(f) \/ RemoveFlow(f) \/ FlowStep(f)
        PROVE  lease[j] # None
    BY <2>4 DEF OpenFlow, RemoveFlow, FlowStep, FinalizationDone, RunRelease, Quiet
  <2>5. ASSUME NEW i \in Jobs,
               JobHealthy(i) \/ \E e \in Entries : ConnectFound(e, i)
        PROVE  lease[j] # None
    BY <2>5 DEF JobHealthy, ConnectFound, LInv, FInv, RestOK
  <2>6. ASSUME NEW t \in Threads, Submit(t)
        PROVE  lease[j] # None
    BY <2>6 DEF Submit, Quiet
  <2>7. QED
    BY <2>1, <2>3, <2>4, <2>5, <2>6 DEF FinNext, Crash, finVars
<1>2. LInv /\ [FinNext]_finVars => LInv'
  BY LInvStep
<1>3. QED BY <1>1, <1>2, LInvInit, PTL DEF FinSpec, SettledUnderLease

============================================================================
