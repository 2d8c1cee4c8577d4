-------------------------- MODULE BrowserCacheProofs --------------------------
(* The safety of BrowserCache for any number of requests, users, releases    *)
(* and bundles, and for a disk that may fail at every step.                  *)
EXTENDS BrowserCache, FiniteSetTheorems, TLAPS

Reserved == {"resolve", "download", "discard"}

PcsOf(kind) ==
    CASE kind = "catalog" -> {"list"}
      [] kind = "prepare" -> {"select", "reconcile", "reap", "clean"} \cup Reserved
      [] kind = "apk"     -> {"reap", "clean"} \cup Leased
      [] kind = "stop"    -> {"gather", "reap", "clean", "stopped", "refused"}

\* Task t may be w.
Shape(t, w) ==
    /\ w.kind = "stop" <=> t = Stopper
    /\ w.pc \in PcsOf(w.kind)
    /\ w.pc \in {"clean"} \cup Reserved \cup Leased => w.b \in Bundles
    /\ w.kind = "prepare" => w.user \in Users /\ (w.pc # "select" => w.tag \in Tags)

Owns(t) == task[t] # None /\ task[t].pc \in Latched
Leases(t) == task[t] # None /\ task[t].pc \in Leased
Reserves(t) == task[t] # None /\ task[t].pc \in Reserved

Types ==
    /\ file \in [Bundles -> Files]
    /\ entry \in [Bundles -> Entry \cup {None}]
    /\ task \in [Tasks -> Task \cup {None}]
    /\ busy \in BOOLEAN /\ initialized \in BOOLEAN
    /\ failed \in BOOLEAN /\ closed \in BOOLEAN
    /\ \A t \in Tasks : task[t] # None => Shape(t, task[t])

\* _busy has one owner.
LatchInv ==
    /\ \A t, u \in Tasks : Owns(t) /\ Owns(u) => t = u
    /\ busy <=> \E t \in Tasks : Owns(t)

\* What a task relies on where it is suspended.
TaskInv ==
    \A t \in Tasks :
        /\ At(t, "reconcile") => ~initialized
        /\ At(t, "clean") => entry[task[t].b] # None /\ entry[task[t].b].retiring
        /\ Reserves(t) => entry[task[t].b] = None
        /\ Owns(t) /\ task[t].kind = "prepare" /\ task[t].pc # "reconcile" => initialized
        /\ Leases(t) => entry[task[t].b] # None /\ ~entry[task[t].b].retiring

\* What an entry stands for.
EntryInv ==
    \A b \in Bundles : entry[b] # None =>
        /\ initialized
        /\ entry[b].leases = Cardinality(Holders(b))
        /\ entry[b].retiring => entry[b].leases = 0
        /\ ~entry[b].retiring => file[b] = "whole"

\* A reservation leaves room for itself.
RoomInv ==
    /\ Cardinality(Entries) <= Capacity
    /\ (\E t \in Tasks : Reserves(t)) => Cardinality(Entries) < Capacity

\* A file has an entry or a reservation.
KeptInv ==
    initialized /\ ~failed =>
        \A b \in Bundles : file[b] # "none" =>
            entry[b] # None \/ \E t \in Tasks : Reserves(t) /\ task[t].b = b

\* The stop has what is left to itself.
StopInv ==
    task[Stopper] # None =>
        /\ task[Stopper].pc # "refused"
        /\ task[Stopper].pc # "gather" => closed /\ \A t \in Requests : task[t] = None
        /\ task[Stopper].pc = "reap" => Entries \subseteq task[Stopper].todo
        /\ task[Stopper].pc = "clean" =>
               Entries \subseteq task[Stopper].todo \cup {task[Stopper].b}
        /\ task[Stopper].pc = "stopped" /\ ~failed => Entries = {}

BrowserInv ==
    /\ Types
    /\ LatchInv
    /\ TaskInv
    /\ EntryInv
    /\ RoomInv
    /\ KeptInv
    /\ StopInv

USE BrowserAssumption, NoneIsApart

----------------------------------------------------------------------------
(* Counting. *)

LEMMA HoldersFinite ==
    ASSUME NEW b
    PROVE  IsFiniteSet(Holders(b)) /\ Cardinality(Holders(b)) \in Nat
<1>1. Holders(b) \subseteq Requests
  BY DEF Holders
<1> QED BY <1>1, FS_Subset, FS_CardinalityType

LEMMA EntriesFinite ==
    /\ IsFiniteSet(Entries) /\ Cardinality(Entries) \in Nat
    /\ IsFiniteSet(Entries') /\ Cardinality(Entries') \in Nat
<1>1. Entries \subseteq Bundles /\ Entries' \subseteq Bundles
  BY DEF Entries
<1> QED BY <1>1, FS_Subset, FS_CardinalityType

\* Only requests lease.
LEMMA LeasesAreRequests ==
    ASSUME Types, NEW t \in Tasks, Leases(t)
    PROVE  t \in Requests /\ task[t] \in Task /\ task[t].b \in Bundles /\ t \in Holders(task[t].b)
           /\ task[t].kind = "apk"
  BY DEF Types, Leases, Shape, PcsOf, Leased, Tasks, Task, Holders, Reserved

\* A bundle without leases is streamed by nobody.
LEMMA Unheld ==
    ASSUME Types, EntryInv, NEW b \in Bundles, entry[b] # None, entry[b].leases = 0,
           NEW t \in Tasks, Leases(t)
    PROVE  task[t].b # b
<1> SUFFICES ASSUME task[t].b = b PROVE FALSE
  OBVIOUS
<1>1. Cardinality(Holders(b)) = 0
  BY DEF EntryInv
<1>2. Holders(b) = {}
  BY <1>1, HoldersFinite, FS_EmptySet
<1> QED BY <1>2, LeasesAreRequests

\* Whose leases have not changed are as many as before.
LEMMA SameHolders ==
    ASSUME NEW b, \A t \in Requests : /\ Leases(t)' <=> Leases(t)
                                      /\ Leases(t) => task'[t].b = task[t].b
    PROVE  Holders(b)' = Holders(b)
  BY DEF Holders, Leases

----------------------------------------------------------------------------
(* A step of one task. *)

\* At most task t changes.
Moves(t) ==
    /\ task' \in [Tasks -> Task \cup {None}]
    /\ \A u \in Tasks \ {t} : task'[u] = task[u]
    /\ task'[t] # None => Shape(t, task'[t])
    /\ busy' \in BOOLEAN /\ initialized' \in BOOLEAN
    /\ failed' \in BOOLEAN /\ closed' \in BOOLEAN

\* It takes the latch when it is free, keeps it, or lets it go.
LatchMoves(t) ==
    /\ Owns(t)' => Owns(t) \/ ~busy
    /\ busy' <=> Owns(t)' \/ (busy /\ ~Owns(t))

LEMMA MoveTypes ==
    ASSUME Types, NEW t \in Tasks, Moves(t),
           file' \in [Bundles -> Files], entry' \in [Bundles -> Entry \cup {None}]
    PROVE  Types'
<1>1. ASSUME NEW u \in Tasks, task'[u] # None PROVE Shape(u, task'[u])
  BY <1>1 DEF Types, Moves
<1>2. \A u \in Tasks : (task[u] # None => Shape(u, task[u]))' <=> (task'[u] # None => Shape(u, task'[u]))
  BY DEF Shape
<1> QED BY <1>1, <1>2 DEF Types, Moves

LEMMA MoveLatch ==
    ASSUME LatchInv, NEW t \in Tasks, Moves(t), LatchMoves(t)
    PROVE  LatchInv'
<1>1. \A u \in Tasks \ {t} : Owns(u)' <=> Owns(u)
  BY DEF Moves, Owns
<1> QED BY <1>1 DEF LatchInv, LatchMoves

\* The stop does not change while requests end.
LEMMA MoveStop ==
    ASSUME Types, StopInv, NEW t \in Requests, Moves(t),
           task[t] = None => task[Stopper] = None \/ task'[t] = None,
           closed => closed', failed => failed', Entries' \subseteq Entries
    PROVE  StopInv'
<1>1. task'[Stopper] = task[Stopper] /\ Stopper \in Tasks
  BY DEF Moves, Tasks
<1>2. CASE task[Stopper] # None /\ task[Stopper].pc # "gather"
  BY <1>1, <1>2 DEF StopInv, Moves, Tasks
<1> QED BY <1>1, <1>2 DEF StopInv

\* A task goes on without touching a file or an entry.
Steps(t) ==
    /\ Moves(t) /\ LatchMoves(t)
    /\ UNCHANGED <<file, entry, initialized>>
    /\ failed => failed'
    /\ closed => closed'

LEMMA StepKeeps ==
    ASSUME BrowserInv, NEW t \in Tasks, Steps(t),
           Leases(t)' <=> Leases(t), Leases(t) => task'[t].b = task[t].b,
           At(t, "reconcile")' => ~initialized,
           At(t, "clean")' => At(t, "clean") /\ task'[t].b = task[t].b,
           Reserves(t)' =>
               /\ entry[task'[t].b] = None
               /\ Reserves(t) \/ Cardinality(Entries) < Capacity,
           Owns(t)' /\ task'[t].kind = "prepare" /\ task'[t].pc # "reconcile" => initialized,
           Reserves(t) =>
               (Reserves(t)' /\ task'[t].b = task[t].b) \/ failed' \/ file[task[t].b] = "none",
           t = Stopper => StopInv',
           task[t] = None => task[Stopper] = None \/ task'[t] = None
    PROVE  BrowserInv'
<1>1. /\ Types /\ LatchInv /\ TaskInv /\ EntryInv /\ RoomInv /\ KeptInv /\ StopInv
      /\ Moves(t) /\ UNCHANGED <<file, entry, initialized>>
  BY DEF BrowserInv, Steps
<1>2. Types'
  BY <1>1, MoveTypes DEF Types
<1>3. LatchInv'
  BY <1>1, MoveLatch DEF Steps
<1>4. \A u \in Tasks \ {t} : /\ task'[u] = task[u]
                             /\ Leases(u)' <=> Leases(u)
                             /\ Reserves(u)' <=> Reserves(u)
                             /\ Owns(u)' <=> Owns(u)
                             /\ \A pc : At(u, pc)' <=> At(u, pc)
  BY <1>1 DEF Moves, Leases, Reserves, Owns, At
<1>5. TaskInv'
  <2> SUFFICES ASSUME NEW u \in Tasks
               PROVE  /\ At(u, "reconcile")' => ~initialized
                      /\ At(u, "clean")' => entry[task'[u].b] # None /\ entry[task'[u].b].retiring
                      /\ Reserves(u)' => entry[task'[u].b] = None
                      /\ Owns(u)' /\ task'[u].kind = "prepare" /\ task'[u].pc # "reconcile"
                            => initialized
                      /\ Leases(u)' => entry[task'[u].b] # None /\ ~entry[task'[u].b].retiring
    BY <1>1 DEF TaskInv
  <2>1. CASE u # t
    BY <1>1, <1>4, <2>1 DEF TaskInv
  <2>2. CASE u = t
    BY <1>1, <2>2 DEF TaskInv
  <2> QED BY <2>1, <2>2
<1>6. EntryInv'
  <2>1. ASSUME NEW b \in Bundles PROVE Holders(b)' = Holders(b)
    BY <1>4, SameHolders DEF Tasks
  <2> QED BY <1>1, <2>1 DEF EntryInv
<1>7. Entries' = Entries
  BY <1>1 DEF Entries
<1>8. RoomInv'
  BY <1>1, <1>4, <1>7 DEF RoomInv
<1>9. KeptInv'
  <2> SUFFICES ASSUME initialized, ~failed', NEW b \in Bundles, file[b] # "none", entry[b] = None
               PROVE  \E u \in Tasks : Reserves(u)' /\ task'[u].b = b
    BY <1>1 DEF KeptInv
  <2>1. PICK u \in Tasks : Reserves(u) /\ task[u].b = b
    BY <1>1 DEF KeptInv, Steps
  <2> QED BY <1>4, <2>1
<1>10. StopInv'
  BY <1>1, <1>7, MoveStop DEF Steps, Tasks
<1> QED BY <1>2, <1>3, <1>5, <1>6, <1>8, <1>9, <1>10 DEF BrowserInv

\* A task with other fields.
TaskWith(v, pc, b, todo, cut) ==
    [v EXCEPT !.pc = pc, !.b = b, !.todo = todo, !.cut = cut]

LEMMA TaskSet ==
    ASSUME NEW v \in Task, NEW pc \in Pcs, NEW b \in Bundles \cup {None},
           NEW todo \in SUBSET Bundles, NEW cut \in BOOLEAN,
           NEW w, w = TaskWith(v, pc, b, todo, cut)
    PROVE  /\ w \in Task /\ w # None
           /\ w.kind = v.kind /\ w.pc = pc /\ w.user = v.user /\ w.tag = v.tag
           /\ w.b = b /\ w.todo = todo /\ w.cut = cut
<1>1. w \in Task
  BY DEF Task, TaskWith
<1>2. DOMAIN v = {"kind", "pc", "user", "tag", "b", "todo", "cut"}
  BY DEF Task
<1> HIDE DEF Task
<1> QED BY <1>1, <1>2 DEF TaskWith

\* The fields that stay.
LEMMA TaskFields ==
    ASSUME NEW v \in Task
    PROVE  v.b \in Bundles \cup {None} /\ v.todo \in SUBSET Bundles /\ v.cut \in BOOLEAN
  BY DEF Task

LEMMA TodoSame ==
    ASSUME NEW v \in Task, NEW pc, NEW b
    PROVE  [v EXCEPT !.pc = pc, !.b = b] = TaskWith(v, pc, b, v.todo, v.cut)
  BY DEF Task, TaskWith

LEMMA BundleSame ==
    ASSUME NEW v \in Task, NEW pc, NEW cut
    PROVE  [v EXCEPT !.pc = pc, !.cut = cut] = TaskWith(v, pc, v.b, v.todo, cut)
  BY DEF Task, TaskWith

LEMMA CutSame ==
    ASSUME NEW v \in Task, NEW pc, NEW b, NEW todo
    PROVE  [v EXCEPT !.pc = pc, !.b = b, !.todo = todo] = TaskWith(v, pc, b, todo, v.cut)
  BY DEF Task, TaskWith

\* What Go does.
LEMMA GoMoves ==
    ASSUME Types, NEW t \in Tasks, NEW w \in Task \cup {None}, Go(t, w),
           w # None => Shape(t, w),
           busy' \in BOOLEAN, initialized' \in BOOLEAN, failed' \in BOOLEAN, closed' \in BOOLEAN
    PROVE  Moves(t) /\ task'[t] = w
  BY DEF Types, Go, Moves

\* Which tasks are where.
LEMMA Where ==
    ASSUME Types, NEW t \in Tasks, task[t] # None
    PROVE  /\ task[t] \in Task /\ Shape(t, task[t])
           /\ task[t].kind = "stop" <=> t = Stopper
           /\ task[t].pc \in {"list", "select", "reconcile"} \cup Reserved \cup Leased =>
                  t \in Requests
           /\ task[t].pc \in {"gather", "stopped", "refused"} => t = Stopper
           /\ task[t].pc \in {"select", "reconcile"} \cup Reserved => task[t].kind = "prepare"
           /\ task[t].pc \in Leased => task[t].kind = "apk"
           /\ task[t].pc = "list" => task[t].kind = "catalog"
  BY DEF Types, Shape, PcsOf, Tasks, Task, Reserved, Leased

\* A request ends that held nothing, or begins and holds nothing.
LEMMA RequestKeeps ==
    ASSUME BrowserInv, NEW t \in Requests, Moves(t),
           UNCHANGED <<file, entry, flags>>,
           ~Owns(t), ~Leases(t), ~Owns(t)', ~Leases(t)', ~Reserves(t),
           task[t] = None => task[Stopper] = None \/ task'[t] = None
    PROVE  BrowserInv'
<1>1. Reserves(t)' => Owns(t)'
  BY DEF Reserves, Owns, Reserved, Latched
<1>2. Steps(t) /\ t # Stopper /\ t \in Tasks
  BY DEF Steps, LatchMoves, flags, BrowserInv, Tasks
<1>3. ~At(t, "clean")' /\ ~At(t, "reconcile")'
  BY DEF At, Owns, Latched
<1> QED BY <1>1, <1>2, <1>3, StepKeeps

LEMMA EndsKeep ==
    ASSUME BrowserInv, NEW t \in Tasks, Listed(t) \/ SelectionEnds(t)
    PROVE  BrowserInv'
<1>1. Types /\ task[t] # None /\ task[t].pc \in {"list", "select"} /\ t \in Requests /\ t # Stopper
  BY Where DEF BrowserInv, Listed, SelectionEnds, At
<1>2. task' = [task EXCEPT ![t] = None] /\ UNCHANGED <<file, entry, flags>>
  BY <1>1 DEF Listed, SelectionEnds, Over, Go
<1>3. Moves(t) /\ task'[t] = None
  BY <1>1, <1>2, GoMoves DEF Go, flags, Types
<1> QED BY <1>1, <1>2, <1>3, RequestKeeps DEF Owns, Leases, Reserves, Latched, Leased, Reserved

LEMMA StartKeeps ==
    ASSUME BrowserInv, NEW t \in Requests, StartCatalog(t) \/ StartPrepare(t)
    PROVE  BrowserInv'
<1>1. Types /\ t \in Tasks /\ t # Stopper
  BY DEF BrowserInv, Tasks
<1>2. PICK kind \in {"catalog", "prepare"}, pc \in {"list", "select"}, user \in Users \cup {None} :
        /\ Go(t, NewTask(kind, pc, user))
        /\ kind = "catalog" => pc = "list"
        /\ kind = "prepare" => pc = "select" /\ user \in Users
  BY DEF StartCatalog, StartPrepare, Admit
<1>w. PICK w : w = NewTask(kind, pc, user)
  OBVIOUS
<1>3. /\ task[t] = None /\ task[Stopper] = None /\ UNCHANGED <<file, entry, flags>>
  BY DEF StartCatalog, StartPrepare, Admit
<1>4. w \in Task /\ w # None /\ Shape(t, w) /\ w.pc \in {"list", "select"}
  <2>1. w \in Task
    <3>1. pc \in Pcs /\ {} \in SUBSET Bundles
      BY DEF Pcs
    <3> QED BY <1>w, <3>1 DEF NewTask, Task
  <2>2. w.kind = kind /\ w.pc = pc /\ w.user = user
    BY <1>w DEF NewTask
  <2> QED BY <1>1, <1>2, <2>1, <2>2 DEF Shape, PcsOf, Reserved, Leased
<1>5. Moves(t) /\ task'[t] = w
  BY <1>1, <1>2, <1>w, <1>3, <1>4, GoMoves DEF flags, Types
<1> QED BY <1>3, <1>4, <1>5, RequestKeeps DEF Owns, Leases, Reserves, Latched, Leased, Reserved

\* A task that stays where it is, or goes to where it relies on nothing new.
LEMMA GoesOnKeeps ==
    ASSUME BrowserInv, NEW t \in Tasks, Moves(t), UNCHANGED <<file, entry, flags>>,
           task[t] # None, task'[t] # None,
           task'[t].kind = task[t].kind, task'[t].b = task[t].b,
           \/ task'[t].pc = task[t].pc
           \/ task[t].pc \in Leased /\ task'[t].pc \in Leased
           \/ task[t].pc \in Reserved /\ task'[t].pc \in Reserved,
           t \in Requests
    PROVE  BrowserInv'
<1>1. /\ Owns(t)' <=> Owns(t)
      /\ Leases(t)' <=> Leases(t)
      /\ Reserves(t)' <=> Reserves(t)
  BY DEF Owns, Leases, Reserves, Latched, Leased, Reserved
<1>2. /\ At(t, "reconcile")' => At(t, "reconcile")
      /\ At(t, "clean")' => At(t, "clean")
      /\ task'[t].pc # "reconcile" => task[t].pc # "reconcile"
  BY DEF At, Leased, Reserved
<1>3. Steps(t) /\ t # Stopper
  BY <1>1 DEF Steps, LatchMoves, flags, BrowserInv, LatchInv, Tasks
<1>4. TaskInv
  BY DEF BrowserInv
<1> QED BY <1>1, <1>2, <1>3, <1>4, StepKeeps DEF TaskInv

LEMMA OnwardKeeps ==
    ASSUME BrowserInv, NEW t \in Tasks,
           \/ Resolved(t) \/ ResolveFails(t) \/ Cancel(t)
           \/ At(t, "read") /\ To(t, "send") /\ UNCHANGED <<file, entry, flags>>
    PROVE  BrowserInv'
<1>1. /\ Types /\ task[t] # None /\ UNCHANGED <<file, entry, flags>> /\ t \in Requests
      /\ task[t] \in Task /\ Shape(t, task[t])
  BY Where DEF BrowserInv, Resolved, ResolveFails, Cancel, At, Reserved, Leased
<1>2. PICK pc \in Pcs, cut \in BOOLEAN :
        /\ Go(t, [task[t] EXCEPT !.pc = pc, !.cut = cut])
        /\ \/ pc = task[t].pc
           \/ task[t].pc \in Leased /\ pc \in Leased
           \/ task[t].pc \in Reserved /\ pc \in Reserved
  <2>1. CASE Resolved(t)
    BY <2>1 DEF Resolved, To, At, Pcs, Latched, Reserved
  <2>2. CASE ResolveFails(t)
    BY <2>2 DEF ResolveFails, To, At, Pcs, Latched, Reserved
  <2>3. CASE Cancel(t)
    <3>1. [task[t] EXCEPT !.cut = TRUE] = [task[t] EXCEPT !.pc = task[t].pc, !.cut = TRUE]
      BY <1>1 DEF Task
    <3> QED BY <1>1, <2>3, <3>1 DEF Cancel, Task
  <2>4. CASE At(t, "read") /\ To(t, "send")
    BY <2>4 DEF To, At, Pcs, Leased
  <2> QED BY <2>1, <2>2, <2>3, <2>4
<1>3. PICK w : w = [task[t] EXCEPT !.pc = pc, !.cut = cut]
  OBVIOUS
<1>4. /\ w \in Task /\ w # None /\ w.pc = pc /\ w.kind = task[t].kind /\ w.b = task[t].b
      /\ w.user = task[t].user /\ w.tag = task[t].tag
  BY <1>1, <1>2, <1>3 DEF Task
<1>5. Shape(t, w)
  <2>1. CASE pc = task[t].pc
    BY <1>1, <1>4, <2>1 DEF Shape
  <2>2. CASE task[t].pc \in Leased /\ pc \in Leased
    BY <1>1, <1>4, <2>2, Where DEF Shape, PcsOf, Leased, Reserved
  <2>3. CASE task[t].pc \in Reserved /\ pc \in Reserved
    BY <1>1, <1>4, <2>3, Where DEF Shape, PcsOf, Leased, Reserved
  <2> QED BY <1>2, <2>1, <2>2, <2>3
<1>6. Moves(t) /\ task'[t] = w
  BY <1>1, <1>2, <1>3, <1>4, <1>5, GoMoves DEF flags, Types
<1> QED BY <1>1, <1>2, <1>4, <1>6, GoesOnKeeps

LEMMA SelectedKeeps ==
    ASSUME BrowserInv, NEW t \in Tasks, Selected(t)
    PROVE  BrowserInv'
<1>1. /\ Types /\ LatchInv /\ task[t] # None /\ task[t].pc = "select" /\ t \in Requests
      /\ task[t] \in Task /\ Shape(t, task[t]) /\ task[t].kind = "prepare" /\ t # Stopper
  BY Where DEF BrowserInv, Selected, At
<1>2. ~Owns(t) /\ ~Leases(t) /\ ~Reserves(t)
  BY <1>1 DEF Owns, Leases, Reserves, Latched, Leased, Reserved
<1>3. CASE Over(t) /\ UNCHANGED busy
  <2>1. Go(t, None) /\ UNCHANGED <<file, entry, flags>>
    BY <1>1, <1>3 DEF Selected, Over, flags
  <2>2. Moves(t) /\ task'[t] = None
    BY <1>1, <2>1, GoMoves DEF flags, Types
  <2> QED BY <1>2, <2>1, <2>2, <1>1, RequestKeeps DEF Owns, Leases
<1>4. ASSUME NEW tag \in Tags, ~busy, busy',
             Go(t, LET v == [task[t] EXCEPT !.tag = tag]
                   IN IF initialized THEN Reap(v) ELSE [v EXCEPT !.pc = "reconcile"])
      PROVE  BrowserInv'
  <2>1. PICK w : w = LET v == [task[t] EXCEPT !.tag = tag]
                     IN IF initialized THEN Reap(v) ELSE [v EXCEPT !.pc = "reconcile"]
    OBVIOUS
  <2>2. w \in Task
    <3>1. {"reap", "reconcile"} \subseteq Pcs /\ Entries \in SUBSET Bundles
      BY DEF Pcs, Latched, Entries
    <3> QED BY <1>1, <2>1, <3>1 DEF Reap, Task
  <2>3. /\ w.pc = IF initialized THEN "reap" ELSE "reconcile"
        /\ w.kind = "prepare" /\ w.user = task[t].user /\ w.tag = tag
    BY <1>1, <2>1 DEF Reap, Task
  <2>4. Shape(t, w)
    BY <1>1, <2>3 DEF Shape, PcsOf, Reserved, Leased
  <2>5. UNCHANGED <<file, entry, initialized, failed, closed>>
    BY DEF Selected
  <2>6. Moves(t) /\ task'[t] = w
    BY <1>1, <1>4, <2>1, <2>2, <2>4, <2>5, GoMoves DEF Types
  <2>7. w # None /\ ~Reserves(t)' /\ ~Leases(t)' /\ Owns(t)' /\ ~At(t, "clean")'
    BY <2>2, <2>3, <2>6 DEF Reserves, Leases, Owns, Reserved, Leased, Latched, At
  <2>8. Steps(t)
    BY <1>2, <1>4, <2>5, <2>6, <2>7 DEF Steps, LatchMoves
  <2> QED BY <1>1, <1>2, <2>3, <2>6, <2>7, <2>8, StepKeeps DEF At
<1>5. \/ Over(t) /\ UNCHANGED busy
      \/ \E tag \in Tags :
            /\ ~busy /\ busy'
            /\ Go(t, LET v == [task[t] EXCEPT !.tag = tag]
                     IN IF initialized THEN Reap(v) ELSE [v EXCEPT !.pc = "reconcile"])
  BY DEF Selected
<1> QED BY <1>3, <1>4, <1>5

\* A task that lets go of the latch, once all it had to look at is done.
LEMMA ReapedKeeps ==
    ASSUME BrowserInv, NEW t \in Tasks, ReapDone(t), Freed(t),
           UNCHANGED <<file, entry, initialized, failed, closed>>
    PROVE  BrowserInv'
<1>1. /\ Types /\ LatchInv /\ EntryInv /\ StopInv /\ task[t] # None /\ task[t].pc = "reap"
      /\ task[t] \in Task /\ Shape(t, task[t])
      /\ \A b \in task[t].todo : ~Due(b)
  BY Where DEF BrowserInv, ReapDone, At
<1>2. Owns(t) /\ ~Leases(t) /\ ~Reserves(t)
  BY <1>1 DEF Owns, Leases, Reserves, Latched, Leased, Reserved
<1>3. CASE t # Stopper
  <2>1. Go(t, None)
    BY <1>3 DEF Freed, Over
  <2>2. Moves(t) /\ task'[t] = None
    BY <1>1, <2>1, GoMoves DEF Freed, Types
  <2>3. Steps(t)
    BY <1>2, <2>2 DEF Steps, LatchMoves, Owns, Freed
  <2> QED BY <1>2, <1>3, <2>2, <2>3, StepKeeps DEF Leases, Reserves, Owns, At
<1>4. CASE t = Stopper
  <2>1. PICK w : w = [task[t] EXCEPT !.pc = "stopped"]
    OBVIOUS
  <2>2. w \in Task /\ w.pc = "stopped" /\ w.kind = "stop" /\ w # None
    BY <1>1, <1>4, <2>1 DEF Task, Pcs, Shape
  <2>3. Shape(t, w)
    BY <1>4, <2>2 DEF Shape, PcsOf, Leased, Reserved
  <2>4. Moves(t) /\ task'[t] = w
    BY <1>1, <1>4, <2>1, <2>2, <2>3, GoMoves DEF Freed, Over, Types
  <2>5. ~Owns(t)' /\ ~Leases(t)' /\ ~Reserves(t)' /\ ~At(t, "reconcile")' /\ ~At(t, "clean")'
    BY <2>2, <2>4 DEF Owns, Leases, Reserves, At, Latched, Leased, Reserved
  <2>6. Steps(t)
    BY <1>2, <2>4, <2>5 DEF Steps, LatchMoves, Freed
  <2>7. Entries = {}
    <3> SUFFICES ASSUME NEW b \in Bundles, entry[b] # None PROVE FALSE
      BY DEF Entries
    <3>1. closed /\ Holders(b) = {} /\ b \in task[t].todo
      BY <1>1, <1>4 DEF StopInv, Holders, Entries
    <3>2. entry[b].leases = 0
      BY <1>1, <3>1, FS_EmptySet DEF EntryInv
    <3> QED BY <1>1, <3>1, <3>2 DEF Due
  <2>8. StopInv'
    BY <1>1, <1>4, <2>2, <2>4, <2>7 DEF StopInv, Entries, Moves, Tasks
  <2> QED BY <1>1, <1>2, <2>4, <2>5, <2>6, <2>8, StepKeeps
<1> QED BY <1>3, <1>4

LEMMA ReserveKeeps ==
    ASSUME BrowserInv, NEW t \in Tasks, Reserve(t)
    PROVE  BrowserInv'
<1>1. /\ Types /\ LatchInv /\ TaskInv /\ task[t] # None /\ task[t].pc = "reap"
      /\ task[t] \in Task /\ Shape(t, task[t]) /\ task[t].kind = "prepare"
      /\ t # Stopper
      /\ UNCHANGED <<file, entry, initialized, failed, closed>>
  BY Where DEF BrowserInv, Reserve, ReapDone, At
<1>2. CASE Freed(t)
  BY <1>1, <1>2, ReapedKeeps DEF Reserve
<1>3. ASSUME NEW b \in Fresh, Room, UNCHANGED busy,
             Go(t, [task[t] EXCEPT !.pc = "resolve", !.b = b])
      PROVE  BrowserInv'
  <2>1. PICK w : w = [task[t] EXCEPT !.pc = "resolve", !.b = b]
    OBVIOUS
  <2>2. b \in Bundles /\ entry[b] = None
    BY <1>3 DEF Fresh
  <2>3. /\ w \in Task /\ w.pc = "resolve" /\ w.kind = "prepare" /\ w.b = b
        /\ w.user = task[t].user /\ w.tag = task[t].tag /\ w # None
    <3>1. "resolve" \in Pcs
      BY DEF Pcs, Latched
    <3>2. w = TaskWith(task[t], "resolve", b, task[t].todo, task[t].cut)
      BY <1>1, <2>1, TodoSame, Zenon
    <3>3. task[t].b \in Bundles \cup {None} /\ task[t].todo \in SUBSET Bundles /\ task[t].cut \in BOOLEAN
      BY <1>1, <2>1, TaskFields
    <3> QED BY <1>1, <2>2, <3>1, <3>2, <3>3, TaskSet
  <2>4. Shape(t, w)
    BY <1>1, <2>2, <2>3 DEF Shape, PcsOf, Leased, Reserved
  <2>5. Moves(t) /\ task'[t] = w
    BY <1>1, <1>3, <2>1, <2>3, <2>4, GoMoves DEF Types
  <2>6. /\ ~Leases(t) /\ ~Reserves(t) /\ Owns(t)
        /\ Owns(t)' /\ ~Leases(t)' /\ ~At(t, "reconcile")' /\ ~At(t, "clean")'
    BY <1>1, <2>3, <2>5 DEF Owns, Leases, Reserves, At, Latched, Leased, Reserved
  <2>7. Steps(t)
    BY <1>1, <1>3, <2>5, <2>6 DEF Steps, LatchMoves, LatchInv
  <2>8. initialized
    BY <1>1, <2>6 DEF TaskInv
  <2> QED BY <1>1, <1>3, <2>2, <2>3, <2>5, <2>6, <2>7, <2>8, StepKeeps DEF Room
<1> QED BY <1>2, <1>3 DEF Reserve

LEMMA CloseKeeps ==
    ASSUME BrowserInv, Close
    PROVE  BrowserInv'
<1>1. /\ Types /\ LatchInv /\ StopInv /\ task[Stopper] # None /\ task[Stopper].pc = "gather"
      /\ Stopper \in Tasks /\ task[Stopper] \in Task /\ task[Stopper].kind = "stop"
      /\ \A t \in Requests : task[t] = None
  BY Where DEF BrowserInv, Close, At, Tasks, Gathered, Admitted
<1>2. ~busy
  BY <1>1 DEF LatchInv, Owns, Latched, Tasks
<1>3. PICK w : w = Reap(task[Stopper])
  OBVIOUS
<1>4. w \in Task /\ w.pc = "reap" /\ w.kind = "stop" /\ w.todo = Entries
  <2>1. "reap" \in Pcs /\ Entries \in SUBSET Bundles
    BY DEF Pcs, Latched, Entries
  <2> QED BY <1>1, <1>3, <2>1 DEF Reap, Task
<1>5. Shape(Stopper, w)
  BY <1>4 DEF Shape, PcsOf, Leased, Reserved
<1>6. /\ Go(Stopper, w) /\ busy' = TRUE /\ closed' = TRUE
      /\ UNCHANGED <<file, entry, initialized, failed>>
  BY <1>2, <1>3 DEF Close
<1>7. Moves(Stopper) /\ task'[Stopper] = w
  BY <1>1, <1>4, <1>5, <1>6, GoMoves DEF Types
<1>8. /\ ~Leases(Stopper) /\ ~Reserves(Stopper) /\ w # None
      /\ Owns(Stopper)' /\ ~Leases(Stopper)' /\ ~Reserves(Stopper)'
      /\ ~At(Stopper, "reconcile")' /\ ~At(Stopper, "clean")'
  BY <1>1, <1>4, <1>7 DEF Owns, Leases, Reserves, At, Latched, Leased, Reserved
<1>9. Steps(Stopper)
  BY <1>2, <1>6, <1>7, <1>8 DEF Steps, LatchMoves
<1>10. StopInv'
  BY <1>1, <1>4, <1>6, <1>7 DEF StopInv, Entries, Moves, Tasks
<1> QED BY <1>1, <1>4, <1>7, <1>8, <1>9, <1>10, StepKeeps

----------------------------------------------------------------------------
(* A step of one task on one bundle. *)

\* At most task t, and what there is of bundle c, changes.
Touches(t, c) ==
    /\ Moves(t) /\ LatchMoves(t)
    /\ file' \in [Bundles -> Files] /\ entry' \in [Bundles -> Entry \cup {None}]
    /\ \A b \in Bundles \ {c} : entry'[b] = entry[b] /\ file'[b] = file[b]
    /\ initialized' = initialized
    /\ failed => failed'
    /\ Leases(t) => task[t].b = c
    /\ Leases(t)' => task'[t].b = c
    /\ Reserves(t) => task[t].b = c

\* What an entry of c stands for afterwards.
EntryThen(c) ==
    entry'[c] # None =>
        /\ initialized
        /\ entry'[c].leases = Cardinality(Holders(c)')
        /\ entry'[c].retiring => entry'[c].leases = 0
        /\ ~entry'[c].retiring => file'[c] = "whole"

\* What task u relies on afterwards.
TaskThen(u) ==
    /\ At(u, "reconcile")' => ~initialized
    /\ At(u, "clean")' => entry'[task'[u].b] # None /\ entry'[task'[u].b].retiring
    /\ Reserves(u)' => entry'[task'[u].b] = None
    /\ Owns(u)' /\ task'[u].kind = "prepare" /\ task'[u].pc # "reconcile" => initialized
    /\ Leases(u)' => entry'[task'[u].b] # None /\ ~entry'[task'[u].b].retiring

LEMMA TouchKeeps ==
    ASSUME BrowserInv, NEW t \in Tasks, NEW c \in Bundles, Touches(t, c),
           EntryThen(c), TaskThen(t),
           \A u \in Tasks \ {t} :
               task[u] # None /\ task[u].b = c =>
                   /\ Leases(u) => entry'[c] # None /\ ~entry'[c].retiring
                   /\ Reserves(u) => entry'[c] = None
                   /\ At(u, "clean") => entry'[c] # None /\ entry'[c].retiring,
           RoomInv',
           initialized /\ ~failed' /\ file'[c] # "none" =>
               entry'[c] # None \/ (Reserves(t)' /\ task'[t].b = c),
           StopInv'
    PROVE  BrowserInv'
<1>1. /\ Types /\ LatchInv /\ TaskInv /\ EntryInv /\ RoomInv /\ KeptInv /\ StopInv
      /\ Moves(t) /\ LatchMoves(t) /\ initialized' = initialized
      /\ \A b \in Bundles \ {c} : entry'[b] = entry[b] /\ file'[b] = file[b]
  BY DEF BrowserInv, Touches
<1>2. Types'
  BY <1>1, MoveTypes DEF Touches
<1>3. LatchInv'
  BY <1>1, MoveLatch
<1>4. \A u \in Tasks \ {t} : /\ task'[u] = task[u]
                             /\ Leases(u)' <=> Leases(u)
                             /\ Reserves(u)' <=> Reserves(u)
                             /\ Owns(u)' <=> Owns(u)
                             /\ \A pc : At(u, pc)' <=> At(u, pc)
  BY <1>1 DEF Moves, Leases, Reserves, Owns, At
<1>5. TaskInv'
  <2>1. ASSUME NEW u \in Tasks PROVE TaskThen(u)
    <3>1. CASE u = t
      BY <3>1
    <3>2. CASE u # t
      <4>1. task'[u] # None /\ task'[u].pc \in {"clean"} \cup Reserved \cup Leased
                => task'[u].b \in Bundles
        BY <1>1, <1>4, <3>2 DEF Types, Shape
      <4>2. At(u, "clean") \/ Reserves(u) \/ Leases(u) => task'[u].b \in Bundles
        BY <1>4, <3>2, <4>1 DEF At, Reserves, Leases
      <4>3. CASE task'[u] # None /\ task'[u].b = c
        BY <1>1, <1>4, <3>2, <4>3 DEF TaskThen, TaskInv
      <4>4. CASE ~(task'[u] # None /\ task'[u].b = c)
        BY <1>1, <1>4, <3>2, <4>2, <4>4 DEF TaskThen, TaskInv, At, Reserves, Leases, Owns
      <4> QED BY <4>3, <4>4
    <3> QED BY <3>1, <3>2
  <2> QED BY <1>1, <2>1 DEF TaskInv, TaskThen
<1>6. EntryInv'
  <2> SUFFICES ASSUME NEW b \in Bundles PROVE EntryThen(b)
    BY <1>1 DEF EntryInv, EntryThen
  <2>1. CASE b # c
    <3>1. Holders(b)' = Holders(b)
      BY <1>4, <2>1 DEF Holders, Touches, Leases, Tasks
    <3> QED BY <1>1, <2>1, <3>1 DEF EntryInv, EntryThen
  <2> QED BY <2>1
<1>7. KeptInv'
  <2> SUFFICES ASSUME initialized, ~failed', NEW b \in Bundles, file'[b] # "none", entry'[b] = None
               PROVE  \E u \in Tasks : Reserves(u)' /\ task'[u].b = b
    BY <1>1 DEF KeptInv
  <2>1. CASE b # c
    <3>1. PICK u \in Tasks : Reserves(u) /\ task[u].b = b
      BY <1>1, <2>1 DEF KeptInv, Touches
    <3> QED BY <1>4, <2>1, <3>1 DEF Touches
  <2>2. CASE b = c
    BY <2>2
  <2> QED BY <2>1, <2>2
<1> QED BY <1>2, <1>3, <1>5, <1>6, <1>7 DEF BrowserInv

\* The entries and the reservations stay.
LEMMA SameRoom ==
    ASSUME RoomInv, Entries' = Entries,
           \A u \in Tasks : Reserves(u)' => \E v \in Tasks : Reserves(v)
    PROVE  RoomInv'
  BY DEF RoomInv

\* Who owns the latch is the only one to reserve or to clean.
LEMMA Alone ==
    ASSUME LatchInv, NEW t \in Tasks, Owns(t), NEW u \in Tasks \ {t}
    PROVE  ~Owns(u) /\ ~Reserves(u) /\ ~At(u, "clean")
  BY DEF LatchInv, Owns, Reserves, At, Latched, Reserved

LEMMA ReapNextKeeps ==
    ASSUME BrowserInv, NEW t \in Tasks, ReapNext(t)
    PROVE  BrowserInv'
<1>1. /\ Types /\ LatchInv /\ TaskInv /\ EntryInv /\ RoomInv /\ StopInv
      /\ task[t] # None /\ task[t].pc = "reap" /\ task[t] \in Task /\ Shape(t, task[t])
  BY Where DEF BrowserInv, ReapNext, At
<1>2. PICK b \in {b \in task[t].todo : Due(b)}, passed \in SUBSET (task[t].todo \ {d \in task[t].todo : Due(d)}) :
        /\ Go(t, [task[t] EXCEPT !.pc = "clean", !.b = b, !.todo = @ \ ({b} \cup passed)])
        /\ entry' = [entry EXCEPT ![b] = Retiring(@)]
  BY DEF ReapNext
<1>3. /\ b \in Bundles /\ b \in task[t].todo /\ Due(b) /\ entry[b] # None /\ entry[b] \in Entry
      /\ entry[b].leases = 0
  BY <1>1, <1>2 DEF Task, Due, Types
<1>4. UNCHANGED <<file, flags>>
  BY DEF ReapNext
<1>5. PICK w : w = [task[t] EXCEPT !.pc = "clean", !.b = b, !.todo = @ \ ({b} \cup passed)]
  OBVIOUS
<1>6. /\ w \in Task /\ w # None /\ w.pc = "clean" /\ w.b = b /\ w.kind = task[t].kind
      /\ w.todo = task[t].todo \ ({b} \cup passed)
      /\ w.user = task[t].user /\ w.tag = task[t].tag
  <2>1. "clean" \in Pcs /\ task[t].todo \ ({b} \cup passed) \in SUBSET Bundles
    BY <1>1 DEF Pcs, Latched, Task
  <2>2. PICK todo \in SUBSET Bundles : todo = task[t].todo \ ({b} \cup passed)
    BY <2>1
  <2>3. w = [task[t] EXCEPT !.pc = "clean", !.b = b, !.todo = todo]
    BY <1>5, <2>2
  <2>4. w = TaskWith(task[t], "clean", b, todo, task[t].cut)
    <3>1. task[t] \in Task
      BY <1>1
    <3> QED BY <2>3, <3>1, CutSame, Zenon
  <2>5. task[t].cut \in BOOLEAN
    BY <1>1, TaskFields
  <2> QED BY <1>1, <1>3, <2>1, <2>2, <2>4, <2>5, TaskSet
<1>7. Shape(t, w)
  <2>1. task[t].kind \in {"prepare", "apk", "stop"}
    BY <1>1 DEF Shape, PcsOf, Task
  <2> QED BY <1>1, <1>3, <1>6, <2>1 DEF Shape, PcsOf, Leased, Reserved
<1>8. Moves(t) /\ task'[t] = w
  BY <1>1, <1>2, <1>4, <1>5, <1>6, <1>7, GoMoves DEF flags, Types
<1>9. /\ entry' \in [Bundles -> Entry \cup {None}]
      /\ entry'[b] \in Entry /\ entry'[b] # None /\ entry'[b].retiring
      /\ entry'[b].leases = 0
      /\ \A c \in Bundles \ {b} : entry'[c] = entry[c]
  BY <1>1, <1>2, <1>3 DEF Retiring, Entry, Types
<1>10. /\ Owns(t) /\ ~Leases(t) /\ ~Reserves(t)
       /\ Owns(t)' /\ ~Leases(t)' /\ ~Reserves(t)' /\ ~At(t, "reconcile")'
  BY <1>1, <1>6, <1>8 DEF Owns, Leases, Reserves, At, Latched, Leased, Reserved
<1>11. Touches(t, b)
  BY <1>1, <1>4, <1>8, <1>9, <1>10 DEF Touches, LatchMoves, LatchInv, flags, Types
<1>12. \A u \in Tasks \ {t} : ~Reserves(u) /\ ~At(u, "clean") /\ (Leases(u) => task[u].b # b)
  BY <1>1, <1>3, <1>10, Alone, Unheld
<1>13. Holders(b)' = Holders(b)
  BY <1>8, <1>10, SameHolders DEF Moves, Leases, Tasks
<1>14. EntryThen(b)
  BY <1>1, <1>3, <1>9, <1>13 DEF EntryThen, EntryInv
<1>15. TaskThen(t)
  BY <1>1, <1>6, <1>8, <1>9, <1>10 DEF TaskThen, TaskInv
<1>16. Entries' = Entries
  BY <1>3, <1>9 DEF Entries
<1>17. \A u \in Tasks : ~Reserves(u)'
  BY <1>8, <1>10, <1>12 DEF Reserves, Moves
<1>18. RoomInv'
  BY <1>1, <1>16, <1>17, SameRoom
<1>19. StopInv'
  <2>1. CASE t # Stopper
    BY <1>1, <1>4, <1>8, <1>16, <2>1, MoveStop DEF flags, Tasks
  <2>2. CASE t = Stopper
    <3>1. closed /\ \A u \in Requests : task[u] = None
      BY <1>1, <2>2 DEF StopInv
    <3>2. ASSUME NEW d \in passed PROVE d \notin Entries
      <4> SUFFICES ASSUME d \in Bundles, entry[d] # None PROVE Due(d)
        BY DEF Entries
      <4>1. Holders(d) = {}
        BY <3>1 DEF Holders
      <4> QED BY <1>1, <3>1, <4>1, FS_EmptySet DEF EntryInv, Due
    <3> QED BY <1>1, <1>4, <1>6, <1>8, <1>16, <2>2, <3>1, <3>2 DEF StopInv, flags, Moves, Tasks
  <2> QED BY <2>1, <2>2
<1> QED BY <1>3, <1>9, <1>11, <1>12, <1>14, <1>15, <1>18, <1>19, TouchKeeps

\* The end of a task: it relies on nothing any more.
LEMMA OverMoves ==
    ASSUME Types, NEW t \in Tasks, task[t] # None, Over(t),
           busy' \in BOOLEAN, initialized' \in BOOLEAN, failed' \in BOOLEAN, closed' \in BOOLEAN
    PROVE  /\ Moves(t) /\ TaskThen(t)
           /\ ~Owns(t)' /\ ~Leases(t)' /\ ~Reserves(t)'
           /\ t # Stopper => task'[t] = None
           /\ t = Stopper => task'[t] # None /\ task'[t].pc = "stopped"
<1>1. task[t] \in Task /\ Shape(t, task[t])
  BY Where
<1>2. PICK w : w = IF t = Stopper THEN [task[t] EXCEPT !.pc = "stopped"] ELSE None
  OBVIOUS
<1>3. /\ w \in Task \cup {None}
      /\ t # Stopper => w = None
      /\ t = Stopper => w # None /\ w.pc = "stopped" /\ w.kind = "stop"
  BY <1>1, <1>2 DEF Task, Pcs, Shape
<1>4. w # None => Shape(t, w)
  BY <1>3 DEF Shape, PcsOf, Leased, Reserved
<1>5. Moves(t) /\ task'[t] = w
  BY <1>2, <1>3, <1>4, GoMoves DEF Over
<1> QED BY <1>3, <1>5 DEF Owns, Leases, Reserves, TaskThen, At, Latched, Leased, Reserved

\* Entries only go, and nothing is reserved.
LEMMA LessRoom ==
    ASSUME RoomInv, Entries' \subseteq Entries, \A u \in Tasks : ~Reserves(u)'
    PROVE  RoomInv'
<1>1. Cardinality(Entries') <= Cardinality(Entries)
  BY EntriesFinite, FS_Subset
<1> QED BY <1>1, EntriesFinite DEF RoomInv, Capacity

\* The bundle a task cleans up is streamed by nobody.
LEMMA Cleaning ==
    ASSUME BrowserInv, NEW t \in Tasks, Cleaned(t)
    PROVE  /\ task[t] # None /\ task[t].pc = "clean" /\ task[t] \in Task /\ Shape(t, task[t])
           /\ task[t].b \in Bundles
           /\ entry[task[t].b] # None /\ entry[task[t].b].retiring
           /\ entry[task[t].b].leases = 0
           /\ Owns(t) /\ ~Leases(t) /\ ~Reserves(t)
           /\ \A u \in Tasks \ {t} : ~Reserves(u) /\ ~At(u, "clean")
                                     /\ (Leases(u) => task[u].b # task[t].b)
<1>1. /\ Types /\ LatchInv /\ TaskInv /\ EntryInv
      /\ task[t] # None /\ task[t].pc = "clean" /\ task[t] \in Task /\ Shape(t, task[t])
  BY Where DEF BrowserInv, Cleaned, At
<1>2. Owns(t) /\ ~Leases(t) /\ ~Reserves(t)
  BY <1>1 DEF Owns, Leases, Reserves, Latched, Leased, Reserved
<1>3. task[t].b \in Bundles
  BY <1>1 DEF Shape
<1>4. entry[task[t].b] # None /\ entry[task[t].b].retiring /\ entry[task[t].b].leases = 0
  BY <1>1, <1>3 DEF TaskInv, EntryInv, At
<1> QED BY <1>1, <1>2, <1>3, <1>4, Alone, Unheld

LEMMA CleanedKeeps ==
    ASSUME BrowserInv, NEW t \in Tasks, Cleaned(t)
    PROVE  BrowserInv'
<1>1. /\ Types /\ LatchInv /\ TaskInv /\ EntryInv /\ RoomInv /\ StopInv
  BY DEF BrowserInv
<1>2. PICK b \in Bundles : b = task[t].b
  BY Cleaning
<1>3. /\ task[t] # None /\ task[t].pc = "clean" /\ task[t] \in Task /\ Shape(t, task[t])
      /\ entry[b] # None /\ entry[b].retiring /\ entry[b].leases = 0
      /\ Owns(t) /\ ~Leases(t) /\ ~Reserves(t)
      /\ \A u \in Tasks \ {t} : ~Reserves(u) /\ ~At(u, "clean")
                                /\ (Leases(u) => task[u].b # b)
  BY <1>2, Cleaning
<1>4. CASE /\ Gone(b)
           /\ entry' = [entry EXCEPT ![b] = None]
           /\ Go(t, [task[t] EXCEPT !.pc = "reap", !.b = None])
           /\ UNCHANGED flags
  <2>1. PICK w : w = [task[t] EXCEPT !.pc = "reap", !.b = None]
    OBVIOUS
  <2>2. /\ w \in Task /\ w # None /\ w.pc = "reap" /\ w.kind = task[t].kind
        /\ w.todo = task[t].todo /\ w.user = task[t].user /\ w.tag = task[t].tag
    <3>1. "reap" \in Pcs
      BY DEF Pcs, Latched
    <3>2. w = TaskWith(task[t], "reap", None, task[t].todo, task[t].cut)
      BY <1>3, <2>1, TodoSame, Zenon
    <3>3. task[t].b \in Bundles \cup {None} /\ task[t].todo \in SUBSET Bundles /\ task[t].cut \in BOOLEAN
      BY <1>3, <2>1, TaskFields
    <3> QED BY <1>3, <3>1, <3>2, <3>3, TaskSet
  <2>3. Shape(t, w)
    <3>1. task[t].kind \in {"prepare", "apk", "stop"}
      BY <1>3 DEF Shape, PcsOf, Task
    <3> QED BY <1>3, <2>2, <3>1 DEF Shape, PcsOf, Leased, Reserved
  <2>4. Moves(t) /\ task'[t] = w
    BY <1>1, <1>4, <2>1, <2>2, <2>3, GoMoves DEF flags, Types
  <2>5. /\ entry' \in [Bundles -> Entry \cup {None}] /\ entry'[b] = None
        /\ file' \in [Bundles -> Files] /\ file'[b] = "none"
        /\ \A c \in Bundles \ {b} : entry'[c] = entry[c] /\ file'[c] = file[c]
    BY <1>1, <1>4 DEF Types, Gone, Files
  <2>6. Owns(t)' /\ ~Leases(t)' /\ ~Reserves(t)' /\ ~At(t, "reconcile")' /\ ~At(t, "clean")'
    BY <2>2, <2>4 DEF Owns, Leases, Reserves, At, Latched, Leased, Reserved
  <2>7. Touches(t, b)
    BY <1>1, <1>3, <1>4, <2>4, <2>5, <2>6 DEF Touches, LatchMoves, LatchInv, flags
  <2>8. TaskThen(t) /\ EntryThen(b)
    BY <1>1, <1>3, <2>2, <2>4, <2>5, <2>6 DEF TaskThen, TaskInv, EntryThen
  <2>9. /\ Entries' \subseteq Entries /\ b \notin Entries'
    BY <2>5 DEF Entries
  <2>10. \A u \in Tasks : ~Reserves(u)'
    BY <1>3, <2>4, <2>6 DEF Reserves, Moves
  <2>11. RoomInv'
    BY <1>1, <2>9, <2>10, LessRoom
  <2>12. StopInv'
    <3>1. CASE t # Stopper
      BY <1>1, <1>3, <1>4, <2>4, <2>9, <3>1, MoveStop DEF flags, Tasks
    <3>2. CASE t = Stopper
      BY <1>1, <1>2, <1>3, <1>4, <2>2, <2>4, <2>9, <3>2 DEF StopInv, flags, Moves, Tasks
    <3> QED BY <3>1, <3>2
  <2> QED BY <1>3, <2>5, <2>7, <2>8, <2>11, <2>12, TouchKeeps
<1>5. CASE /\ GoneOrNot(b)
           /\ failed' = TRUE
           /\ Raised(t)
           /\ UNCHANGED <<entry, initialized, closed>>
  <2>1. busy' = FALSE /\ Over(t)
    BY <1>5 DEF Raised, Freed
  <2>2. /\ Moves(t) /\ TaskThen(t)
        /\ ~Owns(t)' /\ ~Leases(t)' /\ ~Reserves(t)'
        /\ t # Stopper => task'[t] = None
        /\ t = Stopper => task'[t] # None /\ task'[t].pc = "stopped"
    BY <1>1, <1>3, <1>5, <2>1, OverMoves DEF Types
  <2>3. /\ file' \in [Bundles -> Files]
        /\ \A c \in Bundles \ {b} : entry'[c] = entry[c] /\ file'[c] = file[c]
    BY <1>1, <1>5 DEF GoneOrNot, Gone, Types, Files
  <2>4. Touches(t, b)
    BY <1>1, <1>3, <1>5, <2>1, <2>2, <2>3 DEF Touches, LatchMoves, Types
  <2>5. Holders(b)' = Holders(b)
    BY <1>3, <2>2, SameHolders DEF Moves, Leases, Tasks
  <2>6. EntryThen(b)
    BY <1>1, <1>3, <1>5, <2>5 DEF EntryThen, EntryInv
  <2>7. Entries' = Entries
    BY <1>5 DEF Entries
  <2>8. \A u \in Tasks : ~Reserves(u)'
    BY <1>3, <2>2 DEF Reserves, Moves
  <2>9. RoomInv'
    BY <1>1, <2>7, <2>8, LessRoom
  <2>10. StopInv'
    <3>1. CASE t # Stopper
      BY <1>1, <1>3, <1>5, <2>2, <2>7, <3>1, MoveStop DEF Tasks
    <3>2. CASE t = Stopper
      BY <1>1, <1>3, <1>5, <2>2, <3>2 DEF StopInv, Moves, Tasks
    <3> QED BY <3>1, <3>2
  <2> QED BY <1>3, <1>5, <2>2, <2>4, <2>6, <2>9, <2>10, TouchKeeps
<1> QED BY <1>2, <1>4, <1>5 DEF Cleaned

----------------------------------------------------------------------------
(* The preparation of a bundle. *)

LEMMA ReconciledKeeps ==
    ASSUME BrowserInv, NEW t \in Tasks, Reconciled(t)
    PROVE  BrowserInv'
<1>1. /\ Types /\ LatchInv /\ TaskInv /\ EntryInv /\ RoomInv /\ StopInv
      /\ task[t] # None /\ task[t].pc = "reconcile" /\ task[t] \in Task /\ Shape(t, task[t])
      /\ t \in Requests /\ t # Stopper /\ task[t].kind = "prepare"
      /\ ~initialized /\ Owns(t)
  BY Where DEF BrowserInv, Reconciled, At, TaskInv, Owns, Latched
<1>2. /\ \A b \in Bundles : entry[b] = None
      /\ UNCHANGED <<entry, closed>>
  BY <1>1 DEF EntryInv, Reconciled
<1>3. \A u \in Tasks : /\ ~Leases(u) /\ ~Reserves(u) /\ ~At(u, "clean")
                       /\ u # t => ~Owns(u)
  <2> SUFFICES ASSUME NEW u \in Tasks
               PROVE  ~Leases(u) /\ ~Reserves(u) /\ ~At(u, "clean") /\ (u # t => ~Owns(u))
    OBVIOUS
  <2>1. ~Leases(u)
    BY <1>1, <1>2, LeasesAreRequests DEF TaskInv
  <2>2. u # t => ~Owns(u) /\ ~Reserves(u) /\ ~At(u, "clean")
    BY <1>1, Alone
  <2>3. ~Reserves(t) /\ ~At(t, "clean")
    BY <1>1 DEF Reserves, At, Reserved
  <2> QED BY <2>1, <2>2, <2>3
<1>4. /\ file' \in [Bundles -> Files] /\ failed' \in BOOLEAN /\ initialized' \in BOOLEAN
      /\ failed => failed'
      /\ initialized' /\ ~failed' => \A b \in Bundles : file'[b] = "none"
  BY <1>1 DEF Reconciled, Freed, Types, Files
<1>5. \/ Over(t) /\ busy' = FALSE /\ initialized' = initialized
      \/ Go(t, Reap(task[t])) /\ busy' = busy /\ initialized' = TRUE
  BY DEF Reconciled, Freed
<1>6. /\ Moves(t) /\ LatchMoves(t)
      /\ ~Leases(t)' /\ ~Reserves(t)' /\ ~At(t, "clean")' /\ ~At(t, "reconcile")'
      /\ Owns(t)' => initialized'
  <2>1. CASE Over(t) /\ busy' = FALSE /\ initialized' = initialized
    <3>1. Moves(t) /\ ~Owns(t)' /\ ~Leases(t)' /\ ~Reserves(t)'
      BY <1>1, <1>2, <1>4, <2>1, OverMoves DEF Types
    <3> QED BY <1>1, <2>1, <3>1 DEF LatchMoves, Owns, At, Latched
  <2>2. CASE Go(t, Reap(task[t])) /\ busy' = busy /\ initialized' = TRUE
    <3>1. PICK w : w = Reap(task[t])
      OBVIOUS
    <3>2. w \in Task
      <4>1. "reap" \in Pcs /\ Entries \in SUBSET Bundles
        BY DEF Pcs, Latched, Entries
      <4> QED BY <1>1, <3>1, <4>1 DEF Reap, Task
    <3>3. /\ w # None /\ w.pc = "reap" /\ w.kind = "prepare" /\ w.user = task[t].user
          /\ w.tag = task[t].tag
      BY <1>1, <3>1, <3>2 DEF Reap, Task
    <3>4. Shape(t, w)
      BY <1>1, <3>3 DEF Shape, PcsOf, Leased, Reserved
    <3>5. Moves(t) /\ task'[t] = w
      BY <1>1, <1>2, <1>4, <2>2, <3>1, <3>2, <3>4, GoMoves DEF Types
    <3> QED BY <1>1, <2>2, <3>3, <3>5
            DEF LatchMoves, LatchInv, Owns, At, Leases, Reserves, Latched, Leased, Reserved
  <2> QED BY <1>5, <2>1, <2>2
<1>7. \A u \in Tasks : ~Leases(u)' /\ ~Reserves(u)' /\ ~At(u, "clean")'
                       /\ (u # t => ~Owns(u)' /\ ~At(u, "reconcile")')
  <2>1. \A u \in Tasks \ {t} : task'[u] = task[u]
    BY <1>6 DEF Moves
  <2> QED BY <1>3, <1>6, <2>1 DEF Leases, Reserves, At, Owns, Latched
<1>8. Types'
  BY <1>1, <1>2, <1>4, <1>6, MoveTypes DEF Types
<1>9. LatchInv'
  BY <1>1, <1>6, MoveLatch
<1>10. TaskInv'
  BY <1>6, <1>7 DEF TaskInv
<1>11. EntryInv' /\ KeptInv' /\ Entries' = Entries
  BY <1>2, <1>4 DEF EntryInv, KeptInv, Entries
<1>12. RoomInv'
  BY <1>1, <1>7, <1>11, LessRoom
<1>13. StopInv'
  BY <1>1, <1>2, <1>4, <1>6, <1>11, MoveStop
<1> QED BY <1>8, <1>9, <1>10, <1>11, <1>12, <1>13 DEF BrowserInv

\* A download is known to its task alone.
LEMMA Downloading ==
    ASSUME BrowserInv, NEW t \in Tasks, task[t] # None, task[t].pc \in {"download", "discard"}
    PROVE  /\ Types /\ LatchInv /\ TaskInv /\ EntryInv /\ RoomInv /\ KeptInv /\ StopInv
           /\ task[t] \in Task /\ Shape(t, task[t]) /\ t \in Requests /\ t # Stopper
           /\ task[t].kind = "prepare" /\ task[t].b \in Bundles
           /\ entry[task[t].b] = None /\ initialized
           /\ Owns(t) /\ Reserves(t) /\ ~Leases(t)
           /\ \A u \in Tasks \ {t} : /\ ~Owns(u) /\ ~Reserves(u) /\ ~At(u, "clean")
                                     /\ Leases(u) => task[u].b # task[t].b
<1>1. /\ Types /\ LatchInv /\ TaskInv /\ EntryInv /\ RoomInv /\ KeptInv /\ StopInv
      /\ task[t] \in Task /\ Shape(t, task[t]) /\ t \in Requests /\ t # Stopper
      /\ task[t].kind = "prepare"
  BY Where DEF BrowserInv, Reserved
<1>2. Owns(t) /\ Reserves(t) /\ ~Leases(t)
  BY DEF Owns, Reserves, Leases, Latched, Reserved, Leased
<1>3. task[t].b \in Bundles
  BY <1>1, <1>2 DEF Shape, Reserves
<1>4. entry[task[t].b] = None /\ initialized
  BY <1>1, <1>2 DEF TaskInv
<1> QED BY <1>1, <1>2, <1>3, <1>4, Alone DEF TaskInv

LEMMA FetchKeeps ==
    ASSUME BrowserInv, NEW t \in Tasks, Fetch(t)
    PROVE  BrowserInv'
<1>1. /\ task[t] # None /\ task[t].pc = "download"
      /\ UNCHANGED <<entry, flags, task>>
  BY DEF Fetch, At
<1>2. PICK b \in Bundles : b = task[t].b
  BY <1>1, Downloading
<1>3. /\ Types /\ LatchInv /\ TaskInv /\ EntryInv /\ RoomInv /\ KeptInv /\ StopInv
      /\ task[t] \in Task /\ Shape(t, task[t])
      /\ entry[b] = None /\ Owns(t) /\ Reserves(t) /\ ~Leases(t)
      /\ \A u \in Tasks \ {t} : /\ ~Owns(u) /\ ~Reserves(u) /\ ~At(u, "clean")
                                /\ Leases(u) => task[u].b # b
  BY <1>1, <1>2, Downloading
<1>4. /\ file' \in [Bundles -> Files]
      /\ \A c \in Bundles \ {b} : file'[c] = file[c]
  BY <1>2, <1>3 DEF Fetch, Types, Files
<1>5. \A u \in Tasks : /\ Owns(u)' <=> Owns(u)
                       /\ Leases(u)' <=> Leases(u)
                       /\ Reserves(u)' <=> Reserves(u)
                       /\ \A pc : At(u, pc)' <=> At(u, pc)
  BY <1>1 DEF Owns, Leases, Reserves, At
<1>6. Touches(t, b)
  BY <1>1, <1>2, <1>3, <1>4, <1>5 DEF Touches, Moves, LatchMoves, LatchInv, flags, Types
<1>7. TaskThen(t) /\ EntryThen(b)
  BY <1>1, <1>3, <1>5 DEF TaskThen, TaskInv, EntryThen, flags
<1>8. RoomInv'
  BY <1>1, <1>3, <1>5, SameRoom DEF Entries
<1>9. StopInv'
  BY <1>1, <1>3 DEF StopInv, Entries, flags
<1> QED BY <1>1, <1>2, <1>3, <1>5, <1>6, <1>7, <1>8, <1>9, TouchKeeps

LEMMA DownloadedKeeps ==
    ASSUME BrowserInv, NEW t \in Tasks, Downloaded(t)
    PROVE  BrowserInv'
<1>1. /\ task[t] # None /\ task[t].pc = "download" /\ busy' = FALSE /\ Over(t)
      /\ UNCHANGED <<file, initialized, failed, closed>>
  BY DEF Downloaded, At, Freed
<1>2. PICK b \in Bundles : b = task[t].b
  BY <1>1, Downloading
<1>3. /\ Types /\ LatchInv /\ TaskInv /\ EntryInv /\ RoomInv /\ KeptInv /\ StopInv
      /\ task[t] \in Task /\ Shape(t, task[t]) /\ t \in Requests /\ t # Stopper
      /\ task[t].kind = "prepare" /\ initialized
      /\ entry[b] = None /\ Owns(t) /\ Reserves(t) /\ ~Leases(t)
      /\ \A u \in Tasks \ {t} : /\ ~Owns(u) /\ ~Reserves(u) /\ ~At(u, "clean")
                                /\ Leases(u) => task[u].b # b
  BY <1>1, <1>2, Downloading
<1>4. file[b] = "whole" /\ entry' = [entry EXCEPT ![b] = NewEntry(task[t])]
  BY <1>2 DEF Downloaded
<1>5. PICK e : e = NewEntry(task[t])
  OBVIOUS
<1>6. e \in Entry /\ e.leases = 0 /\ e.retiring = FALSE
  <2>1. task[t].user \in Users /\ task[t].tag \in Tags
    BY <1>1, <1>3 DEF Shape
  <2> QED BY <1>5, <2>1 DEF NewEntry, Entry
<1>7. /\ entry' \in [Bundles -> Entry \cup {None}] /\ entry'[b] = e /\ e # None
      /\ \A c \in Bundles \ {b} : entry'[c] = entry[c]
  BY <1>3, <1>4, <1>5, <1>6 DEF Types
<1>8. /\ Moves(t) /\ TaskThen(t)
      /\ ~Owns(t)' /\ ~Leases(t)' /\ ~Reserves(t)' /\ task'[t] = None
  BY <1>1, <1>3, OverMoves DEF Types
<1>9. Touches(t, b)
  BY <1>1, <1>2, <1>3, <1>7, <1>8 DEF Touches, LatchMoves, Types
<1>10. Cardinality(Holders(b)') = 0
  <2>1. Holders(b)' = {}
    BY <1>3, <1>8 DEF Holders, Leases, Moves, Tasks
  <2> QED BY <2>1, FS_EmptySet
<1>11. EntryThen(b)
  BY <1>1, <1>3, <1>4, <1>6, <1>7, <1>10 DEF EntryThen
<1>12. RoomInv'
  <2>1. Entries' = Entries \cup {b} /\ b \notin Entries
    BY <1>3, <1>7 DEF Entries
  <2>2. Cardinality(Entries') = Cardinality(Entries) + 1
    BY <2>1, EntriesFinite, FS_AddElement
  <2>3. Cardinality(Entries) < Capacity
    BY <1>3 DEF RoomInv
  <2>4. \A u \in Tasks : ~Reserves(u)'
    BY <1>3, <1>8 DEF Reserves, Moves
  <2> QED BY <2>2, <2>3, <2>4, EntriesFinite DEF RoomInv, Capacity
<1>13. StopInv'
  <2>1. task'[Stopper] = task[Stopper]
    BY <1>3, <1>8 DEF Moves, Tasks
  <2>2. task[Stopper] # None => task[Stopper].pc = "gather"
    BY <1>1, <1>3 DEF StopInv
  <2> QED BY <2>1, <2>2 DEF StopInv
<1> QED BY <1>3, <1>7, <1>8, <1>9, <1>11, <1>12, <1>13, TouchKeeps

LEMMA DownloadFailsKeeps ==
    ASSUME BrowserInv, NEW t \in Tasks, DownloadFails(t)
    PROVE  BrowserInv'
<1>1. /\ task[t] # None /\ task[t].pc = "download" /\ Go(t, GivenUp(task[t]))
      /\ UNCHANGED <<entry, flags>>
  BY DEF DownloadFails, At
<1>2. PICK b \in Bundles : b = task[t].b
  BY <1>1, Downloading
<1>3. /\ Types /\ LatchInv /\ TaskInv /\ EntryInv /\ RoomInv /\ KeptInv /\ StopInv
      /\ task[t] \in Task /\ Shape(t, task[t]) /\ t \in Requests /\ t # Stopper
      /\ task[t].kind = "prepare" /\ initialized
      /\ entry[b] = None /\ Owns(t) /\ Reserves(t) /\ ~Leases(t)
      /\ \A u \in Tasks \ {t} : /\ ~Owns(u) /\ ~Reserves(u) /\ ~At(u, "clean")
                                /\ Leases(u) => task[u].b # b
  BY <1>1, <1>2, Downloading
<1>4. /\ file' \in [Bundles -> Files]
      /\ \A c \in Bundles \ {b} : file'[c] = file[c]
  BY <1>2, <1>3 DEF DownloadFails, Gone, Types, Files
<1>5. PICK w : w = GivenUp(task[t])
  OBVIOUS
<1>6. /\ w \in Task /\ w # None /\ w.pc = "discard" /\ w.kind = "prepare" /\ w.b = b
      /\ w.user = task[t].user /\ w.tag = task[t].tag
  <2>1. "discard" \in Pcs
    BY DEF Pcs, Latched
  <2>2. PICK cut \in BOOLEAN : cut = FALSE
    OBVIOUS
  <2>3. w = [task[t] EXCEPT !.pc = "discard", !.cut = cut]
    BY <1>5, <2>2 DEF GivenUp
  <2>4. w = TaskWith(task[t], "discard", task[t].b, task[t].todo, cut)
    BY <1>3, <2>3, BundleSame, Zenon
  <2>5. task[t].b \in Bundles \cup {None} /\ task[t].todo \in SUBSET Bundles
    BY <1>3, TaskFields
  <2> QED BY <1>2, <1>3, <2>1, <2>4, <2>5, TaskSet
<1>7. Shape(t, w)
  BY <1>1, <1>3, <1>6 DEF Shape, PcsOf, Leased, Reserved
<1>8. Moves(t) /\ task'[t] = w
  BY <1>1, <1>3, <1>5, <1>6, <1>7, GoMoves DEF flags, Types
<1>9. /\ Owns(t)' /\ ~Leases(t)' /\ Reserves(t)' /\ ~At(t, "reconcile")' /\ ~At(t, "clean")'
  BY <1>6, <1>8 DEF Owns, Leases, Reserves, At, Latched, Leased, Reserved
<1>10. Touches(t, b)
  BY <1>1, <1>2, <1>3, <1>4, <1>8, <1>9 DEF Touches, LatchMoves, LatchInv, flags, Types
<1>11. TaskThen(t) /\ EntryThen(b)
  BY <1>1, <1>3, <1>6, <1>8, <1>9 DEF TaskThen, EntryThen
<1>12. RoomInv'
  BY <1>1, <1>3, SameRoom DEF Entries
<1>13. StopInv'
  BY <1>1, <1>3, <1>8, MoveStop DEF flags, Entries
<1> QED BY <1>1, <1>3, <1>6, <1>8, <1>9, <1>10, <1>11, <1>12, <1>13, TouchKeeps

LEMMA DiscardedKeeps ==
    ASSUME BrowserInv, NEW t \in Tasks, Discarded(t)
    PROVE  BrowserInv'
<1>1. /\ task[t] # None /\ task[t].pc = "discard" /\ busy' = FALSE /\ Over(t)
      /\ UNCHANGED <<entry, initialized, closed>>
  BY DEF Discarded, At, Freed
<1>2. PICK b \in Bundles : b = task[t].b
  BY <1>1, Downloading
<1>3. /\ Types /\ LatchInv /\ TaskInv /\ EntryInv /\ RoomInv /\ KeptInv /\ StopInv
      /\ task[t] \in Task /\ Shape(t, task[t]) /\ t \in Requests /\ t # Stopper
      /\ entry[b] = None /\ Owns(t) /\ Reserves(t) /\ ~Leases(t)
      /\ \A u \in Tasks \ {t} : /\ ~Owns(u) /\ ~Reserves(u) /\ ~At(u, "clean")
                                /\ Leases(u) => task[u].b # b
  BY <1>1, <1>2, Downloading
<1>4. /\ file' \in [Bundles -> Files] /\ failed' \in BOOLEAN
      /\ failed => failed'
      /\ \A c \in Bundles \ {b} : file'[c] = file[c]
      /\ ~failed' => file'[b] = "none"
  BY <1>2, <1>3 DEF Discarded, GoneOrNot, Gone, Types, Files
<1>5. /\ Moves(t) /\ TaskThen(t)
      /\ ~Owns(t)' /\ ~Leases(t)' /\ ~Reserves(t)' /\ task'[t] = None
  BY <1>1, <1>3, <1>4, OverMoves DEF Types
<1>6. Touches(t, b)
  BY <1>1, <1>2, <1>3, <1>4, <1>5 DEF Touches, LatchMoves, Types
<1>7. EntryThen(b)
  BY <1>1, <1>3 DEF EntryThen
<1>8. RoomInv'
  BY <1>1, <1>3, SameRoom DEF Entries
<1>9. StopInv'
  BY <1>1, <1>3, <1>4, <1>5, MoveStop DEF Entries
<1> QED BY <1>1, <1>3, <1>4, <1>5, <1>6, <1>7, <1>8, <1>9, TouchKeeps

----------------------------------------------------------------------------
(* Leases, and what no task does. *)

LEMMA StartApkKeeps ==
    ASSUME BrowserInv, NEW t \in Requests, StartApk(t)
    PROVE  BrowserInv'
<1>1. PICK b \in Bundles, user \in Users :
        /\ Leasable(b, user)
        /\ Admit(t, [NewTask("apk", "read", user) EXCEPT !.b = b])
        /\ entry' = [entry EXCEPT ![b].leases = @ + 1]
  BY DEF StartApk
<1>2. /\ Types /\ LatchInv /\ TaskInv /\ EntryInv /\ RoomInv /\ KeptInv /\ StopInv
      /\ UNCHANGED <<file, flags>> /\ t \in Tasks /\ t # Stopper
      /\ task[t] = None /\ task[Stopper] = None
      /\ entry[b] # None /\ entry[b] \in Entry /\ ~entry[b].retiring /\ initialized
  BY <1>1 DEF BrowserInv, StartApk, Admit, Leasable, Tasks, EntryInv, Types
<1>3. PICK w : w = [NewTask("apk", "read", user) EXCEPT !.b = b]
  OBVIOUS
<1>4. w \in Task
  <2>1. "read" \in Pcs /\ {} \in SUBSET Bundles
    BY DEF Pcs, Leased
  <2> QED BY <1>3, <2>1 DEF NewTask, Task
<1>5. w.kind = "apk" /\ w.pc = "read" /\ w.b = b /\ w # None
  BY <1>3, <1>4 DEF NewTask
<1>6. Shape(t, w)
  BY <1>2, <1>5 DEF Shape, PcsOf, Leased, Reserved
<1>7. Moves(t) /\ task'[t] = w
  BY <1>1, <1>2, <1>3, <1>4, <1>6, GoMoves DEF Admit, flags, Types
<1>8. /\ ~Owns(t) /\ ~Leases(t) /\ ~Reserves(t)
      /\ ~Owns(t)' /\ Leases(t)' /\ ~Reserves(t)' /\ ~At(t, "reconcile")' /\ ~At(t, "clean")'
  BY <1>2, <1>5, <1>7 DEF Owns, Leases, Reserves, At, Latched, Leased, Reserved
<1>9. /\ entry' \in [Bundles -> Entry \cup {None}]
      /\ entry'[b] \in Entry /\ entry'[b] # None
      /\ entry'[b].leases = entry[b].leases + 1 /\ entry'[b].retiring = entry[b].retiring
      /\ \A c \in Bundles \ {b} : entry'[c] = entry[c]
  BY <1>1, <1>2 DEF Entry, Types
<1>10. Touches(t, b)
  BY <1>2, <1>5, <1>7, <1>8, <1>9 DEF Touches, LatchMoves, LatchInv, flags, Types
<1>11. Cardinality(Holders(b)') = Cardinality(Holders(b)) + 1
  <2>1. Holders(b)' = Holders(b) \cup {t} /\ t \notin Holders(b)
    BY <1>2, <1>5, <1>7, <1>8 DEF Holders, Leases, Moves, Tasks
  <2> QED BY <2>1, HoldersFinite, FS_AddElement
<1>12. EntryThen(b)
  BY <1>2, <1>9, <1>11 DEF EntryThen, EntryInv
<1>13. TaskThen(t)
  BY <1>2, <1>5, <1>7, <1>8, <1>9 DEF TaskThen
<1>14. \A u \in Tasks \ {t} : task[u] # None /\ task[u].b = b =>
           /\ ~Reserves(u) /\ ~At(u, "clean")
  BY <1>2 DEF TaskInv
<1>15. Entries' = Entries
  BY <1>2, <1>9 DEF Entries
<1>16. \A u \in Tasks : Reserves(u)' => Reserves(u)
  BY <1>7, <1>8 DEF Moves, Reserves
<1>17. RoomInv'
  BY <1>2, <1>15, <1>16, SameRoom
<1>18. StopInv'
  BY <1>2, <1>7 DEF StopInv, Moves, Tasks
<1> QED BY <1>2, <1>9, <1>10, <1>12, <1>13, <1>14, <1>17, <1>18, TouchKeeps

LEMMA ReleasedKeeps ==
    ASSUME BrowserInv, NEW t \in Tasks, task[t] # None, task[t].pc \in Leased, Released(t)
    PROVE  BrowserInv'
<1>1. PICK b \in Bundles : b = task[t].b
  BY LeasesAreRequests DEF BrowserInv, Leases
<1>2. /\ Types /\ LatchInv /\ TaskInv /\ EntryInv /\ RoomInv /\ KeptInv /\ StopInv
      /\ task[t] \in Task /\ Shape(t, task[t]) /\ t \in Requests /\ t # Stopper
      /\ task[t].kind = "apk" /\ Leases(t) /\ ~Owns(t) /\ ~Reserves(t)
      /\ UNCHANGED <<file, initialized, failed, closed>>
      /\ entry' = [entry EXCEPT ![b].leases = @ - 1]
  BY <1>1, Where DEF BrowserInv, Released, Leases, Owns, Reserves, Latched, Leased, Reserved
<1>3. entry[b] # None /\ entry[b] \in Entry /\ ~entry[b].retiring /\ initialized
  BY <1>1, <1>2 DEF TaskInv, EntryInv, Types
<1>4. /\ Moves(t) /\ LatchMoves(t) /\ ~Leases(t)' /\ ~Reserves(t)'
      /\ ~At(t, "reconcile")' /\ ~At(t, "clean")'
  <2>1. CASE Idle /\ busy' = TRUE /\ Go(t, Reap([task[t] EXCEPT !.cut = FALSE]))
    <3>1. PICK w : w = Reap([task[t] EXCEPT !.cut = FALSE])
      OBVIOUS
    <3>2. w \in Task
      <4>1. "reap" \in Pcs /\ Entries \in SUBSET Bundles
        BY DEF Pcs, Latched, Entries
      <4> QED BY <1>2, <3>1, <4>1 DEF Reap, Task
    <3>3. w # None /\ w.pc = "reap" /\ w.kind = "apk"
      BY <1>2, <3>1, <3>2 DEF Reap, Task
    <3>4. Shape(t, w)
      BY <1>2, <3>3 DEF Shape, PcsOf, Leased, Reserved
    <3>5. Moves(t) /\ task'[t] = w
      BY <1>2, <2>1, <3>1, <3>2, <3>4, GoMoves DEF Types
    <3> QED BY <1>2, <2>1, <3>3, <3>5
            DEF LatchMoves, Idle, Owns, Leases, Reserves, At, Latched, Leased, Reserved
  <2>2. CASE Over(t) /\ UNCHANGED busy
    <3>1. Moves(t) /\ ~Owns(t)' /\ ~Leases(t)' /\ ~Reserves(t)' /\ task'[t] = None
      BY <1>2, <2>2, OverMoves DEF Types
    <3> QED BY <1>2, <2>2, <3>1 DEF LatchMoves, LatchInv, At
  <2> QED BY <2>1, <2>2 DEF Released
<1>5. /\ entry[b].leases = Cardinality(Holders(b)) /\ t \in Holders(b)
      /\ Holders(b)' = Holders(b) \ {t}
  BY <1>1, <1>2, <1>3, <1>4 DEF EntryInv, Holders, Leases, Moves, Tasks
<1>6. Cardinality(Holders(b)') = Cardinality(Holders(b)) - 1
  BY <1>5, HoldersFinite, FS_RemoveElement
<1>7. Cardinality(Holders(b)') \in Nat /\ entry[b].leases - 1 \in Nat
  <2>1. IsFiniteSet(Holders(b)')
    BY <1>5, HoldersFinite, FS_RemoveElement
  <2> QED BY <1>5, <1>6, <2>1, FS_CardinalityType
<1>8. /\ entry' \in [Bundles -> Entry \cup {None}]
      /\ entry'[b] \in Entry /\ entry'[b] # None
      /\ entry'[b].leases = entry[b].leases - 1 /\ entry'[b].retiring = entry[b].retiring
      /\ \A c \in Bundles \ {b} : entry'[c] = entry[c]
  BY <1>2, <1>3, <1>7 DEF Entry, Types
<1>9. Touches(t, b)
  BY <1>1, <1>2, <1>4, <1>8 DEF Touches, Types
<1>10. EntryThen(b)
  BY <1>2, <1>3, <1>5, <1>6, <1>8 DEF EntryThen, EntryInv
<1>11. TaskThen(t)
  BY <1>3, <1>4 DEF TaskThen
<1>12. \A u \in Tasks \ {t} : task[u] # None /\ task[u].b = b => ~Reserves(u) /\ ~At(u, "clean")
  BY <1>2, <1>3 DEF TaskInv
<1>13. Entries' = Entries
  BY <1>3, <1>8 DEF Entries
<1>14. \A u \in Tasks : Reserves(u)' => Reserves(u)
  BY <1>4 DEF Moves, Reserves
<1>15. RoomInv'
  BY <1>2, <1>13, <1>14, SameRoom
<1>16. StopInv'
  BY <1>2, <1>4, <1>13, MoveStop
<1> QED BY <1>2, <1>3, <1>8, <1>9, <1>10, <1>11, <1>12, <1>15, <1>16, TouchKeeps

LEMMA ExpireKeeps ==
    ASSUME BrowserInv, NEW b \in Bundles, Expire(b)
    PROVE  BrowserInv'
<1>1. /\ Types /\ LatchInv /\ TaskInv /\ EntryInv /\ RoomInv /\ KeptInv /\ StopInv
      /\ UNCHANGED <<file, flags, task>> /\ entry[b] # None /\ entry[b] \in Entry
      /\ Stopper \in Tasks
      /\ entry' = [entry EXCEPT ![b].expired = TRUE]
  BY DEF BrowserInv, Expire, Types, Tasks
<1>2. /\ entry' \in [Bundles -> Entry \cup {None}]
      /\ entry'[b] \in Entry /\ entry'[b] # None
      /\ entry'[b].leases = entry[b].leases /\ entry'[b].retiring = entry[b].retiring
      /\ \A c \in Bundles \ {b} : entry'[c] = entry[c]
  BY <1>1 DEF Entry, Types
<1>3. \A u \in Tasks : /\ Owns(u)' <=> Owns(u)
                       /\ Leases(u)' <=> Leases(u)
                       /\ Reserves(u)' <=> Reserves(u)
                       /\ \A pc : At(u, pc)' <=> At(u, pc)
  BY <1>1 DEF Owns, Leases, Reserves, At
<1>4. ~Leases(Stopper) /\ ~Reserves(Stopper)
  BY <1>1, Where DEF Leases, Reserves
<1>5. Touches(Stopper, b)
  BY <1>1, <1>2, <1>3, <1>4 DEF Touches, Moves, LatchMoves, LatchInv, flags, Types
<1>6. EntryThen(b)
  BY <1>1, <1>2 DEF EntryThen, EntryInv, Holders
<1>7. \A u \in Tasks : TaskThen(u)
  BY <1>1, <1>2, <1>3 DEF TaskThen, TaskInv, Types, Shape, At, Reserves, Leases, flags
<1>8. Entries' = Entries
  BY <1>1, <1>2 DEF Entries
<1>9. RoomInv'
  BY <1>1, <1>3, <1>8, SameRoom
<1>10. StopInv'
  BY <1>1, <1>8 DEF StopInv, flags
<1> QED BY <1>1, <1>2, <1>3, <1>5, <1>6, <1>7, <1>9, <1>10, TouchKeeps DEF TaskInv

LEMMA StopKeeps ==
    ASSUME BrowserInv, Stop
    PROVE  BrowserInv'
<1>1. /\ Types /\ LatchInv /\ TaskInv /\ EntryInv /\ RoomInv /\ KeptInv
      /\ task[Stopper] = None /\ UNCHANGED <<file, entry, flags>> /\ Stopper \in Tasks
  BY DEF BrowserInv, Stop, Tasks
<1>2. PICK s : s = NewTask("stop", "gather", None)
  OBVIOUS
<1>3. /\ s \in Task /\ s.kind = "stop" /\ s.pc = "gather"
  <2>1. "gather" \in Pcs /\ {} \in SUBSET Bundles
    BY DEF Pcs
  <2> QED BY <1>2, <2>1 DEF NewTask, Task
<1>4. ASSUME NEW u \in Tasks, task[u] # None
      PROVE  /\ u # Stopper /\ task'[u] \in Task /\ task'[u] # None
             /\ task'[u].kind = task[u].kind /\ task'[u].pc = task[u].pc
             /\ task'[u].b = task[u].b /\ task'[u].user = task[u].user
             /\ task'[u].tag = task[u].tag /\ Shape(u, task'[u])
  <2>1. task[u] \in Task /\ Shape(u, task[u]) /\ u # Stopper
    BY <1>1, <1>4 DEF Types
  <2>2. PICK w : w = [task[u] EXCEPT !.cut = TRUE]
    OBVIOUS
  <2>3. w \in Task
    BY <2>1, <2>2 DEF Task
  <2>4. /\ w.kind = task[u].kind /\ w.pc = task[u].pc /\ w.b = task[u].b
        /\ w.user = task[u].user /\ w.tag = task[u].tag
    BY <2>1, <2>2 DEF Task
  <2>5. task'[u] = w
    BY <1>4, <2>1, <2>2 DEF Stop
  <2> QED BY <2>1, <2>3, <2>4, <2>5 DEF Shape
<1>5. /\ task'[Stopper] = s
      /\ \A u \in Requests : task[u] = None => task'[u] = None
  BY <1>1, <1>2 DEF Stop, Tasks
<1>6. task' \in [Tasks -> Task \cup {None}]
  <2>1. \A u \in Tasks : task'[u] \in Task \cup {None}
    BY <1>3, <1>4, <1>5 DEF Tasks
  <2>2. \E f : task' = [u \in Tasks |-> f[u]]
    <3>1. task' = [u \in Tasks |-> task'[u]]
      BY DEF Stop
    <3> QED BY <3>1
  <2> QED BY <2>1, <2>2
<1>7. Shape(Stopper, s)
  BY <1>3 DEF Shape, PcsOf, Leased, Reserved
<1>8. \A u \in Tasks : task'[u] # None => Shape(u, task'[u])
  BY <1>4, <1>5, <1>7 DEF Tasks
<1>9. Types'
  BY <1>1, <1>6, <1>8 DEF Types, Shape, flags
<1>10. \A u \in Tasks : /\ Owns(u)' <=> Owns(u)
                        /\ Leases(u)' <=> Leases(u)
                        /\ Reserves(u)' <=> Reserves(u)
                        /\ \A pc \in Latched : At(u, pc)' <=> At(u, pc)
  <2> SUFFICES ASSUME NEW u \in Tasks
               PROVE  /\ Owns(u)' <=> Owns(u)
                      /\ Leases(u)' <=> Leases(u)
                      /\ Reserves(u)' <=> Reserves(u)
                      /\ \A pc \in Latched : At(u, pc)' <=> At(u, pc)
    OBVIOUS
  <2>1. CASE task[u] # None
    BY <1>4, <2>1 DEF Owns, Leases, Reserves, At
  <2>2. CASE u = Stopper
    BY <1>1, <1>3, <1>5, <2>2 DEF Owns, Leases, Reserves, At, Latched, Leased, Reserved
  <2>3. CASE task[u] = None /\ u # Stopper
    BY <1>5, <2>3 DEF Owns, Leases, Reserves, At, Tasks
  <2> QED BY <2>1, <2>2, <2>3
<1>11. LatchInv'
  BY <1>1, <1>10 DEF LatchInv, flags
<1>12. TaskInv'
  <2> SUFFICES ASSUME NEW u \in Tasks PROVE TaskThen(u)
    BY <1>1 DEF TaskInv, TaskThen, flags
  <2>1. CASE task[u] # None
    BY <1>1, <1>4, <1>10, <2>1 DEF TaskThen, TaskInv, At, flags, Latched
  <2>2. CASE task[u] = None
    BY <1>10, <2>2 DEF TaskThen, Owns, Leases, Reserves, At, Latched
  <2> QED BY <2>1, <2>2
<1>13. EntryInv'
  <2>1. ASSUME NEW b \in Bundles PROVE Holders(b)' = Holders(b)
    BY <1>4, <1>10, SameHolders DEF Leases, Tasks
  <2> QED BY <1>1, <2>1 DEF EntryInv, flags
<1>14. RoomInv'
  BY <1>1, <1>10, SameRoom DEF Entries
<1>15. KeptInv'
  <2>1. \A u \in Tasks : Reserves(u) => Reserves(u)' /\ task'[u].b = task[u].b
    BY <1>4, <1>10 DEF Reserves
  <2> QED BY <1>1, <2>1 DEF KeptInv, flags
<1>16. StopInv'
  BY <1>3, <1>5 DEF StopInv
<1> QED BY <1>9, <1>11, <1>12, <1>13, <1>14, <1>15, <1>16 DEF BrowserInv

\* Nothing is known of the directory when nothing is in memory.
LEMMA BareKeeps ==
    ASSUME file \in [Bundles -> Files], entry = NoEntry, task = NoTask,
           busy = FALSE, initialized = FALSE, failed = FALSE, closed = FALSE
    PROVE  BrowserInv
<1>1. /\ \A b \in Bundles : entry[b] = None
      /\ \A t \in Tasks : task[t] = None
  BY DEF NoEntry, NoTask
<1>2. Types
  BY <1>1 DEF Types, NoEntry, NoTask
<1>3. LatchInv /\ TaskInv /\ EntryInv /\ KeptInv
  BY <1>1 DEF LatchInv, TaskInv, EntryInv, KeptInv, Owns, Leases, Reserves, At
<1>4. Entries = {} /\ Cardinality(Entries) = 0
  BY <1>1, FS_EmptySet DEF Entries
<1>5. RoomInv /\ StopInv
  BY <1>1, <1>4 DEF RoomInv, StopInv, Capacity, Reserves, Tasks
<1> QED BY <1>2, <1>3, <1>5 DEF BrowserInv

LEMMA BrowserStep == BrowserInv /\ [BrowserNext]_browserVars => BrowserInv'
<1> SUFFICES ASSUME BrowserInv, [BrowserNext]_browserVars PROVE BrowserInv'
  OBVIOUS
<1>1. ASSUME NEW t \in Tasks, TaskStep(t) PROVE BrowserInv'
  <2>1. CASE Listed(t) \/ SelectionEnds(t)
    BY <2>1, EndsKeep
  <2>2. CASE Selected(t) \/ ReapNext(t) \/ Cleaned(t) \/ Reserve(t)
    BY <2>2, SelectedKeeps, ReapNextKeeps, CleanedKeeps, ReserveKeeps
  <2>3. CASE Reaped(t)
    BY <2>3, ReapedKeeps DEF Reaped
  <2>4. CASE Reconciled(t) \/ Fetch(t) \/ Downloaded(t) \/ DownloadFails(t) \/ Discarded(t)
    BY <2>4, ReconciledKeeps, FetchKeeps, DownloadedKeeps, DownloadFailsKeeps, DiscardedKeeps
  <2>5. CASE Resolved(t) \/ ResolveFails(t)
    BY <2>5, OnwardKeeps
  <2>6. CASE Read(t)
    <3>1. CASE To(t, "send") /\ UNCHANGED <<file, entry, flags>>
      BY <2>6, <3>1, OnwardKeeps DEF Read
    <3>2. CASE Released(t)
      BY <2>6, <3>2, ReleasedKeeps DEF Read, At, Leased
    <3> QED BY <2>6, <3>1, <3>2 DEF Read
  <2>7. CASE Sent(t)
    BY <2>7, ReleasedKeeps DEF Sent, At, Leased
  <2> QED BY <1>1, <2>1, <2>2, <2>3, <2>4, <2>5, <2>6, <2>7 DEF TaskStep
<1>2. ASSUME NEW t \in Tasks, Cancel(t) PROVE BrowserInv'
  BY <1>2, OnwardKeeps
<1>3. ASSUME NEW t \in Requests, StartCatalog(t) \/ StartPrepare(t) \/ StartApk(t)
      PROVE  BrowserInv'
  BY <1>3, StartKeeps, StartApkKeeps
<1>4. CASE Stop \/ Close
  BY <1>4, StopKeeps, CloseKeeps
<1>5. ASSUME NEW b \in Bundles, Expire(b) PROVE BrowserInv'
  BY <1>5, ExpireKeeps
<1>6. CASE Crash
  <2>1. file' \in [Bundles -> Files]
    BY <1>6 DEF Crash, BrowserInv, Types
  <2>2. /\ entry' = NoEntry /\ task' = NoTask /\ busy' = FALSE /\ initialized' = FALSE
        /\ failed' = FALSE /\ closed' = FALSE
    BY <1>6 DEF Crash
  <2>3. (file \in [Bundles -> Files] /\ entry = NoEntry /\ task = NoTask /\ busy = FALSE
           /\ initialized = FALSE /\ failed = FALSE /\ closed = FALSE)'
    BY <2>1, <2>2 DEF NoEntry, NoTask
  <2> QED BY <2>3, BareKeeps, PTL
<1>7. CASE UNCHANGED browserVars
  <2>1. UNCHANGED <<file, entry, flags, task>>
    BY <1>7 DEF browserVars
  <2>2. UNCHANGED <<file, entry, busy, initialized, failed, closed, task>>
    BY <2>1 DEF flags
  <2>3. Types' /\ LatchInv' /\ TaskInv'
    BY <2>2 DEF BrowserInv, Types, LatchInv, TaskInv, Owns, Leases, Reserves, At, Shape
  <2>4. EntryInv' /\ RoomInv' /\ KeptInv' /\ StopInv'
    BY <2>2 DEF BrowserInv, EntryInv, RoomInv, KeptInv, StopInv, Entries, Holders, Reserves
  <2> QED BY <2>3, <2>4 DEF BrowserInv
<1> QED BY <1>1, <1>2, <1>3, <1>4, <1>5, <1>6, <1>7 DEF BrowserNext

----------------------------------------------------------------------------
(* The invariant, and what follows from it. *)

\* BrowserInv holds in every state, whatever is cancelled and whatever fails.
THEOREM BrowserSafe == BrowserSpec => []BrowserInv
<1>1. BrowserInit => BrowserInv
  <2> SUFFICES ASSUME BrowserInit PROVE BrowserInv
    OBVIOUS
  <2>1. file \in [Bundles -> Files]
    BY DEF BrowserInit, Files
  <2> QED BY <2>1, BareKeeps DEF BrowserInit
<1>2. BrowserInv /\ [BrowserNext]_browserVars => BrowserInv'
  BY BrowserStep
<1> QED BY <1>1, <1>2, PTL DEF BrowserSpec

\* The variables keep their shape, _busy has exactly one owner, and a bundle
\* has as many leases as responses that stream it.
THEOREM BrowserTypeCorrect == BrowserSpec => []BrowserTypeOK
<1>1. BrowserInv => BrowserTypeOK
  <2> SUFFICES ASSUME BrowserInv PROVE BrowserTypeOK
    OBVIOUS
  <2>1. Types /\ LatchInv /\ EntryInv
    BY DEF BrowserInv
  <2> DEFINE owners == {t \in Tasks : task[t] # None /\ task[t].pc \in Latched}
  <2>2. \A t \in Tasks : t \in owners <=> Owns(t)
    BY DEF Owns
  <2>0. /\ file \in [Bundles -> Files] /\ task \in [Tasks -> Task \cup {None}]
        /\ \A b \in Bundles : entry[b] # None =>
              entry[b] \in Entry /\ entry[b].leases = Cardinality(Holders(b))
    BY <2>1 DEF Types, EntryInv
  <2>3. CASE busy
    <3>1. PICK t \in Tasks : owners = {t}
      BY <2>1, <2>2, <2>3 DEF LatchInv
    <3>2. Cardinality(owners) = IF busy THEN 1 ELSE 0
      BY <2>3, <3>1, FS_Singleton
    <3> QED BY <2>0, <3>2 DEF BrowserTypeOK
  <2>4. CASE ~busy
    <3>1. owners = {}
      BY <2>1, <2>2, <2>4 DEF LatchInv
    <3>2. Cardinality(owners) = IF busy THEN 1 ELSE 0
      BY <2>4, <3>1, FS_EmptySet
    <3> QED BY <2>0, <3>2 DEF BrowserTypeOK
  <2> QED BY <2>3, <2>4
<1> QED BY <1>1, BrowserSafe, PTL

\* What a response streams is whole, and neither removed nor retired.
THEOREM LeasedStaysAlways == BrowserSpec => []LeasedStays
<1>1. BrowserInv => LeasedStays
  <2> SUFFICES ASSUME BrowserInv, NEW t \in Requests, task[t] # None, task[t].pc \in Leased
               PROVE  /\ file[task[t].b] = "whole"
                      /\ entry[task[t].b] # None /\ ~entry[task[t].b].retiring
    BY DEF LeasedStays
  <2>1. /\ Types /\ TaskInv /\ EntryInv /\ t \in Tasks /\ Leases(t)
    BY DEF BrowserInv, Leases, Tasks
  <2>2. task[t].b \in Bundles
    BY <2>1, LeasesAreRequests
  <2> QED BY <2>1, <2>2 DEF TaskInv, EntryInv
<1> QED BY <1>1, BrowserSafe, PTL

\* While no cleanup has failed every file has an owner and there are at most
\* two; a stop finds the cache idle and leaves none.
THEOREM NothingUnownedAlways == BrowserSpec => []NothingUnowned
<1>1. BrowserInv => NothingUnowned
  <2> SUFFICES ASSUME BrowserInv PROVE NothingUnowned
    OBVIOUS
  <2>1. Types /\ LatchInv /\ RoomInv /\ KeptInv /\ StopInv
    BY DEF BrowserInv
  <2> DEFINE kept == {b \in Bundles : file[b] # "none"}
             preparing == {t \in Requests : task[t] # None /\ task[t].kind = "prepare"}
             reserved == {task[t].b : t \in preparing}
  <2>2. ASSUME initialized, ~failed
        PROVE  kept \subseteq Entries \cup reserved /\ Cardinality(kept) <= Capacity
    <3>1. ASSUME NEW b \in kept, b \notin Entries
          PROVE  \E t \in Tasks : Reserves(t) /\ task[t].b = b
      BY <2>1, <2>2, <3>1 DEF KeptInv, Entries
    <3>2. ASSUME NEW t \in Tasks, Reserves(t) PROVE t \in preparing
      BY <2>1, <3>2, Where DEF Reserves
    <3>3. kept \subseteq Entries \cup reserved
      BY <3>1, <3>2
    <3>4. Cardinality(kept) <= Capacity
      <4>1. CASE \E t \in Tasks : Reserves(t)
        <5>1. PICK t \in Tasks : Reserves(t)
          BY <4>1
        <5>2. \A u \in Tasks : Reserves(u) => u = t
          BY <2>1, <5>1 DEF LatchInv, Owns, Reserves, Latched, Reserved
        <5>3. kept \subseteq Entries \cup {task[t].b}
          BY <3>1, <5>2
        <5>4. /\ IsFiniteSet(Entries \cup {task[t].b})
              /\ Cardinality(Entries \cup {task[t].b}) <= Cardinality(Entries) + 1
              /\ Cardinality(Entries \cup {task[t].b}) \in Nat
          <6>1. IsFiniteSet(Entries \cup {task[t].b})
            BY EntriesFinite, FS_AddElement
          <6>2. Cardinality(Entries \cup {task[t].b}) \in Nat
            BY <6>1, FS_CardinalityType
          <6>3. CASE task[t].b \in Entries
            <7>1. Entries \cup {task[t].b} = Entries
              BY <6>3
            <7> QED BY <6>1, <6>2, <7>1, EntriesFinite
          <6>4. CASE task[t].b \notin Entries
            <7>1. Cardinality(Entries \cup {task[t].b}) = Cardinality(Entries) + 1
              BY <6>4, EntriesFinite, FS_AddElement
            <7> QED BY <6>1, <6>2, <7>1, EntriesFinite
          <6> QED BY <6>3, <6>4
        <5>5. /\ Cardinality(kept) <= Cardinality(Entries \cup {task[t].b})
              /\ Cardinality(kept) \in Nat
          BY <5>3, <5>4, FS_Subset, FS_CardinalityType
        <5> HIDE DEF kept
        <5> QED BY <2>1, <4>1, <5>4, <5>5, EntriesFinite DEF RoomInv, Capacity
      <4>2. CASE ~\E t \in Tasks : Reserves(t)
        <5>1. kept \subseteq Entries
          BY <3>1, <4>2
        <5>2. Cardinality(kept) <= Cardinality(Entries) /\ Cardinality(kept) \in Nat
          BY <5>1, EntriesFinite, FS_Subset, FS_CardinalityType
        <5> HIDE DEF kept
        <5> QED BY <2>1, <5>2, EntriesFinite DEF RoomInv, Capacity
      <4> QED BY <4>1, <4>2
    <3> QED BY <3>3, <3>4
  <2>3. StopIsClean
    <3>1. ASSUME task[Stopper] # None, task[Stopper].pc = "stopped", initialized, ~failed,
                 NEW b \in Bundles
          PROVE  entry[b] = None /\ file[b] = "none"
      <4>1. Entries = {} /\ \A t \in Requests : task[t] = None
        BY <2>1, <3>1 DEF StopInv
      <4>2. entry[b] = None
        BY <4>1 DEF Entries
      <4>3. \A t \in Tasks : ~Reserves(t)
        BY <3>1, <4>1 DEF Reserves, Reserved, Tasks
      <4> QED BY <2>1, <3>1, <4>2, <4>3 DEF KeptInv
    <3> QED BY <2>1, <3>1 DEF StopInv, StopIsClean
  <2> QED BY <2>2, <2>3 DEF NothingUnowned
<1> QED BY <1>1, BrowserSafe, PTL

=============================================================================
