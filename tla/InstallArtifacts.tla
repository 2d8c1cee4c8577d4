-------------------------- MODULE InstallArtifacts --------------------------
(***************************************************************************)
(* Custody of the downloaded APKs (install_artifacts.py): one directory,   *)
(* with at most a partial and a ready file per job.  Calls (a download, a  *)
(* cleanup, the reconciliation of a new process) are coroutines; every     *)
(* access to the directory is a worker that a thread pool runs, so that a  *)
(* worker and a coroutine may overlap, a queued worker may be cancelled by *)
(* the shutdown of the pool, and a call may be cancelled at every await.   *)
(*                                                                         *)
(* Abstractions: a file is a number with the state of its contents; the    *)
(* permission, link and inode checks of the directory and its entries are  *)
(* among the ways a step may fail (DiskFaults); the exchange with the      *)
(* server yields chunks of the body, its end, or an error; the 180 seconds *)
(* may be over at any time; a thread's step between two accesses to the    *)
(* directory is atomic; a descriptor stands for the file it was opened     *)
(* for, and closing it or reading its status never leaves it open.         *)
(*                                                                         *)
(* A definition marked "mutant" is a faulty variant of the one below it;   *)
(* nothing uses it.  PROJECT.json names the property that tells them apart.*)
(***************************************************************************)
EXTENDS Naturals, FiniteSets

CONSTANTS
    Jobs,
    Callers,      \* how many calls may run at once
    Slots,        \* what the pool may hold at once
    Files,        \* the files there may be at once
    None,
    DiskFaults,   \* may accesses to the directory fail, and writes go wrong?
    MaxAborts     \* how many queued workers the pool may cancel

ASSUME ArtifactsAssumption ==
    /\ IsFiniteSet(Slots) /\ IsFiniteSet(Callers)
    /\ None \notin Jobs \cup Slots \cup Files
    /\ DiskFaults \in BOOLEAN
    /\ MaxAborts \in Nat
    /\ Cardinality(Slots) >= Cardinality(Callers) + MaxAborts

VARIABLES
    part, ready,   \* the directory: job -> its .apk.part, its .apk
    data,          \* file -> its contents, None if there is no such file
    open,          \* files this process holds a descriptor of
    call,          \* caller -> the coroutine it awaits
    op,            \* slot -> a worker that was submitted
    loaded,        \* has this process reconciled the directory?
    aborts,        \* workers cancelled in the queue, up to MaxAborts
    residue        \* ghost: partials left by a crash or a failing disk

disk == <<part, ready, data, open, residue>>
artVars == <<disk, call, op, loaded, aborts>>

----------------------------------------------------------------------------
(* Files.  A file lives as long as it has a name or a descriptor.          *)

Contents == {"short", "whole", "wrong"}

Named(p, r) == {p[j] : j \in Jobs} \cup {r[j] : j \in Jobs}

Disk(p, r, d, o, left) ==
    /\ part' = p /\ ready' = r /\ open' = o
    /\ data' = [f \in Files |-> IF f \in Named(p, r) \cup o THEN d[f] ELSE None]
    /\ residue' = {j \in residue \cup left : p[j] # None}

Spare == {f \in Files : data[f] = None}

----------------------------------------------------------------------------
(* Calls and workers. *)

Acts ==
    {"prepare", "write", "finish", "promote", "abandon", "drop", "remove",
     "reconcile"}

Outcomes == {"ok", "busy", "failed", "cancelled"}

\* A running call: where it awaits, file_fd, what has arrived of the body,
\* whether the current await was interrupted and by what; and two ghosts:
\* was it ever cancelled, and has no other call touched its job?
Calls ==
    [kind : {"download", "remove", "reconcile"}, job : Jobs \cup {None},
     pc : Acts \cup {"http", "returned"}, slot : Slots \cup {None},
     fd : Files \cup {None}, got : Contents, cut : {None, "timeout", "cancel"},
     out : Outcomes, asked : BOOLEAN, alone : BOOLEAN]

Steps ==
    {"look", "hash", "create", "put", "close", "check", "replace", "rehash",
     "undo", "partstat", "unpart", "readystat", "unready", "scan"}

Workers ==
    [act : Acts, job : Jobs \cup {None}, fd : Files \cup {None},
     bytes : Contents, keep : SUBSET Jobs,
     state : {"queued", "running", "finished", "aborted"},
     step : Steps, result : {"ok", "reuse", "busy", "failed"}]

\* What there is to know of a call from outside.
Deeds ==
    [kind : {"download", "remove", "reconcile"}, job : Jobs \cup {None},
     alone : BOOLEAN, keep : SUBSET Jobs, out : Outcomes \cup {None}]

ASSUME NoneIsApart ==
    None \notin Contents \cup Outcomes \cup {"timeout", "cancel"}
                \cup Calls \cup Workers \cup Deeds

FirstStep(act) ==
    CASE act = "prepare" -> "look"
      [] act = "write" -> "put"
      [] act = "promote" -> "check"
      [] act = "remove" -> "partstat"
      [] act = "reconcile" -> "scan"
      [] OTHER -> "close"

\* _start_worker, for a call that is to remember w.
Work(act, w, bytes, keep) ==
    [act |-> act, job |-> w.job, fd |-> w.fd, bytes |-> bytes, keep |-> keep,
     state |-> "queued", step |-> FirstStep(act), result |-> "ok"]

Submit(ops, c, w, act, bytes, keep) ==
    LET s == CHOOSE x \in Slots : ops[x] = None
    IN /\ op' = [ops EXCEPT ![s] = Work(act, w, bytes, keep)]
       /\ call' = [call EXCEPT ![c] = [w EXCEPT !.pc = act, !.slot = s]]

At(c, pc) == call[c] # None /\ call[c].pc = pc

Return(ops, c, out) ==
    /\ op' = ops
    /\ call' = [call EXCEPT ![c] =
          [@ EXCEPT !.pc = "returned", !.slot = None, !.fd = None, !.out = out,
                    !.cut = None]]

\* The worker that c waits for, and the pool once c has its answer.  What was
\* cancelled in the queue stays there until a thread comes across it.
Answer(c) == op[call[c].slot]
Pool(c) ==
    IF Answer(c).state = "finished" THEN [op EXCEPT ![call[c].slot] = None]
    ELSE op

\* _async_wait_for_worker: whoever cancels, c goes on when the worker is done.
AwaitedOrCut(c, act) ==                                          \* mutant
    /\ At(c, act)
    /\ Answer(c).state \in {"finished", "aborted"} \/ call[c].cut # None
Awaited(c, act) ==
    At(c, act) /\ Answer(c).state \in {"finished", "aborted"}

\* What _async_executor raises or returns.
VerdictDeaf(c) ==                                                \* mutant
    IF Answer(c).state = "aborted" THEN "cancelled" ELSE Answer(c).result
Verdict(c) ==
    CASE call[c].cut = "cancel" -> "cancelled"
      [] call[c].cut = "timeout" -> "failed"
      [] OTHER -> IF Answer(c).state = "aborted" THEN "cancelled"
                  ELSE Answer(c).result

----------------------------------------------------------------------------
(* The pool: _run_worker claims a worker for a thread unless it was        *)
(* cancelled in the queue, which _abort_queued_worker does only there.     *)

StartedAnyway(s) == op[s].state \in {"queued", "aborted"}        \* mutant
Started(s) == op[s].state = "queued"

Start(s) ==
    /\ op[s] # None /\ op[s].state \in {"queued", "aborted"}
    /\ \/ Started(s) /\ op' = [op EXCEPT ![s].state = "running"]
       \/ /\ ~Started(s)
          /\ \A c \in Callers : call[c] # None => call[c].slot # s
          /\ op' = [op EXCEPT ![s] = None]
    /\ UNCHANGED <<disk, call, loaded, aborts>>

Abort(s) ==
    /\ aborts < MaxAborts
    /\ op[s] # None /\ op[s].state = "queued"
    /\ op' = [op EXCEPT ![s].state = "aborted"]
    /\ aborts' = aborts + 1
    /\ UNCHANGED <<disk, call, loaded>>

\* A thread at a step, going on to the next, or ending with a result; an
\* error met on the way is raised at the end.
Running(s, step) ==
    op[s] # None /\ op[s].state = "running" /\ op[s].step = step
Proceed(s, step) == op' = [op EXCEPT ![s].step = step]
End(s, result) ==
    op' = [op EXCEPT ![s] =
              [@ EXCEPT !.state = "finished",
                        !.result = IF op[s].result = "failed" THEN "failed"
                                   ELSE result]]

----------------------------------------------------------------------------
(* What the threads do. *)

\* _prepare_destination: a valid ready file is used again; nobody writes over
\* a partial; otherwise a new partial is opened.  If opening it goes wrong
\* and so does discarding it, it is left.
HasReady(j) == ready[j] # None

Look(s) ==
    LET j == op[s].job
    IN /\ Running(s, "look")
       /\ \/ HasReady(j) /\ part[j] = None /\ Proceed(s, "hash")
          \/ HasReady(j) /\ part[j] # None /\ End(s, "failed")
          \/ ~HasReady(j) /\ part[j] # None /\ End(s, "busy")
          \/ ~HasReady(j) /\ part[j] = None /\ Proceed(s, "create")
          \/ DiskFaults /\ End(s, "failed")
       /\ UNCHANGED <<disk, call, loaded, aborts>>

Whole(f) == f # None /\ data[f] = "whole"

HashReady(s) ==
    /\ Running(s, "hash") /\ op[s].act = "prepare"
    /\ \/ Whole(ready[op[s].job]) /\ End(s, "reuse")
       \/ (~Whole(ready[op[s].job]) \/ DiskFaults) /\ End(s, "failed")
    /\ UNCHANGED <<disk, call, loaded, aborts>>

Create(s) ==
    LET j == op[s].job
        f == CHOOSE x \in Spare : TRUE
        d == [data EXCEPT ![f] = "short"]
    IN /\ Running(s, "create")
       /\ \/ /\ part[j] # None /\ End(s, "busy") /\ UNCHANGED disk
          \/ /\ part[j] = None /\ Spare # {}
             /\ op' = [op EXCEPT ![s] =
                          [@ EXCEPT !.state = "finished", !.fd = f]]
             /\ Disk([part EXCEPT ![j] = f], ready, d, open \cup {f}, {})
          \/ /\ DiskFaults /\ End(s, "failed") /\ UNCHANGED disk
          \/ /\ DiskFaults /\ part[j] = None /\ Spare # {}
             /\ End(s, "failed")
             /\ Disk([part EXCEPT ![j] = f], ready, d, open, {j})
       /\ UNCHANGED <<call, loaded, aborts>>

\* _write_all; through a closed descriptor it fails.
Put(s) ==
    LET f == op[s].fd
        written(b) == Disk(part, ready, [data EXCEPT ![f] = b], open, {})
    IN /\ Running(s, "put")
       /\ \/ f \in open /\ End(s, "ok") /\ written(op[s].bytes)
          \/ f \in open /\ DiskFaults /\ End(s, "ok") /\ written("wrong")
          \/ (f \notin open \/ DiskFaults) /\ End(s, "failed") /\ UNCHANGED disk
       /\ UNCHANGED <<call, loaded, aborts>>

\* _finish_file, and the start of _abandon_partial.
Close(s) ==
    LET f == op[s].fd
    IN /\ Running(s, "close")
       /\ Disk(part, ready, data, open \ {f}, {})
       /\ IF op[s].act = "finish"
          THEN \/ f \in open /\ End(s, "ok")
               \/ (f \notin open \/ DiskFaults) /\ End(s, "failed")
          ELSE \/ f \in open \cup {None} /\ Proceed(s, "partstat")
               \/ /\ f # None /\ (f \notin open \/ DiskFaults)
                  /\ op' = [op EXCEPT ![s] =
                               [@ EXCEPT !.step = "partstat",
                                         !.result = "failed"]]
       /\ UNCHANGED <<call, loaded, aborts>>

\* _promote_partial: hashed, renamed, and hashed again under its new name,
\* which it loses if that fails.
Check(s) ==
    LET j == op[s].job
    IN /\ Running(s, "check")
       /\ \/ part[j] # None /\ ready[j] = None /\ Proceed(s, "hash")
          \/ (part[j] = None \/ ready[j] # None \/ DiskFaults) /\ End(s, "failed")
       /\ UNCHANGED <<disk, call, loaded, aborts>>

PublishableAsStreamed(f) == f # None                             \* mutant
Publishable(f) == Whole(f)

HashPartial(s) ==
    /\ Running(s, "hash") /\ op[s].act = "promote"
    /\ \/ Publishable(part[op[s].job]) /\ Proceed(s, "replace")
       \/ (~Publishable(part[op[s].job]) \/ DiskFaults) /\ End(s, "failed")
    /\ UNCHANGED <<disk, call, loaded, aborts>>

Replace(s) ==
    LET j == op[s].job
        renamed == Disk([part EXCEPT ![j] = None],
                        [ready EXCEPT ![j] = part[j]], data, open, {})
    IN /\ Running(s, "replace")
       /\ \/ part[j] # None /\ renamed /\ Proceed(s, "rehash")
          \/ part[j] # None /\ DiskFaults /\ renamed /\ Proceed(s, "undo")
          \/ (part[j] = None \/ DiskFaults) /\ End(s, "failed") /\ UNCHANGED disk
       /\ UNCHANGED <<call, loaded, aborts>>

Rehash(s) ==
    /\ Running(s, "rehash")
    /\ \/ Whole(ready[op[s].job]) /\ End(s, "ok")
       \/ (~Whole(ready[op[s].job]) \/ DiskFaults) /\ Proceed(s, "undo")
    /\ UNCHANGED <<disk, call, loaded, aborts>>

Undo(s) ==
    LET j == op[s].job
    IN /\ Running(s, "undo")
       /\ End(s, "failed")
       /\ \/ Disk(part, [ready EXCEPT ![j] = None], data, open, {})
          \/ DiskFaults /\ UNCHANGED disk
       /\ UNCHANGED <<call, loaded, aborts>>

\* _remove_owned_files: each name is looked up and then unlinked; an error
\* leaves what is left.
Last(s) == IF op[s].act = "remove" THEN Proceed(s, "readystat") ELSE End(s, "ok")

PartStat(s) ==
    LET j == op[s].job
    IN /\ Running(s, "partstat")
       /\ \/ part[j] = None /\ Last(s) /\ UNCHANGED disk
          \/ part[j] # None /\ Proceed(s, "unpart") /\ UNCHANGED disk
          \/ DiskFaults /\ End(s, "failed") /\ Disk(part, ready, data, open, {j})
       /\ UNCHANGED <<call, loaded, aborts>>

Unpart(s) ==
    LET j == op[s].job
        unlinked == Disk([part EXCEPT ![j] = None], ready, data, open, {})
    IN /\ Running(s, "unpart")
       /\ \/ part[j] # None /\ Last(s) /\ unlinked
          \/ part[j] = None /\ End(s, "failed") /\ UNCHANGED disk
          \/ DiskFaults /\ End(s, "failed") /\ Disk(part, ready, data, open, {j})
          \/ DiskFaults /\ op[s].act # "remove" /\ End(s, "failed") /\ unlinked
       /\ UNCHANGED <<call, loaded, aborts>>

ReadyStat(s) ==
    /\ Running(s, "readystat")
    /\ \/ ready[op[s].job] = None /\ End(s, "ok")
       \/ ready[op[s].job] # None /\ Proceed(s, "unready")
       \/ DiskFaults /\ End(s, "failed")
    /\ UNCHANGED <<disk, call, loaded, aborts>>

Unready(s) ==
    LET j == op[s].job
        unlinked == Disk(part, [ready EXCEPT ![j] = None], data, open, {})
    IN /\ Running(s, "unready")
       /\ \/ ready[j] # None /\ End(s, "ok") /\ unlinked
          \/ ready[j] = None /\ End(s, "failed") /\ UNCHANGED disk
          \/ DiskFaults /\ End(s, "failed") /\ (unlinked \/ UNCHANGED disk)
       /\ UNCHANGED <<call, loaded, aborts>>

\* _reconcile_install_artifacts: the names that are not retained go one by one.
StaleAll(s) == {j \in Jobs : part[j] # None \/ ready[j] # None}  \* mutant
Stale(s) == {j \in Jobs \ op[s].keep : part[j] # None \/ ready[j] # None}

Reconcile(s) ==
    /\ Running(s, "scan")
    /\ \/ Stale(s) = {} /\ End(s, "ok") /\ UNCHANGED disk
       \/ \E j \in Stale(s) :
             /\ op' = op
             /\ \/ part[j] # None
                   /\ Disk([part EXCEPT ![j] = None], ready, data, open, {})
                \/ ready[j] # None
                   /\ Disk(part, [ready EXCEPT ![j] = None], data, open, {})
       \/ DiskFaults /\ End(s, "failed") /\ UNCHANGED disk
    /\ UNCHANGED <<call, loaded, aborts>>

ThreadStep(s) ==
    \/ Start(s)
    \/ Look(s) \/ HashReady(s) \/ Create(s)
    \/ Put(s) \/ Close(s)
    \/ Check(s) \/ HashPartial(s) \/ Replace(s) \/ Rehash(s) \/ Undo(s)
    \/ PartStat(s) \/ Unpart(s) \/ ReadyStat(s) \/ Unready(s)
    \/ Reconcile(s)

----------------------------------------------------------------------------
(* The coroutines. *)

Others(c, j) == {d \in Callers \ {c} : call[d] # None /\ call[d].job = j}

NewCall(c, kind, j) ==
    [kind |-> kind, job |-> j, pc |-> "returned", slot |-> None, fd |-> None,
     got |-> "short", cut |-> None, out |-> "ok", asked |-> FALSE,
     alone |-> Others(c, j) = {}]

\* A call for job j starts, and so is no longer alone with its job.
Begin(c, kind, j, act, keep) ==
    LET s == CHOOSE x \in Slots : op[x] = None
        w == NewCall(c, kind, j)
    IN /\ call[c] = None
       /\ op' = [op EXCEPT ![s] = Work(act, w, "short", keep)]
       /\ call' = [d \in Callers |->
             IF d = c THEN [w EXCEPT !.pc = act, !.slot = s]
             ELSE IF d \in Others(c, j) THEN [call[d] EXCEPT !.alone = FALSE]
             ELSE call[d]]
       /\ UNCHANGED <<disk, loaded, aborts>>

\* The executor of a process, created once, first reconciles the directory
\* with the jobs that are not finished (async_get_install_executor).
StartReconcile(c) ==
    /\ ~loaded
    /\ \A d \in Callers : call[d] = None
    /\ \E keep \in SUBSET Jobs : Begin(c, "reconcile", None, "reconcile", keep)

\* Each job has one worker that downloads; a resume may clean up beside it.
StartDownload(c, j) ==
    /\ loaded
    /\ \A d \in Others(c, j) : call[d].kind # "download"
    /\ Begin(c, "download", j, "prepare", {})

StartCleanup(c, j) == loaded /\ Begin(c, "remove", j, "remove", {})

\* The call is over: its caller goes on with the outcome.
Over(c) ==
    /\ At(c, "returned")
    /\ call' = [call EXCEPT ![c] = None]
    /\ UNCHANGED <<disk, op, loaded, aborts>>

\* A download that goes wrong with a partial: _async_abandon_partial.
Abandon(ops, c, w, out) ==
    Submit(ops, c, [w EXCEPT !.cut = None, !.out = out], "abandon", "short", {})

\* _async_prepare_destination.  If it was cancelled, what it prepared, or
\* found, is dropped again.
DroppedFd(c) == Answer(c).fd

PreparedOutcome(result) == IF result = "reuse" THEN "ok" ELSE result

Prepared(c) ==
    /\ Awaited(c, "prepare")
    /\ LET w == call[c]
           state == Answer(c).state
           result == Answer(c).result
       IN \/ /\ state = "aborted" /\ Return(Pool(c), c, "cancelled")
          \/ /\ state = "finished" /\ w.cut # None
             /\ Submit(Pool(c), c, [w EXCEPT !.fd = DroppedFd(c), !.cut = None],
                       "drop", "short", {})
          \/ /\ state = "finished" /\ w.cut = None /\ result = "ok"
             /\ op' = Pool(c)
             /\ call' = [call EXCEPT ![c] =
                            [w EXCEPT !.pc = "http", !.slot = None,
                                      !.fd = Answer(c).fd]]
          \/ /\ state = "finished" /\ w.cut = None /\ result # "ok"
             /\ Return(Pool(c), c, PreparedOutcome(result))
    /\ UNCHANGED <<disk, loaded, aborts>>

\* The body: a chunk is written before the next is awaited.
Chunk(c) ==
    /\ At(c, "http") /\ call[c].got = "short"
    /\ \E bytes \in Contents : Submit(op, c, call[c], "write", bytes, {})
    /\ UNCHANGED <<disk, loaded, aborts>>

Written(c) ==
    /\ Awaited(c, "write")
    /\ IF Verdict(c) = "ok"
       THEN /\ op' = Pool(c)
            /\ call' = [call EXCEPT ![c] =
                  [@ EXCEPT !.pc = "http", !.slot = None, !.got = Answer(c).bytes]]
       ELSE Abandon(Pool(c), c, call[c], Verdict(c))
    /\ UNCHANGED <<disk, loaded, aborts>>

\* The end of the body, whose size and digest must be those signed; the
\* network or the server may fail before.
BodyEnds(c) ==
    /\ At(c, "http") /\ call[c].got = "whole"
    /\ Submit(op, c, call[c], "finish", "short", {})
    /\ UNCHANGED <<disk, loaded, aborts>>

HttpFails(c) ==
    /\ At(c, "http")
    /\ Abandon(op, c, call[c], "failed")
    /\ UNCHANGED <<disk, loaded, aborts>>

Finished(c) ==
    /\ Awaited(c, "finish")
    /\ LET w == [call[c] EXCEPT !.fd = None]
       IN IF Verdict(c) = "ok"
          THEN Submit(Pool(c), c, w, "promote", "short", {})
          ELSE Abandon(Pool(c), c, w, Verdict(c))
    /\ UNCHANGED <<disk, loaded, aborts>>

Promoted(c) ==
    /\ Awaited(c, "promote")
    /\ IF Verdict(c) = "ok" THEN Return(Pool(c), c, "ok")
       ELSE Abandon(Pool(c), c, call[c], Verdict(c))
    /\ UNCHANGED <<disk, loaded, aborts>>

\* _async_cleanup_executor: submitted again if it was cancelled in the queue.
Lost(c) == Answer(c).state = "aborted"

Abandoned(c) ==
    /\ Awaited(c, "abandon")
    /\ IF Lost(c) THEN Submit(Pool(c), c, call[c], "abandon", "short", {})
       ELSE Return(Pool(c), c,
              IF call[c].cut = None /\ Answer(c).result = "ok" THEN call[c].out
              ELSE Verdict(c))
    /\ UNCHANGED <<disk, loaded, aborts>>

Dropped(c) ==
    /\ Awaited(c, "drop")
    /\ IF Lost(c) THEN Submit(Pool(c), c, call[c], "drop", "short", {})
       ELSE Return(Pool(c), c, "cancelled")
    /\ UNCHANGED <<disk, loaded, aborts>>

CleanedUp(c) ==
    /\ Awaited(c, "remove")
    /\ Return(Pool(c), c, Verdict(c))
    /\ UNCHANGED <<disk, loaded, aborts>>

Reconciled(c) ==
    /\ Awaited(c, "reconcile")
    /\ Return(Pool(c), c, Verdict(c))
    /\ loaded' = (Verdict(c) = "ok")
    /\ UNCHANGED <<disk, aborts>>

CallStep(c) ==
    \/ Prepared(c) \/ Written(c) \/ BodyEnds(c)
    \/ Finished(c) \/ Promoted(c) \/ Abandoned(c) \/ Dropped(c)
    \/ CleanedUp(c) \/ Reconciled(c) \/ Over(c)

----------------------------------------------------------------------------
(* What happens to a call, and to the process. *)

\* Its task is cancelled: recorded while a worker is awaited, and raised at
\* once out of the exchange with the server.
Cancel(c) ==
    /\ call[c] # None /\ call[c].pc # "returned"
    /\ LET w == [call[c] EXCEPT !.asked = TRUE]
       IN IF w.pc = "http" THEN Abandon(op, c, w, "cancelled")
          ELSE /\ w.cut # "cancel"
               /\ call' = [call EXCEPT ![c] = [w EXCEPT !.cut = "cancel"]]
               /\ op' = op
    /\ UNCHANGED <<disk, loaded, aborts>>

\* The 180 seconds for the exchange are over.
Expire(c) ==
    /\ \/ At(c, "http") /\ Abandon(op, c, call[c], "failed")
       \/ /\ At(c, "write") /\ call[c].cut = None
          /\ call' = [call EXCEPT ![c].cut = "timeout"]
          /\ op' = op
    /\ UNCHANGED <<disk, loaded, aborts>>

Crash ==
    /\ Disk(part, ready, data, {}, {j \in Jobs : part[j] # None})
    /\ call' = [c \in Callers |-> None]
    /\ op' = [s \in Slots |-> None]
    /\ loaded' = FALSE
    /\ aborts' = 0

ArtInit ==
    /\ part = [j \in Jobs |-> None] /\ ready = [j \in Jobs |-> None]
    /\ data = [f \in Files |-> None]
    /\ open = {} /\ residue = {}
    /\ call = [c \in Callers |-> None]
    /\ op = [s \in Slots |-> None]
    /\ loaded = FALSE
    /\ aborts = 0

ArtNext ==
    \/ \E s \in Slots : ThreadStep(s) \/ Abort(s)
    \/ \E c \in Callers :
          \/ CallStep(c) \/ Chunk(c) \/ HttpFails(c) \/ Cancel(c) \/ Expire(c)
          \/ StartReconcile(c)
          \/ \E j \in Jobs : StartDownload(c, j) \/ StartCleanup(c, j)
    \/ Crash

ArtSpec == ArtInit /\ [][ArtNext]_artVars

----------------------------------------------------------------------------
(* Properties. *)

\* Every variable keeps its shape; a call waits for a worker of its own.
ArtTypes ==
    /\ part \in [Jobs -> Files \cup {None}]
    /\ ready \in [Jobs -> Files \cup {None}]
    /\ data \in [Files -> Contents \cup {None}]
    /\ open \in SUBSET Files
    /\ call \in [Callers -> Calls \cup {None}]
    /\ op \in [Slots -> Workers \cup {None}]
    /\ loaded \in BOOLEAN
    /\ aborts \in 0..MaxAborts
    /\ residue \in SUBSET Jobs
    /\ \A c \in Callers :
          call[c] # None /\ call[c].slot # None =>
              op[call[c].slot] # None /\ op[call[c].slot].act = call[c].pc

Returned(c, kind) == At(c, "returned") /\ call[c].kind = kind

\* What has the ready name holds exactly the signed bytes, whatever was
\* cancelled, failed or crashed on the way (_promote_partial), and there is no
\* partial beside it, which nothing but a cleanup could undo.
ReadyIsWhole ==
    \A j \in Jobs : ready[j] # None => data[ready[j]] = "whole" /\ part[j] = None

\* A partial belongs to a download that is under way, unless a crash or a
\* failing disk left it: no cancellation, timeout, or shutdown of the pool
\* makes a download forget it (_async_cleanup_executor).  So "BUSY at a safe
\* durable phase is residue" (_async_clear_stale_partial).
PartialAccounted ==
    \A j \in Jobs \ residue :
        part[j] # None =>
            \E c \in Callers :
                call[c] # None /\ call[c].kind = "download" /\ call[c].job = j

\* Descriptors.  A thread never uses one that was closed, perhaps to be given
\* to another file: what was started is awaited before anything is cleaned up.
\* And, unless the pool shuts down, each is held by a download that knows it,
\* or that awaits the worker that opened it.
DescriptorsOwned ==
    /\ ArtTypes
    /\ \A s \in Slots :
          op[s] # None /\ op[s].state = "running"
              /\ op[s].step \in {"put", "close"} /\ op[s].fd # None
          => op[s].fd \in open
    /\ aborts = 0 =>
          \A f \in open :
              \E c \in Callers :
                  /\ call[c] # None
                  /\ \/ f = call[c].fd
                     \/ call[c].slot # None /\ f = op[call[c].slot].fd

\* A call that was cancelled ends cancelled.  The exception is a download
\* whose partial cannot be abandoned: it raises that error and its task goes
\* on; on a disk that works it takes another call that unlinks the partial.
CancelHeard ==
    \A c \in Callers :
        At(c, "returned") /\ call[c].asked /\ call[c].alone
        => \/ call[c].out = "cancelled"
           \/ DiskFaults /\ call[c].kind = "download" /\ call[c].out = "failed"

\* Reconciling removes exactly what no unfinished job needs: when it succeeds
\* nothing else is left, and it never touches what it was told to keep.
ReconcileExact ==
    [][\A s \in Slots :
          Running(s, "scan") /\ op'[s] # None =>
              /\ \A j \in op[s].keep : part'[j] = part[j] /\ ready'[j] = ready[j]
              /\ op'[s].state = "finished" /\ op'[s].result = "ok" =>
                    \A j \in Jobs \ op[s].keep : part'[j] = None /\ ready'[j] = None
      ]_artVars

\* What a call looks like from outside, and what the directory holds of a job:
\* a file with the ready name counts for what is in it.
DeedOf(c) ==
    LET w == call[c]
    IN IF w = None THEN None
       ELSE [kind |-> w.kind, job |-> w.job, alone |-> w.alone,
             keep |-> IF w.pc = "reconcile" THEN Answer(c).keep ELSE {},
             out |-> IF w.pc = "returned" THEN w.out ELSE None]

HeldOf(j) ==
    IF part[j] # None THEN "part"
    ELSE IF ready[j] # None THEN data[ready[j]] ELSE "none"

Custody == INSTANCE InstallCustody WITH
    Faults <- DiskFaults, stale <- residue,
    held <- [j \in Jobs |-> HeldOf(j)], deed <- [c \in Callers |-> DeedOf(c)]

\* Files, threads, cancellations and the pool keep the promise of
\* InstallCustody: an answer says what the job holds, and nothing but a call
\* for the job, while it is under way, changes that.
CustodyKept == Custody!Spec

=============================================================================
