---------------------------- MODULE BrowserCache ----------------------------
(***************************************************************************)
(* The delivery of signed APKs to a browser that installs over USB: the    *)
(* requests an administrator makes (browser_delivery.py), the cache of at  *)
(* most two bundles they share (browser_release_cache.py), its directory   *)
(* (browser_artifacts.py), and the shutdown of all three.                  *)
(*                                                                         *)
(* Abstractions: a bundle expires at any moment; what a thread does to the *)
(* directory is seen when its worker is done; the download is one file     *)
(* that is absent, partial or whole (InstallArtifacts has the rest); a     *)
(* request that is refused at once leaves no trace and is no action.       *)
(* A definition marked "mutant" is a faulty variant of the one below it.   *)
(***************************************************************************)
EXTENDS Naturals, FiniteSets

CONSTANTS
    Requests,     \* the tasks of aiohttp's request handlers
    Stopper,      \* the task of the stop listener
    Bundles,      \* identifiers, drawn at random
    Users,
    Tags,         \* the releases one may select
    None,
    DiskFaults    \* may the directory fail?

ASSUME BrowserAssumption ==
    /\ Stopper \notin Requests
    /\ None \notin Bundles \cup Users \cup Tags
    /\ IsFiniteSet(Requests) /\ IsFiniteSet(Bundles)
    /\ DiskFaults \in BOOLEAN

VARIABLES
    file,         \* bundle -> what the directory has of it
    entry,        \* bundle -> its entry of the cache, or None
    busy,         \* _busy
    initialized,  \* _initialized
    failed,       \* _failed
    closed,       \* _closed, of the cache
    task          \* a request, or the stop, or None

flags == <<busy, initialized, failed, closed>>
browserVars == <<file, entry, flags, task>>

----------------------------------------------------------------------------

Capacity == 2
MaxRequests == 2

Tasks == Requests \cup {Stopper}
Files == {"none", "part", "whole"}

\* _Entry.
Entry == [user : Users, tag : Tags, expired : BOOLEAN, leases : Nat,
          retiring : BOOLEAN]

\* Where a task is suspended.  Under "latched" ones it owns _busy.
Latched == {"reconcile", "reap", "clean", "resolve", "download", "discard"}
Leased == {"read", "send"}
Pcs == {"list", "select", "gather", "stopped", "refused"} \cup Latched \cup Leased

Task == [kind : {"catalog", "prepare", "apk", "stop"}, pc : Pcs,
         user : Users \cup {None}, tag : Tags \cup {None},
         b : Bundles \cup {None},   \* reserved, leased, or being cleaned
         todo : SUBSET Bundles,     \* what _reap has not looked at yet
         cut : BOOLEAN]             \* a cancellation not yet raised

ASSUME NoneIsApart == None \notin Entry \cup Task

At(t, pc) == task[t] # None /\ task[t].pc = pc
Entries == {b \in Bundles : entry[b] # None}

Go(t, w) == task' = [task EXCEPT ![t] = w]
To(t, pc) == Go(t, [task[t] EXCEPT !.pc = pc, !.cut = FALSE])

\* A request has its response; the listener is not called again.
Over(t) ==
    Go(t, IF t = Stopper THEN [task[t] EXCEPT !.pc = "stopped"] ELSE None)

\* The end of a task that owns _busy.
Freed(t) == busy' = FALSE /\ Over(t)

----------------------------------------------------------------------------
(* Admission (BrowserDelivery.async_admit): until the stop, two requests.  *)

Admitted == {t \in Requests : task[t] # None}

Admit(t, w) ==
    /\ task[Stopper] = None
    /\ Cardinality(Admitted) < MaxRequests
    /\ task[t] = None
    /\ Go(t, w)

NewTask(kind, pc, user) ==
    [kind |-> kind, pc |-> pc, user |-> user, tag |-> None, b |-> None,
     todo |-> {}, cut |-> FALSE]

\* The catalogue needs nothing of the cache.
StartCatalog(t) ==
    /\ Admit(t, NewTask("catalog", "list", None))
    /\ UNCHANGED <<file, entry, flags>>

Listed(t) ==
    /\ At(t, "list")
    /\ Over(t)
    /\ UNCHANGED <<file, entry, flags>>

\* The body of the request is read within five seconds.
StartPrepare(t) ==
    /\ \E user \in Users : Admit(t, NewTask("prepare", "select", user))
    /\ UNCHANGED <<file, entry, flags>>

----------------------------------------------------------------------------
(* _reap and _cleanup, in a task of their own that is always awaited.      *)

Available == ~failed /\ ~closed

Reap(w) == [w EXCEPT !.pc = "reap", !.b = None, !.todo = Entries]

DueOnce(b) == entry[b] # None /\ (closed \/ entry[b].expired)    \* mutant
Due(b) ==
    entry[b] # None /\ entry[b].leases = 0 /\ (closed \/ entry[b].expired)

\* The entries are looked at in turn, each when it is its turn; one that is
\* to go is retired before anything is awaited.
Retiring(e) == [e EXCEPT !.retiring = TRUE]

ReapNext(t) ==
    LET due == {b \in task[t].todo : Due(b)}
    IN /\ At(t, "reap")
       /\ \E b \in due, passed \in SUBSET (task[t].todo \ due) :
             /\ Go(t, [task[t] EXCEPT !.pc = "clean", !.b = b,
                                      !.todo = @ \ ({b} \cup passed)])
             /\ entry' = [entry EXCEPT ![b] = Retiring(@)]
       /\ UNCHANGED <<file, flags>>

\* A cleanup that fails is not tried again: the cache refuses to go on.
RaisedAgain(t) == Go(t, Reap(task[t])) /\ UNCHANGED busy          \* mutant
Raised(t) == Freed(t)

Gone(b) == file' = [file EXCEPT ![b] = "none"]
GoneOrNot(b) == DiskFaults /\ (Gone(b) \/ UNCHANGED file)

Cleaned(t) ==
    LET b == task[t].b
    IN /\ At(t, "clean")
       /\ \/ /\ Gone(b)
             /\ entry' = [entry EXCEPT ![b] = None]
             /\ Go(t, [task[t] EXCEPT !.pc = "reap", !.b = None])
             /\ UNCHANGED flags
          \/ /\ GoneOrNot(b)
             /\ failed' = TRUE
             /\ Raised(t)
             /\ UNCHANGED <<entry, initialized, closed>>

ReapDone(t) == At(t, "reap") /\ \A b \in task[t].todo : ~Due(b)

\* What follows when it is done, but for a request that prepares.
Reaped(t) ==
    /\ ReapDone(t) /\ task[t].kind # "prepare"
    /\ Freed(t)
    /\ UNCHANGED <<file, entry, initialized, failed, closed>>

----------------------------------------------------------------------------
(* async_prepare. *)

Hit(w) ==
    \E b \in Entries :
        /\ entry[b].user = w.user /\ entry[b].tag = w.tag
        /\ ~entry[b].retiring /\ ~entry[b].expired

\* A selection that is bad, cached, or comes at the wrong time is answered.
Selected(t) ==
    LET w == task[t]
    IN /\ At(t, "select") /\ ~w.cut
       /\ \/ Over(t) /\ UNCHANGED busy
          \/ \E tag \in Tags :
                /\ Available /\ ~busy /\ ~Hit([w EXCEPT !.tag = tag])
                /\ busy' = TRUE
                /\ Go(t, LET v == [w EXCEPT !.tag = tag]
                         IN IF initialized THEN Reap(v)
                            ELSE [v EXCEPT !.pc = "reconcile"])
       /\ UNCHANGED <<file, entry, initialized, failed, closed>>

\* Once per process, whatever an earlier one left is removed.
Reconciled(t) ==
    /\ At(t, "reconcile")
    /\ \/ /\ file' = [b \in Bundles |-> "none"]
          /\ IF task[t].cut THEN Freed(t) /\ UNCHANGED initialized
             ELSE initialized' = TRUE /\ Go(t, Reap(task[t])) /\ UNCHANGED busy
          /\ UNCHANGED <<entry, failed, closed>>
       \/ /\ DiskFaults
          /\ \E left \in SUBSET Bundles :
                file' = [b \in Bundles |-> IF b \in left THEN file[b] ELSE "none"]
          /\ failed' = TRUE
          /\ Freed(t)
          /\ UNCHANGED <<entry, initialized, closed>>

\* Room for another, under a new name.
Fresh == {b \in Bundles : entry[b] = None /\ file[b] = "none"}
Room == Cardinality(Entries) < Capacity

Reserve(t) ==
    /\ ReapDone(t) /\ task[t].kind = "prepare"
    /\ IF Room /\ ~task[t].cut
       THEN /\ \E b \in Fresh : Go(t, [task[t] EXCEPT !.pc = "resolve", !.b = b])
            /\ UNCHANGED busy
       ELSE Freed(t)
    /\ UNCHANGED <<file, entry, initialized, failed, closed>>

\* The release is resolved over the network.
Resolved(t) ==
    /\ At(t, "resolve") /\ ~task[t].cut
    /\ To(t, "download")
    /\ UNCHANGED <<file, entry, flags>>

ResolveFails(t) ==
    /\ At(t, "resolve")
    /\ To(t, "discard")
    /\ UNCHANGED <<file, entry, flags>>

\* The download: the partial, and its new name.
Fetch(t) ==
    LET b == task[t].b
    IN /\ At(t, "download") /\ ~task[t].cut
       /\ \/ file[b] = "none" /\ file' = [file EXCEPT ![b] = "part"]
          \/ file[b] = "part" /\ file' = [file EXCEPT ![b] = "whole"]
       /\ UNCHANGED <<entry, flags, task>>

NewEntry(w) ==
    [user |-> w.user, tag |-> w.tag, expired |-> FALSE, leases |-> 0,
     retiring |-> FALSE]

Downloaded(t) ==
    LET w == task[t]
    IN /\ At(t, "download") /\ ~w.cut
       /\ file[w.b] = "whole"
       /\ entry' = [entry EXCEPT ![w.b] = NewEntry(w)]
       /\ Freed(t)
       /\ UNCHANGED <<file, initialized, failed, closed>>

\* A download that fails or is cancelled removes its partial if the disk lets
\* it, and not what it has renamed: the reservation is discarded.
GivenUpAsIs(w) == [w EXCEPT !.pc = "reap", !.todo = {}, !.cut = TRUE] \* mutant
GivenUp(w) == [w EXCEPT !.pc = "discard", !.cut = FALSE]

DownloadFails(t) ==
    LET b == task[t].b
    IN /\ At(t, "download")
       /\ \/ file[b] # "whole" /\ Gone(b)
          \/ (file[b] # "part" \/ DiskFaults) /\ UNCHANGED file
       /\ Go(t, GivenUp(task[t]))
       /\ UNCHANGED <<entry, flags>>

Discarded(t) ==
    /\ At(t, "discard")
    /\ \/ Gone(task[t].b) /\ UNCHANGED failed
       \/ GoneOrNot(task[t].b) /\ failed' = TRUE
    /\ Freed(t)
    /\ UNCHANGED <<entry, initialized, closed>>

----------------------------------------------------------------------------
(* async_lease, around the response that streams the APK.                  *)

Leasable(b, user) ==
    /\ Available
    /\ entry[b] # None /\ ~entry[b].retiring
    /\ entry[b].user = user /\ ~entry[b].expired

StartApk(t) ==
    /\ \E b \in Bundles, user \in Users :
          /\ Leasable(b, user)
          /\ Admit(t, [NewTask("apk", "read", user) EXCEPT !.b = b])
          /\ entry' = [entry EXCEPT ![b].leases = @ + 1]
    /\ UNCHANGED <<file, flags>>

\* The lease ends; what has become due is removed, unless somebody else is at
\* it, who will not look at it again.
IdleAlways == TRUE                                               \* mutant
Idle == ~busy

Released(t) ==
    LET w == task[t]
    IN /\ entry' = [entry EXCEPT ![w.b].leases = @ - 1]
       /\ IF Idle THEN busy' = TRUE /\ Go(t, Reap([w EXCEPT !.cut = FALSE]))
          ELSE Over(t) /\ UNCHANGED busy
       /\ UNCHANGED <<file, initialized, failed, closed>>

\* _read_artifact gives the bytes if they are the signed ones.
Readable(b) == file[b] = "whole"

Read(t) ==
    LET w == task[t]
    IN /\ At(t, "read")
       /\ \/ /\ Readable(w.b) /\ ~w.cut
             /\ To(t, "send")
             /\ UNCHANGED <<file, entry, flags>>
          \/ (~Readable(w.b) \/ w.cut \/ DiskFaults) /\ Released(t)

\* The client has everything, has hung up, or has taken 60 seconds.
Sent(t) == At(t, "send") /\ Released(t)

----------------------------------------------------------------------------
(* Cancellation, and the stop. *)

\* Recorded where something is drained, and else raised at the next turn.
Cancel(t) ==
    /\ t \in Requests /\ task[t] # None /\ ~task[t].cut
    /\ Go(t, [task[t] EXCEPT !.cut = TRUE])
    /\ UNCHANGED <<file, entry, flags>>

SelectionEnds(t) ==
    /\ At(t, "select") /\ task[t].cut
    /\ Over(t)
    /\ UNCHANGED <<file, entry, flags>>

\* async_stop.
Stop ==
    /\ task[Stopper] = None
    /\ task' = [t \in Tasks |->
          IF t = Stopper THEN NewTask("stop", "gather", None)
          ELSE IF task[t] = None THEN None ELSE [task[t] EXCEPT !.cut = TRUE]]
    /\ UNCHANGED <<file, entry, flags>>

Gathered == Admitted = {}

\* async_close.
Close ==
    /\ At(Stopper, "gather") /\ Gathered
    /\ IF busy THEN To(Stopper, "refused") /\ UNCHANGED <<busy, closed>>
       ELSE /\ busy' = TRUE /\ closed' = TRUE
            /\ Go(Stopper, Reap(task[Stopper]))
    /\ UNCHANGED <<file, entry, initialized, failed>>

----------------------------------------------------------------------------

Expire(b) ==
    /\ entry[b] # None /\ ~entry[b].expired
    /\ entry' = [entry EXCEPT ![b].expired = TRUE]
    /\ UNCHANGED <<file, flags, task>>

NoEntry == [b \in Bundles |-> None]
NoTask == [t \in Tasks |-> None]

\* The process ends; the directory stays.
Crash ==
    /\ entry' = NoEntry /\ task' = NoTask
    /\ busy' = FALSE /\ initialized' = FALSE
    /\ failed' = FALSE /\ closed' = FALSE
    /\ UNCHANGED file

BrowserInit ==
    /\ file = [b \in Bundles |-> "none"]
    /\ entry = NoEntry /\ task = NoTask
    /\ busy = FALSE /\ initialized = FALSE /\ failed = FALSE /\ closed = FALSE

TaskStep(t) ==
    \/ Listed(t) \/ Selected(t) \/ SelectionEnds(t)
    \/ ReapNext(t) \/ Cleaned(t) \/ Reaped(t)
    \/ Reconciled(t) \/ Reserve(t) \/ Resolved(t) \/ ResolveFails(t)
    \/ Fetch(t) \/ Downloaded(t) \/ DownloadFails(t) \/ Discarded(t)
    \/ Read(t) \/ Sent(t)

BrowserNext ==
    \/ \E t \in Tasks : TaskStep(t) \/ Cancel(t)
    \/ \E t \in Requests : StartCatalog(t) \/ StartPrepare(t) \/ StartApk(t)
    \/ Stop \/ Close
    \/ \E b \in Bundles : Expire(b)
    \/ Crash

BrowserSpec == BrowserInit /\ [][BrowserNext]_browserVars

\* Every await is on a thread, on another task, or under a timeout.
FairBrowserSpec ==
    /\ BrowserSpec
    /\ \A t \in Tasks : WF_browserVars(TaskStep(t))
    /\ WF_browserVars(Close)

----------------------------------------------------------------------------
(* Properties. *)

Holders(b) == {t \in Requests : task[t] # None /\ task[t].pc \in Leased
                                  /\ task[t].b = b}

\* Every variable keeps its shape; _busy is owned by exactly one task, and a
\* bundle has as many leases as responses that stream it, however they end.
BrowserTypeOK ==
    /\ file \in [Bundles -> Files]
    /\ \A b \in Bundles : entry[b] # None =>
          entry[b] \in Entry /\ entry[b].leases = Cardinality(Holders(b))
    /\ task \in [Tasks -> Task \cup {None}]
    /\ LET owners == {t \in Tasks : task[t] # None /\ task[t].pc \in Latched}
       IN Cardinality(owners) = IF busy THEN 1 ELSE 0

\* A bundle that a response streams is neither removed nor retired, and its
\* bytes stay ("Pin an unexpired user's bundle for the entire response
\* lifetime").
LeasedStays ==
    \A t \in Requests :
        task[t] # None /\ task[t].pc \in Leased =>
            LET b == task[t].b
            IN file[b] = "whole" /\ entry[b] # None /\ ~entry[b].retiring

\* A stop finds the cache idle once its requests have ended ("drain its
\* cleanup, then close artifact custody"), and leaves no bundle behind.
StopIsClean ==
    task[Stopper] # None =>
        /\ task[Stopper].pc # "refused"
        /\ task[Stopper].pc = "stopped" /\ initialized /\ ~failed =>
              \A b \in Bundles : entry[b] = None /\ file[b] = "none"

\* Once the directory was cleared at the first request, and while no cleanup has
\* failed, every file is that of an entry or of the one download under way,
\* there are never more than two, and a stop leaves none.
NothingUnowned ==
    /\ initialized /\ ~failed =>
        LET kept == {b \in Bundles : file[b] # "none"}
            preparing == {t \in Requests : task[t] # None /\ task[t].kind = "prepare"}
            reserved == {task[t].b : t \in preparing}
        IN kept \subseteq Entries \cup reserved /\ Cardinality(kept) <= Capacity
    /\ StopIsClean

\* The cache is never left busy, and a stop comes to its end, whoever is
\* cancelled, however often, and whatever fails.
ServiceLetsGo ==
    /\ busy ~> ~busy
    /\ At(Stopper, "gather") ~> ~At(Stopper, "gather")

=============================================================================
