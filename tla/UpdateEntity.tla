---------------------------- MODULE UpdateEntity ----------------------------
(* HaPaneldUpdateEntity of update.py: the update entity of one panel.         *)
(* It shows which build the panel runs and installs another, in one of two    *)
(* ways.  Without a build feed it asks the panel to start the stable update   *)
(* that the panel itself offers, and one observer waits for the new version.  *)
(* With a feed it backs up the panel, uploads the build, commits it and waits *)
(* until the panel runs exactly that build.                                   *)
(* The health poll tells builds apart by version and build string; the number *)
(* of the build is read by a task of its own when these change.  Internal     *)
(* builds share one version name.  Between any two awaits the panel may be    *)
(* replaced, also by its owner, and by an earlier build as well as by a later *)
(* one: a build that is asked for by its number may be older.                 *)
(* A poll is one step; one that fails leaves what was seen before, and with   *)
(* it everybody who waits for a poll that succeeds.  A deadline is a step     *)
(* that may come at any time.  The bytes of backup, build and staged file are *)
(* left out: whatever is wrong with them, their step fails.  Everything but   *)
(* the panel is in memory: a restart of Home Assistant is a new behaviour,    *)
(* and so a behaviour begins with the panel at whatever it does.              *)
(* _recovery_started is left out: it is set only while there is an observer,  *)
(* and then starting one changes nothing.                                     *)
(* A definition marked "mutant" is a faulty variant of the one below it.      *)
EXTENDS Naturals

CONSTANTS
    Builds,        \* numbers, later builds are greater
    Stable,        \* those released under a version name of their own
    Installs,      \* places for calls of the install service
    MaxAccepted,   \* bound on the operations that a panel takes up
    None

ASSUME UpdateAssumption ==
    /\ Builds \subseteq Nat /\ Stable \subseteq Builds
    /\ None \notin Builds
    /\ MaxAccepted \in Nat

VARIABLES
    panel,      \* the panel: its build, and the one its operation installs
    accepted,   \* how many operations it has taken up
    feed,       \* is a build feed configured?
    seen,       \* coordinator: the build last polled
    opSeen,     \* update coordinator: was an operation running when last polled?
    code,       \* _installed_code, as the build of that number
    key,        \* _code_key, as the build of that version and build string
    reading,    \* _code_task: the key it was given, and the panel's answer
    latch,      \* _attr_in_progress
    observer,   \* _observer_task: the build it waits for
    call,       \* per service call: its progress, or None
    unlatched,  \* ghost: an observer ended in the middle of a delivery
    crossed     \* ghost: what the panel was replaced in the middle of

polled == <<feed, seen, opSeen>>
shown == <<code, key, reading, crossed>>
work == <<latch, observer, unlatched>>
updVars == <<panel, accepted, polled, shown, work, call>>

\* Internal builds have one version name.
SameName(b, c) == b = c \/ {b, c} \cap Stable = {}

Delivery == {"prepare", "wait", "prove"}
Places == Delivery \cup {"refresh", "start", "started", "observe"}

Calls == [pc : Places, want : Builds, before : Builds \cup {None},
          health : Builds \cup {None}]

\* The panel was replaced after the last poll (seen), between the poll that a
\* read was started for and its answer (read), between the poll that gave the
\* recorded key and the recorded answer (code), and after the poll by which a
\* call goes that is asking for the number (waits).
Crossings == [seen : BOOLEAN, read : BOOLEAN, code : BOOLEAN,
              waits : SUBSET Installs]

At(i, pc) == call[i] # None /\ call[i].pc = pc
Delivering(i) == call[i] # None /\ call[i].pc \in Delivery
Go(i, w) == call' = [call EXCEPT ![i] = w]
To(i, pc) == Go(i, [call[i] EXCEPT !.pc = pc])

\* _feed_mode also wants the last read of the feed to have succeeded: wherever
\* it is asked it may be off.
FeedMode == feed /\ code # None

InProgress == observer # None \/ latch \/ opSeen

\* A stable release newer than what the panel runs, as it may offer one.
Offered == {b \in Stable : b > seen}

----------------------------------------------------------------------------
(* What the entity shows. *)

\* _refresh_installed_code: one read per change of key, one at a time.
WantedOnce(b) == feed /\ key = None /\ reading = None     \* mutant
Wanted(b) == feed /\ b # key /\ reading = None

\* A health poll, scheduled or requested, and its listener.
Poll ==
    /\ seen' = panel.build
    /\ reading' = IF Wanted(panel.build)
                  THEN [key |-> panel.build, got |-> None] ELSE reading
    /\ crossed' = [crossed EXCEPT !.seen = FALSE, !.read = @ /\ reading' = reading]
    /\ UNCHANGED <<panel, accepted, feed, opSeen, code, key, work, call>>

\* The panel answers async_get_version_code.
ReadAnswered ==
    /\ reading # None /\ reading.got = None
    /\ reading' = [reading EXCEPT !.got = panel.build]
    /\ UNCHANGED <<panel, accepted, polled, code, key, crossed, work, call>>

\* _async_read_installed_code: the key is the one the read was started for.
RecordedNow == seen                                        \* mutant
Recorded == reading.key

ReadDone ==
    /\ reading # None /\ reading.got # None
    /\ key' = Recorded
    /\ code' = IF SameName(reading.got, reading.key) THEN reading.got ELSE None
    /\ reading' = None
    /\ crossed' = [crossed EXCEPT !.code = crossed.read, !.read = FALSE]
    /\ UNCHANGED <<panel, accepted, polled, work, call>>

\* A read that fails leaves the key, so that the next poll reads again.
ReadFails ==
    /\ reading # None
    /\ reading' = None
    /\ crossed' = [crossed EXCEPT !.read = FALSE]
    /\ UNCHANGED <<panel, accepted, polled, code, key, work, call>>

----------------------------------------------------------------------------
(* The observer of a stable update. *)

\* _start_observer: there is never more than one.
Observe(b) ==
    /\ observer' = IF observer = None THEN b ELSE observer
    /\ latch' = IF observer = None THEN TRUE ELSE latch

\* A poll of the panel's operation; a running one found without an observer,
\* as after a restart, is observed (_resume_running_operation).
OpPoll ==
    /\ opSeen' \in {panel.target # None, FALSE}
    /\ \/ opSeen' /\ \E b \in Offered : Observe(b)
       \/ UNCHANGED <<observer, latch>>
    /\ UNCHANGED <<panel, accepted, feed, seen, shown, unlatched, call>>

\* _run_observer's finally: the observer takes the latch with it, and what it
\* comes to is what everybody gets who waits for it.
LatchAfterFailure(ok) == ~ok /\ latch                            \* mutant
LatchAfter(ok) == FALSE

ObserverEnds(ok) ==
    /\ observer # None
    /\ observer' = None
    /\ latch' = LatchAfter(ok)
    /\ unlatched' = (unlatched \/ \E i \in Installs : Delivering(i))
    /\ call' = [i \in Installs |-> IF At(i, "observe") THEN None ELSE call[i]]
    /\ UNCHANGED <<panel, accepted, polled, shown>>

\* _async_wait_for_installed_version: the version shown is the expected one,
\* which it never is in feed mode, with the build's number in it.
ObserverProves ==
    /\ SameName(seen, observer)
    /\ ObserverEnds(TRUE)

\* The grace after the panel's operation has ended, or the deadline, is over.
ObserverExpires == ObserverEnds(FALSE)

----------------------------------------------------------------------------
(* A call that installs the stable update. *)

\* A new call takes the first free place.
Begins(i) ==
    /\ call[i] = None
    /\ i = CHOOSE j \in Installs : call[j] = None

NewCall(pc, b, before) ==
    [pc |-> pc, want |-> b, before |-> before, health |-> None]

StartStable(i) ==
    /\ Begins(i) /\ ~InProgress
    /\ \E b \in Offered : Go(i, NewCall("start", b, None))
    /\ UNCHANGED <<panel, accepted, polled, shown, work>>

\* The panel takes up the request unless it is busy, whichever build it is for.
Accepts(b) ==
    /\ panel.target = None
    /\ accepted < MaxAccepted /\ accepted' = accepted + 1
    /\ panel' = [panel EXCEPT !.target = b]

Accepted(i) ==
    /\ At(i, "start") \/ At(i, "prepare")
    /\ Accepts(call[i].want)
    /\ To(i, IF call[i].pc = "start" THEN "started" ELSE "wait")
    /\ UNCHANGED <<polled, shown, work>>

Started(i) ==
    /\ At(i, "started")
    /\ Observe(call[i].want)
    /\ To(i, "observe")
    /\ UNCHANGED <<panel, accepted, polled, shown, unlatched>>

\* The panel refuses or is busy, or its answer is lost.
StableFails(i) ==
    /\ At(i, "start") \/ At(i, "started")
    /\ Go(i, None)
    /\ UNCHANGED <<panel, accepted, polled, shown, work>>

----------------------------------------------------------------------------
(* A call that delivers a build of the feed. *)

\* The second look, with no await between it and the latch: another delivery
\* may have begun while the feed was read again.
FreeUnread == TRUE                                               \* mutant
Free == ~InProgress

Deliver(i, b) ==
    /\ b # code
    /\ Go(i, NewCall("prepare", b, seen))
    /\ latch' = TRUE
    /\ UNCHANGED <<observer, unlatched>>

\* async_install with a feed: a build that the feed of before does not have
\* is looked up again.
StartFeed(i, b) ==
    /\ Begins(i) /\ FeedMode /\ ~InProgress
    /\ \/ Deliver(i, b)
       \/ Go(i, NewCall("refresh", b, None)) /\ UNCHANGED work
    /\ UNCHANGED <<panel, accepted, polled, shown>>

Refreshed(i) ==
    /\ At(i, "refresh")
    /\ \/ Free /\ Deliver(i, call[i].want)
       \/ Go(i, None) /\ UNCHANGED work
    /\ UNCHANGED <<panel, accepted, polled, shown>>

\* _async_wait_for_build: the panel has restarted into the version wanted, and
\* is asked for the number of its build.
WaitSees(i) ==
    /\ At(i, "wait")
    /\ seen # call[i].before
    /\ SameName(seen, call[i].want)
    /\ Go(i, [call[i] EXCEPT !.pc = "prove", !.health = seen])
    /\ crossed' = [crossed EXCEPT !.waits = IF crossed.seen THEN @ \cup {i} ELSE @]
    /\ UNCHANGED <<panel, accepted, polled, code, key, reading, work>>

\* The delivery leaves, well or with an error: its finally clears the latch.
Leave(i) ==
    /\ Go(i, None)
    /\ latch' = FALSE
    /\ unlatched' = (unlatched /\ \E j \in Installs \ {i} : Delivering(j))
    /\ UNCHANGED observer

\* The panel answers with the number wanted; a request that fails leaves the
\* wait where it was.
Proved(i) ==
    /\ At(i, "prove") /\ panel.build = call[i].want
    /\ code' = call[i].want /\ key' = call[i].health
    /\ crossed' = [crossed EXCEPT !.code = i \in crossed.waits, !.waits = @ \ {i}]
    /\ Leave(i)
    /\ UNCHANGED <<panel, accepted, polled, reading>>

ProofFails(i) ==
    /\ At(i, "prove")
    /\ Go(i, [call[i] EXCEPT !.pc = "wait", !.health = None])
    /\ crossed' = [crossed EXCEPT !.waits = @ \ {i}]
    /\ UNCHANGED <<panel, accepted, polled, code, key, reading, work>>

\* A step of the delivery fails, the panel runs another build or does not come
\* back in time, or the call is cancelled; what was committed goes on.
DeliveryFails(i) ==
    /\ Delivering(i)
    /\ Leave(i)
    /\ crossed' = [crossed EXCEPT !.waits = @ \ {i}]
    /\ UNCHANGED <<panel, accepted, polled, code, key, reading>>

\* A call that awaits the observer is cancelled, and cancels it.
Cancel(i) == At(i, "observe") /\ ObserverEnds(FALSE)

----------------------------------------------------------------------------
(* The panel, its owner and Home Assistant. *)

\* The operation ends: what it installs has replaced the process, or it failed.
Crossed ==
    [crossed EXCEPT !.seen = TRUE,
                    !.read = @ \/ (reading # None /\ reading.got = None),
                    !.waits = {i \in Installs : At(i, "prove")}]

OperationEnds ==
    /\ panel.target # None
    /\ \E b \in {panel.build, panel.target} :
          /\ panel' = [build |-> b, target |-> None]
          /\ crossed' = IF b = panel.build THEN crossed ELSE Crossed
    /\ UNCHANGED <<accepted, polled, code, key, reading, work, call>>

OwnerInstalls ==
    /\ \E b \in Builds : Accepts(b)
    /\ UNCHANGED <<polled, shown, work, call>>

UpdInit ==
    /\ \E b \in Builds, t \in Builds \cup {None} :
          /\ panel = [build |-> b, target |-> t]
          /\ seen = b
    /\ accepted = 0
    /\ feed \in BOOLEAN /\ opSeen = FALSE
    /\ code = None /\ key = None /\ reading = None
    /\ latch = FALSE /\ observer = None /\ unlatched = FALSE
    /\ call = [i \in Installs |-> None]
    /\ crossed = [seen |-> FALSE, read |-> FALSE, code |-> FALSE, waits |-> {}]

CallStep(i) ==
    \/ Started(i) \/ StableFails(i) \/ Refreshed(i)
    \/ WaitSees(i) \/ Proved(i) \/ ProofFails(i)
    \/ DeliveryFails(i)

UpdNext ==
    \/ Poll \/ ReadAnswered \/ ReadDone \/ ReadFails
    \/ OpPoll \/ ObserverProves \/ ObserverExpires
    \/ \E i \in Installs :
          \/ StartStable(i) \/ \E b \in Builds : StartFeed(i, b)
          \/ CallStep(i) \/ Accepted(i) \/ Cancel(i)
    \/ OperationEnds \/ OwnerInstalls

UpdSpec == UpdInit /\ [][UpdNext]_updVars

\* Deadlines pass, whatever a call waits for; and the panel answers polls and
\* reads, if not always then again and again.
FairUpdSpec ==
    /\ UpdSpec
    /\ WF_updVars(ObserverExpires)
    /\ \A i \in Installs : WF_updVars(StableFails(i) \/ Refreshed(i) \/ DeliveryFails(i))
    /\ WF_updVars(Poll)
    /\ SF_updVars(ReadAnswered) /\ SF_updVars(ReadDone)

----------------------------------------------------------------------------
(* Properties. *)

\* Every variable keeps its shape.
UpdTypeOK ==
    /\ panel \in [build : Builds, target : Builds \cup {None}]
    /\ accepted \in Nat
    /\ feed \in BOOLEAN
    /\ seen \in Builds
    /\ opSeen \in BOOLEAN
    /\ code \in Builds \cup {None} /\ key \in Builds \cup {None}
    /\ reading \in [key : Builds, got : Builds \cup {None}] \cup {None}
    /\ latch \in BOOLEAN /\ unlatched \in BOOLEAN
    /\ observer \in Builds \cup {None}
    /\ call \in [Installs -> Calls \cup {None}]
    /\ crossed \in Crossings

\* The number recorded under the key of a build is the number of that build,
\* by whichever of the two readers, unless the panel was replaced between the
\* poll that gave the key and the answer that gave the number.
CodeMatchesKey == key # None /\ ~crossed.code => code = key

\* Two deliveries are under way at once only if an observer that was started
\* beside the first has ended and taken the latch of the entity with it.
OneDelivery ==
    \A i, j \in Installs : Delivering(i) /\ Delivering(j) => i = j \/ unlatched

\* Once the panel stays with a build the entity comes to show it, however many
\* answers were lost or recorded for another build, unless an answer of another
\* build was recorded under this build's own key.
ShownEventually ==
    \A b \in Builds :
        <>[](panel = [build |-> b, target |-> None])
            => <>[](feed => code = b \/ (key = b /\ crossed.code))

\* The entity does not stay in progress for ever.
LatchReleased == latch ~> ~latch

=============================================================================
