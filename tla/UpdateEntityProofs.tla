------------------------ MODULE UpdateEntityProofs ------------------------
(* The safety of UpdateEntity for any builds and calls.  The inductive       *)
(* invariant follows what was learnt of the panel from the poll to the       *)
(* record: as long as the panel is not replaced under it, what was polled,   *)
(* answered and waited for is of one build.                                  *)
EXTENDS UpdateEntity, TLAPS

\* What was learnt of the panel without a replacement in between is of the
\* build that it runs, or was all learnt of one build.
Attributed ==
    /\ ~crossed.seen => seen = panel.build
    /\ reading # None /\ ~crossed.read =>
        reading.key = IF reading.got = None THEN panel.build ELSE reading.got
    /\ \A i \in Installs :
        At(i, "prove") /\ i \notin crossed.waits => call[i].health = panel.build

\* A delivery has latched the entity, or the latch was taken from it.
DeliveryLatched == \A i \in Installs : Delivering(i) => latch \/ unlatched

UpdInv ==
    /\ UpdTypeOK
    /\ Attributed
    /\ CodeMatchesKey
    /\ OneDelivery
    /\ DeliveryLatched

USE UpdateAssumption

----------------------------------------------------------------------------
(* What a step does to the calls. *)

\* A call that goes on keeps the types, and no other call moves.
LEMMA GoTyped ==
    ASSUME UpdTypeOK, NEW i \in Installs, NEW w \in Calls \cup {None}, Go(i, w)
    PROVE  /\ call' \in [Installs -> Calls \cup {None}]
           /\ call'[i] = w
           /\ \A j \in Installs \ {i} : call'[j] = call[j]
  BY DEF UpdTypeOK, Go

\* A call that goes to another place, or sees a build, is still a call.
LEMMA MovedTyped ==
    ASSUME UpdTypeOK, NEW i \in Installs, call[i] # None, NEW pc \in Places
    PROVE  /\ [call[i] EXCEPT !.pc = pc] \in Calls
           /\ [call[i] EXCEPT !.pc = pc].pc = pc
           /\ [call[i] EXCEPT !.pc = "wait", !.health = None] \in Calls
           /\ [call[i] EXCEPT !.pc = "wait", !.health = None].pc = "wait"
           /\ [call[i] EXCEPT !.pc = "prove", !.health = seen] \in Calls
           /\ [call[i] EXCEPT !.pc = "prove", !.health = seen].pc = "prove"
           /\ [call[i] EXCEPT !.pc = "prove", !.health = seen].health = seen
  BY DEF UpdTypeOK, Calls, Places, Delivery

----------------------------------------------------------------------------
(* Initially, and step by step. *)

LEMMA UpdInitInv == UpdInit => UpdInv
<1> SUFFICES ASSUME UpdInit PROVE UpdInv
  OBVIOUS
<1>1. PICK b \in Builds, t \in Builds \cup {None} :
        panel = [build |-> b, target |-> t] /\ seen = b
  BY DEF UpdInit
<1>2. \A i \in Installs : call[i] = None
  BY DEF UpdInit
<1>3. UpdTypeOK
  BY <1>1 DEF UpdInit, UpdTypeOK, Crossings
<1>4. Attributed
  <2>1. seen = panel.build /\ reading = None
    BY <1>1 DEF UpdInit
  <2> QED
    BY <2>1, <1>2 DEF Attributed, At
<1>5. CodeMatchesKey
  BY <1>1 DEF UpdInit, CodeMatchesKey
<1>6. OneDelivery /\ DeliveryLatched
  BY <1>2 DEF OneDelivery, DeliveryLatched, Delivering
<1> QED
  BY <1>3, <1>4, <1>5, <1>6 DEF UpdInv

\* A call that goes on or ends, while the panel keeps its build: one that asks
\* for the number goes by a poll of that build, or is known not to.
LEMMA CallMoves ==
    ASSUME UpdInv, NEW i \in Installs, NEW w \in Calls \cup {None}, Go(i, w),
           panel'.build = panel.build, UNCHANGED <<seen, code, key, reading>>,
           crossed' \in Crossings,
           crossed'.seen = crossed.seen, crossed'.read = crossed.read,
           crossed'.code = crossed.code,
           crossed.waits \ {i} \subseteq crossed'.waits,
           w # None => (w.pc = "prove" =>
                            w.health = panel.build \/ i \in crossed'.waits)
    PROVE  /\ call' \in [Installs -> Calls \cup {None}]
           /\ Attributed' /\ CodeMatchesKey'
<1> USE DEF UpdInv
<1>1. /\ call' \in [Installs -> Calls \cup {None}]
      /\ call'[i] = w
      /\ \A j \in Installs \ {i} : call'[j] = call[j]
  BY GoTyped
<1>2. \A j \in Installs :
        At(j, "prove")' /\ j \notin crossed'.waits => call'[j].health = panel.build
  <2> SUFFICES ASSUME NEW j \in Installs, At(j, "prove")', j \notin crossed'.waits
               PROVE  call'[j].health = panel.build
    OBVIOUS
  <2>1. CASE j = i
    BY <2>1, <1>1 DEF At
  <2>2. CASE j # i
    BY <2>2, <1>1 DEF Attributed, At
  <2> QED
    BY <2>1, <2>2
<1>3. (~crossed.seen => seen = panel.build)'
  BY DEF Attributed
<1>4. (reading # None /\ ~crossed.read =>
          reading.key = IF reading.got = None THEN panel.build ELSE reading.got)'
  BY DEF Attributed
<1>5. Attributed'
  BY <1>2, <1>3, <1>4 DEF Attributed
<1> QED
  BY <1>1, <1>5 DEF CodeMatchesKey

\* What is known of replacements keeps its shape when a wait is forgotten.
LEMMA WaitForgotten ==
    ASSUME UpdTypeOK, NEW i,
           crossed' = [crossed EXCEPT !.waits = @ \ {i}]
    PROVE  /\ crossed' \in Crossings
           /\ crossed'.seen = crossed.seen /\ crossed'.read = crossed.read
           /\ crossed'.code = crossed.code
           /\ crossed'.waits = crossed.waits \ {i}
  BY DEF UpdTypeOK, Crossings

\* A call that goes on or ends and is no delivery afterwards, while the latch
\* is kept or set.
LEMMA LeavesDelivery ==
    ASSUME UpdInv, NEW i \in Installs, NEW w \in Calls \cup {None}, Go(i, w),
           w # None => (w.pc \in Delivery => Delivering(i)),
           latch => latch', unlatched' = unlatched
    PROVE  OneDelivery' /\ DeliveryLatched'
<1> USE DEF UpdInv
<1>1. /\ call'[i] = w
      /\ \A j \in Installs \ {i} : call'[j] = call[j]
  BY GoTyped
<1>2. \A j \in Installs : Delivering(j)' => Delivering(j)
  BY <1>1 DEF Delivering
<1>3. OneDelivery'
  BY <1>2 DEF OneDelivery
<1>4. DeliveryLatched'
  BY <1>2 DEF DeliveryLatched
<1> QED
  BY <1>3, <1>4

\* A delivery begins only when the entity is not in progress, and leaves with
\* the latch.
LEMMA BeginsDelivery ==
    ASSUME UpdInv, NEW i \in Installs, NEW b \in Builds, ~InProgress,
           Deliver(i, b)
    PROVE  OneDelivery' /\ DeliveryLatched'
<1> USE DEF UpdInv
<1>1. \A j \in Installs : Delivering(j) => unlatched
  BY DEF DeliveryLatched, InProgress
<1>2. NewCall("prepare", b, seen) \in Calls
  BY DEF NewCall, Calls, Places, Delivery, UpdTypeOK
<1>3. \A j \in Installs \ {i} : call'[j] = call[j]
  BY <1>2, GoTyped DEF Deliver
<1>4. \A j \in Installs \ {i} : Delivering(j)' => Delivering(j)
  BY <1>3 DEF Delivering
<1>5. OneDelivery'
  BY <1>1, <1>4 DEF OneDelivery, Deliver
<1>6. DeliveryLatched'
  BY DEF DeliveryLatched, Deliver
<1> QED
  BY <1>5, <1>6

LEMMA LeaveDelivers ==
    ASSUME UpdInv, NEW i \in Installs, Delivering(i), Leave(i)
    PROVE  OneDelivery' /\ DeliveryLatched'
<1> USE DEF UpdInv
<1>1. call'[i] = None /\ \A j \in Installs \ {i} : call'[j] = call[j]
  BY GoTyped DEF Leave
<1>2. ~Delivering(i)' /\ \A j \in Installs \ {i} : Delivering(j)' => Delivering(j)
  BY <1>1 DEF Delivering
<1>3. \A j \in Installs \ {i} : Delivering(j)' => unlatched'
  BY <1>2 DEF OneDelivery, Leave
<1>4. OneDelivery'
  BY <1>2, <1>3 DEF OneDelivery
<1>5. DeliveryLatched'
  BY <1>2, <1>3 DEF DeliveryLatched
<1> QED
  BY <1>4, <1>5

\* An observer that ends takes the latch, and says so if there is a delivery.
LEMMA ObserverStep ==
    ASSUME UpdInv, NEW ok \in BOOLEAN, ObserverEnds(ok)
    PROVE  UpdInv'
<1> USE DEF UpdInv
<1>1. /\ call' \in [Installs -> Calls \cup {None}]
      /\ \A i \in Installs : call'[i] \in {call[i], None}
  BY DEF ObserverEnds, UpdTypeOK
<1>2. UpdTypeOK'
  BY <1>1 DEF ObserverEnds, UpdTypeOK, LatchAfter, polled, shown
<1>3. Attributed'
  <2>1. \A i \in Installs : At(i, "prove")' => At(i, "prove") /\ call'[i] = call[i]
    BY <1>1 DEF At
  <2>2. UNCHANGED <<panel, seen, reading, crossed>>
    BY DEF ObserverEnds, polled, shown
  <2> QED
    BY <2>1, <2>2 DEF Attributed
<1>4. CodeMatchesKey'
  BY DEF CodeMatchesKey, ObserverEnds, shown
<1>5. \A i \in Installs : Delivering(i)' => Delivering(i)
  BY <1>1 DEF Delivering
<1>6. \A i \in Installs : Delivering(i)' => unlatched'
  BY <1>5 DEF ObserverEnds
<1>7. OneDelivery' /\ DeliveryLatched'
  BY <1>6 DEF OneDelivery, DeliveryLatched
<1> QED
  BY <1>2, <1>3, <1>4, <1>7

\* A step that leaves the calls and the entity's work alone keeps what is said
\* of deliveries.
LEMMA DeliveriesKept ==
    ASSUME UpdInv, call' = call, latch => latch', unlatched' = unlatched
    PROVE  OneDelivery' /\ DeliveryLatched'
  BY DEF UpdInv, OneDelivery, DeliveryLatched, Delivering

LEMMA PollStep == ASSUME UpdInv, Poll PROVE UpdInv'
<1> USE DEF UpdInv
<1>1. PICK c : c = crossed /\ c \in Crossings
  BY DEF UpdTypeOK
<1>2. /\ crossed' \in Crossings /\ crossed'.seen = FALSE
      /\ crossed'.read = (crossed.read /\ reading' = reading)
      /\ crossed'.code = crossed.code /\ crossed'.waits = crossed.waits
  BY <1>1 DEF Poll, Crossings
<1>3. \/ reading' = reading
      \/ reading = None /\ reading' = [key |-> panel.build, got |-> None]
  BY DEF Poll, Wanted
<1>4. UpdTypeOK'
  BY <1>2, <1>3 DEF Poll, UpdTypeOK, work
<1>5. (reading # None /\ ~crossed.read =>
          reading.key = IF reading.got = None THEN panel.build ELSE reading.got)'
  BY <1>2, <1>3 DEF Poll, Attributed
<1>6. \A i \in Installs : At(i, "prove")' => At(i, "prove") /\ call'[i] = call[i]
  BY DEF Poll, At
<1>7. Attributed'
  BY <1>2, <1>5, <1>6 DEF Poll, Attributed
<1>8. CodeMatchesKey'
  BY <1>2 DEF Poll, CodeMatchesKey
<1> QED
  BY <1>4, <1>7, <1>8, DeliveriesKept DEF Poll, work

\* A step of the reader leaves the polls and the waits as they are.
LEMMA ReaderStep ==
    ASSUME UpdInv, UNCHANGED <<panel, polled, work, call>>,
           crossed'.seen = crossed.seen, crossed'.waits = crossed.waits,
           (reading # None /\ ~crossed.read =>
               reading.key = IF reading.got = None THEN panel.build ELSE reading.got)'
    PROVE  Attributed'
<1> USE DEF UpdInv
<1>1. \A i \in Installs : At(i, "prove")' => At(i, "prove") /\ call'[i] = call[i]
  BY DEF At
<1> QED
  BY <1>1 DEF Attributed, polled

LEMMA ReadAnsweredStep == ASSUME UpdInv, ReadAnswered PROVE UpdInv'
<1> USE DEF UpdInv
<1>1. reading \in [key : Builds, got : Builds \cup {None}]
  BY DEF ReadAnswered, UpdTypeOK
<1>2. panel.build \in Builds /\ panel.build # None
  BY DEF UpdTypeOK
<1>3. /\ reading' \in [key : Builds, got : Builds \cup {None}]
      /\ reading'.key = reading.key /\ reading'.got = panel.build
  BY <1>1, <1>2 DEF ReadAnswered
<1>4. UpdTypeOK'
  BY <1>3 DEF ReadAnswered, UpdTypeOK, work, polled
<1>5. ~crossed.read => reading.key = panel.build
  BY DEF ReadAnswered, Attributed
<1>6. (reading # None /\ ~crossed.read =>
          reading.key = IF reading.got = None THEN panel.build ELSE reading.got)'
  BY <1>2, <1>3, <1>5 DEF ReadAnswered
<1>7. Attributed'
  BY <1>6, ReaderStep DEF ReadAnswered
<1>8. CodeMatchesKey'
  BY DEF ReadAnswered, CodeMatchesKey
<1> QED
  BY <1>4, <1>7, <1>8, DeliveriesKept DEF ReadAnswered, work

\* What happens to a read and to its number when it ends.
LEMMA ReadGone ==
    ASSUME UpdInv, NEW c \in BOOLEAN,
           crossed' = [crossed EXCEPT !.code = c, !.read = FALSE]
    PROVE  /\ crossed' \in Crossings
           /\ crossed'.seen = crossed.seen /\ crossed'.waits = crossed.waits
           /\ crossed'.code = c
  BY DEF UpdInv, UpdTypeOK, Crossings

\* An answer that the panel was not replaced before is the number of the key.
LEMMA ReadDoneStep == ASSUME UpdInv, ReadDone PROVE UpdInv'
<1> USE DEF UpdInv
<1>1. /\ reading \in [key : Builds, got : Builds \cup {None}]
      /\ reading.got \in Builds /\ reading.got # None
  BY DEF ReadDone, UpdTypeOK
<1>2. /\ key' = reading.key /\ code' \in {reading.got, None}
      /\ key' \in Builds /\ code' \in Builds \cup {None}
  BY <1>1 DEF ReadDone, Recorded
<1>3. crossed.read \in BOOLEAN
  BY DEF UpdTypeOK, Crossings
<1>4. /\ crossed' \in Crossings
      /\ crossed'.seen = crossed.seen /\ crossed'.waits = crossed.waits
      /\ crossed'.code = crossed.read
  BY <1>3, ReadGone DEF ReadDone
<1>5. UpdTypeOK'
  BY <1>2, <1>4 DEF ReadDone, UpdTypeOK, work, polled
<1>6. Attributed'
  BY <1>4, ReaderStep DEF ReadDone
<1>7. CodeMatchesKey'
  <2> SUFFICES ASSUME ~crossed.read PROVE code' = reading.key
    BY <1>2, <1>4 DEF CodeMatchesKey
  <2>1. reading.got = reading.key
    BY <1>1 DEF Attributed, ReadDone
  <2> QED
    BY <2>1 DEF ReadDone, SameName
<1> QED
  BY <1>5, <1>6, <1>7, DeliveriesKept DEF ReadDone, work

LEMMA ReadFailsStep == ASSUME UpdInv, ReadFails PROVE UpdInv'
<1> USE DEF UpdInv
<1>1. /\ crossed' \in Crossings
      /\ crossed'.seen = crossed.seen /\ crossed'.waits = crossed.waits
      /\ crossed'.code = crossed.code
  BY DEF ReadFails, UpdTypeOK, Crossings
<1>2. UpdTypeOK'
  BY <1>1 DEF ReadFails, UpdTypeOK, work, polled
<1>3. Attributed'
  BY <1>1, ReaderStep DEF ReadFails
<1>4. CodeMatchesKey'
  BY <1>1 DEF ReadFails, CodeMatchesKey
<1> QED
  BY <1>2, <1>3, <1>4, DeliveriesKept DEF ReadFails, work

LEMMA OpPollStep == ASSUME UpdInv, OpPoll PROVE UpdInv'
<1> USE DEF UpdInv
<1>1. /\ observer' \in Builds \cup {None} /\ latch' \in BOOLEAN
      /\ latch => latch'
  <2>1. CASE UNCHANGED <<observer, latch>>
    BY <2>1 DEF UpdTypeOK
  <2>2. CASE \E b \in Offered : Observe(b)
    <3>1. PICK b \in Builds : Observe(b)
      BY <2>2 DEF Offered
    <3> QED
      BY <3>1 DEF Observe, UpdTypeOK
  <2> QED
    BY <2>1, <2>2 DEF OpPoll
<1>2. opSeen' \in BOOLEAN
  BY DEF OpPoll
<1>3. UpdTypeOK'
  BY <1>1, <1>2 DEF OpPoll, UpdTypeOK, shown
<1>4. Attributed' /\ CodeMatchesKey'
  BY DEF OpPoll, Attributed, At, CodeMatchesKey, shown
<1> QED
  BY <1>1, <1>3, <1>4, DeliveriesKept DEF OpPoll

\* The panel takes up an operation, and keeps the build it runs.
LEMMA AcceptsMoves ==
    ASSUME UpdInv, NEW b \in Builds, Accepts(b)
    PROVE  /\ panel' \in [build : Builds, target : Builds \cup {None}]
           /\ panel'.build = panel.build
           /\ accepted' \in Nat
  BY DEF UpdInv, UpdTypeOK, Accepts

LEMMA OwnerInstallsStep == ASSUME UpdInv, OwnerInstalls PROVE UpdInv'
<1> USE DEF UpdInv
<1>1. /\ panel' \in [build : Builds, target : Builds \cup {None}]
      /\ panel'.build = panel.build
      /\ accepted' \in Nat
  BY AcceptsMoves DEF OwnerInstalls
<1>2. UpdTypeOK'
  BY <1>1 DEF OwnerInstalls, UpdTypeOK, polled, shown, work
<1>3. Attributed' /\ CodeMatchesKey'
  BY <1>1 DEF OwnerInstalls, Attributed, At, CodeMatchesKey, polled, shown
<1> QED
  BY <1>2, <1>3, DeliveriesKept DEF OwnerInstalls, work

\* A replacement is known to everything that was under way across it.
LEMMA OperationEndsStep == ASSUME UpdInv, OperationEnds PROVE UpdInv'
<1> USE DEF UpdInv
<1>1. PICK b \in {panel.build, panel.target} :
        /\ panel' = [build |-> b, target |-> None]
        /\ crossed' = IF b = panel.build THEN crossed ELSE Crossed
  BY DEF OperationEnds
<1>2. b \in Builds /\ panel'.build = b
  BY <1>1 DEF OperationEnds, UpdTypeOK
<1>3. /\ Crossed \in Crossings /\ Crossed.seen = TRUE
      /\ Crossed.read = (crossed.read \/ (reading # None /\ reading.got = None))
      /\ Crossed.code = crossed.code
      /\ Crossed.waits = {i \in Installs : At(i, "prove")}
  BY DEF Crossed, UpdTypeOK, Crossings
<1>4. crossed' \in Crossings
  BY <1>1, <1>3 DEF UpdTypeOK
<1>5. UpdTypeOK'
  BY <1>1, <1>2, <1>4 DEF OperationEnds, UpdTypeOK, polled, work
<1>6. \A i \in Installs : At(i, "prove")' => At(i, "prove") /\ call'[i] = call[i]
  BY DEF OperationEnds, At
<1>7. Attributed'
  <2>1. CASE b = panel.build
    <3>1. crossed' = crossed /\ panel'.build = panel.build
      BY <1>1, <1>2, <2>1
    <3> QED
      BY <3>1, <1>6 DEF Attributed, OperationEnds, polled
  <2>2. CASE b # panel.build
    <3>1. crossed' = Crossed
      BY <1>1, <2>2
    <3>2. (reading # None /\ ~crossed.read =>
              reading.key = IF reading.got = None THEN panel.build ELSE reading.got)'
      BY <3>1, <1>3 DEF Attributed, OperationEnds
    <3> QED
      BY <3>1, <3>2, <1>3, <1>6 DEF Attributed
  <2> QED
    BY <2>1, <2>2
<1>8. CodeMatchesKey'
  BY <1>1, <1>3 DEF CodeMatchesKey, OperationEnds
<1> QED
  BY <1>5, <1>7, <1>8, DeliveriesKept DEF OperationEnds, work

----------------------------------------------------------------------------
(* The steps of a call. *)

LEMMA StartStableStep ==
    ASSUME UpdInv, NEW i \in Installs, StartStable(i) PROVE UpdInv'
<1> USE DEF UpdInv
<1>1. PICK b \in Builds : Go(i, NewCall("start", b, None))
  BY DEF StartStable, Offered
<1>2. /\ NewCall("start", b, None) \in Calls
      /\ NewCall("start", b, None).pc = "start"
  BY DEF NewCall, Calls, Places
<1>3. /\ call' \in [Installs -> Calls \cup {None}]
      /\ Attributed' /\ CodeMatchesKey'
  BY <1>1, <1>2, CallMoves DEF StartStable, polled, shown, UpdTypeOK
<1>4. UpdTypeOK'
  BY <1>3 DEF StartStable, UpdTypeOK, polled, shown, work
<1>5. OneDelivery' /\ DeliveryLatched'
  BY <1>1, <1>2, LeavesDelivery DEF StartStable, Delivery, work
<1> QED
  BY <1>3, <1>4, <1>5

LEMMA AcceptedStep ==
    ASSUME UpdInv, NEW i \in Installs, Accepted(i) PROVE UpdInv'
<1> USE DEF UpdInv
<1> DEFINE pc == IF call[i].pc = "start" THEN "started" ELSE "wait"
           w == [call[i] EXCEPT !.pc = pc]
<1>1. call[i] # None /\ call[i] \in Calls /\ pc \in Places /\ Go(i, w)
  BY DEF Accepted, At, To, Places, Delivery, UpdTypeOK
<1>2. w \in Calls /\ w.pc = pc
  BY <1>1, MovedTyped
<1>3. w.pc # "prove" /\ (w.pc \in Delivery => Delivering(i))
  BY <1>1, <1>2 DEF Accepted, At, Delivering, Delivery
<1> HIDE DEF w, pc
<1>4. /\ call' \in [Installs -> Calls \cup {None}]
      /\ call'[i] = w
      /\ \A j \in Installs \ {i} : call'[j] = call[j]
  BY <1>1, <1>2, GoTyped
<1>5. call[i].want \in Builds
  BY <1>1 DEF Calls
<1>6. /\ panel' \in [build : Builds, target : Builds \cup {None}]
      /\ panel'.build = panel.build
      /\ accepted' \in Nat
  BY <1>5, AcceptsMoves DEF Accepted
<1>7. Attributed' /\ CodeMatchesKey'
  BY <1>1, <1>2, <1>3, <1>6, CallMoves DEF Accepted, polled, shown, UpdTypeOK
<1>8. UpdTypeOK'
  BY <1>4, <1>6 DEF Accepted, UpdTypeOK, polled, shown, work
<1>9. OneDelivery' /\ DeliveryLatched'
  BY <1>1, <1>2, <1>3, LeavesDelivery DEF Accepted, work
<1> QED
  BY <1>7, <1>8, <1>9

LEMMA StartedStep ==
    ASSUME UpdInv, NEW i \in Installs, Started(i) PROVE UpdInv'
<1> USE DEF UpdInv
<1> DEFINE w == [call[i] EXCEPT !.pc = "observe"]
<1>1. call[i] # None /\ call[i].want \in Builds /\ Go(i, w)
  BY DEF Started, At, To, UpdTypeOK, Calls
<1>2. w \in Calls /\ w.pc = "observe"
  BY <1>1, MovedTyped DEF Places
<1> HIDE DEF w
<1>3. /\ call' \in [Installs -> Calls \cup {None}]
      /\ Attributed' /\ CodeMatchesKey'
  BY <1>1, <1>2, CallMoves DEF Started, polled, shown, UpdTypeOK
<1>4. observer' \in Builds \cup {None} /\ latch' \in BOOLEAN
  BY <1>1 DEF Started, Observe, UpdTypeOK
<1>5. latch => latch'
  BY DEF Started, Observe
<1>6. UpdTypeOK'
  BY <1>3, <1>4 DEF Started, UpdTypeOK, polled, shown
<1>7. OneDelivery' /\ DeliveryLatched'
  BY <1>1, <1>2, <1>5, LeavesDelivery DEF Started, Delivery
<1> QED
  BY <1>3, <1>6, <1>7

LEMMA StableFailsStep ==
    ASSUME UpdInv, NEW i \in Installs, StableFails(i) PROVE UpdInv'
<1> USE DEF UpdInv
<1>1. /\ call' \in [Installs -> Calls \cup {None}]
      /\ Attributed' /\ CodeMatchesKey'
  BY CallMoves DEF StableFails, polled, shown, UpdTypeOK
<1>2. UpdTypeOK'
  BY <1>1 DEF StableFails, UpdTypeOK, polled, shown, work
<1>3. OneDelivery' /\ DeliveryLatched'
  BY LeavesDelivery DEF StableFails, work
<1> QED
  BY <1>1, <1>2, <1>3

LEMMA DeliverTyped ==
    ASSUME UpdInv, NEW i \in Installs, NEW b \in Builds, Deliver(i, b),
           UNCHANGED <<panel, accepted, polled, shown>>
    PROVE  UpdTypeOK' /\ Attributed' /\ CodeMatchesKey'
<1> USE DEF UpdInv
<1>1. /\ NewCall("prepare", b, seen) \in Calls
      /\ NewCall("prepare", b, seen).pc = "prepare"
  BY DEF NewCall, Calls, Places, Delivery, UpdTypeOK
<1>2. /\ call' \in [Installs -> Calls \cup {None}]
      /\ Attributed' /\ CodeMatchesKey'
  BY <1>1, CallMoves DEF Deliver, polled, shown, UpdTypeOK
<1>3. UpdTypeOK'
  BY <1>2 DEF Deliver, UpdTypeOK, polled, shown
<1> QED
  BY <1>2, <1>3

LEMMA StartFeedStep ==
    ASSUME UpdInv, NEW i \in Installs, NEW b \in Builds, StartFeed(i, b)
    PROVE  UpdInv'
<1> USE DEF UpdInv
<1>1. CASE Deliver(i, b)
  <2>1. UpdTypeOK' /\ Attributed' /\ CodeMatchesKey'
    BY <1>1, DeliverTyped DEF StartFeed
  <2> QED
    BY <1>1, <2>1, BeginsDelivery DEF StartFeed
<1>2. CASE Go(i, NewCall("refresh", b, None)) /\ UNCHANGED work
  <2>1. /\ NewCall("refresh", b, None) \in Calls
        /\ NewCall("refresh", b, None).pc = "refresh"
    BY DEF NewCall, Calls, Places
  <2>2. /\ call' \in [Installs -> Calls \cup {None}]
        /\ Attributed' /\ CodeMatchesKey'
    BY <1>2, <2>1, CallMoves DEF StartFeed, polled, shown, UpdTypeOK
  <2>3. UpdTypeOK'
    BY <1>2, <2>2 DEF StartFeed, UpdTypeOK, polled, shown, work
  <2>4. OneDelivery' /\ DeliveryLatched'
    BY <1>2, <2>1, LeavesDelivery DEF Delivery, work
  <2> QED
    BY <2>2, <2>3, <2>4
<1> QED
  BY <1>1, <1>2 DEF StartFeed

LEMMA RefreshedStep ==
    ASSUME UpdInv, NEW i \in Installs, Refreshed(i) PROVE UpdInv'
<1> USE DEF UpdInv
<1>2. CASE Free /\ Deliver(i, call[i].want)
  <2>1. call[i].want \in Builds
    BY DEF Refreshed, At, UpdTypeOK, Calls
  <2>2. UpdTypeOK' /\ Attributed' /\ CodeMatchesKey'
    BY <1>2, <2>1, DeliverTyped DEF Refreshed
  <2> QED
    BY <1>2, <2>1, <2>2, BeginsDelivery DEF Free
<1>3. CASE Go(i, None) /\ UNCHANGED work
  <2>1. /\ call' \in [Installs -> Calls \cup {None}]
        /\ Attributed' /\ CodeMatchesKey'
    BY <1>3, CallMoves DEF Refreshed, polled, shown, UpdTypeOK
  <2>2. UpdTypeOK'
    BY <1>3, <2>1 DEF Refreshed, UpdTypeOK, polled, shown, work
  <2>3. OneDelivery' /\ DeliveryLatched'
    BY <1>3, LeavesDelivery DEF work
  <2> QED
    BY <2>1, <2>2, <2>3
<1> QED
  BY <1>2, <1>3 DEF Refreshed

LEMMA WaitSeesStep ==
    ASSUME UpdInv, NEW i \in Installs, WaitSees(i) PROVE UpdInv'
<1> USE DEF UpdInv
<1> DEFINE w == [call[i] EXCEPT !.pc = "prove", !.health = seen]
<1>1. call[i] # None /\ Delivering(i) /\ Go(i, w)
  BY DEF WaitSees, At, Delivering, Delivery
<1>2. w \in Calls /\ w.pc = "prove" /\ w.health = seen
  BY <1>1, MovedTyped DEF Places, Delivery
<1> HIDE DEF w
<1>3. /\ crossed' \in Crossings
      /\ crossed'.seen = crossed.seen /\ crossed'.read = crossed.read
      /\ crossed'.code = crossed.code
      /\ crossed'.waits = IF crossed.seen THEN crossed.waits \cup {i} ELSE crossed.waits
  BY DEF WaitSees, UpdTypeOK, Crossings
<1>4. w.health = panel.build \/ i \in crossed'.waits
  BY <1>2, <1>3 DEF Attributed
<1>6. /\ call' \in [Installs -> Calls \cup {None}]
      /\ Attributed' /\ CodeMatchesKey'
  BY <1>1, <1>2, <1>3, <1>4, CallMoves DEF WaitSees, polled
<1>7. UpdTypeOK'
  BY <1>3, <1>6 DEF WaitSees, UpdTypeOK, polled, work
<1>5. OneDelivery' /\ DeliveryLatched'
  BY <1>1, <1>2, LeavesDelivery DEF WaitSees, work
<1> QED
  BY <1>5, <1>6, <1>7

LEMMA ProofFailsStep ==
    ASSUME UpdInv, NEW i \in Installs, ProofFails(i) PROVE UpdInv'
<1> USE DEF UpdInv
<1> DEFINE w == [call[i] EXCEPT !.pc = "wait", !.health = None]
<1>1. call[i] # None /\ Delivering(i) /\ Go(i, w)
  BY DEF ProofFails, At, Delivering, Delivery
<1>2. w \in Calls /\ w.pc = "wait"
  BY <1>1, MovedTyped DEF Places
<1> HIDE DEF w
<1>3. /\ crossed' \in Crossings
      /\ crossed'.seen = crossed.seen /\ crossed'.read = crossed.read
      /\ crossed'.code = crossed.code
      /\ crossed'.waits = crossed.waits \ {i}
  BY WaitForgotten DEF ProofFails
<1>4. /\ call' \in [Installs -> Calls \cup {None}]
      /\ Attributed' /\ CodeMatchesKey'
  BY <1>1, <1>2, <1>3, CallMoves DEF ProofFails, polled
<1>5. UpdTypeOK'
  BY <1>3, <1>4 DEF ProofFails, UpdTypeOK, polled, work
<1>6. OneDelivery' /\ DeliveryLatched'
  BY <1>1, <1>2, LeavesDelivery DEF ProofFails, work
<1> QED
  BY <1>4, <1>5, <1>6

\* The build wanted is the panel's, and so is the one of the key, unless the
\* panel was replaced after the poll that gave the key.
LEMMA ProvedStep ==
    ASSUME UpdInv, NEW i \in Installs, Proved(i) PROVE UpdInv'
<1> USE DEF UpdInv
<1>1. call[i] # None /\ call[i] \in Calls /\ Delivering(i) /\ Leave(i)
  BY DEF Proved, At, Delivering, Delivery, UpdTypeOK
<1>2. /\ call' \in [Installs -> Calls \cup {None}]
      /\ call'[i] = None
      /\ \A j \in Installs \ {i} : call'[j] = call[j]
  BY <1>1, GoTyped DEF Leave
<1>3. /\ code' = panel.build /\ key' = call[i].health
      /\ key' \in Builds \cup {None}
  BY <1>1 DEF Proved, Calls
<1>4. /\ crossed' \in Crossings /\ crossed'.seen = crossed.seen
      /\ crossed'.read = crossed.read
      /\ crossed'.code = (i \in crossed.waits)
      /\ crossed'.waits = crossed.waits \ {i}
  <2> DEFINE known == i \in crossed.waits
  <2>1. known \in BOOLEAN
    BY SMT
  <2>2. crossed' = [crossed EXCEPT !.code = known, !.waits = @ \ {i}]
    BY DEF Proved
  <2>3. crossed \in Crossings
    BY DEF UpdTypeOK
  <2> HIDE DEF known
  <2>4. /\ crossed' \in Crossings /\ crossed'.seen = crossed.seen
        /\ crossed'.read = crossed.read
        /\ crossed'.code = known
        /\ crossed'.waits = crossed.waits \ {i}
    BY <2>1, <2>2, <2>3 DEF Crossings
  <2> QED
    BY <2>4, Zenon DEF known
<1>5. latch' \in BOOLEAN /\ unlatched' \in BOOLEAN /\ observer' = observer
  BY <1>1 DEF Leave, UpdTypeOK
<1>6. UpdTypeOK'
  BY <1>2, <1>3, <1>4, <1>5 DEF Proved, UpdTypeOK, polled
<1>7. Attributed'
  <2>1. \A j \in Installs : At(j, "prove")' /\ j \notin crossed'.waits
                              => call'[j].health = panel.build
    BY <1>2, <1>4 DEF At, Attributed
  <2>2. (reading # None /\ ~crossed.read =>
            reading.key = IF reading.got = None THEN panel.build ELSE reading.got)'
    BY <1>4 DEF Attributed, Proved
  <2>3. (~crossed.seen => seen = panel.build)'
    BY <1>4 DEF Attributed, Proved, polled
  <2>4. panel' = panel
    BY DEF Proved
  <2> QED
    BY <2>1, <2>2, <2>3, <2>4 DEF Attributed
<1>8. CodeMatchesKey'
  <2>1. i \notin crossed.waits => call[i].health = panel.build
    BY DEF Attributed, Proved
  <2> QED
    BY <1>3, <1>4, <2>1 DEF CodeMatchesKey
<1> QED
  BY <1>1, <1>6, <1>7, <1>8, LeaveDelivers

LEMMA DeliveryFailsStep ==
    ASSUME UpdInv, NEW i \in Installs, DeliveryFails(i) PROVE UpdInv'
<1> USE DEF UpdInv
<1>1. Go(i, None)
  BY DEF DeliveryFails, Leave
<1>2. /\ crossed' \in Crossings
      /\ crossed'.seen = crossed.seen /\ crossed'.read = crossed.read
      /\ crossed'.code = crossed.code
      /\ crossed'.waits = crossed.waits \ {i}
  BY WaitForgotten DEF DeliveryFails
<1>3. /\ call' \in [Installs -> Calls \cup {None}]
      /\ Attributed' /\ CodeMatchesKey'
  BY <1>1, <1>2, CallMoves DEF DeliveryFails, polled
<1>4. latch' \in BOOLEAN /\ unlatched' \in BOOLEAN
  BY DEF DeliveryFails, Leave, UpdTypeOK
<1>5. UpdTypeOK'
  BY <1>2, <1>3, <1>4 DEF DeliveryFails, Leave, UpdTypeOK, polled
<1> QED
  BY <1>3, <1>5, LeaveDelivers DEF DeliveryFails

----------------------------------------------------------------------------
(* The invariant and what follows from it. *)

LEMMA StutterStep == ASSUME UpdInv, UNCHANGED updVars PROVE UpdInv'
<1> USE DEF UpdInv
<1>1. UpdTypeOK'
  BY DEF updVars, UpdTypeOK, polled, shown, work
<1>2. Attributed' /\ CodeMatchesKey'
  BY DEF updVars, Attributed, At, CodeMatchesKey, polled, shown
<1> QED
  BY <1>1, <1>2, DeliveriesKept DEF updVars, work

LEMMA UpdNextInv == UpdInv /\ [UpdNext]_updVars => UpdInv'
<1> SUFFICES ASSUME UpdInv, [UpdNext]_updVars PROVE UpdInv'
  OBVIOUS
<1>1. CASE Poll \/ ReadAnswered \/ ReadDone \/ ReadFails \/ OpPoll
  BY <1>1, PollStep, ReadAnsweredStep, ReadDoneStep, ReadFailsStep, OpPollStep
<1>2. CASE ObserverProves \/ ObserverExpires
  BY <1>2, ObserverStep DEF ObserverProves, ObserverExpires
<1>3. CASE \E i \in Installs : StartStable(i) \/ \E b \in Builds : StartFeed(i, b)
  BY <1>3, StartStableStep, StartFeedStep
<1>4. CASE \E i \in Installs : CallStep(i)
  BY <1>4, StartedStep, StableFailsStep, RefreshedStep, WaitSeesStep, ProvedStep,
     ProofFailsStep, DeliveryFailsStep DEF CallStep
<1>5. CASE \E i \in Installs : Accepted(i)
  BY <1>5, AcceptedStep
<1>6. CASE \E i \in Installs : Cancel(i)
  BY <1>6, ObserverStep DEF Cancel
<1>7. CASE OperationEnds \/ OwnerInstalls
  BY <1>7, OperationEndsStep, OwnerInstallsStep
<1>8. CASE UNCHANGED updVars
  BY <1>8, StutterStep
<1> QED
  BY <1>1, <1>2, <1>3, <1>4, <1>5, <1>6, <1>7, <1>8 DEF UpdNext

\* The inductive invariant holds in every behaviour of the entity.
THEOREM UpdSafe == UpdSpec => []UpdInv
<1> QED
  BY UpdInitInv, UpdNextInv, PTL DEF UpdSpec

\* Every variable of the entity keeps its shape.
THEOREM UpdTypeCorrect == UpdSpec => []UpdTypeOK
<1>1. UpdInv => UpdTypeOK
  BY DEF UpdInv
<1> QED
  BY <1>1, UpdSafe, PTL

\* For any builds, in any order, and any number of calls, the number recorded
\* under a key is the number of that key's build, however late the answers come
\* that _async_read_installed_code and _async_wait_for_build record, unless the
\* panel was replaced between the poll that gave the key and that answer.
THEOREM CodeTheorem == UpdSpec => []CodeMatchesKey
<1>1. UpdInv => CodeMatchesKey
  BY DEF UpdInv
<1> QED
  BY <1>1, UpdSafe, PTL

\* For any number of calls, async_install delivers one build at a time, unless
\* an observer took the latch away.
THEOREM OneDeliveryTheorem == UpdSpec => []OneDelivery
<1>1. UpdInv => OneDelivery
  BY DEF UpdInv
<1> QED
  BY <1>1, UpdSafe, PTL

=============================================================================
