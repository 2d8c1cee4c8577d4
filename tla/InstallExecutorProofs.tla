----------------------- MODULE InstallExecutorProofs -----------------------
(***************************************************************************)
(* Theorems about InstallExecutor, for any number of jobs and panels.      *)
(*                                                                         *)
(* The executor's state stays well formed, and everything it does to the   *)
(* receipts is a call that InstallJobs describes: what is proved about     *)
(* InstallJobs alone holds for the running system.                         *)
(* No operation on a panel is commanded twice, and nothing is left behind, *)
(* whatever fails and however often the process starts again.  A worker    *)
(* whose calls, and those of the others while it runs, neither fail nor    *)
(* are cancelled keeps its job, unless a cancel request overtakes it, its  *)
(* artifact and its panel.                                                 *)
(***************************************************************************)
EXTENDS InstallExecutor, InstallJobsProofs

\* ------------------------------------------------------------------------
\* The invariant: a worker about to ask for a transition knows which, and a
\* worker about to command the panel knows what.

Aiming == {"move", "fail", "recover", "recclean", "recget", "cleanfail", "finish"}
Operating == {"authority", "barrier", "send", "answer"}

Sound(w) ==
    /\ w.pc \in Aiming => w.goal \in Goals
    /\ w.pc \in Operating => w.op \in Ops

ExecInv ==
    /\ ExecTypeOK
    /\ UsedInv
    /\ \A t \in Tasks : task[t] # None => Sound(task[t])

\* What a step may make of task t.
Moves(t) ==
    /\ \E w : /\ task' = [task EXCEPT ![t] = w]
              /\ w = None \/ (w \in Worker /\ Sound(w))
    /\ poisoned \subseteq poisoned'
    /\ poisoned' \subseteq poisoned \cup ({t} \ {Resumer})
    /\ Excuse(Hindered)

\* A task that is anywhere is a sound worker.
LEMMA AtWorker ==
    ASSUME ExecInv, NEW t \in Tasks, task[t] # None
    PROVE  /\ task[t] \in Worker /\ Sound(task[t])
           /\ task[t].job \in JobIds /\ task[t].seen \in Receipt
  BY DEF ExecInv, ExecTypeOK, Worker

\* The receipt a read returns is a receipt.
LEMMA FreshReceipt ==
    ASSUME ExecInv, NEW t \in Tasks, task[t] # None, Fresh(t) # None
    PROVE  Fresh(t) \in Receipt
  BY AtWorker DEF Fresh, ExecInv, ExecTypeOK, TypeOK

LEMMA EndMoves ==
    ASSUME NEW t, NEW p, End(t, p)
    PROVE  Moves(t)
  BY DEF End, Moves

LEMMA GoMoves ==
    ASSUME NEW t, NEW w, w \in Worker, Sound(w), Go(t, w)
    PROVE  Moves(t)
  BY DEF Go, Moves

\* What the EXCEPTs of the actions make of a worker is a worker.
LEMMA PcWorker ==
    ASSUME NEW v \in Worker, NEW pc \in Calling \cup Places
    PROVE  [v EXCEPT !.pc = pc] \in Worker
  BY Zenon DEF Worker

LEMMA SeenWorker ==
    ASSUME NEW v \in Worker, NEW r \in Receipt
    PROVE  [v EXCEPT !.seen = r] \in Worker
  BY Zenon DEF Worker

LEMMA GoalWorker ==
    ASSUME NEW v \in Worker, NEW goal \in Goals \cup {None}
    PROVE  [v EXCEPT !.goal = goal] \in Worker
  BY Zenon DEF Worker

LEMMA OpWorker ==
    ASSUME NEW v \in Worker, NEW op \in Ops \cup {None}
    PROVE  [v EXCEPT !.op = op] \in Worker
  BY Zenon DEF Worker

LEMMA FlagWorker ==
    ASSUME NEW v \in Worker, NEW b \in BOOLEAN
    PROVE  /\ [v EXCEPT !.retried = b] \in Worker
           /\ [v EXCEPT !.local = b] \in Worker
           /\ [v EXCEPT !.staged = b] \in Worker
           /\ [v EXCEPT !.cleared = b] \in Worker
  BY Zenon DEF Worker

\* A step that leaves a worker elsewhere.
LEMMA ToMoves ==
    ASSUME NEW t, NEW v \in Worker, task[t] = v, NEW pc \in Calling \cup Places,
           pc \in Aiming => v.goal \in Goals,
           pc \in Operating => v.op \in Ops,
           To(t, pc)
    PROVE  Moves(t)
<1> DEFINE w == [v EXCEPT !.pc = pc]
<1>1. w \in Worker
  BY PcWorker
<1>2. w.pc = pc /\ w.goal = v.goal /\ w.op = v.op
  BY DEF Worker
<1>3. Go(t, w)
  BY DEF To
<1> HIDE DEF w
<1>4. Sound(w)
  BY <1>2 DEF Sound
<1>5. QED BY <1>1, <1>3, <1>4, GoMoves

\* A step that leaves a worker with a transition in mind.
LEMMA AimMoves ==
    ASSUME NEW t, NEW v \in Worker, task[t] = v, NEW pc \in Calling \cup Places,
           NEW goal \in Goals, pc \notin Operating, Aim(t, pc, goal)
    PROVE  Moves(t)
<1> DEFINE u == [v EXCEPT !.pc = pc]
           w == [v EXCEPT !.pc = pc, !.goal = goal]
<1>1. u \in Worker
  BY PcWorker
<1>2. w = [u EXCEPT !.goal = goal]
  BY DEF Worker
<1>3. w \in Worker
  <2> HIDE DEF u, w
  <2>1. QED BY <1>1, <1>2, GoalWorker
<1>4. w.pc = pc /\ w.goal = goal
  BY DEF Worker
<1>5. Go(t, w)
  BY DEF Aim
<1> HIDE DEF w
<1>6. Sound(w)
  BY <1>4 DEF Sound
<1>7. QED BY <1>3, <1>5, <1>6, GoMoves

\* A step that leaves a worker with a command in mind.
LEMMA OperateMoves ==
    ASSUME NEW t, NEW v \in Worker, task[t] = v, NEW op \in Ops, Operate(t, op)
    PROVE  Moves(t)
<1> DEFINE u == [v EXCEPT !.pc = "authority"]
           w == [v EXCEPT !.pc = "authority", !.op = op]
<1>1. u \in Worker
  BY PcWorker DEF Calling
<1>2. w = [u EXCEPT !.op = op]
  BY DEF Worker
<1>3. w \in Worker
  <2> HIDE DEF u, w
  <2>1. QED BY <1>1, <1>2, OpWorker
<1>4. w.pc = "authority" /\ w.op = op
  BY DEF Worker
<1>5. Go(t, w)
  BY DEF Operate
<1> HIDE DEF w
<1>6. Sound(w)
  BY <1>4 DEF Sound, Aiming
<1>7. QED BY <1>3, <1>5, <1>6, GoMoves

LEMMA GoalType ==
    ASSUME NEW ph \in Phases, NEW root \in RootModes \cup {None},
           NEW result \in ResultCodes \cup {None}
    PROVE  Goal(ph, root, result) \in Goals
  BY Zenon DEF Goal, Goals

LEMMA MoveMoves ==
    ASSUME NEW t, NEW ph \in Phases, NEW v \in Worker, task[t] = v, Move(t, ph)
    PROVE  Moves(t)
<1>1. Goal(ph, None, None) \in Goals
  BY GoalType
<1>2. QED BY <1>1, AimMoves DEF Move, Operating, Calling

LEMMA FailMoves ==
    ASSUME NEW t, NEW pc \in {"fail", "cleanfail"}, NEW v \in Worker, task[t] = v,
           Fail(t, pc)
    PROVE  Moves(t)
<1>1. PICK result \in FailureCodesOf(task[t].seen.phase) :
        Aim(t, pc, Goal("failed", None, result))
  BY DEF Fail
<1>2. result \in ResultCodes
  BY DEF FailureCodesOf, ResultCodes, FailureCodes
<1>3. Goal("failed", None, result) \in Goals
  BY <1>2, GoalType DEF Phases, TerminalPhases
<1>4. QED BY <1>1, <1>3, AimMoves DEF Operating, Calling, Places

LEMMA RecoverMoves ==
    ASSUME NEW t, NEW result \in RecoveryCodes, NEW v \in Worker, task[t] = v,
           Recover(t, result)
    PROVE  Moves(t)
<1>1. Goal("recovery_required", None, result) \in Goals
  BY GoalType DEF Phases, TerminalPhases, ResultCodes
<1>2. QED BY <1>1, AimMoves DEF Recover, Operating, Calling

LEMMA AtFacts ==
    ASSUME ExecInv, NEW t \in Tasks, NEW p, At(t, p)
    PROVE  /\ task[t] # None /\ task[t].pc = p
           /\ task[t] \in Worker /\ Sound(task[t])
  BY AtWorker DEF At

\* ------------------------------------------------------------------------
\* What each step makes of its task.

LEMMA LoopMoves ==
    ASSUME ExecInv, NEW t \in Tasks,
           \/ LoopEnds(t) \/ Approved(t) \/ Authorizing(t) \/ Preflight(t)
           \/ Downloaded(t) \/ ArtifactReady(t) \/ Revalidate(t)
           \/ Staging(t) \/ Installing(t) \/ Launching(t) \/ HealthCheck(t)
    PROVE  Moves(t)
<1>1. task[t] \in Worker
  BY AtFacts DEF LoopEnds, Approved, Authorizing, Preflight, Downloaded,
         ArtifactReady, Revalidate, Staging, Installing, Launching,
         HealthCheck, Looping
<1>2. CASE LoopEnds(t)
  BY <1>2, EndMoves DEF LoopEnds, Think
<1>3. CASE Approved(t) \/ Downloaded(t) \/ ArtifactReady(t)
  BY <1>1, <1>3, MoveMoves
     DEF Approved, Downloaded, ArtifactReady, Think, Phases,
         CancellablePhases
<1>4. CASE Authorizing(t)
  <2>1. Goal("failed", None, "authorization_failed") \in Goals
    BY GoalType DEF Phases, TerminalPhases, ResultCodes, FailureCodes
  <2>2. \/ Move(t, "preflight")
        \/ Aim(t, "fail", Goal("failed", None, "authorization_failed"))
    BY <1>4 DEF Authorizing, Think
  <2>3. "preflight" \in Phases /\ "fail" \in Calling \ Operating
    BY DEF Phases, CancellablePhases, Calling, Operating
  <2>4. QED BY <1>1, <2>1, <2>2, <2>3, MoveMoves, AimMoves
<1>5. CASE Preflight(t)
  <2>1. \/ \E root \in RootModes :
              Aim(t, "move", Goal("downloading", root, None))
        \/ Fail(t, "fail")
    BY <1>5 DEF Preflight, Think
  <2>2. ASSUME NEW root \in RootModes
        PROVE  Goal("downloading", root, None) \in Goals
    BY GoalType DEF Phases, CancellablePhases
  <2>3. "move" \in Calling \ Operating
    BY DEF Calling, Operating
  <2>4. QED BY <1>1, <2>1, <2>2, <2>3, AimMoves, FailMoves
<1>6. CASE Revalidate(t)
  <2>1. Move(t, "staging") \/ Fail(t, "cleanfail")
    BY <1>6 DEF Revalidate, Think
  <2>2. "staging" \in Phases
    BY DEF Phases, CancellablePhases
  <2>3. QED BY <1>1, <2>1, <2>2, MoveMoves, FailMoves
<1>7. CASE Staging(t) \/ Installing(t) \/ Launching(t)
  <2>1. \/ Operate(t, "stage") \/ Operate(t, "install") \/ Operate(t, "clean")
        \/ Recover(t, "ambiguous_mutation")
    BY <1>7 DEF Staging, Installing, Launching, Think
  <2>2. /\ {"stage", "install", "clean"} \subseteq Ops
        /\ "ambiguous_mutation" \in RecoveryCodes
    BY DEF Ops, RecoveryCodes
  <2>3. QED BY <1>1, <2>1, <2>2, OperateMoves, RecoverMoves
<1>8. CASE HealthCheck(t)
  <2>1. Move(t, "healthy_unclaimed") \/ Recover(t, "verification_required")
    BY <1>8 DEF HealthCheck, Think
  <2>2. /\ "healthy_unclaimed" \in Phases
        /\ "verification_required" \in RecoveryCodes
    BY DEF Phases, RecoverySources, RecoveryCodes
  <2>3. QED BY <1>1, <2>1, <2>2, MoveMoves, RecoverMoves
<1>9. QED BY <1>2, <1>3, <1>4, <1>5, <1>6, <1>7, <1>8

LEMMA CustodyMoves ==
    ASSUME ExecInv, NEW t \in Tasks,
           Acquire(t) \/ Fetch(t) \/ Unpart(t) \/ Installed(t)
    PROVE  Moves(t)
<1>1. /\ task[t] \in Worker /\ task[t].pc \in Calling \cup Places
      /\ \A q \in {"loop", "fetch", "unpart"} : q \in Places
      /\ \A q \in {"loop", "fetch", "unpart"} : q \notin Aiming \cup Operating
  BY AtFacts DEF Acquire, Fetch, Unpart, Installed, Looping, Worker, Places,
         Aiming, Operating
<1>2. ASSUME Go(t, [task[t] EXCEPT !.local = TRUE]), task[t].pc = "loop"
      PROVE  Moves(t)
  <2>1. [task[t] EXCEPT !.local = TRUE] \in Worker
    BY <1>1, FlagWorker
  <2>2. [task[t] EXCEPT !.local = TRUE].pc = "loop"
    BY <1>1, <1>2 DEF Worker
  <2>3. QED BY <1>1, <1>2, <2>1, <2>2, GoMoves DEF Sound
<1>3. CASE Acquire(t)
  <2>1. task[t].pc = "loop"
    BY <1>3 DEF Acquire, Looping, At
  <2>2. \/ Go(t, [task[t] EXCEPT !.local = TRUE])
        \/ Fail(t, "cleanfail")
        \/ End(t, TRUE)
        \/ To(t, "unpart") \/ To(t, "fetch")
    BY <1>3 DEF Acquire, Think
  <2>3. QED BY <1>1, <1>2, <2>1, <2>2, FailMoves, EndMoves, ToMoves
<1>4. CASE Fetch(t)
  <2>1. \/ Go(t, [task[t] EXCEPT !.pc = "loop", !.local = TRUE])
        \/ Fail(t, "cleanfail")
    BY <1>4 DEF Fetch
  <2>2. [task[t] EXCEPT !.pc = "loop"] \in Worker
    BY <1>1, PcWorker
  <2>3. [[task[t] EXCEPT !.pc = "loop"] EXCEPT !.local = TRUE] \in Worker
    BY <2>2, FlagWorker
  <2>4. /\ [[task[t] EXCEPT !.pc = "loop"] EXCEPT !.local = TRUE]
              = [task[t] EXCEPT !.pc = "loop", !.local = TRUE]
        /\ [task[t] EXCEPT !.pc = "loop", !.local = TRUE].pc = "loop"
    BY <1>1 DEF Worker
  <2>5. QED BY <1>1, <2>1, <2>3, <2>4, FailMoves, GoMoves DEF Sound
<1>5. CASE Unpart(t)
  <2>1. \/ Go(t, [task[t] EXCEPT !.pc = "loop", !.cleared = TRUE])
        \/ End(t, FALSE)
    BY <1>5 DEF Unpart, CleanLocal
  <2>2. [task[t] EXCEPT !.pc = "loop"] \in Worker
    BY <1>1, PcWorker
  <2>3. [[task[t] EXCEPT !.pc = "loop"] EXCEPT !.cleared = TRUE] \in Worker
    BY <2>2, FlagWorker
  <2>4. /\ [[task[t] EXCEPT !.pc = "loop"] EXCEPT !.cleared = TRUE]
              = [task[t] EXCEPT !.pc = "loop", !.cleared = TRUE]
        /\ [task[t] EXCEPT !.pc = "loop", !.cleared = TRUE].pc = "loop"
    BY <1>1 DEF Worker
  <2>5. QED BY <1>1, <2>1, <2>3, <2>4, EndMoves, GoMoves DEF Sound
<1>6. CASE Installed(t)
  <2> DEFINE goal == Goal("launching", None, None)
             v == [task[t] EXCEPT !.staged = TRUE]
             w == [v EXCEPT !.pc = "move", !.goal = goal]
  <2>1. Go(t, w) \/ Recover(t, "verification_required")
    BY <1>6 DEF Installed, CleanLocal
  <2>2. v \in Worker
    BY <1>1, FlagWorker
  <2>3. goal \in Goals
    BY GoalType DEF Phases, RecoverySources, AmbiguousPhases
  <2> HIDE DEF v, goal
  <2>4. [v EXCEPT !.pc = "move"] \in Worker
    BY <2>2, PcWorker DEF Calling
  <2>5. [[v EXCEPT !.pc = "move"] EXCEPT !.goal = goal] \in Worker
    BY <2>3, <2>4, GoalWorker
  <2>6. /\ [[v EXCEPT !.pc = "move"] EXCEPT !.goal = goal] = w
        /\ w.pc = "move" /\ w.goal = goal
    BY <2>2 DEF Worker
  <2>7. Sound(w)
    BY <2>3, <2>6 DEF Sound, Operating
  <2>8. w \in Worker
    BY <2>5, <2>6
  <2> HIDE DEF w
  <2>9. "verification_required" \in RecoveryCodes
    BY DEF RecoveryCodes
  <2>10. QED BY <1>1, <2>1, <2>7, <2>8, <2>9, GoMoves, RecoverMoves
<1>7. QED BY <1>3, <1>4, <1>5, <1>6

\* A step that leaves a worker elsewhere with a newer receipt.
LEMMA SeeMoves ==
    ASSUME NEW t, NEW v \in Worker, task[t] = v, NEW r \in Receipt,
           NEW pc \in Calling \cup Places,
           pc \in Aiming => v.goal \in Goals,
           pc \in Operating => v.op \in Ops,
           Go(t, [task[t] EXCEPT !.pc = pc, !.seen = r])
    PROVE  Moves(t)
<1> DEFINE u == [v EXCEPT !.pc = pc]
           w == [v EXCEPT !.pc = pc, !.seen = r]
<1>1. u \in Worker
  BY PcWorker
<1>2. w = [u EXCEPT !.seen = r] /\ w.pc = pc /\ w.goal = v.goal /\ w.op = v.op
  BY DEF Worker
<1>3. w \in Worker
  <2> HIDE DEF u, w
  <2>1. QED BY <1>1, <1>2, SeenWorker
<1> HIDE DEF w
<1>4. Sound(w)
  BY <1>2 DEF Sound
<1>5. QED BY <1>3, <1>4, GoMoves DEF w

\* A step that takes a worker back to its loop with a newer receipt and
\* nothing in mind.
LEMMA LoopedMoves ==
    ASSUME NEW t, NEW v \in Worker, task[t] = v, NEW r \in Receipt,
           Go(t, [task[t] EXCEPT !.pc = "loop", !.seen = r, !.op = None])
           \/ Go(t, [task[t] EXCEPT !.pc = "loop", !.seen = r, !.goal = None,
                                    !.op = None])
    PROVE  Moves(t)
<1> DEFINE u == [[v EXCEPT !.pc = "loop"] EXCEPT !.seen = r]
           w == [u EXCEPT !.op = None]
           x == [w EXCEPT !.goal = None]
<1>1. "loop" \in Places /\ "loop" \notin Aiming \cup Operating
  BY DEF Places, Aiming, Operating
<1>2. [v EXCEPT !.pc = "loop"] \in Worker
  BY <1>1, PcWorker
<1>3. u \in Worker
  BY <1>2, SeenWorker
<1>4. /\ w = [v EXCEPT !.pc = "loop", !.seen = r, !.op = None]
      /\ x = [v EXCEPT !.pc = "loop", !.seen = r, !.goal = None, !.op = None]
      /\ w.pc = "loop" /\ x.pc = "loop"
  BY DEF Worker
<1>5. w \in Worker
  <2> HIDE DEF u
  <2>1. QED BY <1>3, OpWorker
<1>6. x \in Worker
  <2> HIDE DEF w
  <2>1. QED BY <1>5, GoalWorker
<1>7. Go(t, w) \/ Go(t, x)
  BY <1>4
<1> HIDE DEF w, x
<1>8. Sound(w) /\ Sound(x)
  BY <1>1, <1>4 DEF Sound
<1>9. QED BY <1>5, <1>6, <1>7, <1>8, GoMoves

\* Only a running task takes a step, and none forgets what it gave up.
LEMMA TaskThere ==
    ASSUME NEW t \in Tasks, TaskStep(t)
    PROVE  task[t] # None
  BY DEF TaskStep, Claims, Works, CallFails, At, Looping,
         Begin, AskFirst, Reget, Reclean, Confirm,
         LoopEnds, Approved, Authorizing, Preflight, Acquire, Fetch, Unpart,
         Downloaded, ArtifactReady, Revalidate, Staging, Installing, Installed,
         Launching, HealthCheck, CancelSeen, DropLocal, Authority, Barrier,
         Send, Answer, DropRefused, CleanFail, DoMove, Recheck, DoFail,
         DoRecover, RecClean, RecGet, Finish

\* ------------------------------------------------------------------------
\* Every call of the executor is a call of InstallJobs.

LEMMA PlainCalls ==
    ASSUME Refresh(Ha) \/ Fault(Ha) \/ Restart(Ha)
           \/ \E j \in JobIds, p \in Plans : Create(Ha, j, p)
    PROVE  Next
  BY ExecutorAssumption DEF Next

LEMMA CancelCalls ==
    ASSUME TypeOK, NEW j \in JobIds, NEW rev \in 0 .. MaxRevision,
           RequestCancel(Ha, j, rev)
    PROVE  Next
  BY ExecutorAssumption DEF Next, JobCall, RequestCancel

LEMMA CurrentRevision ==
    ASSUME TypeOK, NEW j \in JobIds, NEW rev, Current(disk, j, rev),
           rev < MaxRevision
    PROVE  rev \in 0 .. MaxRevision
<1>1. disk[j] \in Receipt
  BY DEF TypeOK, Current
<1>2. rev \in Nat
  BY <1>1 DEF Receipt, Current
<1>3. QED BY <1>2, LimitsAssumption

LEMMA ClaimCalls ==
    ASSUME TypeOK, NEW j \in JobIds, NEW rev, NEW cleaned \in BOOLEAN,
           Claim(Ha, j, rev, cleaned)
    PROVE  Next
<1>1. rev \in 0 .. MaxRevision /\ Current(disk, j, rev)
  BY CurrentRevision DEF Claim
<1>2. JobCall(Ha, j)
  BY <1>1 DEF JobCall
<1>3. QED BY <1>2, ExecutorAssumption DEF Next

LEMMA TransitionCalls ==
    ASSUME TypeOK, NEW j \in JobIds, NEW rev, NEW goal \in Goals,
           NEW entry \in EntryIds \cup {None},
           Transition(Ha, j, rev, goal.phase, goal.root, goal.result, entry)
    PROVE  Next
<1>1. rev \in 0 .. MaxRevision /\ Current(disk, j, rev)
  BY CurrentRevision DEF Transition
<1>2. /\ goal.phase \in Phases /\ goal.root \in RootModes \cup {None}
      /\ goal.result \in ResultCodes \cup {None}
  BY DEF Goals
<1>3. NextPhase(disk[j].phase, goal.phase)
  BY DEF Transition, Admitted
<1>4. JobCall(Ha, j)
  BY <1>1, <1>2, <1>3 DEF JobCall
<1>5. QED BY <1>4, ExecutorAssumption DEF Next

LEMMA BarrierCalls ==
    ASSUME TypeOK, NEW j \in JobIds, NEW rev, NEW ph, NEW cancel \in BOOLEAN,
           VerifyBarrier(Ha, j, rev, ph, cancel)
    PROVE  Next
<1>1. /\ Memory(Ha)[j] # None /\ Memory(Ha)[j].revision = rev
      /\ ph \in AmbiguousPhases
  BY DEF VerifyBarrier, Current
<1>2. BarrierCall(Ha, j)
  BY <1>1 DEF BarrierCall
<1>3. QED BY <1>2, ExecutorAssumption DEF Next

\* The steps of a worker that call no manager.
Quiet(t) ==
    \/ LoopEnds(t) \/ Approved(t) \/ Authorizing(t) \/ Preflight(t)
    \/ Acquire(t) \/ Fetch(t) \/ Unpart(t) \/ Downloaded(t)
    \/ ArtifactReady(t) \/ Revalidate(t)
    \/ Staging(t) \/ Installing(t) \/ Installed(t) \/ Launching(t)
    \/ HealthCheck(t) \/ CancelSeen(t) \/ DropLocal(t)
    \/ Send(t) \/ Answer(t) \/ DropRefused(t) \/ CleanFail(t)
    \/ RecClean(t) \/ Reclean(t)

LEMMA QuietSteps ==
    ASSUME NEW t \in Tasks, Quiet(t)
    PROVE  UNCHANGED <<vars, up>>
<1>1. CASE \/ LoopEnds(t) \/ Approved(t) \/ Authorizing(t) \/ Preflight(t)
           \/ Downloaded(t) \/ ArtifactReady(t) \/ Revalidate(t)
           \/ Staging(t) \/ Installing(t) \/ Launching(t)
           \/ HealthCheck(t) \/ CancelSeen(t) \/ Answer(t)
  BY <1>1
     DEF Think, LoopEnds, Approved, Authorizing, Preflight, Downloaded,
         ArtifactReady, Revalidate, Staging, Installing, Launching,
         HealthCheck, CancelSeen, Answer
<1>2. CASE \/ Acquire(t) \/ Fetch(t) \/ Send(t)
  BY <1>2 DEF Think, Acquire, Fetch, Send
<1>3. CASE \/ Unpart(t) \/ Installed(t) \/ DropLocal(t) \/ DropRefused(t)
           \/ CleanFail(t) \/ RecClean(t) \/ Reclean(t)
  BY <1>3
     DEF Think, CleanLocal, Unpart, Installed, DropLocal, DropRefused,
         CleanFail, RecClean, Reclean
<1>4. QED BY <1>1, <1>2, <1>3 DEF Quiet

\* What a step of a task asks of its manager.
TaskCall(t) ==
    LET w == task[t] IN
    \/ Refresh(Ha) \/ Fault(Ha)
    \/ At(t, "barrier")
       /\ VerifyBarrier(Ha, w.job, w.seen.revision, w.seen.phase,
                        w.op = "clean" /\ w.seen.phase = "staging")
    \/ At(t, "claim") /\ Claim(Ha, w.job, w.seen.revision, FALSE)
    \/ At(t, "confirm") /\ Claim(Ha, w.job, w.seen.revision, TRUE)
    \/ At(t, "move") /\ Transition(Ha, w.job, w.seen.revision, w.goal.phase,
                                   w.goal.root, w.goal.result, None)
    \/ At(t, "finish") /\ Transition(Ha, w.job, w.seen.revision, w.goal.phase,
                                     w.goal.root, w.goal.result, None)

LEMMA TaskKinds ==
    ASSUME NEW t \in Tasks, TaskStep(t)
    PROVE  TaskCall(t) \/ (Quiet(t) /\ UNCHANGED vars)
           \/ (Authority(t) /\ UNCHANGED vars)
<1>1. CASE Quiet(t)
  BY <1>1, QuietSteps
<1>2. CASE CallFails(t)
  BY <1>2 DEF CallFails, TaskCall
<1>3. CASE \/ Begin(t) \/ Reget(t) \/ Recheck(t) \/ DoFail(t) \/ DoRecover(t)
           \/ RecGet(t)
  BY <1>3
     DEF Begin, Reget, Recheck, DoFail, DoRecover, RecGet, Get, Await, TaskCall
<1>4. CASE Authority(t)
  BY <1>4 DEF Authority, Get, Await, Think, TaskCall
<1>5. CASE AskFirst(t) \/ Confirm(t)
  BY <1>5 DEF AskFirst, Confirm, AskClaim, Await, TaskCall
<1>6. CASE Barrier(t)
  BY <1>6 DEF Barrier, Await, TaskCall
<1>7. CASE DoMove(t) \/ Finish(t)
  BY <1>7 DEF DoMove, Finish, AskTransition, Await, TaskCall
<1>8. QED
  BY <1>1, <1>2, <1>3, <1>4, <1>5, <1>6, <1>7
     DEF TaskStep, Claims, Works, Quiet

\* A step of a task is a call of its manager, or no call.
LEMMA TaskCalls ==
    ASSUME ExecInv, NEW t \in Tasks, TaskStep(t)
    PROVE  Next \/ UNCHANGED vars
<1>1. TypeOK
  BY DEF ExecInv, ExecTypeOK
<1>2. CASE Refresh(Ha) \/ Fault(Ha)
  BY <1>2, PlainCalls
<1>3. CASE At(t, "barrier") /\ TaskCall(t) /\ ~(Refresh(Ha) \/ Fault(Ha))
  <2>1. task[t] # None /\ task[t].job \in JobIds /\ task[t].pc = "barrier"
    BY <1>3, AtWorker DEF At
  <2> DEFINE cancel == task[t].op = "clean" /\ task[t].seen.phase = "staging"
  <2>2. cancel \in BOOLEAN
    OBVIOUS
  <2>3. VerifyBarrier(Ha, task[t].job, task[t].seen.revision,
                      task[t].seen.phase, cancel)
    BY <1>3, <2>1 DEF TaskCall, At
  <2> HIDE DEF cancel
  <2>4. QED BY <1>1, <2>1, <2>2, <2>3, BarrierCalls
<1>4. ASSUME NEW cleaned \in BOOLEAN, task[t] # None,
             Claim(Ha, task[t].job, task[t].seen.revision, cleaned)
      PROVE  Next
  BY <1>1, <1>4, AtWorker, ClaimCalls
<1>5. CASE /\ At(t, "move") \/ At(t, "finish")
           /\ Transition(Ha, task[t].job, task[t].seen.revision,
                         task[t].goal.phase, task[t].goal.root,
                         task[t].goal.result, None)
  <2>1. task[t] # None /\ task[t].job \in JobIds /\ task[t].goal \in Goals
    BY <1>5, AtWorker DEF At, Sound, Aiming
  <2>2. QED BY <1>1, <1>5, <2>1, TransitionCalls
<1>6. QED
  BY <1>2, <1>3, <1>4, <1>5, TaskKinds DEF TaskCall, At

LEMMA SurroundingCalls ==
    ASSUME ExecInv, Surroundings
    PROVE  Next \/ UNCHANGED vars
<1>1. TypeOK
  BY DEF ExecInv, ExecTypeOK
<1>2. CASE FlowFails \/ Boot \/ Crash
  BY <1>2, PlainCalls DEF FlowFails, Outside, Boot, Crash
<1>3. ASSUME NEW j \in JobIds, NEW p \in Plans, FlowCreates(j, p)
      PROVE  Next
  BY <1>3, PlainCalls DEF FlowCreates, Outside
<1>4. ASSUME NEW j \in JobIds, NEW rev \in 0 .. MaxRevision, FlowCancels(j, rev)
      PROVE  Next
  BY <1>1, <1>4, CancelCalls DEF FlowCancels, Outside
<1>5. ASSUME NEW j \in JobIds, NEW rev \in 0 .. MaxRevision,
             FlowFinalizes(j, rev)
      PROVE  Next
  <2>1. PICK goal \in Goals, entry \in EntryIds \cup {None} :
          Transition(Ha, j, rev, goal.phase, goal.root, goal.result, entry)
    <3>1. /\ Goal("consumed", None, "entry_created") \in Goals
          /\ Goal("recovery_required", None, "verification_required") \in Goals
      BY GoalType DEF Phases, TerminalPhases, ResultCodes, RecoveryCodes
    <3>2. QED BY <1>5, <3>1 DEF FlowFinalizes, Outside, Goal
  <2>2. QED BY <1>1, <2>1, TransitionCalls
<1>6. ASSUME NEW j \in JobIds, Ensure(j) \/ Resume(j) \/ PanelActs(j)
      PROVE  Next \/ UNCHANGED vars
  BY <1>6, PlainCalls DEF Ensure, Resume, PanelActs
<1>7. QED BY <1>2, <1>3, <1>4, <1>5, <1>6 DEF Surroundings

\* ------------------------------------------------------------------------
\* What the steps that call the manager or the panel make of their task.

LEMMA ClaimedMoves ==
    ASSUME NEW t, task[t] \in Worker, NEW r \in Receipt, Claimed(t, r)
    PROVE  Moves(t)
<1> DEFINE v == task[t]
           u == [[v EXCEPT !.pc = "loop"] EXCEPT !.seen = r]
           w == [u EXCEPT !.retried = FALSE]
<1>1. CASE End(t, FALSE)
  BY <1>1, EndMoves
<1>2. CASE Go(t, [v EXCEPT !.pc = "loop", !.seen = r, !.retried = FALSE])
  <2> HIDE DEF v
  <2>1. v \in Worker
    BY DEF v
  <2>2. "loop" \in Places /\ "loop" \notin Aiming \cup Operating
    BY DEF Places, Aiming, Operating
  <2>3. [v EXCEPT !.pc = "loop"] \in Worker
    BY <2>1, <2>2, PcWorker
  <2>4. u \in Worker
    BY <2>3, SeenWorker
  <2>5. /\ w = [v EXCEPT !.pc = "loop", !.seen = r, !.retried = FALSE]
        /\ w.pc = "loop"
    BY <2>1 DEF Worker
  <2>6. w \in Worker
    <3> HIDE DEF u
    <3>1. QED BY <2>4, FlagWorker
  <2> HIDE DEF w
  <2>7. QED BY <1>2, <2>2, <2>5, <2>6, GoMoves DEF Sound
<1>3. QED BY <1>1, <1>2 DEF Claimed

LEMMA ClaimLostMoves ==
    ASSUME NEW t, task[t] \in Worker, ClaimLost(t)
    PROVE  Moves(t)
<1> DEFINE v == task[t]
           w == [[v EXCEPT !.pc = "begin"] EXCEPT !.retried = TRUE]
<1>1. CASE End(t, TRUE)
  BY <1>1, EndMoves
<1>2. CASE Go(t, [v EXCEPT !.pc = "begin", !.retried = TRUE])
  <2> HIDE DEF v
  <2>1. v \in Worker
    BY DEF v
  <2>2. "begin" \in Calling /\ "begin" \notin Aiming \cup Operating
    BY DEF Calling, Aiming, Operating
  <2>3. [v EXCEPT !.pc = "begin"] \in Worker
    BY <2>1, <2>2, PcWorker
  <2>4. w = [v EXCEPT !.pc = "begin", !.retried = TRUE] /\ w.pc = "begin"
    BY <2>1 DEF Worker
  <2>5. w \in Worker
    BY <2>3, FlagWorker
  <2> HIDE DEF w
  <2>6. QED BY <1>2, <2>2, <2>4, <2>5, GoMoves DEF Sound
<1>3. QED BY <1>1, <1>2 DEF ClaimLost

LEMMA AskClaimMoves ==
    ASSUME ExecInv, TypeOK', NEW t \in Tasks, NEW cleaned \in BOOLEAN,
           task[t] # None, AskClaim(t, cleaned)
    PROVE  Moves(t)
<1>1. task[t] \in Worker /\ task[t].job \in JobIds
  BY AtWorker
<1>2. /\ disk[task[t].job] # None => disk[task[t].job] \in Receipt
      /\ disk'[task[t].job] # None => disk'[task[t].job] \in Receipt
  BY <1>1 DEF ExecInv, ExecTypeOK, TypeOK
<1>3. \/ End(t, TRUE) \/ ClaimLost(t) \/ To(t, "reget")
      \/ disk[task[t].job] # None /\ Claimed(t, disk[task[t].job])
      \/ disk'[task[t].job] # None /\ Claimed(t, disk'[task[t].job])
  BY DEF AskClaim, Await, Current
<1>4. "reget" \in Calling /\ "reget" \notin Aiming \cup Operating
  BY DEF Calling, Aiming, Operating
<1>5. QED
  BY <1>1, <1>2, <1>3, <1>4, EndMoves, ClaimLostMoves, ToMoves, ClaimedMoves

LEMMA ClaimMoves ==
    ASSUME ExecInv, TypeOK', NEW t \in Tasks, Claims(t)
    PROVE  Moves(t)
<1>1. /\ task[t] # None /\ task[t] \in Worker
      /\ Fresh(t) # None => Fresh(t) \in Receipt
  BY AtFacts, FreshReceipt
     DEF Claims, Begin, AskFirst, Reget, Reclean, Confirm
<1>2. /\ {"claim", "confirm"} \subseteq Calling /\ "reclean" \in Places
      /\ \A q \in {"claim", "confirm", "reclean"} : q \notin Aiming \cup Operating
  BY DEF Calling, Places, Aiming, Operating
<1>3. CASE Begin(t) \/ Reget(t)
  <2>1. \/ End(t, TRUE) \/ End(t, FALSE)
        \/ /\ Fresh(t) # None
           /\ \/ Go(t, [task[t] EXCEPT !.pc = "claim", !.seen = Fresh(t)])
              \/ Go(t, [task[t] EXCEPT !.pc = "reclean", !.seen = Fresh(t)])
    BY <1>3 DEF Begin, Reget, Get, Await
  <2>2. QED BY <1>1, <1>2, <2>1, EndMoves, SeeMoves
<1>4. CASE AskFirst(t) \/ Confirm(t)
  BY <1>1, <1>4, AskClaimMoves DEF AskFirst, Confirm
<1>5. CASE Reclean(t)
  <2>1. To(t, "confirm") \/ End(t, TRUE)
    BY <1>5 DEF Reclean, CleanLocal
  <2>2. QED BY <1>1, <1>2, <2>1, EndMoves, ToMoves
<1>6. QED BY <1>3, <1>4, <1>5 DEF Claims

LEMMA CancelMoves ==
    ASSUME ExecInv, NEW t \in Tasks, CancelSeen(t) \/ DropLocal(t)
    PROVE  Moves(t)
<1>1. task[t] \in Worker
  BY AtFacts DEF CancelSeen, DropLocal
<1>2. \/ Operate(t, "clean") \/ To(t, "droplocal")
      \/ Aim(t, "move", CancelGoal(t))
      \/ Recover(t, "verification_required") \/ End(t, FALSE)
  BY DEF CancelSeen, DropLocal, Think, CleanLocal
<1>3. CancelGoal(t) \in Goals
  BY GoalType DEF CancelGoal, Phases, TerminalPhases, ResultCodes, CancelCodes
<1>4. /\ "clean" \in Ops /\ "verification_required" \in RecoveryCodes
      /\ "move" \in Calling \ Operating
      /\ "droplocal" \in Places /\ "droplocal" \notin Aiming \cup Operating
  BY DEF Ops, RecoveryCodes, Calling, Places, Aiming, Operating
<1>5. QED
  BY <1>1, <1>2, <1>3, <1>4, OperateMoves, ToMoves, AimMoves, RecoverMoves,
     EndMoves

LEMMA RefusedMoves ==
    ASSUME NEW t, task[t] \in Worker, Refused(t)
    PROVE  Moves(t)
<1>1. \/ Fail(t, "cleanfail")
      \/ Aim(t, "fail", Goal("failed", None, "launch_failed"))
      \/ Recover(t, "verification_required")
  BY DEF Refused
<1>2. Goal("failed", None, "launch_failed") \in Goals
  BY GoalType DEF Phases, TerminalPhases, ResultCodes, FailureCodes
<1>3. /\ "verification_required" \in RecoveryCodes
      /\ "fail" \in Calling \ Operating
  BY DEF RecoveryCodes, Calling, Operating
<1>4. QED BY <1>1, <1>2, <1>3, FailMoves, AimMoves, RecoverMoves

LEMMA AuthorityMoves ==
    ASSUME ExecInv, NEW t \in Tasks,
           Authority(t) \/ Barrier(t) \/ Send(t)
    PROVE  Moves(t)
<1>1. /\ task[t] # None /\ task[t] \in Worker
      /\ Fresh(t) # None => Fresh(t) \in Receipt
      /\ task[t].op \in Ops
  BY AtFacts, FreshReceipt DEF Authority, Barrier, Send, Sound, Operating
<1>2. /\ "barrier" \in Calling /\ {"send", "answer"} \subseteq Places
      /\ \A q \in {"barrier", "send", "answer"} : q \notin Aiming
      /\ "ambiguous_mutation" \in RecoveryCodes
  BY DEF Calling, Places, Aiming, RecoveryCodes
<1>3. CASE Authority(t)
  <2>1. \/ Refused(t) \/ End(t, TRUE)
        \/ /\ Fresh(t) # None
           /\ \/ Go(t, [task[t] EXCEPT !.pc = "barrier", !.seen = Fresh(t)])
              \/ Go(t, [task[t] EXCEPT !.pc = "loop", !.seen = Fresh(t),
                                      !.op = None])
    BY <1>3 DEF Authority, Get, Await, Think
  <2>2. QED
    BY <1>1, <1>2, <2>1, RefusedMoves, EndMoves, SeeMoves, LoopedMoves
<1>4. CASE Barrier(t)
  <2>1. To(t, "send") \/ End(t, TRUE)
    BY <1>4 DEF Barrier, Await
  <2>2. QED BY <1>1, <1>2, <2>1, EndMoves, ToMoves
<1>5. CASE Send(t)
  <2>1. Refused(t) \/ Recover(t, "ambiguous_mutation") \/ To(t, "answer")
    BY <1>5 DEF Send, Think
  <2>2. QED BY <1>1, <1>2, <2>1, RefusedMoves, RecoverMoves, ToMoves
<1>6. QED BY <1>3, <1>4, <1>5

LEMMA AnswerMoves ==
    ASSUME ExecInv, NEW t \in Tasks,
           Answer(t) \/ DropRefused(t) \/ CleanFail(t) \/ RecClean(t)
    PROVE  Moves(t)
<1>1. task[t] # None /\ task[t] \in Worker
  BY AtFacts DEF Answer, DropRefused, CleanFail, RecClean
<1>2. /\ {"fail", "recget", "move"} \subseteq Calling \ Operating
      /\ {"droplocal", "droprefused"} \subseteq Places
      /\ \A q \in {"droplocal", "droprefused"} : q \notin Aiming \cup Operating
      /\ {"verification_required", "ambiguous_mutation"} \subseteq RecoveryCodes
      /\ {"clean", "launch"} \subseteq Ops
      /\ {"installed", "health_check"} \subseteq Phases
  BY DEF Calling, Places, Aiming, Operating, RecoveryCodes, Ops, Phases,
         RecoverySources
<1>3. /\ Goal("failed", None, "launch_failed") \in Goals
      /\ Goal("failed", None, "install_failed") \in Goals
      /\ Goal("installing", None, None) \in Goals
  BY GoalType DEF Phases, TerminalPhases, RecoverySources, AmbiguousPhases,
                  ResultCodes, FailureCodes
<1>4. CASE Answer(t)
  <2> DEFINE goal == Goal("installing", None, None)
             staged == [task[t] EXCEPT !.pc = "move", !.staged = TRUE,
                                       !.op = None, !.goal = goal]
  <2>1. \/ Go(t, staged)
        \/ Move(t, "installed") \/ Move(t, "health_check")
        \/ To(t, "droplocal") \/ To(t, "droprefused")
        \/ Operate(t, "launch") \/ Operate(t, "clean")
        \/ Aim(t, "fail", Goal("failed", None, "launch_failed"))
        \/ Recover(t, "ambiguous_mutation")
    BY <1>4 DEF Answer, Think, Succeeded, Unknown
  <2>2. CASE Go(t, staged)
    <3> DEFINE v == task[t]
               a == [v EXCEPT !.pc = "move"]
               b == [a EXCEPT !.staged = TRUE]
               c == [b EXCEPT !.op = None]
               d == [c EXCEPT !.goal = goal]
    <3>1. a \in Worker
      <4> HIDE DEF v
      <4>1. v \in Worker
        BY <1>1 DEF v
      <4>2. QED BY <1>2, <4>1, PcWorker
    <3>2. b \in Worker
      <4> HIDE DEF a
      <4>1. QED BY <3>1, FlagWorker
    <3>3. c \in Worker
      <4> HIDE DEF b
      <4>1. QED BY <3>2, OpWorker
    <3>4. d \in Worker
      <4> HIDE DEF c, goal
      <4>1. goal \in Goals
        BY <1>3 DEF goal
      <4>2. QED BY <3>3, <4>1, GoalWorker
    <3>5. d = staged /\ d.pc = "move" /\ d.goal = goal
      <4> HIDE DEF goal
      <4>1. QED BY <1>1 DEF Worker
    <3> HIDE DEF d, staged
    <3>6. Sound(d)
      BY <1>2, <1>3, <3>5 DEF Sound
    <3>7. QED BY <2>2, <3>4, <3>5, <3>6, GoMoves
  <2> HIDE DEF staged
  <2>3. QED
    BY <1>1, <1>2, <1>3, <2>1, <2>2, MoveMoves, ToMoves, OperateMoves,
       AimMoves, RecoverMoves
<1>5. CASE DropRefused(t)
  <2>1. \/ Aim(t, "fail", Goal("failed", None, "install_failed"))
        \/ Recover(t, "verification_required")
    BY <1>5 DEF DropRefused, CleanLocal
  <2>2. QED BY <1>1, <1>2, <1>3, <2>1, AimMoves, RecoverMoves
<1>6. CASE CleanFail(t) \/ RecClean(t)
  <2>1. task[t].goal \in Goals
    BY <1>6, AtFacts DEF CleanFail, RecClean, Sound, Aiming
  <2>2. \/ To(t, "fail") \/ To(t, "recget")
        \/ Recover(t, "verification_required")
        \/ End(t, FALSE) \/ End(t, TRUE)
    BY <1>6 DEF CleanFail, RecClean, CleanLocal
  <2>3. QED
    BY <1>1, <1>2, <2>1, <2>2, ToMoves, RecoverMoves, EndMoves
<1>7. QED BY <1>4, <1>5, <1>6

LEMMA AskTransitionMoves ==
    ASSUME ExecInv, TypeOK', NEW t \in Tasks, task[t] # None,
           \/ AskTransition(t, To(t, "recheck"))
           \/ AskTransition(t, End(t, TRUE))
    PROVE  Moves(t)
<1>1. task[t] \in Worker /\ task[t].job \in JobIds
  BY AtWorker
<1>2. disk'[task[t].job] # None => disk'[task[t].job] \in Receipt
  BY <1>1 DEF TypeOK
<1>3. \/ End(t, TRUE) \/ To(t, "recheck")
      \/ /\ disk'[task[t].job] # None
         /\ Go(t, [task[t] EXCEPT !.pc = "loop", !.seen = disk'[task[t].job],
                                  !.goal = None, !.op = None])
  BY DEF AskTransition, Await
<1>4. "recheck" \in Calling /\ "recheck" \notin Aiming \cup Operating
  BY DEF Calling, Aiming, Operating
<1>5. QED BY <1>1, <1>2, <1>3, <1>4, EndMoves, ToMoves, LoopedMoves

LEMMA TransitionMoves ==
    ASSUME ExecInv, TypeOK', NEW t \in Tasks,
           \/ DoMove(t) \/ Recheck(t) \/ DoFail(t) \/ DoRecover(t) \/ RecGet(t)
           \/ Finish(t)
    PROVE  Moves(t)
<1>1. /\ task[t] # None /\ task[t] \in Worker
      /\ Fresh(t) # None => Fresh(t) \in Receipt
  BY AtFacts, FreshReceipt
     DEF DoMove, Recheck, DoFail, DoRecover, RecGet, Finish
<1>2. CASE DoMove(t) \/ Finish(t)
  BY <1>1, <1>2, AskTransitionMoves DEF DoMove, Finish
<1>3. CASE Recheck(t)
  <2>1. \/ End(t, TRUE)
        \/ /\ Fresh(t) # None
           /\ Go(t, [task[t] EXCEPT !.pc = "loop", !.seen = Fresh(t),
                                    !.goal = None, !.op = None])
    BY <1>3 DEF Recheck, Get, Await
  <2>2. QED BY <1>1, <2>1, EndMoves, LoopedMoves
<1>4. CASE DoFail(t) \/ DoRecover(t) \/ RecGet(t)
  <2>1. task[t].goal \in Goals
    BY <1>4, AtFacts DEF DoFail, DoRecover, RecGet, Sound, Aiming
  <2>2. \/ End(t, TRUE)
        \/ /\ Fresh(t) # None
           /\ \E pc \in {"loop", "finish", "recclean"} :
                 Go(t, [task[t] EXCEPT !.pc = pc, !.seen = Fresh(t)])
    <3>1. ASSUME NEW pc \in {"finish", "recclean"}, Unfinished(t, pc)
          PROVE  \E q \in {"loop", "finish", "recclean"} :
                     Go(t, [task[t] EXCEPT !.pc = q, !.seen = Fresh(t)])
      <4>1. CASE Terminal(Fresh(t))
        <5>1. Go(t, [task[t] EXCEPT !.pc = "loop", !.seen = Fresh(t)])
          BY <3>1, <4>1, <1>1 DEF Unfinished, Worker
        <5>2. QED BY <5>1
      <4>2. CASE ~Terminal(Fresh(t))
        <5>1. Go(t, [task[t] EXCEPT !.pc = pc, !.seen = Fresh(t)])
          BY <3>1, <4>2, <1>1 DEF Unfinished, Worker
        <5>2. QED BY <5>1
      <4>3. QED BY <4>1, <4>2
    <3>2. QED BY <1>4, <3>1 DEF DoFail, DoRecover, RecGet, Get, Await
  <2>3. /\ {"loop", "finish", "recclean"} \subseteq Calling \cup Places
        /\ \A q \in {"loop", "finish", "recclean"} : q \notin Operating
    BY DEF Calling, Places, Operating
  <2>4. QED BY <1>1, <2>1, <2>2, <2>3, EndMoves, SeeMoves
<1>5. QED BY <1>2, <1>3, <1>4

\* Every step of a task leaves a sound worker or none.
LEMMA TaskMoves ==
    ASSUME ExecInv, TypeOK', NEW t \in Tasks, TaskStep(t)
    PROVE  Moves(t)
  BY LoopMoves, CustodyMoves, ClaimMoves, CancelMoves, AuthorityMoves,
     AnswerMoves, TransitionMoves, EndMoves
     DEF TaskStep, Works, CallFails

\* ------------------------------------------------------------------------
\* Custody, panels and commands.

CustodyOK == custody \in [JobIds -> {"none", "part", "ready"}]
PanelsOK ==
    /\ panel \in [Panels -> [slot : JobIds \cup {None}, pkg : JobIds \cup {None}]]
    /\ cmd \in [JobIds -> Command \cup {None}]
    /\ asked \in [JobIds -> SUBSET Ops]

\* A task changes the custody of its own job, if any.
LEMMA TaskCustody ==
    ASSUME ExecInv, NEW t \in Tasks, TaskStep(t)
    PROVE  /\ CustodyOK' /\ up' = up
           /\ \/ custody' = custody
              \/ \E c \in {"none", "part", "ready"} :
                     custody' = [custody EXCEPT ![task[t].job] = c]
<1>1. CustodyOK
  BY DEF ExecInv, ExecTypeOK, CustodyOK
<1>2. SUFFICES
        /\ up' = up
        /\ \/ custody' = custody
           \/ \E c \in {"none", "part", "ready"} :
                  custody' = [custody EXCEPT ![task[t].job] = c]
  BY <1>1 DEF CustodyOK
<1>3. CASE \/ LoopEnds(t) \/ Approved(t) \/ Authorizing(t) \/ Preflight(t)
           \/ Downloaded(t) \/ ArtifactReady(t) \/ Revalidate(t)
           \/ Staging(t) \/ Installing(t) \/ Launching(t)
           \/ HealthCheck(t) \/ CancelSeen(t) \/ Answer(t)
  BY <1>3
     DEF Think, LoopEnds, Approved, Authorizing, Preflight, Downloaded,
         ArtifactReady, Revalidate, Staging, Installing, Launching,
         HealthCheck, CancelSeen, Answer
<1>4. CASE Acquire(t) \/ Fetch(t) \/ Send(t)
  BY <1>4 DEF Think, Acquire, Fetch, Send
<1>5. CASE \/ Unpart(t) \/ Installed(t) \/ DropLocal(t) \/ DropRefused(t)
           \/ CleanFail(t) \/ RecClean(t) \/ Reclean(t)
  BY <1>5
     DEF Think, CleanLocal, Unpart, Installed, DropLocal, DropRefused,
         CleanFail, RecClean, Reclean
<1>6. CASE \/ Begin(t) \/ Reget(t) \/ Recheck(t) \/ DoFail(t) \/ DoRecover(t)
           \/ RecGet(t) \/ Authority(t) \/ Barrier(t) \/ CallFails(t)
  BY <1>6
     DEF Begin, Reget, Recheck, DoFail, DoRecover, RecGet, Authority, Barrier,
         CallFails, Get, Await, Think
<1>7. CASE AskFirst(t) \/ Confirm(t) \/ DoMove(t) \/ Finish(t)
  BY <1>7
     DEF AskFirst, Confirm, DoMove, Finish, AskClaim, AskTransition, Await
<1>8. QED
  BY <1>3, <1>4, <1>5, <1>6, <1>7 DEF TaskStep, Claims, Works

\* Only Send touches what lies between the process and the panels.
LEMMA OnlySendCommands ==
    ASSUME NEW t \in Tasks, TaskStep(t), ~Send(t)
    PROVE  UNCHANGED world
<1>1. CASE \/ LoopEnds(t) \/ Approved(t) \/ Authorizing(t) \/ Preflight(t)
           \/ Downloaded(t) \/ ArtifactReady(t) \/ Revalidate(t)
           \/ Staging(t) \/ Installing(t) \/ Launching(t)
           \/ HealthCheck(t) \/ CancelSeen(t) \/ Answer(t)
  BY <1>1
     DEF Think, LoopEnds, Approved, Authorizing, Preflight, Downloaded,
         ArtifactReady, Revalidate, Staging, Installing, Launching,
         HealthCheck, CancelSeen, Answer
<1>2. CASE \/ Unpart(t) \/ Installed(t) \/ DropLocal(t) \/ DropRefused(t)
           \/ CleanFail(t) \/ RecClean(t) \/ Reclean(t)
           \/ Acquire(t) \/ Fetch(t)
  BY <1>2
     DEF Think, CleanLocal, Unpart, Installed, DropLocal, DropRefused,
         CleanFail, RecClean, Reclean, Acquire, Fetch
<1>3. CASE \/ Begin(t) \/ Reget(t) \/ Recheck(t) \/ DoFail(t) \/ DoRecover(t)
           \/ RecGet(t) \/ Authority(t) \/ Barrier(t) \/ CallFails(t)
  BY <1>3
     DEF Begin, Reget, Recheck, DoFail, DoRecover, RecGet, Authority, Barrier,
         CallFails, Get, Await, Think
<1>4. CASE AskFirst(t) \/ Confirm(t) \/ DoMove(t) \/ Finish(t)
  BY <1>4
     DEF AskFirst, Confirm, DoMove, Finish, AskClaim, AskTransition, Await
<1>5. QED
  BY <1>1, <1>2, <1>3, <1>4 DEF TaskStep, Claims, Works

LEMMA TaskPanels ==
    ASSUME ExecInv, NEW t \in Tasks, TaskStep(t)
    PROVE  PanelsOK'
<1>1. PanelsOK
  BY DEF ExecInv, ExecTypeOK, PanelsOK
<1>2. CASE Send(t)
  <2>1. /\ task[t].job \in JobIds /\ task[t].op \in Ops
        /\ task[t].seen.plan.serial \in Panels
    <3>1. task[t].job \in JobIds /\ task[t].seen \in Receipt /\ Sound(task[t])
          /\ task[t].pc = "send"
      BY <1>2, AtWorker, AtFacts DEF Send, At
    <3>2. task[t].seen.plan \in Plans
      BY <3>1 DEF Receipt
    <3>3. QED BY <3>1, <3>2 DEF Sound, Operating, Panels
  <2>2. CASE cmd' = cmd /\ panel' = panel /\ asked' = asked
    BY <1>1, <2>2 DEF PanelsOK
  <2>3. CASE /\ cmd' = [cmd EXCEPT ![task[t].job] =
                          [op |-> task[t].op, state |-> "sent",
                           panel |-> task[t].seen.plan.serial]]
             /\ asked' = [asked EXCEPT ![task[t].job] = @ \cup {task[t].op}]
             /\ panel' = panel
    <3>1. [op |-> task[t].op, state |-> "sent",
           panel |-> task[t].seen.plan.serial] \in Command
      BY <2>1 DEF Command
    <3>2. cmd' \in [JobIds -> Command \cup {None}]
      BY <1>1, <2>3, <3>1 DEF PanelsOK
    <3>3. asked' \in [JobIds -> SUBSET Ops]
      BY <1>1, <2>1, <2>3 DEF PanelsOK
    <3>4. QED BY <1>1, <2>3, <3>2, <3>3 DEF PanelsOK
  <2>4. QED BY <1>2, <2>2, <2>3 DEF Send, Think, world
<1>3. CASE UNCHANGED world
  BY <1>1, <1>3 DEF PanelsOK, world
<1>4. QED BY <1>2, <1>3, OnlySendCommands

\* The panel carries out commands it was sent, nothing else.
LEMMA PanelStep ==
    ASSUME ExecInv, NEW j \in JobIds, PanelActs(j)
    PROVE  PanelsOK'
<1>1. PanelsOK
  BY DEF ExecInv, ExecTypeOK, PanelsOK
<1>2. cmd[j] \in Command /\ cmd[j].panel \in Panels /\ cmd[j].op \in Ops
  BY <1>1 DEF PanelsOK, PanelActs, Command
<1> DEFINE p == panel[cmd[j].panel]
<1>3. p \in [slot : JobIds \cup {None}, pkg : JobIds \cup {None}]
  BY <1>1, <1>2 DEF PanelsOK
<1>4. ASSUME NEW q \in [slot : JobIds \cup {None}, pkg : JobIds \cup {None}],
             NEW state \in {"done", "refused"},
             panel' = [panel EXCEPT ![cmd[j].panel] = q],
             cmd' = [cmd EXCEPT ![j].state = state],
             asked' = asked
      PROVE  PanelsOK'
  <2>1. panel' \in [Panels -> [slot : JobIds \cup {None},
                               pkg : JobIds \cup {None}]]
    BY <1>1, <1>4 DEF PanelsOK
  <2>2. [cmd[j] EXCEPT !.state = state] \in Command
    <3>1. ASSUME NEW c \in Command
          PROVE  [c EXCEPT !.state = state] \in Command
      BY DEF Command
    <3>2. QED BY <1>2, <3>1
  <2>3. cmd' = [cmd EXCEPT ![j] = [cmd[j] EXCEPT !.state = state]]
    BY <1>4
  <2>4. cmd' \in [JobIds -> Command \cup {None}]
    BY <1>1, <2>2, <2>3 DEF PanelsOK
  <2>5. QED BY <1>1, <1>4, <2>1, <2>4 DEF PanelsOK
<1>5. \A i \in JobIds \cup {None} :
        /\ [p EXCEPT !.slot = i] \in [slot : JobIds \cup {None},
                                      pkg : JobIds \cup {None}]
        /\ [p EXCEPT !.pkg = i] \in [slot : JobIds \cup {None},
                                     pkg : JobIds \cup {None}]
  <2> HIDE DEF p
  <2>1. QED BY <1>3
<1>6. PICK q \in {p, [p EXCEPT !.slot = j], [p EXCEPT !.slot = None],
                  [p EXCEPT !.pkg = j]},
           state \in {"done", "refused"} :
        /\ panel' = [panel EXCEPT ![cmd[j].panel] = q]
        /\ cmd' = [cmd EXCEPT ![j].state = state]
        /\ asked' = asked
  BY DEF PanelActs
<1>7. q \in [slot : JobIds \cup {None}, pkg : JobIds \cup {None}]
  BY <1>3, <1>5, <1>6
<1>8. QED BY <1>4, <1>6, <1>7

\* A new task is a sound worker.
LEMMA NewSound ==
    ASSUME NEW j \in JobIds, NEW pc \in {"begin", "claim"}, NEW r \in Receipt
    PROVE  NewTask(j, pc, r) \in Worker /\ Sound(NewTask(j, pc, r))
<1>1. pc \in Calling /\ pc \notin Aiming \cup Operating
  BY DEF Calling, Aiming, Operating
<1>2. NewTask(j, pc, r) \in Worker
  BY <1>1, Zenon DEF NewTask, Worker
<1>3. NewTask(j, pc, r).pc = pc
  BY DEF NewTask
<1>4. QED BY <1>1, <1>2, <1>3 DEF Sound

\* The tasks, as a step of task t or an outsider may leave them.
TasksOK ==
    /\ task \in [Tasks -> Worker \cup {None}]
    /\ poisoned \subseteq JobIds
    /\ \A t \in Tasks : task[t] # None => Sound(task[t])
    /\ excused \subseteq JobIds

LEMMA MovesKeep ==
    ASSUME TasksOK, NEW t \in Tasks, Moves(t)
    PROVE  TasksOK'
<1>1. PICK w : /\ task' = [task EXCEPT ![t] = w]
               /\ w = None \/ (w \in Worker /\ Sound(w))
  BY DEF Moves
<1>2. task' \in [Tasks -> Worker \cup {None}]
  BY <1>1 DEF TasksOK
<1>3. \A u \in Tasks : task'[u] = IF u = t THEN w ELSE task[u]
  BY <1>1 DEF TasksOK
<1>4. \A u \in Tasks : task'[u] # None => Sound(task'[u])
  BY <1>1, <1>3 DEF TasksOK
<1>5. poisoned' \subseteq JobIds
  BY DEF Moves, TasksOK, Tasks
<1>6. \A u \in Tasks : task'[u] # None => Sound(task[u])'
  BY <1>4 DEF Sound
<1>7. (excused \subseteq JobIds)'
  BY DEF Moves, Excuse
<1>8. QED BY <1>2, <1>5, <1>6, <1>7 DEF TasksOK

\* A task that is cancelled is gone; it may leave less of its own job's
\* artifact, or the whole of it.
LEMMA CancelledLeaves ==
    ASSUME ExecInv, NEW t \in Tasks, Cancelled(t)
    PROVE  /\ task[t] # None /\ task[t].job \in JobIds
           /\ task' = [task EXCEPT ![t] = None]
           /\ \E e \in Abandoned(t) \cap {"none", "part", "ready"} :
                  custody' = [custody EXCEPT ![task[t].job] = e]
<1>1. task[t] # None /\ task[t].job \in JobIds
  BY AtWorker DEF Cancelled
<1>2. custody[task[t].job] \in {"none", "part", "ready"}
  BY <1>1 DEF ExecInv, ExecTypeOK
<1>3. Abandoned(t) \subseteq {"none", "part", "ready"}
  BY <1>2 DEF Abandoned
<1>4. QED BY <1>1, <1>3 DEF Cancelled

LEMMA CancelledTypes ==
    ASSUME ExecInv, NEW t \in Tasks, Cancelled(t)
    PROVE  TasksOK' /\ CustodyOK' /\ PanelsOK' /\ (up \in BOOLEAN)'
<1>1. /\ TasksOK /\ CustodyOK /\ PanelsOK /\ up \in BOOLEAN
  BY DEF ExecInv, ExecTypeOK, TasksOK, CustodyOK, PanelsOK
<1>2. TasksOK'
  <2>1. /\ task' = [task EXCEPT ![t] = None]
        /\ poisoned' \subseteq JobIds /\ excused' \subseteq JobIds
    BY <1>1 DEF Cancelled, Excuse, TasksOK
  <2>2. task' \in [Tasks -> Worker \cup {None}]
    BY <1>1, <2>1 DEF TasksOK
  <2>3. \A u \in Tasks : task'[u] # None => task'[u] = task[u]
    BY <1>1, <2>1 DEF TasksOK
  <2>4. QED BY <1>1, <2>1, <2>2, <2>3 DEF TasksOK, Sound
<1>3. CustodyOK'
  BY <1>1, CancelledLeaves DEF CustodyOK
<1>4. QED BY <1>1, <1>2, <1>3 DEF Cancelled, PanelsOK, world

LEMMA SurroundingTypes ==
    ASSUME ExecInv, Surroundings
    PROVE  TasksOK' /\ CustodyOK' /\ PanelsOK' /\ (up \in BOOLEAN)'
<1>1. /\ TasksOK /\ CustodyOK /\ PanelsOK /\ up \in BOOLEAN
      /\ disk \in [JobIds -> Receipt \cup {None}]
  BY DEF ExecInv, ExecTypeOK, TasksOK, CustodyOK, PanelsOK, TypeOK
<1>2. CASE /\ UNCHANGED <<up, task, poisoned, custody, world>>
           /\ Excuse(Hindered)
  <2>1. (excused \subseteq JobIds)'
    BY <1>2 DEF Excuse
  <2>2. QED BY <1>1, <1>2, <2>1 DEF TasksOK, CustodyOK, PanelsOK, world, Sound
<1>3. CASE Boot
  <2>1. (excused \subseteq JobIds)'
    BY <1>3 DEF Boot, Excuse
  <2>2. QED
    BY <1>1, <1>3, <2>1 DEF Boot, TasksOK, CustodyOK, PanelsOK, world, Sound
<1>4. CASE Crash
  <2>1. /\ up' = FALSE /\ task' = [t \in Tasks |-> None] /\ poisoned' = {}
        /\ excused' = {} /\ custody' = custody /\ UNCHANGED world
    BY <1>4 DEF Crash
  <2>2. TasksOK'
    BY <2>1 DEF TasksOK
  <2>3. QED BY <1>1, <2>1, <2>2 DEF CustodyOK, PanelsOK, world
<1>5. ASSUME NEW j \in JobIds, Ensure(j) \/ Resume(j)
      PROVE  TasksOK' /\ CustodyOK' /\ PanelsOK' /\ (up \in BOOLEAN)'
  <2>1. disk[j] # None /\ disk[j] \in Receipt
    BY <1>1, <1>5 DEF Ensure, Resume, Active
  <2>2. PICK t \in Tasks, pc \in {"begin", "claim"} :
          Go(t, NewTask(j, pc, disk[j]))
    BY <1>5 DEF Ensure, Resume, Tasks
  <2>3. TasksOK'
    BY <1>1, <2>1, <2>2, NewSound, GoMoves, MovesKeep
  <2>4. QED BY <1>1, <1>5, <2>3 DEF Ensure, Resume, CustodyOK, PanelsOK, world
<1>6. ASSUME NEW j \in JobIds, PanelActs(j)
      PROVE  TasksOK' /\ CustodyOK' /\ PanelsOK' /\ (up \in BOOLEAN)'
  <2>1. UNCHANGED <<up, task, poisoned, custody>> /\ (excused \subseteq JobIds)'
    BY <1>6 DEF PanelActs, Excuse
  <2>2. QED BY <1>1, <1>6, <2>1, PanelStep DEF TasksOK, CustodyOK, Sound
<1>7. QED
  BY <1>2, <1>3, <1>4, <1>5, <1>6
     DEF Surroundings, FlowFails, FlowCreates, FlowCancels, FlowFinalizes,
         Outside

\* ------------------------------------------------------------------------
\* The theorems.

LEMMA ExecInductive ==
    ASSUME ExecInv, [ExecNext]_execVars
    PROVE  ExecInv'
<1>1. /\ TypeOK /\ UsedInv /\ TasksOK /\ up \in BOOLEAN
  BY DEF ExecInv, ExecTypeOK, TasksOK
<1>2. CASE ExecNext
  <2>1. Next \/ UNCHANGED vars
    BY <1>2, TaskCalls, SurroundingCalls DEF ExecNext, Cancelled
  <2>2. TypeOK' /\ UsedInv'
    <3>1. CASE Next
      BY <1>1, <3>1, TypeStep, UsedStep
    <3>2. CASE UNCHANGED vars
      BY <1>1, <3>2 DEF vars, TypeOK, UsedInv
    <3>3. QED BY <2>1, <3>1, <3>2
  <2>3. TasksOK' /\ CustodyOK' /\ PanelsOK' /\ (up \in BOOLEAN)'
    <3>1. CASE Surroundings
      BY <3>1, SurroundingTypes
    <3>2. ASSUME NEW t \in Tasks, TaskStep(t)
          PROVE  TasksOK' /\ CustodyOK' /\ PanelsOK' /\ (up \in BOOLEAN)'
      BY <1>1, <2>2, <3>2, TaskMoves, MovesKeep, TaskCustody, TaskPanels
    <3>3. QED BY <1>2, <3>1, <3>2, CancelledTypes DEF ExecNext
  <2>4. QED
    BY <2>2, <2>3 DEF ExecInv, ExecTypeOK, TasksOK, CustodyOK, PanelsOK
<1>3. CASE UNCHANGED execVars
  BY <1>3
     DEF execVars, vars, world, ExecInv, ExecTypeOK, TypeOK, UsedInv, Sound
<1>4. QED BY <1>2, <1>3

LEMMA ExecInitial ==
    ASSUME ExecInit
    PROVE  ExecInv
<1>1. TypeOK /\ UsedInv
  BY DEF ExecInit, Init, TypeOK, UsedInv, NoClaims
<1>2. QED BY <1>1 DEF ExecInit, ExecInv, ExecTypeOK

\* The executor's state is well formed, and no worker asks for a transition or
\* commands the panel without knowing what for, for any number of jobs and
\* panels.
THEOREM ExecTypeCorrect == ExecSpec => []ExecTypeOK
<1>1. ExecInit => ExecInv
  BY ExecInitial
<1>2. ExecInv /\ [ExecNext]_execVars => ExecInv'
  BY ExecInductive
<1>3. ExecInv => ExecTypeOK
  BY DEF ExecInv
<1>4. QED BY <1>1, <1>2, <1>3, PTL DEF ExecSpec

\* The executor uses the receipts as InstallJobs says: each of its steps,
\* through claims, lost races, store failures, resumes and restarts, is one
\* call of the manager, or none.
THEOREM ExecImplementsJobs == ExecSpec => Spec
<1>1. ExecInit => ExecInv /\ Init
  BY ExecInitial DEF ExecInit
<1>2. ExecInv /\ [ExecNext]_execVars => ExecInv'
  BY ExecInductive
<1>3. ExecInv /\ [ExecNext]_execVars => [Next]_vars
  BY TaskCalls, SurroundingCalls DEF ExecNext, execVars, Cancelled
<1>4. QED BY <1>1, <1>2, <1>3, PTL DEF ExecSpec, Spec

\* So what is proved of the receipts holds of the running system.
THEOREM ExecKeepsJobs ==
    ExecSpec => /\ []StoreStaysReadable /\ []CancelHonoured
                /\ []ActiveTargetsDisjoint /\ []ClaimsAreFenced
                /\ OutcomeIsFinal /\ AmbiguousNeverReplayed
  BY ExecImplementsJobs, ReadableTheorem, CancelTheorem, TargetsTheorem,
     FenceTheorem, FinalTheorem, AmbiguityTheorem, PTL

\* ------------------------------------------------------------------------
\* The inductive invariant of the running system, one job at a time.  It
\* relates what a worker believes (the receipt it has seen, where it is, what
\* it is about to do) to the receipt, the claim, the custody, the commands and
\* the slots of the panels.  Below, w is a worker, d the receipt of its job, a
\* the operations asked for it, c its last command, l the panels in whose slot
\* it lies, e its custody and k its claim.

EarlyPhases == CancellablePhases \ {"staging"}
LocalPhases == {"downloading", "artifact_ready", "revalidating"}
FreePhases == {"health_check", "healthy_unclaimed", "consumed", "cancelled", "failed"}
EmptyPhases ==
    {"approved", "authorizing", "preflight", "launching", "health_check",
     "healthy_unclaimed"} \cup TerminalPhases
PanelPhases == {"staging", "installing", "installed", "launching", "health_check"}
Claiming == {"begin", "claim", "reget", "reclean", "confirm"}

Early(r) == r # None /\ r.phase \in EarlyPhases

\* The panels in whose staging slot job j lies.
LiesOn(j) == {s \in Panels : panel[s].slot = j}

\* Nothing of the job lies in a slot or is on its way there.
SlotFree(c, l) ==
    /\ l = {}
    /\ c # None /\ c.op = "stage" => c.state # "sent"

\* As long as the receipt is kept, there is no local artifact.
Emptied(d, e) == d # None => e = "none"

\* The job has ended, or is asked to cancel.
Raced(d) == Active(d) => d.cancel_requested

\* The receipt d is what s has become by a cancel request, and no more.
Overtaken(d, s) ==
    /\ ~s.cancel_requested /\ s.phase \in CancellablePhases
    /\ d = [s EXCEPT !.revision = s.revision + 1, !.cancel_requested = TRUE]

\* What holds of every receipt that was ever read.
Sane(r) ==
    /\ r.phase \in ArtifactPhases => r.apk
    /\ r.cancel_requested =>
           r.phase \in CancellablePhases \cup {"cancelled", "failed", "recovery_required"}

\* Whatever happens meanwhile, an unfinished receipt is the one its worker has
\* seen, or that one with a cancel request; a job ended by somebody else has
\* been quarantined.
Tracks(d, s) ==
    /\ d # None => d.plan = s.plan
    /\ Active(d) => d = s \/ Overtaken(d, s)
    /\ Early(s) => Active(d)
    /\ s.phase \in PanelPhases /\ ~Active(d) =>
           d = None \/ d.phase = "recovery_required"

\* The operations on a panel are commanded in one order.
Below(op) ==
    CASE op = "stage" -> {}
      [] op = "install" -> {"stage"}
      [] op = "clean" -> {"stage", "install"}
      [] OTHER -> {"stage", "install", "clean"}

\* The phases in which a worker may be about to do what it has in mind.
OpFits(w, c, l) ==
    /\ w.op = "stage" => w.seen.phase = "staging" /\ ~w.seen.cancel_requested
    /\ w.op = "install" => w.seen.phase = "installing"
    /\ w.op = "clean" =>
           \/ w.seen.phase = "staging" /\ w.seen.cancel_requested
           \/ w.seen.phase \in {"installing", "launching"}
    /\ w.op = "launch" => w.seen.phase = "launching" /\ SlotFree(c, l)

\* The transitions a worker may have in mind.
Advances(w) ==
    /\ ~w.seen.cancel_requested
    /\ <<w.seen.phase, w.goal.phase>> \in Forward
    /\ w.goal.phase # "consumed"
    /\ w.goal.result = None
    /\ w.goal.root # None <=> w.seen.phase = "preflight"

Cancels(w) ==
    /\ w.seen.cancel_requested /\ w.seen.phase \in CancellablePhases
    /\ w.goal.phase = "cancelled" /\ w.goal.root = None
    /\ w.goal.result = IF w.seen.phase = "staging"
                       THEN "cancelled_after_staging_cleanup"
                       ELSE "cancelled_by_user"

Fails(w) ==
    /\ w.goal.phase = "failed" /\ w.goal.root = None
    /\ w.goal.result \in FailureCodesOf(w.seen.phase)

Recovers(w) ==
    /\ w.goal.phase = "recovery_required" /\ w.goal.root = None
    /\ w.goal.result \in RecoveryCodes
    /\ w.seen.phase \in PanelPhases

\* What holds of a worker past its claim, by where it is.
AtLoop(w, a) ==
    /\ w.seen.phase = "staging" =>
           IF w.staged THEN w.seen.cancel_requested /\ a \subseteq {"stage"}
           ELSE a = {}
    /\ w.seen.phase = "installing" => a \subseteq {"stage"}
    /\ w.seen.phase \in {"installed", "launching"} => a \subseteq {"stage", "install"}

AtOperation(w, a, c, l) ==
    /\ OpFits(w, c, l)
    /\ IF w.pc = "answer"
       THEN a \subseteq Below(w.op) \cup {w.op} /\ c # None /\ c.op = w.op
       ELSE a \subseteq Below(w.op)

AtMove(w, d, a, c, l, e) ==
    \/ /\ Advances(w)
       /\ w.seen.phase = "staging" => w.staged /\ a \subseteq {"stage"}
       /\ w.seen.phase = "installing" => a \subseteq {"stage", "install"}
       /\ w.seen.phase = "installed" => a \subseteq {"stage", "install"} /\ Emptied(d, e)
       /\ w.seen.phase = "launching" => SlotFree(c, l)
    \/ Cancels(w) /\ SlotFree(c, l) /\ Emptied(d, e)

Place(w, d, a, c, l, e) ==
    /\ w.pc = "confirm" => Emptied(d, e)
    /\ w.pc = "loop" => AtLoop(w, a)
    /\ w.pc \in {"fetch", "unpart"} => w.seen.phase \in LocalPhases
    /\ w.pc \in Operating => AtOperation(w, a, c, l)
    /\ w.pc \in {"move", "recheck"} => AtMove(w, d, a, c, l, e)
    /\ w.pc = "recheck" => (Active(d) => Overtaken(d, w.seen))
    /\ w.pc = "droplocal" =>
           /\ w.seen.cancel_requested /\ w.seen.phase \in CancellablePhases
           /\ SlotFree(c, l)
    /\ w.pc = "droprefused" => w.seen.phase = "installing" /\ SlotFree(c, l)
    /\ w.pc = "cleanfail" =>
           /\ Fails(w) /\ SlotFree(c, l)
           /\ w.seen.phase \in LocalPhases \cup {"staging"}
    /\ w.pc = "fail" => Fails(w) /\ SlotFree(c, l) /\ Emptied(d, e)
    /\ w.pc \in {"recover", "recclean", "recget"} => Recovers(w)
    /\ w.pc \in {"recget", "finish"} => Emptied(d, e)
    /\ w.pc = "finish" => Recovers(w) \/ (Fails(w) /\ SlotFree(c, l))

Fits(j, w, d, a, c, l, e) ==
    /\ w.job = j
    /\ Sane(w.seen)
    /\ Tracks(d, w.seen)
    /\ Early(w.seen) => ~w.staged
    /\ w.pc \in Claiming => ~w.staged /\ w.seen.phase # "healthy_unclaimed"
    /\ Place(w, d, a, c, l, e)

\* What the receipt says of the panel and of the custody.
Says(d, a, c, l, e) ==
    d # None =>
        /\ d.phase \in EarlyPhases => a = {}
        /\ d.phase = "installed" => a \subseteq {"stage", "install"}
        /\ d.phase \in EmptyPhases => e = "none"
        /\ d.phase \in FreePhases => SlotFree(c, l)

\* Commands go to the panel of the plan, and what lies in a slot was staged by
\* the last of them or by one before it.
Sent(d, a, c, l) ==
    /\ c # None =>
           /\ c.op \in a
           /\ c.op = "clean" /\ c.state = "done" => SlotFree(c, l)
           /\ d # None => c.panel = d.plan.serial
    /\ \A s \in l : "stage" \in a /\ c # None /\ c.panel = s

\* The claim of an unfinished job in a phase of unknown effect is held.
Grasped(d, k) ==
    Active(d) /\ d.phase \in AmbiguousPhases /\ k = d.generation

\* Nobody holds the claim of such a job.
Orphaned(d, k) ==
    Active(d) => d.phase \in AmbiguousPhases /\ k # d.generation

Past(j) == task[j] # None /\ task[j].pc \notin Claiming

JobInv(j) ==
    /\ task[j] # None =>
           /\ Fits(j, task[j], disk[j], asked[j], cmd[j], LiesOn(j), custody[j])
           /\ cmd[j] # None => cmd[j].panel = task[j].seen.plan.serial
    /\ task[j] # None \/ j \in poisoned => up /\ j \in used
    /\ ~(task[j] # None /\ j \in poisoned)
    /\ j \notin used => asked[j] = {} /\ custody[j] = "none"
    /\ Says(disk[j], asked[j], cmd[j], LiesOn(j), custody[j])
    /\ Sent(disk[j], asked[j], cmd[j], LiesOn(j))
    /\ Grasped(disk[j], claimed[Ha][j]) => Past(j) \/ j \in poisoned

ResumerFits(w, d, k, e) ==
    /\ w.pc \in Claiming
    /\ d # None => /\ d.revision >= w.seen.revision
                   /\ d.revision = w.seen.revision => d = w.seen
                   /\ ~Early(d)
    /\ w.pc = "claim" => w.seen.phase \in AmbiguousPhases
    /\ w.pc \in {"reget", "reclean", "confirm"} => Orphaned(d, k)
    /\ w.pc = "confirm" => Emptied(d, e)

ResumerInv ==
    task[Resumer] # None =>
        LET j == task[Resumer].job IN
        /\ up /\ j \in used
        /\ ResumerFits(task[Resumer], disk[j], claimed[Ha][j], custody[j])

\* With one manager, memory is the file or nothing.
MemoryInv == cache[Ha] \in {None, disk}

WorkInv == MemoryInv /\ ResumerInv /\ \A j \in JobIds : JobInv(j)

\* ------------------------------------------------------------------------
\* What others may make of a receipt under a worker's hands.

Meanwhile(d, f) ==
    \/ f = d
    \/ Terminal(d) /\ f = None
    \/ d # None /\ Overtaken(f, d)
    \/ /\ d # None /\ d.phase \in AmbiguousPhases
       /\ f = None \/ (f.phase = "recovery_required" /\ f.plan = d.plan)
    \/ /\ d # None /\ d.phase = "healthy_unclaimed"
       /\ f = None \/ (f.phase \in {"consumed", "recovery_required"} /\ f.plan = d.plan)

LEMMA OvertakenFields ==
    ASSUME NEW s \in Receipt, NEW d, Overtaken(d, s)
    PROVE  /\ d \in Receipt /\ d # None /\ Active(d)
           /\ d.revision = s.revision + 1 /\ d.cancel_requested
           /\ ~s.cancel_requested /\ s.phase \in CancellablePhases
           /\ d.plan = s.plan /\ d.phase = s.phase
           /\ d.generation = s.generation /\ d.root = s.root /\ d.apk = s.apk
           /\ d.health = s.health
<1>1. CancellablePhases \cap TerminalPhases = {}
  BY DEF CancellablePhases, TerminalPhases
<1>2. QED BY <1>1, MarkedShape DEF Overtaken, Active

\* The phases that the definitions above single out.
LEMMA PhaseFacts ==
    /\ EarlyPhases \cap TerminalPhases = {} /\ EarlyPhases \cap PanelPhases = {}
    /\ EarlyPhases \cap AmbiguousPhases = {}
    /\ AmbiguousPhases \subseteq PanelPhases
    /\ PanelPhases \cap TerminalPhases = {}
    /\ CancellablePhases = EarlyPhases \cup {"staging"}
    /\ LocalPhases \subseteq EarlyPhases
    /\ {"recovery_required", "consumed", "cancelled", "failed"} = TerminalPhases
    /\ "healthy_unclaimed" \notin EarlyPhases \cup PanelPhases \cup TerminalPhases
    /\ PanelPhases = RecoverySources \ {"healthy_unclaimed"}
    /\ Phases = EarlyPhases \cup PanelPhases \cup {"healthy_unclaimed"} \cup TerminalPhases
  BY DEF EarlyPhases, CancellablePhases, TerminalPhases, AmbiguousPhases,
         PanelPhases, LocalPhases, RecoverySources, Phases

LEMMA TracksStays ==
    ASSUME NEW s \in Receipt, NEW d \in Receipt \cup {None}, NEW f,
           Tracks(d, s), Meanwhile(d, f)
    PROVE  Tracks(f, s)
<1>1. CASE f = d
  BY <1>1
<1>2. CASE Terminal(d) /\ f = None
  BY <1>2, PhaseFacts DEF Tracks, Terminal, Active, Early
<1>3. CASE d # None /\ Overtaken(f, d)
  <2>1. Active(d)
    BY <1>3, PhaseFacts DEF Overtaken, Active
  <2>2. d.cancel_requested = FALSE
    BY <1>3 DEF Overtaken, Receipt
  <2>3. d = s
    BY <2>1, <2>2, OvertakenFields DEF Tracks
  <2>4. f # None /\ Active(f) /\ f.plan = d.plan
    BY <1>3, OvertakenFields
  <2>5. QED BY <1>3, <2>3, <2>4 DEF Tracks
<1>4. CASE /\ d # None
           /\ d.phase \in AmbiguousPhases \cup {"healthy_unclaimed"}
           /\ \/ f = None
              \/ /\ f.phase \in {"consumed", "recovery_required"}
                 /\ f.plan = d.plan
                 /\ d.phase \in AmbiguousPhases => f.phase = "recovery_required"
  <2>1. Active(d)
    BY <1>4, PhaseFacts DEF Active
  <2>2. d.plan = s.plan /\ d.phase = s.phase
    BY <2>1, OvertakenFields DEF Tracks
  <2>3. ~Active(f)
    BY <1>4, PhaseFacts DEF Active
  <2>4. ~Early(s)
    BY <1>4, <2>2, PhaseFacts DEF Early
  <2>5. s.phase \in PanelPhases => s.phase \in AmbiguousPhases
    BY <1>4, <2>2, PhaseFacts
  <2>6. QED BY <1>4, <2>2, <2>3, <2>4, <2>5 DEF Tracks
<1>5. QED BY <1>1, <1>2, <1>3, <1>4, PhaseFacts DEF Meanwhile

\* A worker's place, while others act.
LEMMA FitsStays ==
    ASSUME NEW j, NEW w, NEW d \in Receipt \cup {None}, NEW a, NEW c, NEW l, NEW e,
           NEW f, NEW b, NEW m, NEW g,
           w.seen \in Receipt, Fits(j, w, d, a, c, l, e),
           Meanwhile(d, f), g \in {e, "none"},
           SlotFree(c, l) => SlotFree(b, m),
           c # None => b # None /\ b.op = c.op
    PROVE  Fits(j, w, f, a, b, m, g)
<1>1. Tracks(f, w.seen)
  BY TracksStays DEF Fits
<1>2. Emptied(d, e) => Emptied(f, g)
  BY DEF Meanwhile, Emptied, Terminal
<1>3. ASSUME w.pc = "recheck", Active(f)
      PROVE  Overtaken(f, w.seen)
  <2>1. Active(d)
    <3>1. d = None => f = None
      BY DEF Meanwhile, Terminal
    <3>2. CASE d # None /\ d.phase \in TerminalPhases
      <4>1. f = d \/ f = None
        BY <3>2, PhaseFacts, OvertakenFields DEF Meanwhile, Overtaken
      <4>2. QED BY <1>3, <3>2, <4>1 DEF Active
    <3>3. QED BY <1>3, <3>1, <3>2 DEF Active
  <2>2. Overtaken(d, w.seen)
    BY <1>3, <2>1 DEF Fits, Place
  <2>3. d.cancel_requested /\ d.phase \in CancellablePhases
    BY <2>2, OvertakenFields
  <2>4. ~Overtaken(f, d)
    BY <2>3 DEF Overtaken
  <2>5. CASE f = d
    BY <2>2, <2>5
  <2>6. CASE f # d
    <3>1. ~Active(f)
      BY <2>1, <2>4, <2>6, PhaseFacts DEF Meanwhile, Active, Terminal
    <3>2. QED BY <1>3, <3>1
  <2>7. QED BY <2>5, <2>6
<1>4. AtMove(w, d, a, c, l, e) => AtMove(w, f, a, b, m, g)
  BY <1>2 DEF AtMove
<1>5. AtOperation(w, a, c, l) => AtOperation(w, a, b, m)
  BY DEF AtOperation, OpFits
<1>6. Place(w, f, a, b, m, g)
  BY <1>2, <1>3, <1>4, <1>5 DEF Fits, Place
<1>7. QED BY <1>1, <1>6 DEF Fits

\* What the receipt says, while others act.
LEMMA SaysStays ==
    ASSUME NEW d \in Receipt \cup {None}, NEW a, NEW c, NEW l, NEW e,
           NEW f, NEW b, NEW m, NEW g,
           Says(d, a, c, l, e), Meanwhile(d, f), g \in {e, "none"},
           SlotFree(c, l) => SlotFree(b, m),
           d # None /\ d.phase \in AmbiguousPhases /\ f # d /\ f # None
               /\ ~Overtaken(f, d) => g = "none"
    PROVE  Says(f, a, b, m, g)
<1>1. CASE f = d \/ f = None
  BY <1>1 DEF Says
<1>2. CASE d # None /\ Overtaken(f, d)
  <2>1. f.phase = d.phase
    BY <1>2, OvertakenFields
  <2>2. QED BY <1>2, <2>1 DEF Says
<1>3. CASE /\ f # d /\ f # None /\ d # None /\ ~Overtaken(f, d)
           /\ d.phase \in AmbiguousPhases
           /\ f.phase = "recovery_required"
  <2>1. "recovery_required" \notin EarlyPhases \cup FreePhases \cup {"installed"}
    BY DEF EarlyPhases, CancellablePhases, FreePhases
  <2>2. QED BY <1>3, <2>1 DEF Says
<1>4. CASE /\ f # None /\ d # None /\ d.phase = "healthy_unclaimed"
           /\ f.phase \in {"consumed", "recovery_required"}
  <2>1. /\ {"consumed", "recovery_required"} \cap (EarlyPhases \cup {"installed"}) = {}
        /\ "healthy_unclaimed" \in EmptyPhases \cap FreePhases
    BY DEF EarlyPhases, CancellablePhases, FreePhases, EmptyPhases
  <2>2. QED BY <1>4, <2>1 DEF Says
<1>5. QED BY <1>1, <1>2, <1>3, <1>4 DEF Meanwhile, Terminal

\* ------------------------------------------------------------------------
\* What a call of the manager does to one job.

Spared(k) == disk'[k] = disk[k] \/ (Terminal(disk[k]) /\ disk'[k] = None)
Shrunk(k) == claimed'[Ha][k] \in {claimed[Ha][k], None}

LEMMA TheManager == Ha \in Managers /\ \A m \in Managers : m = Ha
  BY ExecutorAssumption

LEMMA ReconciledTwice ==
    ASSUME TypeOK, NEW jobs, NEW k \in JobIds
    PROVE  /\ Reconciled(claimed[Ha], disk)[k] \in {claimed[Ha][k], None}
           /\ Reconciled(Reconciled(claimed[Ha], disk), jobs)[k]
                  \in {claimed[Ha][k], None}
<1>1. claimed[Ha] \in [JobIds -> Nat \cup {None}]
  BY TheManager DEF TypeOK
<1> DEFINE once == Reconciled(claimed[Ha], disk)
<1>2. /\ once \in [JobIds -> Nat \cup {None}]
      /\ once[k] \in {claimed[Ha][k], None}
  BY <1>1, ReconciledClaims
<1> HIDE DEF once
<1>3. Reconciled(once, jobs)[k] \in {once[k], None}
  BY <1>2, ReconciledClaims
<1>4. QED BY <1>2, <1>3 DEF once

LEMMA ClaimsOf ==
    ASSUME TypeOK, NEW claims, NEW k \in JobIds
    PROVE  /\ \A jobs : Adopted(Ha, jobs, claims) => claimed'[Ha][k] = claims[k]
           /\ Invalidated(Ha) => claimed'[Ha][k] = None
  BY TheManager DEF TypeOK, Adopted, Invalidated, NoClaims

LEMMA SavedShrinks ==
    ASSUME TypeOK, NEW jobs, NEW claims, NEW k \in JobIds,
           Saved(Ha, jobs, claims), claims[k] \in {claimed[Ha][k], None}
    PROVE  Shrunk(k)
  BY ClaimsOf DEF Saved, Shrunk

\* Calls that write nothing.
LEMMA StillEffect ==
    ASSUME TypeOK, NEW k \in JobIds,
           \/ Refresh(Ha) \/ Fault(Ha) \/ Restart(Ha)
           \/ \E j, rev, ph, cancel : VerifyBarrier(Ha, j, rev, ph, cancel)
    PROVE  disk' = disk /\ Shrunk(k)
<1>1. \A claims : claims[k] \in {claimed[Ha][k], None} =>
        (\A jobs : Adopted(Ha, jobs, claims) => Shrunk(k))
  BY ClaimsOf DEF Shrunk
<1>2. Reconciled(claimed[Ha], disk)[k] \in {claimed[Ha][k], None}
  BY ReconciledTwice
<1>3. Invalidated(Ha) => Shrunk(k)
  BY ClaimsOf DEF Shrunk
<1>4. QED
  BY <1>1, <1>2, <1>3 DEF Refresh, Fault, Restart, VerifyBarrier

LEMMA CreateEffect ==
    ASSUME TypeOK, NEW j \in JobIds, NEW p \in Plans, Create(Ha, j, p), NEW k \in JobIds
    PROVE  /\ Shrunk(k)
           /\ \/ Spared(k)
              \/ k = j /\ j \notin used /\ disk'[j] = NewReceipt(p)
<1>1. PICK gone \in Prunable(disk, None) :
        LET jobs == [Without(disk, gone) EXCEPT ![j] = NewReceipt(p)] IN
        Saved(Ha, jobs, Reconciled(Reconciled(claimed[Ha], disk), jobs))
  BY DEF Create
<1> DEFINE left == Without(disk, gone)
           jobs == [left EXCEPT ![j] = NewReceipt(p)]
<1>2. Shrunk(k)
  BY <1>1, ReconciledTwice, SavedShrinks
<1>3. disk' \in {disk, jobs}
  BY <1>1, TheManager, SavedDisk
<1>4. left[k] = disk[k] \/ (Terminal(disk[k]) /\ left[k] = None)
  BY KeptJobs
<1>5. left = [i \in JobIds |-> left[i]]
  BY DEF Without
<1> HIDE DEF left
<1>6. jobs[k] = IF k = j THEN NewReceipt(p) ELSE left[k]
  BY <1>5
<1>7. j \notin used
  BY DEF Create
<1> HIDE DEF jobs
<1>8. QED BY <1>2, <1>3, <1>4, <1>6, <1>7 DEF Spared

LEMMA CancelEffect ==
    ASSUME TypeOK, NEW j \in JobIds, NEW rev, RequestCancel(Ha, j, rev),
           NEW k \in JobIds
    PROVE  /\ Shrunk(k)
           /\ \/ disk'[k] = disk[k]
              \/ k = j /\ disk[j] # None /\ Overtaken(disk'[j], disk[j])
<1> DEFINE jobs == [disk EXCEPT ![j].revision = rev + 1,
                                ![j].cancel_requested = TRUE]
<1>1. Saved(Ha, jobs, Reconciled(Reconciled(claimed[Ha], disk), jobs))
  BY DEF RequestCancel
<1> HIDE DEF jobs
<1>2. Shrunk(k)
  BY <1>1, ReconciledTwice, SavedShrinks
<1>3. disk' \in {disk, jobs}
  BY <1>1, TheManager, SavedDisk
<1>4. /\ disk[j] # None /\ disk[j] \in Receipt /\ disk[j].revision = rev
      /\ ~disk[j].cancel_requested /\ disk[j].phase \in CancellablePhases
  BY DEF RequestCancel, Current, TypeOK
<1>5. k # j => jobs[k] = disk[k]
  BY DEF jobs, TypeOK
<1>6. jobs[j] = [disk[j] EXCEPT !.revision = disk[j].revision + 1,
                                !.cancel_requested = TRUE]
  BY <1>4 DEF jobs, TypeOK, Receipt
<1>7. QED BY <1>2, <1>3, <1>4, <1>5, <1>6 DEF Overtaken

\* A write of receipt r over job j.
LEMMA StampEffect ==
    ASSUME TypeOK, NEW j \in JobIds, NEW r, NEW k \in JobIds,
           \E gone \in Prunable([disk EXCEPT ![j] = r], j) :
               disk' \in {disk, Without([disk EXCEPT ![j] = r], gone)}
    PROVE  \/ Spared(k)
           \/ k = j /\ disk'[j] = r
           \/ k = j /\ disk'[j] = None /\ Terminal(r)
<1> DEFINE jobs == [disk EXCEPT ![j] = r]
<1>1. PICK gone \in Prunable(jobs, j) : disk' \in {disk, Without(jobs, gone)}
  OBVIOUS
<1>2. jobs[k] = IF k = j THEN r ELSE disk[k]
  BY DEF TypeOK
<1> HIDE DEF jobs
<1>3. \/ Without(jobs, gone)[k] = jobs[k]
      \/ Without(jobs, gone)[k] = None /\ Terminal(jobs[k])
  BY KeptJobs
<1>4. QED BY <1>1, <1>2, <1>3 DEF Spared

LEMMA ClaimEffect ==
    ASSUME TypeOK, NEW j \in JobIds, NEW rev, NEW cleaned,
           Claim(Ha, j, rev, cleaned), NEW k \in JobIds
    PROVE  /\ k # j => Spared(k)
           /\ k # j \/ Terminal(ClaimedReceipt(disk[j])) => Shrunk(k)
           /\ \/ disk'[j] = disk[j]
              \/ disk'[j] = ClaimedReceipt(disk[j])
              \/ disk'[j] = None /\ Terminal(ClaimedReceipt(disk[j]))
<1> DEFINE r == ClaimedReceipt(disk[j])
           jobs == [disk EXCEPT ![j] = r]
           left(kept) == Reconciled(Reconciled(claimed[Ha], disk), kept)
<1>1. PICK gone \in Prunable(jobs, j) :
        LET kept == Without(jobs, gone) IN
        Saved(Ha, kept, IF Terminal(r) THEN left(kept)
                        ELSE [left(kept) EXCEPT ![j] = r.generation])
  BY DEF Claim
<1>2. disk' \in {disk, Without(jobs, gone)}
  BY <1>1, TheManager, SavedDisk
<1>3. Active(disk[j])
  BY DEF Claim, Claimable
<1> HIDE DEF r
<1>4. \A i \in JobIds : \/ Spared(i)
                        \/ i = j /\ disk'[j] = r
                        \/ i = j /\ disk'[j] = None /\ Terminal(r)
  BY <1>2, StampEffect
<1> DEFINE kept == Without(jobs, gone)
<1> HIDE DEF jobs
<1>5. ASSUME k # j \/ Terminal(r) PROVE Shrunk(k)
  <2>1. left(kept)[k] \in {claimed[Ha][k], None}
    BY ReconciledTwice
  <2>2. left(kept) = [i \in JobIds |-> left(kept)[i]]
    BY DEF Reconciled
  <2>3. \/ Saved(Ha, kept, left(kept))
        \/ /\ ~Terminal(r)
           /\ Saved(Ha, kept, [left(kept) EXCEPT ![j] = r.generation])
    BY <1>1
  <2> HIDE DEF left, kept
  <2>4. k # j => [left(kept) EXCEPT ![j] = r.generation][k] = left(kept)[k]
    BY <2>2
  <2>5. QED BY <1>5, <2>1, <2>3, <2>4, SavedShrinks
<1>6. QED BY <1>3, <1>4, <1>5 DEF r, Spared, Active, Terminal

LEMMA TransitionEffect ==
    ASSUME TypeOK, NEW j \in JobIds, NEW rev, NEW ph, NEW root, NEW result, NEW entry,
           Transition(Ha, j, rev, ph, root, result, entry), NEW k \in JobIds
    PROVE  LET r == MovedReceipt(disk[j], ph, root, result, entry) IN
           /\ Shrunk(k)
           /\ k # j => Spared(k)
           /\ \/ disk'[j] = disk[j] \/ disk'[j] = r
              \/ disk'[j] = None /\ Terminal(r)
<1> DEFINE r == MovedReceipt(disk[j], ph, root, result, entry)
           jobs == [disk EXCEPT ![j] = r]
<1>1. PICK gone \in Prunable(jobs, j) :
        LET kept == Without(jobs, gone) IN
        Saved(Ha, kept, Reconciled(Reconciled(claimed[Ha], disk), kept))
  BY DEF Transition, Stamped
<1>2. disk' \in {disk, Without(jobs, gone)}
  BY <1>1, TheManager, SavedDisk
<1>3. Shrunk(k)
  BY <1>1, ReconciledTwice, SavedShrinks
<1>4. disk[j].phase \notin TerminalPhases /\ disk[j] # None
  BY FinishedIsFinal DEF Transition, Admitted, Current
<1> HIDE DEF r
<1>5. \A i \in JobIds : \/ Spared(i)
                        \/ i = j /\ disk'[j] = r
                        \/ i = j /\ disk'[j] = None /\ Terminal(r)
  BY <1>2, StampEffect
<1>6. QED BY <1>3, <1>4, <1>5 DEF r, Spared, Terminal

\* ------------------------------------------------------------------------
\* Jobs that a step is not about.

Standing == ExecInv /\ IInv /\ WorkInv

Born(j) ==
    /\ disk[j] = None /\ j \notin used
    /\ \E p \in Plans : disk'[j] = NewReceipt(p)

\* Others may overtake, quarantine, finalize or forget a receipt, remove files
\* and let go of claims.
Elsewhere(j) ==
    /\ task'[j] = task[j] /\ asked'[j] = asked[j] /\ cmd'[j] = cmd[j]
    /\ j \in poisoned' <=> j \in poisoned
    /\ up => up'
    /\ used \subseteq used'
    /\ LiesOn(j)' \subseteq LiesOn(j)
    /\ custody'[j] \in {custody[j], "none"}
    /\ \/ Born(j)
       \/ /\ Meanwhile(disk[j], disk'[j])
          /\ disk[j] # None /\ disk[j].phase \in AmbiguousPhases
                 /\ disk'[j] # disk[j] /\ disk'[j] # None
                 /\ ~Overtaken(disk'[j], disk[j])
             => custody'[j] = "none"
    /\ Grasped(disk'[j], claimed'[Ha][j]) => Grasped(disk[j], claimed[Ha][j])

LEMMA SentStays ==
    ASSUME NEW d \in Receipt \cup {None}, NEW a, NEW c, NEW l, NEW f, NEW m,
           Sent(d, a, c, l), Meanwhile(d, f), m \subseteq l
    PROVE  Sent(f, a, c, m)
<1>1. f # None => d # None /\ f.plan = d.plan
  <2>1. CASE f = d \/ f = None
    BY <2>1
  <2>2. CASE d # None /\ Overtaken(f, d)
    BY <2>2, OvertakenFields
  <2>3. QED BY <2>1, <2>2 DEF Meanwhile, Terminal
<1>2. SlotFree(c, l) => SlotFree(c, m)
  BY DEF SlotFree
<1>3. QED BY <1>1, <1>2 DEF Sent

\* What is known of a job, with its types.
LEMMA JobFacts ==
    ASSUME Standing, NEW j \in JobIds
    PROVE  /\ disk[j] \in Receipt \cup {None} /\ JobInv(j)
           /\ task[j] # None => task[j] \in Worker /\ task[j].seen \in Receipt
           /\ j \notin used => disk[j] = None /\ task[j] = None
<1>1. disk[j] \in Receipt \cup {None} /\ JobInv(j) /\ j \in Tasks
  BY DEF Standing, ExecInv, ExecTypeOK, TypeOK, WorkInv, Tasks
<1>2. QED BY <1>1, AtWorker DEF Standing, ExecInv, UsedInv, JobInv

LEMMA Bystander ==
    ASSUME Standing, NEW j \in JobIds, Elsewhere(j)
    PROVE  JobInv(j)'
<1> DEFINE w == task[j]
           d == disk[j]
           f == disk'[j]
           a == asked[j]
           c == cmd[j]
           l == LiesOn(j)
           m == LiesOn(j)'
           e == custody[j]
           g == custody'[j]
<1>1. d \in Receipt \cup {None} /\ JobInv(j) /\ (w # None => w.seen \in Receipt)
  BY JobFacts
<1>2. CASE Born(j)
  <2>1. /\ w = None /\ j \notin poisoned /\ a = {} /\ e = "none"
        /\ d = None /\ j \notin used /\ g = "none"
    BY <1>1, <1>2 DEF JobInv, Elsewhere, Born
  <2>2. c = None /\ l = {} /\ m = {}
    BY <1>1, <2>1 DEF JobInv, Sent, Elsewhere
  <2>3. f.phase = "approved"
    BY <1>2 DEF Born, NewReceipt
  <2>4. "approved" \notin FreePhases \cup AmbiguousPhases \cup {"installed"}
    BY DEF FreePhases, AmbiguousPhases
  <2>5. Says(f, a, c, m, g) /\ Sent(f, a, c, m) /\ ~Grasped(f, claimed'[Ha][j])
    BY <2>1, <2>2, <2>3, <2>4 DEF Says, Sent, Grasped
  <2>6. QED
    BY <2>1, <2>2, <2>5 DEF JobInv, Elsewhere
<1>3. CASE Meanwhile(d, f) /\ ~Born(j)
  <2>1. /\ task'[j] = w /\ asked'[j] = a /\ cmd'[j] = c /\ m \subseteq l
        /\ g \in {e, "none"}
        /\ d # None /\ d.phase \in AmbiguousPhases /\ f # d /\ f # None
               /\ ~Overtaken(f, d) => g = "none"
    BY <1>3 DEF Elsewhere
  <2>2. /\ Says(d, a, c, l, e) /\ Sent(d, a, c, l)
        /\ w # None => Fits(j, w, d, a, c, l, e)
    BY <1>1 DEF JobInv
  <2>3. /\ up => up'
        /\ used \subseteq used'
        /\ j \in poisoned' <=> j \in poisoned
        /\ Grasped(f, claimed'[Ha][j]) => Grasped(d, claimed[Ha][j])
    BY DEF Elsewhere
  <2>4. /\ w # None => (c # None => c.panel = w.seen.plan.serial)
        /\ w # None \/ j \in poisoned => up /\ j \in used
        /\ ~(w # None /\ j \in poisoned)
        /\ j \notin used => a = {} /\ e = "none"
        /\ Grasped(d, claimed[Ha][j]) =>
               (w # None /\ w.pc \notin Claiming) \/ j \in poisoned
    BY <1>1 DEF JobInv, Past
  <2> HIDE DEF w, d, f, a, c, l, m, e, g
  <2>5. SlotFree(c, l) => SlotFree(c, m)
    BY <2>1 DEF SlotFree
  <2>6. Says(f, a, c, m, g)
    BY <1>1, <1>3, <2>1, <2>2, <2>5, SaysStays
  <2>7. Sent(f, a, c, m)
    BY <1>1, <1>3, <2>1, <2>2, SentStays
  <2>8. w # None => Fits(j, w, f, a, c, m, g)
    BY <1>1, <1>3, <2>1, <2>2, <2>5, FitsStays
  <2>9. QED
    BY <2>1, <2>3, <2>4, <2>6, <2>7, <2>8
       DEF JobInv, Past, w, d, f, a, c, l, m, e, g
<1>4. QED BY <1>2, <1>3 DEF Elsewhere

\* The part of Elsewhere that is not about the receipt.
Around(j) ==
    /\ task'[j] = task[j] /\ asked'[j] = asked[j] /\ cmd'[j] = cmd[j]
    /\ j \in poisoned' <=> j \in poisoned
    /\ up => up'
    /\ used \subseteq used'
    /\ LiesOn(j)' \subseteq LiesOn(j)
    /\ custody'[j] \in {custody[j], "none"}

\* Whoever holds the claim after a step held it before.
LEMMA GraspedBefore ==
    ASSUME NEW d \in Receipt \cup {None}, NEW f, NEW k, NEW h, h \in {k, None},
           f = d \/ (d # None /\ Overtaken(f, d)) \/ ~Active(f),
           Grasped(f, h)
    PROVE  Grasped(d, k)
<1>1. f # None /\ Active(f) /\ f.phase \in AmbiguousPhases /\ h = f.generation
  BY DEF Grasped, Active
<1>2. Active(d) /\ d.phase = f.phase /\ f.generation = d.generation /\ d \in Receipt
  <2>1. CASE f = d
    BY <1>1, <2>1 DEF Active
  <2>2. CASE d # None /\ Overtaken(f, d)
    <3>1. d \in Receipt /\ f.phase = d.phase /\ f.generation = d.generation
      BY <2>2, OvertakenFields
    <3>2. QED BY <1>1, <2>2, <3>1 DEF Active
  <2>3. QED BY <1>1, <2>1, <2>2
<1>3. d.generation \in Nat
  BY <1>2 DEF Receipt
<1>4. QED BY <1>1, <1>2, <1>3, NoneAssumption DEF Grasped

LEMMA SparedElsewhere ==
    ASSUME Standing, NEW k \in JobIds, Spared(k), Shrunk(k), Around(k)
    PROVE  Elsewhere(k)
<1>1. disk[k] \in Receipt \cup {None}
  BY JobFacts
<1>2. Meanwhile(disk[k], disk'[k]) /\ disk'[k] \in {disk[k], None}
  BY DEF Spared, Meanwhile
<1>3. Grasped(disk'[k], claimed'[Ha][k]) => Grasped(disk[k], claimed[Ha][k])
  BY <1>1, <1>2, GraspedBefore DEF Shrunk, Active
<1>4. QED BY <1>2, <1>3 DEF Elsewhere, Around

\* What an outside call leaves alone.
LEMMA OutsideAround ==
    ASSUME Standing, NEW k \in JobIds, used \subseteq used',
           UNCHANGED <<up, task, poisoned, custody, world>>
    PROVE  Around(k)
<1>1. LiesOn(k)' = LiesOn(k)
  BY DEF LiesOn, world
<1>2. QED BY <1>1 DEF Around, world

LEMMA FlowsElsewhere ==
    ASSUME Standing, NEW k \in JobIds,
           \/ FlowFails
           \/ \E j \in JobIds :
                  \/ \E p \in Plans : FlowCreates(j, p)
                  \/ \E rev \in 0 .. MaxRevision :
                         FlowCancels(j, rev) \/ FlowFinalizes(j, rev)
    PROVE  Elsewhere(k)
<1>1. TypeOK /\ disk[k] \in Receipt \cup {None}
  BY JobFacts DEF Standing, ExecInv, ExecTypeOK
<1>2. CASE FlowFails
  <2>1. Fault(Ha) /\ Around(k)
    BY <1>2, OutsideAround DEF FlowFails, Outside, Fault
  <2>2. Spared(k) /\ Shrunk(k)
    BY <1>1, <2>1, StillEffect DEF Spared
  <2>3. QED BY <2>1, <2>2, SparedElsewhere
<1>3. ASSUME NEW j \in JobIds, NEW p \in Plans, FlowCreates(j, p)
      PROVE  Elsewhere(k)
  <2>1. Create(Ha, j, p) /\ Around(k)
    BY <1>3, OutsideAround DEF FlowCreates, Outside, Create
  <2>2. /\ Shrunk(k)
        /\ \/ Spared(k)
           \/ k = j /\ j \notin used /\ disk'[j] = NewReceipt(p)
    BY <1>1, <2>1, CreateEffect
  <2>3. CASE k = j /\ j \notin used /\ disk'[j] = NewReceipt(p)
    <3>1. Born(k)
      BY <2>3, JobFacts DEF Born
    <3>2. disk'[k].phase = "approved" /\ "approved" \notin AmbiguousPhases
      BY <2>3 DEF NewReceipt, AmbiguousPhases
    <3>3. QED BY <2>1, <3>1, <3>2 DEF Elsewhere, Around, Grasped
  <2>4. QED BY <2>1, <2>2, <2>3, SparedElsewhere
<1>4. ASSUME NEW j \in JobIds, NEW rev, FlowCancels(j, rev)
      PROVE  Elsewhere(k)
  <2>1. RequestCancel(Ha, j, rev) /\ Around(k)
    BY <1>4, OutsideAround DEF FlowCancels, Outside, RequestCancel
  <2>2. /\ Shrunk(k)
        /\ \/ disk'[k] = disk[k]
           \/ disk[k] # None /\ Overtaken(disk'[k], disk[k])
    BY <1>1, <2>1, CancelEffect
  <2>3. Grasped(disk'[k], claimed'[Ha][k]) => Grasped(disk[k], claimed[Ha][k])
    BY <1>1, <2>2, GraspedBefore DEF Shrunk
  <2>4. QED BY <2>1, <2>2, <2>3 DEF Elsewhere, Around, Meanwhile
<1>5. ASSUME NEW j \in JobIds, NEW rev, FlowFinalizes(j, rev)
      PROVE  Elsewhere(k)
  <2>1. PICK ph \in {"consumed", "recovery_required"},
             result \in ResultCodes, entry \in EntryIds \cup {None} :
          Outside(Transition(Ha, j, rev, ph, None, result, entry))
    BY <1>5 DEF FlowFinalizes, ResultCodes, RecoveryCodes
  <2>2. Transition(Ha, j, rev, ph, None, result, entry) /\ Around(k)
    BY <2>1, OutsideAround DEF Outside, Transition
  <2> DEFINE r == MovedReceipt(disk[j], ph, None, result, entry)
  <2>3. /\ disk[j] # None /\ disk[j].phase = "healthy_unclaimed"
        /\ disk[j] \in Receipt
    BY <1>1, <1>5 DEF FlowFinalizes, Current, TypeOK
  <2>4. r.phase = ph /\ r.plan = disk[j].plan /\ r # None
    <3>1. ph \in Phases
      BY DEF Phases, TerminalPhases
    <3>2. MovedAs(r, disk[j], ph, None, result, entry)
      BY <2>3, <3>1, MovedShape
    <3> HIDE DEF r
    <3>3. QED BY <3>2 DEF MovedAs
  <2>5. /\ Shrunk(k) /\ (k # j => Spared(k))
        /\ \/ disk'[j] = disk[j] \/ disk'[j] = r \/ disk'[j] = None
    BY <1>1, <2>2, TransitionEffect
  <2> HIDE DEF r
  <2>6. CASE k # j \/ disk'[j] = disk[j]
    BY <2>2, <2>5, <2>6, SparedElsewhere DEF Spared
  <2>7. CASE k = j /\ disk'[j] # disk[j]
    <3>1. Meanwhile(disk[k], disk'[k])
      BY <2>3, <2>4, <2>5, <2>7 DEF Meanwhile
    <3>2. ~Active(disk'[k])
      BY <2>4, <2>5, <2>7 DEF Active, TerminalPhases
    <3>3. ~Grasped(disk'[k], claimed'[Ha][k])
      BY <3>2 DEF Grasped
    <3>4. disk[k].phase \notin AmbiguousPhases
      BY <2>3, <2>7 DEF AmbiguousPhases
    <3>5. QED BY <2>2, <3>1, <3>3, <3>4 DEF Elsewhere, Around
  <2>8. QED BY <2>6, <2>7
<1>6. QED BY <1>2, <1>3, <1>4, <1>5

\* A new process, a new worker and a new resume read the file, no more.
LEMMA BeginningsElsewhere ==
    ASSUME Standing, NEW k \in JobIds,
           Boot \/ \E j \in JobIds : (Ensure(j) /\ k # j) \/ Resume(j)
    PROVE  Elsewhere(k)
<1>1. Refresh(Ha)
  BY DEF Boot, Ensure, Resume
<1>2. Spared(k) /\ Shrunk(k) /\ used' = used
  BY <1>1, StillEffect DEF Spared, Refresh, Standing, ExecInv, ExecTypeOK
<1>3. k \in Tasks /\ k # Resumer /\ task \in [Tasks -> Worker \cup {None}]
  BY ExecutorAssumption DEF Tasks, Standing, ExecInv, ExecTypeOK
<1>4. UNCHANGED world
  BY DEF Boot, Ensure, Resume
<1>5. LiesOn(k)' = LiesOn(k)
  BY <1>4 DEF LiesOn, world
<1>6. task'[k] = task[k] /\ poisoned' = poisoned
  BY <1>3 DEF Boot, Ensure, Resume, Go
<1>7. up => up'
  BY DEF Boot, Ensure, Resume
<1>8. custody'[k] \in {custody[k], "none"}
  BY DEF Boot, Ensure, Resume, Standing, ExecInv, ExecTypeOK
<1>9. Around(k)
  BY <1>2, <1>4, <1>5, <1>6, <1>7, <1>8 DEF Around, world
<1>10. QED BY <1>2, <1>9, SparedElsewhere

\* ------------------------------------------------------------------------
\* The steps of tasks, for the other jobs.

\* A step of a task, as far as another job is concerned.
LEMMA TaskAround ==
    ASSUME Standing, NEW t \in Tasks, TaskStep(t), NEW k \in JobIds, k # t
    PROVE  /\ task'[k] = task[k] /\ (k \in poisoned' <=> k \in poisoned)
           /\ up' = up /\ used' = used /\ LiesOn(k)' = LiesOn(k)
           /\ k # task[t].job => /\ custody'[k] = custody[k]
                                 /\ asked'[k] = asked[k] /\ cmd'[k] = cmd[k]
<1>1. /\ ExecInv /\ TypeOK /\ k \in Tasks
      /\ task \in [Tasks -> Worker \cup {None}]
      /\ custody \in [JobIds -> {"none", "part", "ready"}]
      /\ cmd \in [JobIds -> Command \cup {None}]
      /\ asked \in [JobIds -> SUBSET Ops]
  BY DEF Standing, ExecInv, ExecTypeOK, Tasks
<1>2. TypeOK'
  <2>1. [ExecNext]_execVars
    BY DEF ExecNext
  <2>2. ExecInv'
    BY <1>1, <2>1, ExecInductive
  <2>3. QED BY <2>2 DEF ExecInv, ExecTypeOK
<1>3. task'[k] = task[k] /\ (k \in poisoned' <=> k \in poisoned)
  <2>1. Moves(t)
    BY <1>1, <1>2, TaskMoves
  <2>2. QED BY <1>1, <2>1 DEF Moves
<1>4. up' = up /\ (k # task[t].job => custody'[k] = custody[k])
  BY <1>1, TaskCustody
<1>5. used' = used
  <2>1. CASE UNCHANGED vars
    BY <2>1 DEF vars
  <2>2. QED
    BY <2>1, TaskKinds
       DEF TaskCall, Refresh, Fault, VerifyBarrier, Claim, Transition
<1>6. /\ panel' = panel
      /\ k # task[t].job => asked'[k] = asked[k] /\ cmd'[k] = cmd[k]
  <2>1. CASE Send(t)
    BY <1>1, <2>1 DEF Send, Think, world
  <2>2. CASE ~Send(t)
    BY <2>2, OnlySendCommands DEF world
  <2>3. QED BY <2>1, <2>2
<1>7. LiesOn(k)' = LiesOn(k)
  BY <1>6 DEF LiesOn
<1>8. QED BY <1>3, <1>4, <1>5, <1>6, <1>7

\* What a task asks of its manager, for the jobs it does not work on.
LEMMA TaskSpares ==
    ASSUME Standing, NEW t \in Tasks, TaskStep(t), NEW k \in JobIds
    PROVE  /\ k # task[t].job => Spared(k) /\ Shrunk(k)
           /\ \/ disk' = disk /\ Shrunk(k)
              \/ \E pc \in {"claim", "confirm", "move", "finish"} : At(t, pc)
<1>1. TypeOK
  BY DEF Standing, ExecInv, ExecTypeOK
<1>2. CASE UNCHANGED vars
  BY <1>2 DEF vars, Spared, Shrunk
<1>3. CASE Refresh(Ha) \/ Fault(Ha) \/ At(t, "barrier")
  <2>1. disk' = disk /\ Shrunk(k)
    <3>1. CASE UNCHANGED vars
      BY <1>2, <3>1 DEF vars, Shrunk
    <3>2. CASE TaskCall(t)
      BY <1>1, <1>3, <3>2, StillEffect DEF TaskCall, At
    <3>3. QED BY <3>1, <3>2, TaskKinds
  <2>2. QED BY <2>1 DEF Spared
<1>4. CASE /\ At(t, "claim") \/ At(t, "confirm")
           /\ \E cleaned :
                  Claim(Ha, task[t].job, task[t].seen.revision, cleaned)
  <2>1. task[t].job \in JobIds
    BY <1>4, AtFacts, AtWorker DEF Standing, At
  <2>2. QED BY <1>1, <1>4, <2>1, ClaimEffect
<1>5. CASE /\ At(t, "move") \/ At(t, "finish")
           /\ Transition(Ha, task[t].job, task[t].seen.revision,
                         task[t].goal.phase, task[t].goal.root,
                         task[t].goal.result, None)
  <2>1. task[t].job \in JobIds
    BY <1>5, AtFacts, AtWorker DEF Standing, At
  <2>2. QED BY <1>1, <1>5, <2>1, TransitionEffect
<1>6. QED BY <1>2, <1>3, <1>4, <1>5, TaskKinds DEF TaskCall

LEMMA WorkerElsewhere ==
    ASSUME Standing, NEW i \in JobIds, TaskStep(i), NEW k \in JobIds, k # i
    PROVE  Elsewhere(k)
<1>1. task[i] # None /\ i \in Tasks
  BY TaskThere DEF Tasks
<1>2. task[i].job = i
  BY <1>1, JobFacts DEF JobInv, Fits
<1>3. Around(k) /\ Spared(k) /\ Shrunk(k)
  BY <1>1, <1>2, TaskAround, TaskSpares DEF Around
<1>4. QED BY <1>3, SparedElsewhere

\* ------------------------------------------------------------------------
\* The resumer: it quarantines what nobody holds, and touches nothing else.

LEMMA ResumerFacts ==
    ASSUME Standing, task[Resumer] # None
    PROVE  LET w == task[Resumer] IN
           /\ Resumer \in Tasks /\ w \in Worker /\ w.seen \in Receipt
           /\ w.job \in JobIds /\ w.job \in used /\ up
           /\ disk[w.job] \in Receipt \cup {None}
           /\ ResumerFits(w, disk[w.job], claimed[Ha][w.job], custody[w.job])
<1>1. Resumer \in Tasks
  BY DEF Tasks
<1>2. task[Resumer].job \in JobIds /\ task[Resumer] \in Worker
        /\ task[Resumer].seen \in Receipt
  BY <1>1, AtWorker DEF Standing
<1>3. QED BY <1>1, <1>2, JobFacts DEF Standing, WorkInv, ResumerInv

\* It never gets past claiming.
LEMMA ResumerClaims ==
    ASSUME Standing, TaskStep(Resumer)
    PROVE  Claims(Resumer) \/ CallFails(Resumer)
<1>1. task[Resumer].pc \in Claiming
  BY TaskThere, ResumerFacts DEF ResumerFits, Tasks
<1>2. ~Works(Resumer)
  BY <1>1 DEF Claiming, Works, At, Looping,
         LoopEnds, Approved, Authorizing, Preflight, Acquire, Fetch, Unpart,
         Downloaded, ArtifactReady, Revalidate, Staging, Installing, Installed,
         Launching, HealthCheck, CancelSeen, DropLocal, Authority, Barrier,
         Send, Answer, DropRefused, CleanFail, DoMove, Recheck, DoFail,
         DoRecover, RecClean, RecGet, Finish
<1>3. QED BY <1>2 DEF TaskStep

\* A claim of its own is a quarantine of a job without local artifact.
LEMMA ResumerQuarantines ==
    ASSUME Standing, task[Resumer] # None, NEW j, j = task[Resumer].job,
           \/ /\ At(Resumer, "claim")
              /\ Claim(Ha, j, task[Resumer].seen.revision, FALSE)
           \/ /\ At(Resumer, "confirm")
              /\ Claim(Ha, j, task[Resumer].seen.revision, TRUE)
    PROVE  /\ At(Resumer, "confirm") /\ custody[j] = "none"
           /\ Meanwhile(disk[j], disk'[j])
           /\ disk'[j] = disk[j] \/ ~Active(disk'[j])
           /\ disk[j] # None /\ Active(disk[j])
           /\ Shrunk(j)
<1> DEFINE w == task[Resumer]
           d == disk[j]
<1>1. /\ j \in JobIds /\ ResumerFits(w, d, claimed[Ha][j], custody[j])
      /\ d \in Receipt \cup {None}
  BY ResumerFacts
<1>2. /\ d # None /\ d.revision = w.seen.revision /\ Active(d)
  BY DEF Claim, Current, Claimable
<1>3. d = w.seen /\ d \in Receipt
  BY <1>1, <1>2 DEF ResumerFits
<1>4. d.phase \in AmbiguousPhases
  BY <1>1, <1>2, <1>3 DEF ResumerFits, Orphaned, At
<1> DEFINE r == ClaimedReceipt(d)
<1>5. /\ r # None /\ r.phase = "recovery_required" /\ r.plan = d.plan
  BY <1>3, <1>4, ClaimedShape
<1>6. Terminal(r)
  BY <1>5 DEF Terminal, TerminalPhases
<1>7. At(Resumer, "confirm")
  BY <1>6 DEF Claim
<1>8. custody[j] = "none"
  BY <1>1, <1>2, <1>7 DEF ResumerFits, Emptied, At
<1>9. disk'[j] \in {d, r, None} /\ Shrunk(j)
  <2>1. PICK cleaned : Claim(Ha, j, w.seen.revision, cleaned)
    OBVIOUS
  <2>2. TypeOK
    BY DEF Standing, ExecInv, ExecTypeOK
  <2>3. QED BY <1>1, <1>6, <2>1, <2>2, ClaimEffect
<1> HIDE DEF r
<1>10. Meanwhile(d, disk'[j])
  BY <1>2, <1>4, <1>5, <1>9 DEF Meanwhile
<1>11. disk'[j] = d \/ ~Active(disk'[j])
  BY <1>5, <1>6, <1>9 DEF Active, Terminal
<1>12. QED BY <1>2, <1>7, <1>8, <1>9, <1>10, <1>11

LEMMA ResumerElsewhere ==
    ASSUME Standing, TaskStep(Resumer), NEW k \in JobIds
    PROVE  Elsewhere(k)
<1> DEFINE w == task[Resumer]
           j == w.job
<1>1. /\ w # None /\ Resumer \in Tasks /\ k # Resumer
      /\ Claims(Resumer) \/ CallFails(Resumer)
  BY TaskThere, ResumerClaims, ExecutorAssumption DEF Tasks
<1>2. ~Send(Resumer) /\ UNCHANGED world
  <2>1. ~Send(Resumer)
    BY <1>1 DEF Send, Claims, CallFails, At, Begin, AskFirst, Reget, Reclean,
           Confirm, Calling
  <2>2. QED BY <1>1, <2>1, OnlySendCommands
<1>3. custody'[k] \in {custody[k], "none"}
  <2>1. custody \in [JobIds -> {"none", "part", "ready"}]
    BY DEF Standing, ExecInv, ExecTypeOK
  <2>2. CASE Reclean(Resumer)
    BY <2>1, <2>2 DEF Reclean, CleanLocal
  <2>3. CASE ~Reclean(Resumer)
    BY <1>1, <2>3 DEF Claims, Begin, AskFirst, Reget, Confirm, CallFails, Get,
           AskClaim, Await
  <2>4. QED BY <2>2, <2>3
<1>4. Around(k)
  BY <1>1, <1>2, <1>3, TaskAround DEF Around, world
<1>5. CASE k # j
  BY <1>1, <1>4, <1>5, TaskSpares, SparedElsewhere
<1>6. CASE disk' = disk /\ Shrunk(k)
  BY <1>4, <1>6, SparedElsewhere DEF Spared
<1>7. CASE k = j /\ ~(disk' = disk /\ Shrunk(k))
  <2>1. /\ \/ At(Resumer, "claim") /\ Claim(Ha, j, w.seen.revision, FALSE)
           \/ At(Resumer, "confirm") /\ Claim(Ha, j, w.seen.revision, TRUE)
    <3>1. w.pc \in Claiming
      BY <1>1, ResumerFacts DEF ResumerFits
    <3>2. At(Resumer, "claim") \/ At(Resumer, "confirm")
      BY <1>1, <1>7, <3>1, TaskSpares DEF At, Claiming
    <3>3. TaskCall(Resumer)
      BY <1>1, <1>7, TaskKinds DEF vars, Shrunk, Authority, Quiet, Claims, Claiming, At
    <3>4. ~(Refresh(Ha) \/ Fault(Ha))
      <4>1. TypeOK
        BY DEF Standing, ExecInv, ExecTypeOK
      <4>2. QED BY <1>7, <4>1, StillEffect
    <3>5. QED BY <3>2, <3>3, <3>4 DEF TaskCall, At
  <2>2. /\ custody[k] = "none" /\ Meanwhile(disk[k], disk'[k])
        /\ disk'[k] = disk[k] \/ ~Active(disk'[k])
        /\ disk[k] # None /\ Active(disk[k]) /\ Shrunk(k)
    BY <1>1, <1>7, <2>1, ResumerQuarantines
  <2>3. custody'[k] = "none"
    BY <1>3, <2>2
  <2>4. Grasped(disk'[k], claimed'[Ha][k]) => Grasped(disk[k], claimed[Ha][k])
    <3>1. CASE ~Active(disk'[k])
      BY <3>1 DEF Grasped
    <3>2. CASE disk'[k] = disk[k]
      BY <2>2, <3>2, JobFacts, GraspedBefore DEF Shrunk
    <3>3. QED BY <2>2, <3>1, <3>2
  <2>5. QED BY <1>4, <2>2, <2>3, <2>4 DEF Elsewhere, Around
<1>8. QED BY <1>5, <1>6, <1>7

\* ------------------------------------------------------------------------
\* The resumer, while others act.

LEMMA EarlyIsLeft ==
    ASSUME TypeOK, NEW k \in JobIds, JobStep(k), disk[k] # None, ~Early(disk[k])
    PROVE  ~Early(disk'[k])
<1>1. disk[k] \in Receipt
  BY DEF TypeOK
<1>2. CASE Unchanged(k) \/ Forgotten(k)
  BY <1>2 DEF Unchanged, Forgotten, Early
<1>3. CASE CancelMarked(k)
  <2>1. disk'[k].phase = disk[k].phase
    BY <1>1, <1>3, MarkedShape DEF CancelMarked
  <2>2. QED BY <2>1 DEF Early
<1>4. CASE Reclaimed(k)
  <2>1. disk'[k].phase \in {disk[k].phase, "recovery_required"}
    BY <1>1, <1>4, ClaimedShape DEF Reclaimed
  <2>2. QED BY <2>1, PhaseFacts DEF Early
<1>5. CASE Moved(k)
  <2>1. PICK ph \in Phases, root \in RootModes \cup {None},
             result \in ResultCodes \cup {None}, entry \in EntryIds \cup {None} :
          /\ NextPhase(disk[k].phase, ph)
          /\ disk'[k] = MovedReceipt(disk[k], ph, root, result, entry)
    BY <1>5 DEF Moved
  <2>2. disk'[k].phase = ph
    BY <1>1, <2>1, MovedShape DEF MovedAs
  <2>3. ph \in EarlyPhases => disk[k].phase \in EarlyPhases
    BY <2>1 DEF NextPhase, Forward, EarlyPhases, CancellablePhases
  <2>4. QED BY <2>2, <2>3 DEF Early
<1>6. QED BY <1>2, <1>3, <1>4, <1>5 DEF JobStep, Created

\* A job that nobody holds is not moved on.
LEMMA UnheldMoves ==
    ASSUME TypeOK, UsedInv, Next, NEW k \in JobIds, disk[k] # None,
           disk[k].phase # "healthy_unclaimed",
           claimed[Ha][k] # disk[k].generation
    PROVE  \/ disk'[k] = disk[k] \/ disk'[k] = None
           \/ Overtaken(disk'[k], disk[k])
           \/ disk'[k] = ClaimedReceipt(disk[k])
<1>1. \/ Refresh(Ha) \/ Fault(Ha) \/ Restart(Ha)
      \/ \E j \in JobIds, p \in Plans : Create(Ha, j, p)
      \/ \E j \in JobIds : JobCall(Ha, j) \/ BarrierCall(Ha, j)
  BY TheManager DEF Next
<1>2. CASE \/ Refresh(Ha) \/ Fault(Ha) \/ Restart(Ha)
           \/ \E j \in JobIds : BarrierCall(Ha, j)
  BY <1>2, StillEffect DEF BarrierCall
<1>3. ASSUME NEW j \in JobIds, NEW p \in Plans, Create(Ha, j, p)
      PROVE  disk'[k] = disk[k] \/ disk'[k] = None
  <2>1. k \in used
    BY DEF UsedInv
  <2>2. QED BY <1>3, <2>1, CreateEffect DEF Spared
<1>4. ASSUME NEW j \in JobIds, NEW rev, RequestCancel(Ha, j, rev)
      PROVE  disk'[k] = disk[k] \/ Overtaken(disk'[k], disk[k])
  BY <1>4, CancelEffect
<1>5. ASSUME NEW j \in JobIds, NEW rev, NEW cleaned, Claim(Ha, j, rev, cleaned)
      PROVE  disk'[k] \in {disk[k], None, ClaimedReceipt(disk[k])}
  BY <1>5, ClaimEffect DEF Spared
<1>6. ASSUME NEW j \in JobIds, NEW rev, NEW ph, NEW root, NEW result, NEW entry,
             Transition(Ha, j, rev, ph, root, result, entry)
      PROVE  disk'[k] \in {disk[k], None}
  <2>1. k # j
    BY <1>6 DEF Transition, Admitted
  <2>2. QED BY <1>6, <2>1, TransitionEffect DEF Spared
<1>7. QED BY <1>1, <1>2, <1>3, <1>4, <1>5, <1>6 DEF JobCall

LEMMA OrphanStays ==
    ASSUME Standing, Next, NEW k \in JobIds, disk[k] # None,
           Orphaned(disk[k], claimed[Ha][k])
    PROVE  Orphaned(disk'[k], claimed'[Ha][k])
<1>1. TypeOK /\ UsedInv /\ IInv /\ disk[k] \in Receipt
  BY DEF Standing, ExecInv, ExecTypeOK, TypeOK
<1> SUFFICES ASSUME Active(disk'[k])
             PROVE  /\ disk'[k].phase \in AmbiguousPhases
                    /\ claimed'[Ha][k] # disk'[k].generation
  BY DEF Orphaned
<1>2. Active(disk[k])
  BY <1>1, StaysActive
<1>3. disk[k].phase \in AmbiguousPhases /\ claimed[Ha][k] # disk[k].generation
  BY <1>2 DEF Orphaned
<1>4. \/ disk'[k] = disk[k] \/ disk'[k] = None
      \/ Overtaken(disk'[k], disk[k])
      \/ disk'[k] = ClaimedReceipt(disk[k])
  BY <1>1, <1>3, UnheldMoves DEF AmbiguousPhases
<1>5. disk'[k] # ClaimedReceipt(disk[k])
  <2>1. ClaimedReceipt(disk[k]).phase = "recovery_required"
    BY <1>1, <1>3, ClaimedShape
  <2>2. QED BY <2>1 DEF Active, TerminalPhases
<1>6. /\ disk'[k].phase = disk[k].phase
      /\ disk'[k].generation = disk[k].generation
  BY <1>1, <1>4, <1>5, OvertakenFields DEF Active
<1>7. disk[k].generation \in Nat
  BY <1>1 DEF Receipt
<1>8. claimed'[Ha][k] \in {claimed[Ha][k], None}
  <2>1. PICK m \in Managers :
          \/ Invalidated(m)
          \/ \E claims \in [JobIds -> Nat \cup {None}] : Remembers(m, claims)
    BY <1>1, NextIsMemoryStep
  <2>2. m = Ha
    BY TheManager
  <2>3. CASE Invalidated(m)
    BY <1>1, <2>2, <2>3, ClaimsOf
  <2>4. ASSUME NEW claims \in [JobIds -> Nat \cup {None}], Remembers(m, claims)
        PROVE  claimed'[Ha][k] \in {claimed[Ha][k], None}
    <3>1. ~Renewed(k)
      BY <1>6, <1>7 DEF Renewed
    <3>2. claims[k] \in {claimed[Ha][k], None}
      BY <2>2, <2>4, <3>1 DEF Remembers
    <3>3. claimed'[Ha][k] = claims[k]
      BY <1>1, <2>2, <2>4, ClaimsOf DEF Remembers
    <3>4. QED BY <3>2, <3>3
  <2>5. QED BY <2>1, <2>3, <2>4
<1>9. QED BY <1>3, <1>6, <1>7, <1>8, NoneAssumption

LEMMA ResumerStays ==
    ASSUME Standing, Next \/ UNCHANGED vars,
           task'[Resumer] = task[Resumer], up => up',
           NEW j, task[Resumer] # None => j = task[Resumer].job,
           task[Resumer] # None => custody'[j] \in {custody[j], "none"}
    PROVE  ResumerInv'
<1> SUFFICES ASSUME task[Resumer] # None
             PROVE  /\ up' /\ j \in used'
                    /\ ResumerFits(task[Resumer], disk'[j], claimed'[Ha][j],
                                   custody'[j])
  BY DEF ResumerInv
<1> DEFINE w == task[Resumer]
           d == disk[j]
           f == disk'[j]
<1>1. /\ w.seen \in Receipt /\ j \in JobIds /\ j \in used /\ up
      /\ d \in Receipt \cup {None}
      /\ ResumerFits(w, d, claimed[Ha][j], custody[j])
  BY ResumerFacts
<1>2. CASE UNCHANGED vars
  BY <1>1, <1>2 DEF vars, ResumerFits, Emptied
<1>3. CASE Next
  <2>1. TypeOK /\ UsedInv /\ IInv
    BY DEF Standing, ExecInv, ExecTypeOK
  <2>2. JobStep(j) /\ used \subseteq used'
    BY <1>1, <1>3, <2>1, NextIsJobStep, NextDocument
  <2>3. f # None => d # None
    BY <1>1, <2>2
       DEF JobStep, Unchanged, Forgotten, Created, CancelMarked, Reclaimed,
           Moved, Active
  <2>4. f # None => f = d \/ f.revision = d.revision + 1
    BY <1>1, <2>1, <2>2, <2>3, StepAdvances DEF Advanced
  <2>5. d # None => d.revision \in Nat /\ w.seen.revision \in Nat
    BY <1>1 DEF Receipt
  <2>6. f # None => /\ f.revision >= w.seen.revision
                    /\ f.revision = w.seen.revision => f = w.seen
                    /\ ~Early(f)
    <3>1. d # None /\ ~Early(d) => ~Early(f)
      BY <1>1, <2>1, <2>2, EarlyIsLeft
    <3>2. d # None => /\ d.revision >= w.seen.revision
                      /\ d.revision = w.seen.revision => d = w.seen
                      /\ ~Early(d)
      BY <1>1 DEF ResumerFits
    <3>3. QED BY <2>3, <2>4, <2>5, <3>1, <3>2
  <2>7. w.pc \in {"reget", "reclean", "confirm"} => Orphaned(f, claimed'[Ha][j])
    <3>1. CASE f = None
      BY <3>1 DEF Orphaned, Active
    <3>2. CASE f # None
      BY <1>1, <1>3, <2>3, <3>2, OrphanStays DEF ResumerFits
    <3>3. QED BY <3>1, <3>2
  <2>8. w.pc = "confirm" => Emptied(f, custody'[j])
    BY <1>1, <2>3 DEF ResumerFits, Emptied
  <2>9. QED BY <1>1, <2>2, <2>6, <2>7, <2>8 DEF ResumerFits
<1>4. QED BY <1>2, <1>3

\* Where the resumer is after a step of its own.
LEMMA ResumerMoves ==
    ASSUME Standing, TaskStep(Resumer), task'[Resumer] # None,
           NEW w, w = task[Resumer], NEW u, u = task'[Resumer],
           NEW j, j = w.job, NEW d, d = disk[j]
    PROVE  /\ u.job = j /\ disk' = disk
           /\ \/ /\ u.pc = "claim" /\ u.seen = d /\ d # None
                 /\ d.phase \in AmbiguousPhases
              \/ u.pc = "begin" /\ u.seen = w.seen
              \/ /\ w.pc = "claim" /\ u.pc = "reget" /\ u.seen = w.seen
                 /\ d # None => d.revision = w.seen.revision
                 /\ claimed[Ha][j] # d.generation
              \/ /\ w.pc = "reget" /\ u.pc = "reclean" /\ u.seen = d /\ d # None
              \/ /\ w.pc = "reclean" /\ u.pc = "confirm" /\ u.seen = w.seen
                 /\ custody'[j] = "none" /\ claimed' = claimed
<1>1. /\ w # None /\ Resumer \in Tasks /\ w \in Worker /\ j \in JobIds
      /\ d \in Receipt \cup {None}
      /\ Claims(Resumer) \/ CallFails(Resumer)
      /\ task \in [Tasks -> Worker \cup {None}]
      /\ custody \in [JobIds -> {"none", "part", "ready"}]
  BY TaskThere, ResumerFacts, ResumerClaims
     DEF Tasks, Standing, ExecInv, ExecTypeOK
<1>2. ~End(Resumer, TRUE) /\ ~End(Resumer, FALSE)
  BY <1>1 DEF End
<1>3. \A v : Go(Resumer, v) => u = v
  BY <1>1 DEF Go
<1>4. CASE Begin(Resumer)
  <2>1. /\ Refresh(Ha) /\ d # None /\ d.phase \in AmbiguousPhases
        /\ Go(Resumer, [w EXCEPT !.pc = "claim", !.seen = d])
    BY <1>2, <1>4 DEF Begin, Get, Await, Fresh
  <2>2. u = [w EXCEPT !.pc = "claim", !.seen = d]
    BY <1>3, <2>1
  <2>3. u.job = j /\ u.pc = "claim" /\ u.seen = d
    BY <1>1, <2>2 DEF Worker
  <2>4. QED BY <2>1, <2>3 DEF Refresh
<1>5. CASE Reget(Resumer)
  <2>1. /\ Refresh(Ha) /\ d # None /\ w.pc = "reget"
        /\ Go(Resumer, [w EXCEPT !.pc = "reclean", !.seen = d])
    BY <1>2, <1>5 DEF Reget, Get, Await, Fresh, At
  <2>2. u = [w EXCEPT !.pc = "reclean", !.seen = d]
    BY <1>3, <2>1
  <2>3. u.job = j /\ u.pc = "reclean" /\ u.seen = d
    BY <1>1, <2>2 DEF Worker
  <2>4. QED BY <2>1, <2>3 DEF Refresh
<1>6. CASE Reclean(Resumer)
  <2>1. /\ To(Resumer, "confirm") /\ w.pc = "reclean" /\ UNCHANGED vars
        /\ custody' = [custody EXCEPT ![j] = "none"]
    BY <1>2, <1>6 DEF Reclean, CleanLocal, At
  <2>2. u = [w EXCEPT !.pc = "confirm"]
    BY <1>3, <2>1 DEF To
  <2>3. u.job = j /\ u.pc = "confirm" /\ u.seen = w.seen
    BY <1>1, <2>2 DEF Worker
  <2>4. custody'[j] = "none"
    BY <1>1, <2>1
  <2>5. QED BY <2>1, <2>3, <2>4 DEF vars
<1>7. CASE AskFirst(Resumer) \/ Confirm(Resumer)
  <2>1. \A r : ~Claimed(Resumer, r)
    BY <1>2 DEF Claimed
  <2>2. PICK cleaned \in BOOLEAN :
          /\ AskClaim(Resumer, cleaned)
          /\ ~cleaned => w.pc = "claim"
    BY <1>7 DEF AskFirst, Confirm, At
  <2>3. CASE ClaimLost(Resumer)
    <3>1. Go(Resumer, [w EXCEPT !.pc = "begin", !.retried = TRUE])
      BY <1>2, <2>3 DEF ClaimLost
    <3>2. u = [w EXCEPT !.pc = "begin", !.retried = TRUE]
      BY <1>3, <3>1
    <3>3. u.job = j /\ u.pc = "begin" /\ u.seen = w.seen
      BY <1>1, <3>2 DEF Worker
    <3>4. QED BY <1>2, <2>1, <2>2, <3>3 DEF AskClaim, Await, Refresh
  <2>4. CASE ~ClaimLost(Resumer)
    <3>1. /\ Current(disk, j, w.seen.revision) /\ ~Held(j) /\ ~cleaned
          /\ Refresh(Ha) /\ To(Resumer, "reget")
      BY <1>2, <2>1, <2>2, <2>4 DEF AskClaim, Await
    <3>2. u = [w EXCEPT !.pc = "reget"]
      BY <1>3, <3>1 DEF To
    <3>3. u.job = j /\ u.pc = "reget" /\ u.seen = w.seen
      BY <1>1, <3>2 DEF Worker
    <3>4. QED BY <2>2, <3>1, <3>3 DEF Refresh, Current, Held
  <2>5. QED BY <2>3, <2>4
<1>8. CASE CallFails(Resumer)
  BY <1>2, <1>8 DEF CallFails
<1>9. QED BY <1>1, <1>4, <1>5, <1>6, <1>7, <1>8 DEF Claims

LEMMA ResumerOwn ==
    ASSUME Standing, TaskStep(Resumer)
    PROVE  ResumerInv'
<1> SUFFICES ASSUME task'[Resumer] # None
             PROVE  LET u == task'[Resumer]
                        j == u.job IN
                    /\ up' /\ j \in used'
                    /\ ResumerFits(u, disk'[j], claimed'[Ha][j], custody'[j])
  BY DEF ResumerInv
<1> DEFINE w == task[Resumer]
           u == task'[Resumer]
           j == w.job
           d == disk[j]
           k == claimed'[Ha][j]
<1>1. /\ w.seen \in Receipt /\ j \in JobIds /\ j \in used /\ up
      /\ d \in Receipt \cup {None} /\ Resumer \in Tasks
      /\ ResumerFits(w, d, claimed[Ha][j], custody[j])
  BY TaskThere, ResumerFacts DEF Tasks
<1>2. up' = up /\ used \subseteq used' /\ custody'[j] \in {custody[j], "none"}
  BY <1>1, ResumerElsewhere, TaskCustody DEF Elsewhere, Standing
<1>3. /\ u.job = j /\ disk' = disk
      /\ \/ /\ u.pc = "claim" /\ u.seen = d /\ d # None
            /\ d.phase \in AmbiguousPhases
         \/ u.pc = "begin" /\ u.seen = w.seen
         \/ /\ w.pc = "claim" /\ u.pc = "reget" /\ u.seen = w.seen
            /\ d # None => d.revision = w.seen.revision
            /\ claimed[Ha][j] # d.generation
         \/ /\ w.pc = "reget" /\ u.pc = "reclean" /\ u.seen = d /\ d # None
         \/ /\ w.pc = "reclean" /\ u.pc = "confirm" /\ u.seen = w.seen
            /\ custody'[j] = "none" /\ claimed' = claimed
  BY ResumerMoves
<1>4. Shrunk(j) \/ w.pc \in {"claim", "confirm"}
  BY <1>1, TaskSpares DEF At, Claiming, ResumerFits
<1>5. Grasped(d, k) => Grasped(d, claimed[Ha][j])
  BY <1>1, <1>3, ResumerElsewhere DEF Elsewhere
<1> HIDE DEF w, u, j, d, k
<1>6. Orphaned(d, claimed[Ha][j]) => Orphaned(d, k)
  BY <1>5 DEF Orphaned, Grasped
<1>7. /\ u.pc \in Claiming
      /\ d # None => /\ d.revision >= u.seen.revision
                     /\ d.revision = u.seen.revision => d = u.seen
                     /\ ~Early(d)
      /\ u.pc = "claim" => u.seen.phase \in AmbiguousPhases
  <2>1. d # None => d.revision >= d.revision
    BY <1>1 DEF Receipt
  <2>2. QED BY <1>1, <1>3, <2>1 DEF ResumerFits, Claiming
<1>8. u.pc \in {"reget", "reclean", "confirm"} => Orphaned(d, k)
  <2>1. CASE w.pc \in {"reget", "reclean"}
    BY <1>1, <1>6, <2>1 DEF ResumerFits
  <2>2. CASE u.pc = "reget"
    <3>1. d # None => d = w.seen /\ d.phase \in AmbiguousPhases
      BY <1>1, <1>3, <2>2 DEF ResumerFits
    <3>2. Orphaned(d, claimed[Ha][j])
      BY <1>3, <2>2, <3>1 DEF Orphaned, Active
    <3>3. QED BY <1>6, <3>2
  <2>3. QED BY <1>3, <2>1, <2>2
<1>9. u.pc = "confirm" => Emptied(d, custody'[j])
  BY <1>3 DEF Emptied
<1>10. QED BY <1>1, <1>2, <1>3, <1>7, <1>8, <1>9 DEF ResumerFits, u, d, k, j

\* ------------------------------------------------------------------------
\* The panel acts on a command it was sent.

Carried(j, q, state) ==
    /\ cmd[j] # None /\ cmd[j].state = "sent" /\ cmd[j].panel \in Panels
    /\ state \in {"done", "refused"}
    /\ panel' = [panel EXCEPT ![cmd[j].panel] = q]
    /\ cmd' = [cmd EXCEPT ![j].state = state]
    /\ IF cmd[j].op = "stage" THEN q.slot = j
       ELSE IF cmd[j].op = "clean" /\ state = "done" THEN q.slot = None
       ELSE q.slot = panel[cmd[j].panel].slot

LEMMA PanelEffect ==
    ASSUME ExecInv, NEW j \in JobIds, PanelActs(j)
    PROVE  \E q, state : Carried(j, q, state)
<1> DEFINE s == cmd[j].panel
           p == panel[s]
           after(q, state) == /\ panel' = [panel EXCEPT ![s] = q]
                              /\ cmd' = [cmd EXCEPT ![j].state = state]
<1>1. cmd[j] \in Command /\ cmd[j] # None /\ cmd[j].state = "sent"
  BY DEF PanelActs, ExecInv, ExecTypeOK
<1>2. s \in Panels /\ p \in [slot : JobIds \cup {None}, pkg : JobIds \cup {None}]
  BY <1>1 DEF Command, ExecInv, ExecTypeOK
<1>3. /\ [p EXCEPT !.slot = j].slot = j
      /\ [p EXCEPT !.slot = None].slot = None
      /\ [p EXCEPT !.pkg = j].slot = p.slot
  BY <1>2
<1>4. CASE cmd[j].op = "stage"
  <2>1. PICK state \in {"done", "refused"} : after([p EXCEPT !.slot = j], state)
    BY <1>4 DEF PanelActs
  <2>2. Carried(j, [p EXCEPT !.slot = j], state)
    BY <1>1, <1>2, <1>3, <1>4, <2>1 DEF Carried
  <2>3. QED BY <2>2
<1>5. CASE cmd[j].op = "install"
  <2>1. after([p EXCEPT !.pkg = j], "done") \/ after(p, "refused")
    BY <1>5 DEF PanelActs
  <2>2. Carried(j, [p EXCEPT !.pkg = j], "done") \/ Carried(j, p, "refused")
    BY <1>1, <1>2, <1>3, <1>5, <2>1 DEF Carried
  <2>3. QED BY <2>2
<1>6. CASE cmd[j].op = "clean"
  <2>1. after([p EXCEPT !.slot = None], "done") \/ after(p, "refused")
    BY <1>6 DEF PanelActs
  <2>2. Carried(j, [p EXCEPT !.slot = None], "done") \/ Carried(j, p, "refused")
    BY <1>1, <1>2, <1>3, <1>6, <2>1 DEF Carried
  <2>3. QED BY <2>2
<1>7. CASE cmd[j].op \notin {"stage", "install", "clean"}
  <2>1. PICK state \in {"done", "refused"} : after(p, state)
    BY <1>7 DEF PanelActs
  <2>2. Carried(j, p, state)
    BY <1>1, <1>2, <1>7, <2>1 DEF Carried
  <2>3. QED BY <2>2
<1>8. QED BY <1>4, <1>5, <1>6, <1>7

LEMMA PanelElsewhere ==
    ASSUME Standing, NEW j \in JobIds, PanelActs(j), NEW k \in JobIds, k # j
    PROVE  Elsewhere(k)
<1>1. ExecInv /\ panel \in [Panels -> [slot : JobIds \cup {None},
                                       pkg : JobIds \cup {None}]]
      /\ cmd \in [JobIds -> Command \cup {None}]
  BY DEF Standing, ExecInv, ExecTypeOK
<1>2. PICK q, state : Carried(j, q, state)
  BY <1>1, PanelEffect
<1>3. cmd'[k] = cmd[k]
  BY <1>1, <1>2 DEF Carried
<1>4. LiesOn(k)' \subseteq LiesOn(k)
  <2>1. k # None
    BY NoneAssumption
  <2>2. \A s \in Panels : panel'[s].slot \in {panel[s].slot, j, None}
    BY <1>1, <1>2 DEF Carried
  <2>3. QED BY <2>1, <2>2 DEF LiesOn
<1>5. Around(k) /\ UNCHANGED vars
  BY <1>3, <1>4 DEF PanelActs, Around, vars
<1>6. QED BY <1>5, SparedElsewhere DEF Spared, Shrunk, vars

LEMMA PanelOwn ==
    ASSUME Standing, NEW j \in JobIds, PanelActs(j)
    PROVE  JobInv(j)'
<1> DEFINE w == task[j]
           d == disk[j]
           a == asked[j]
           c == cmd[j]
           b == cmd'[j]
           l == LiesOn(j)
           m == LiesOn(j)'
           e == custody[j]
<1>1. /\ d \in Receipt \cup {None} /\ JobInv(j)
      /\ w # None => w \in Worker /\ w.seen \in Receipt
      /\ panel \in [Panels -> [slot : JobIds \cup {None}, pkg : JobIds \cup {None}]]
      /\ cmd \in [JobIds -> Command \cup {None}]
  BY JobFacts DEF Standing, ExecInv, ExecTypeOK
<1>2. UNCHANGED <<disk, claimed, used, up, task, poisoned, custody, asked>>
  BY DEF PanelActs, vars
<1>0. PICK q, state : Carried(j, q, state)
  BY PanelEffect DEF Standing
<1>3. /\ c # None /\ c.state = "sent" /\ c.panel \in Panels
      /\ state \in {"done", "refused"}
      /\ panel' = [panel EXCEPT ![c.panel] = q]
      /\ cmd' = [cmd EXCEPT ![j].state = state]
      /\ IF c.op = "stage" THEN q.slot = j
         ELSE IF c.op = "clean" /\ state = "done" THEN q.slot = None
         ELSE q.slot = panel[c.panel].slot
  BY <1>0 DEF Carried
<1>4. b # None /\ b.op = c.op /\ b.panel = c.panel /\ b.state = state
  <2>1. cmd \in [JobIds -> Command \cup {None}]
    BY <1>1
  <2>2. c \in Command
    BY <1>3, <2>1
  <2>3. b = [c EXCEPT !.state = state]
    BY <1>3, <2>1
  <2> HIDE DEF b, c
  <2>4. b \in Command
    BY <1>3, <2>2, <2>3 DEF Command
  <2>5. QED BY <2>2, <2>3, <2>4, NoneIsApart DEF Command
<1>5. Sent(d, a, c, l) /\ Says(d, a, c, l, e)
      /\ (w # None => Fits(j, w, d, a, c, l, e) /\ c.panel = w.seen.plan.serial)
  BY <1>1, <1>3 DEF JobInv
<1>6. m = IF c.op = "stage" THEN l \cup {c.panel}
          ELSE IF c.op = "clean" /\ state = "done" THEN l \ {c.panel} ELSE l
  BY <1>1, <1>3, NoneAssumption DEF LiesOn
<1> HIDE DEF d, a, c, b, l, m, e, w
<1>7. l \subseteq {c.panel}
  BY <1>5 DEF Sent
<1>8. c.op = "clean" /\ state = "done" => SlotFree(b, m)
  BY <1>4, <1>6, <1>7 DEF SlotFree
<1>9. SlotFree(c, l) => SlotFree(b, m)
  BY <1>3, <1>4, <1>6 DEF SlotFree
<1>10. Sent(d, a, b, m)
  BY <1>3, <1>4, <1>5, <1>6, <1>8 DEF Sent
<1>11. Says(d, a, b, m, e)
  BY <1>1, <1>5, <1>9, SaysStays DEF Meanwhile
<1>12. w # None => Fits(j, w, d, a, b, m, e)
  BY <1>1, <1>4, <1>5, <1>9, FitsStays DEF Meanwhile
<1>13. QED
  BY <1>1, <1>2, <1>4, <1>5, <1>10, <1>11, <1>12
     DEF JobInv, Past, w, d, a, c, b, l, m, e

\* ------------------------------------------------------------------------
\* A worker begins; the process dies.

\* What was read from the store is sane.
LEMMA ReadIsSane ==
    ASSUME IInv, NEW j \in JobIds, disk[j] # None
    PROVE  Sane(disk[j])
<1>1. ValidReceipt(disk[j]) /\ CancelHonoured
  BY DEF IInv, StoreStaysReadable
<1>2. QED BY <1>1 DEF ValidReceipt, ValidEvidence, CancelHonoured, Sane

LEMMA EnsureOwn ==
    ASSUME Standing, NEW j \in JobIds, Ensure(j)
    PROVE  JobInv(j)'
<1> DEFINE w == NewTask(j, "begin", disk[j])
<1>1. /\ disk[j] \in Receipt /\ JobInv(j) /\ disk[j] # None /\ j \in used
      /\ TypeOK /\ task \in [Tasks -> Worker \cup {None}] /\ j \in Tasks
  BY JobFacts DEF Ensure, Active, Standing, ExecInv, ExecTypeOK, Tasks
<1>2. /\ task[j] = None /\ j \notin poisoned /\ up /\ Active(disk[j])
      /\ disk[j].phase # "healthy_unclaimed"
      /\ Refresh(Ha) /\ Go(j, w)
      /\ UNCHANGED <<up, custody, world>>
  BY DEF Ensure
<1>3. task'[j] = w /\ poisoned' = poisoned
  BY <1>1, <1>2 DEF Go
<1>4. disk' = disk /\ used' = used /\ Shrunk(j)
  BY <1>1, <1>2, StillEffect DEF Refresh
<1>5. LiesOn(j)' = LiesOn(j) /\ cmd' = cmd /\ asked' = asked /\ custody' = custody
  BY <1>2 DEF LiesOn, world
<1>6. ~Grasped(disk'[j], claimed'[Ha][j])
  <2>1. ~Grasped(disk[j], claimed[Ha][j])
    BY <1>1, <1>2 DEF JobInv, Past
  <2>2. QED BY <1>1, <1>4, <2>1, GraspedBefore DEF Shrunk
<1>7. /\ w.job = j /\ w.pc = "begin" /\ w.seen = disk[j] /\ w.staged = FALSE
  BY DEF NewTask
<1>8. Sane(disk[j])
  BY <1>1, ReadIsSane DEF Standing
<1> HIDE DEF w
<1>9. ASSUME NEW a, NEW c, NEW l, NEW e
      PROVE  Fits(j, w, disk[j], a, c, l, e)
  <2>1. Place(w, disk[j], a, c, l, e)
    BY <1>7 DEF Place, Operating
  <2>2. Tracks(disk[j], disk[j])
    BY <1>2 DEF Tracks
  <2>3. QED BY <1>2, <1>7, <1>8, <2>1, <2>2 DEF Fits
<1>10. QED
  BY <1>1, <1>2, <1>3, <1>4, <1>5, <1>6, <1>7, <1>9 DEF JobInv, Sent

LEMMA CrashOwn ==
    ASSUME Standing, Crash, NEW j \in JobIds
    PROVE  JobInv(j)' /\ ResumerInv'
<1>1. disk[j] \in Receipt \cup {None} /\ JobInv(j) /\ j \in Tasks /\ Resumer \in Tasks
      /\ TypeOK
  BY JobFacts DEF Tasks, Standing, ExecInv, ExecTypeOK
<1>2. /\ task'[j] = None /\ task'[Resumer] = None /\ poisoned' = {}
      /\ Restart(Ha) /\ UNCHANGED <<custody, world>>
  BY <1>1 DEF Crash
<1>3. disk' = disk /\ used' = used /\ claimed'[Ha][j] = None
  BY <1>1, <1>2, ClaimsOf DEF Restart
<1>4. LiesOn(j)' = LiesOn(j) /\ cmd' = cmd /\ asked' = asked /\ custody' = custody
  BY <1>2 DEF LiesOn, world
<1>5. ~Grasped(disk'[j], claimed'[Ha][j])
  BY <1>1, <1>3, NoneAssumption DEF Grasped, Active, Receipt
<1>6. QED
  BY <1>1, <1>2, <1>3, <1>4, <1>5 DEF JobInv, ResumerInv

\* ------------------------------------------------------------------------
\* The steps of a worker, for its own job.

\* Everything that is known of a worker at work.
Known(j, v, d, a, c, l, e) ==
    /\ v \in Worker /\ v.seen \in Receipt /\ Sound(v)
    /\ d \in Receipt \cup {None}
    /\ Fits(j, v, d, a, c, l, e)
    /\ a = {} => SlotFree(c, l)
    /\ Early(v.seen) => a = {} /\ SlotFree(c, l)
    /\ Active(d) => d.phase = v.seen.phase
    /\ v.seen.phase \in EmptyPhases => Emptied(d, e)

LEMMA WorkFacts ==
    ASSUME Standing, NEW j \in JobIds, task[j] # None
    PROVE  /\ Known(j, task[j], disk[j], asked[j], cmd[j], LiesOn(j), custody[j])
           /\ j \in Tasks /\ j # Resumer /\ j \in used /\ j \notin poisoned /\ up
<1> DEFINE v == task[j]
           d == disk[j]
           a == asked[j]
           c == cmd[j]
           l == LiesOn(j)
           e == custody[j]
<1>1. /\ j \in Tasks /\ j # Resumer /\ d \in Receipt \cup {None}
      /\ v \in Worker /\ v.seen \in Receipt /\ Sound(v)
  BY JobFacts, AtWorker, ExecutorAssumption DEF Tasks, Standing
<1>2. /\ Fits(j, v, d, a, c, l, e) /\ Says(d, a, c, l, e) /\ Sent(d, a, c, l)
      /\ j \in used /\ j \notin poisoned /\ up
  BY JobFacts DEF JobInv
<1> HIDE DEF v, d, a, c, l, e
<1>3. a = {} => SlotFree(c, l)
  BY <1>2 DEF Sent, SlotFree
<1>4. Active(d) => d.phase = v.seen.phase
  BY <1>1, <1>2, OvertakenFields DEF Fits, Tracks
<1>5. Early(v.seen) => a = {}
  <2>1. CASE Early(v.seen)
    <3>1. Active(d) /\ d.phase \in EarlyPhases
      BY <1>2, <1>4, <2>1 DEF Fits, Tracks, Early
    <3>2. QED BY <1>2, <3>1 DEF Says, Active
  <2>2. QED BY <2>1
<1>6. v.seen.phase \in EmptyPhases => Emptied(d, e)
  <2>1. CASE Active(d)
    BY <1>2, <1>4, <2>1 DEF Says, Emptied, Active
  <2>2. CASE ~Active(d)
    BY <1>2, <2>2 DEF Says, Emptied, Active, EmptyPhases
  <2>3. QED BY <2>1, <2>2
<1>7. QED BY <1>1, <1>2, <1>3, <1>4, <1>5, <1>6 DEF Known, v, d, a, c, l, e

\* The worker as a step leaves it.
Now(j, pc, seen, staged, op, goal) ==
    LET w == task'[j] IN
    /\ w # None /\ poisoned' = poisoned
    /\ w.job = task[j].job /\ w.pc = pc /\ w.seen = seen
    /\ w.staged = staged /\ w.op = op /\ w.goal = goal

Continues(j) ==
    LET w == task'[j] IN
    /\ w # None /\ poisoned' = poisoned
    /\ w.seen.plan = task[j].seen.plan
    /\ w.pc \in Claiming => task[j].pc \in Claiming
    /\ Fits(j, w, disk[j], asked[j], cmd[j], LiesOn(j), custody'[j])

Stops(j) ==
    /\ task'[j] = None
    /\ j \in poisoned' \/ task[j].seen.phase \notin AmbiguousPhases

Proceeds(j) == Continues(j) \/ Stops(j)

LEMMA EndStops ==
    ASSUME Standing, NEW j \in JobIds, task[j] # None,
           End(j, TRUE) \/ (End(j, FALSE) /\ task[j].seen.phase \notin AmbiguousPhases)
    PROVE  Proceeds(j)
<1>1. task \in [Tasks -> Worker \cup {None}] /\ j \in Tasks /\ j # Resumer
  BY WorkFacts DEF Standing, ExecInv, ExecTypeOK
<1>2. QED BY <1>1 DEF End, Proceeds, Stops

LEMMA GoNow ==
    ASSUME Standing, NEW j \in JobIds, task[j] # None, NEW w \in Worker, Go(j, w),
           w.job = task[j].job
    PROVE  task'[j] = w /\ Now(j, w.pc, w.seen, w.staged, w.op, w.goal)
<1>1. task \in [Tasks -> Worker \cup {None}] /\ j \in Tasks
  BY WorkFacts DEF Standing, ExecInv, ExecTypeOK
<1>2. QED BY <1>1, NoneIsApart DEF Go, Now

LEMMA ToNow ==
    ASSUME Standing, NEW j \in JobIds, task[j] # None, NEW v, v = task[j],
           NEW pc \in Calling \cup Places, To(j, pc)
    PROVE  Now(j, pc, v.seen, v.staged, v.op, v.goal)
<1> DEFINE w == [v EXCEPT !.pc = pc]
<1>1. v \in Worker
  BY WorkFacts DEF Known
<1>2. /\ w.job = v.job /\ w.pc = pc /\ w.seen = v.seen /\ w.staged = v.staged
      /\ w.op = v.op /\ w.goal = v.goal
  BY <1>1 DEF Worker
<1>3. w \in Worker
  BY <1>1, PcWorker
<1>4. Go(j, w)
  BY DEF To
<1> HIDE DEF w
<1>5. QED BY <1>2, <1>3, <1>4, GoNow

LEMMA AimNow ==
    ASSUME Standing, NEW j \in JobIds, task[j] # None, NEW v, v = task[j],
           NEW pc \in Calling \cup Places, NEW goal \in Goals, Aim(j, pc, goal)
    PROVE  Now(j, pc, v.seen, v.staged, v.op, goal)
<1> DEFINE u == [v EXCEPT !.pc = pc]
           w == [u EXCEPT !.goal = goal]
<1>1. v \in Worker
  BY WorkFacts DEF Known
<1>2. u \in Worker
  BY <1>1, PcWorker
<1>3. /\ w = [v EXCEPT !.pc = pc, !.goal = goal]
      /\ w.job = v.job /\ w.pc = pc /\ w.seen = v.seen /\ w.staged = v.staged
      /\ w.op = v.op /\ w.goal = goal
  BY <1>1 DEF Worker
<1>4. w \in Worker
  <2> HIDE DEF u
  <2>1. QED BY <1>2, GoalWorker
<1>5. Go(j, w)
  BY <1>3 DEF Aim
<1> HIDE DEF w
<1>6. QED BY <1>3, <1>4, <1>5, GoNow

LEMMA OperateNow ==
    ASSUME Standing, NEW j \in JobIds, task[j] # None, NEW v, v = task[j],
           NEW op \in Ops, Operate(j, op)
    PROVE  Now(j, "authority", v.seen, v.staged, op, v.goal)
<1> DEFINE u == [v EXCEPT !.pc = "authority"]
           w == [u EXCEPT !.op = op]
<1>1. v \in Worker /\ "authority" \in Calling
  BY WorkFacts DEF Known, Calling
<1>2. u \in Worker
  BY <1>1, PcWorker
<1>3. /\ w = [v EXCEPT !.pc = "authority", !.op = op]
      /\ w.job = v.job /\ w.pc = "authority" /\ w.seen = v.seen
      /\ w.staged = v.staged /\ w.op = op /\ w.goal = v.goal
  BY <1>1 DEF Worker
<1>4. w \in Worker
  <2> HIDE DEF u
  <2>1. QED BY <1>2, OpWorker
<1>5. Go(j, w)
  BY <1>3 DEF Operate
<1> HIDE DEF w
<1>6. QED BY <1>3, <1>4, <1>5, GoNow

LEMMA SeeNow ==
    ASSUME Standing, NEW j \in JobIds, task[j] # None, NEW v, v = task[j],
           NEW pc \in Calling \cup Places, NEW r \in Receipt,
           Go(j, [v EXCEPT !.pc = pc, !.seen = r])
    PROVE  Now(j, pc, r, v.staged, v.op, v.goal)
<1> DEFINE u == [v EXCEPT !.pc = pc]
           w == [u EXCEPT !.seen = r]
<1>1. v \in Worker
  BY WorkFacts DEF Known
<1>2. u \in Worker
  BY <1>1, PcWorker
<1>3. /\ w = [v EXCEPT !.pc = pc, !.seen = r]
      /\ w.job = v.job /\ w.pc = pc /\ w.seen = r /\ w.staged = v.staged
      /\ w.op = v.op /\ w.goal = v.goal
  BY <1>1 DEF Worker
<1>4. w \in Worker
  <2> HIDE DEF u
  <2>1. QED BY <1>2, SeenWorker
<1>5. Go(j, w)
  BY <1>3
<1> HIDE DEF w
<1>6. QED BY <1>3, <1>4, <1>5, GoNow

\* A worker goes on with the receipt it has seen.
LEMMA GoesOn ==
    ASSUME Standing, NEW j \in JobIds, task[j] # None, NEW pc, NEW op, NEW goal,
           Now(j, pc, task[j].seen, task[j].staged, op, goal),
           pc \in Claiming => task[j].pc \in Claiming,
           Place(task'[j], disk[j], asked[j], cmd[j], LiesOn(j), custody'[j])
    PROVE  Proceeds(j)
<1>1. Fits(j, task[j], disk[j], asked[j], cmd[j], LiesOn(j), custody[j])
  BY WorkFacts DEF Known
<1>2. QED BY <1>1 DEF Now, Proceeds, Continues, Fits

\* It gives up a job whose panel it may have touched.
LEMMA RecoverProceeds ==
    ASSUME Standing, NEW j \in JobIds, task[j] # None,
           NEW result \in RecoveryCodes, Recover(j, result),
           task[j].seen.phase \in PanelPhases
    PROVE  Proceeds(j)
<1> DEFINE g == Goal("recovery_required", None, result)
<1>1. g \in Goals
  BY GoalType DEF Phases, TerminalPhases, ResultCodes
<1>2. Now(j, "recover", task[j].seen, task[j].staged, task[j].op, g)
  <2> HIDE DEF g
  <2>1. Aim(j, "recover", g)
    BY DEF Recover, g
  <2>2. QED BY <1>1, <2>1, AimNow DEF Calling
<1>3. Recovers(task'[j])
  BY <1>2 DEF Now, Recovers, Goal
<1>4. task'[j].pc = "recover"
  BY <1>2 DEF Now
<1>5. Place(task'[j], disk[j], asked[j], cmd[j], LiesOn(j), custody'[j])
  BY <1>3, <1>4 DEF Place, Operating
<1>6. QED BY <1>2, <1>5, GoesOn DEF Claiming

\* It files a failure of a job that has left nothing on the panel.
LEMMA FailProceeds ==
    ASSUME Standing, NEW j \in JobIds, task[j] # None,
           NEW pc \in {"fail", "cleanfail"},
           NEW result \in FailureCodesOf(task[j].seen.phase),
           Aim(j, pc, Goal("failed", None, result)),
           SlotFree(cmd[j], LiesOn(j)),
           IF pc = "fail" THEN Emptied(disk[j], custody'[j])
           ELSE task[j].seen.phase \in LocalPhases \cup {"staging"}
    PROVE  Proceeds(j)
<1> DEFINE g == Goal("failed", None, result)
<1>1. g \in Goals
  BY GoalType DEF Phases, TerminalPhases, ResultCodes, FailureCodesOf, FailureCodes
<1>2. Now(j, pc, task[j].seen, task[j].staged, task[j].op, g)
  BY <1>1, AimNow DEF Calling, Places
<1>3. Fails(task'[j])
  BY <1>2 DEF Now, Fails, Goal
<1>4. task'[j].pc = pc /\ task'[j].seen = task[j].seen
  BY <1>2 DEF Now
<1>5. Place(task'[j], disk[j], asked[j], cmd[j], LiesOn(j), custody'[j])
  BY <1>3, <1>4 DEF Place, Operating
<1>6. QED BY <1>2, <1>5, GoesOn DEF Claiming

\* It asks for the phase that continues the workflow.
LEMMA MoveProceeds ==
    ASSUME Standing, NEW j \in JobIds, task[j] # None,
           NEW ph \in Phases, NEW root \in RootModes \cup {None},
           Aim(j, "move", Goal(ph, root, None)),
           ~task[j].seen.cancel_requested,
           <<task[j].seen.phase, ph>> \in Forward, ph # "consumed",
           root # None <=> task[j].seen.phase = "preflight",
           task[j].seen.phase \notin {"staging", "installed"},
           task[j].seen.phase = "installing" => asked[j] \subseteq {"stage", "install"},
           task[j].seen.phase = "launching" => SlotFree(cmd[j], LiesOn(j))
    PROVE  Proceeds(j)
<1> DEFINE g == Goal(ph, root, None)
<1>1. g \in Goals
  BY GoalType
<1>2. Now(j, "move", task[j].seen, task[j].staged, task[j].op, g)
  BY <1>1, AimNow DEF Calling
<1>3. Advances(task'[j])
  BY <1>2 DEF Now, Advances, Goal
<1>4. task'[j].pc = "move" /\ task'[j].seen = task[j].seen
  BY <1>2 DEF Now
<1>5. AtMove(task'[j], disk[j], asked[j], cmd[j], LiesOn(j), custody'[j])
  BY <1>3, <1>4 DEF AtMove
<1>6. Place(task'[j], disk[j], asked[j], cmd[j], LiesOn(j), custody'[j])
  BY <1>4, <1>5 DEF Place, Operating
<1>7. QED BY <1>2, <1>6, GoesOn DEF Claiming

\* It takes up an operation on the panel.
LEMMA OperateProceeds ==
    ASSUME Standing, NEW j \in JobIds, task[j] # None,
           NEW op \in Ops, Operate(j, op), asked[j] \subseteq Below(op),
           op = "stage" => task[j].seen.phase = "staging"
                           /\ ~task[j].seen.cancel_requested,
           op = "install" => task[j].seen.phase = "installing",
           op = "clean" =>
               \/ task[j].seen.phase = "staging" /\ task[j].seen.cancel_requested
               \/ task[j].seen.phase \in {"installing", "launching"},
           op = "launch" => task[j].seen.phase = "launching"
                            /\ SlotFree(cmd[j], LiesOn(j))
    PROVE  Proceeds(j)
<1>1. Now(j, "authority", task[j].seen, task[j].staged, op, task[j].goal)
  BY OperateNow
<1>2. /\ task'[j].pc = "authority" /\ task'[j].seen = task[j].seen
      /\ task'[j].op = op
  BY <1>1 DEF Now
<1>3. AtOperation(task'[j], asked[j], cmd[j], LiesOn(j))
  BY <1>2 DEF AtOperation, OpFits
<1>4. Place(task'[j], disk[j], asked[j], cmd[j], LiesOn(j), custody'[j])
  BY <1>2, <1>3 DEF Place, Operating
<1>5. QED BY <1>1, <1>4, GoesOn DEF Claiming

\* The phase loop.
LEMMA LoopProceeds ==
    ASSUME Standing, NEW j \in JobIds,
           \/ LoopEnds(j) \/ Approved(j) \/ Authorizing(j) \/ Preflight(j)
           \/ Downloaded(j) \/ ArtifactReady(j) \/ Revalidate(j)
           \/ Staging(j) \/ Installing(j) \/ Launching(j) \/ HealthCheck(j)
           \/ CancelSeen(j)
    PROVE  Proceeds(j)
<1> DEFINE v == task[j]
           d == disk[j]
           a == asked[j]
           c == cmd[j]
           l == LiesOn(j)
           e == custody[j]
<1>1. /\ task[j] # None /\ v.pc = "loop" /\ custody' = custody
  BY DEF LoopEnds, Approved, Authorizing, Preflight, Downloaded, ArtifactReady,
         Revalidate, Staging, Installing, Launching, HealthCheck, CancelSeen,
         Looping, At, Think
<1>2. Known(j, v, d, a, c, l, e)
  BY <1>1, WorkFacts
<1>3. AtLoop(v, a)
  BY <1>1, <1>2 DEF Known, Fits, Place
<1>4. Early(v.seen) => a = {} /\ SlotFree(c, l)
  BY <1>2 DEF Known
<1>5. v.seen # None /\ v.seen.phase \in Phases
  BY <1>2, NoneAssumption DEF Known, Receipt
<1>6. \A ph \in Phases, root \in RootModes \cup {None} :
        /\ Aim(j, "move", Goal(ph, root, None))
        /\ ~v.seen.cancel_requested
        /\ <<v.seen.phase, ph>> \in Forward /\ ph # "consumed"
        /\ root # None <=> v.seen.phase = "preflight"
        /\ v.seen.phase \notin {"staging", "installing", "installed", "launching"}
        => Proceeds(j)
  BY <1>1, MoveProceeds
<1>7. Phases = {"approved", "authorizing", "preflight", "downloading",
                "artifact_ready", "revalidating", "staging", "installing",
                "launching", "installed", "health_check", "healthy_unclaimed",
                "consumed", "cancelled", "failed", "recovery_required"}
  BY DEF Phases, CancellablePhases, RecoverySources, AmbiguousPhases, TerminalPhases
<1>8. CASE LoopEnds(j)
  <2>1. End(j, FALSE) /\ v.seen.phase \in TerminalPhases \cup {"healthy_unclaimed"}
    BY <1>8 DEF LoopEnds, Think
  <2>2. v.seen.phase \notin AmbiguousPhases
    BY <2>1 DEF AmbiguousPhases, TerminalPhases
  <2>3. QED BY <1>1, <2>1, <2>2, EndStops
<1>9. CASE Approved(j)
  <2>1. /\ Aim(j, "move", Goal("authorizing", None, None))
        /\ v.seen.phase = "approved" /\ ~v.seen.cancel_requested
    BY <1>9 DEF Approved, Looping, Think, Move
  <2>2. <<"approved", "authorizing">> \in Forward /\ "authorizing" \in Phases
    BY <1>7 DEF Forward
  <2>3. QED BY <1>6, <2>1, <2>2
<1>10. CASE Downloaded(j)
  <2>1. /\ Aim(j, "move", Goal("artifact_ready", None, None))
        /\ v.seen.phase = "downloading" /\ ~v.seen.cancel_requested
    BY <1>10 DEF Downloaded, Looping, Think, Move
  <2>2. <<"downloading", "artifact_ready">> \in Forward /\ "artifact_ready" \in Phases
    BY <1>7 DEF Forward
  <2>3. QED BY <1>6, <2>1, <2>2
<1>11. CASE ArtifactReady(j)
  <2>1. /\ Aim(j, "move", Goal("revalidating", None, None))
        /\ v.seen.phase = "artifact_ready" /\ ~v.seen.cancel_requested
    BY <1>11 DEF ArtifactReady, Looping, Think, Move
  <2>2. <<"artifact_ready", "revalidating">> \in Forward /\ "revalidating" \in Phases
    BY <1>7 DEF Forward
  <2>3. QED BY <1>6, <2>1, <2>2
<1>12. CASE Authorizing(j)
  <2>1. v.seen.phase = "authorizing" /\ ~v.seen.cancel_requested
    BY <1>12 DEF Authorizing, Looping
  <2>2. CASE Aim(j, "move", Goal("preflight", None, None))
    <3>1. <<"authorizing", "preflight">> \in Forward /\ "preflight" \in Phases
      BY <1>7 DEF Forward
    <3>2. QED BY <1>6, <2>1, <2>2, <3>1
  <2>3. CASE Aim(j, "fail", Goal("failed", None, "authorization_failed"))
    <3>1. "authorization_failed" \in FailureCodesOf(v.seen.phase)
      BY <2>1 DEF FailureCodesOf
    <3>2. Early(v.seen) /\ v.seen.phase \in EmptyPhases
      BY <1>5, <2>1 DEF Early, EarlyPhases, CancellablePhases, EmptyPhases
    <3>3. SlotFree(c, l) /\ Emptied(d, custody'[j])
      BY <1>1, <1>2, <3>2 DEF Known
    <3>4. QED BY <1>1, <2>3, <3>1, <3>3, FailProceeds
  <2>4. QED BY <1>12, <2>2, <2>3 DEF Authorizing, Think, Move
<1>13. CASE Preflight(j)
  <2>1. v.seen.phase = "preflight" /\ ~v.seen.cancel_requested
    BY <1>13 DEF Preflight, Looping
  <2>2. ASSUME NEW root \in RootModes, Aim(j, "move", Goal("downloading", root, None))
        PROVE  Proceeds(j)
    <3>1. <<"preflight", "downloading">> \in Forward /\ "downloading" \in Phases
      BY <1>7 DEF Forward
    <3>2. root # None
      BY NoneAssumption
    <3>3. QED BY <1>6, <2>1, <2>2, <3>1, <3>2
  <2>3. ASSUME NEW result \in FailureCodesOf(v.seen.phase),
               Aim(j, "fail", Goal("failed", None, result))
        PROVE  Proceeds(j)
    <3>1. Early(v.seen) /\ v.seen.phase \in EmptyPhases
      BY <1>5, <2>1 DEF Early, EarlyPhases, CancellablePhases, EmptyPhases
    <3>2. SlotFree(c, l) /\ Emptied(d, custody'[j])
      BY <1>1, <1>2, <3>1 DEF Known
    <3>3. QED BY <1>1, <2>3, <3>2, FailProceeds
  <2>4. QED BY <1>13, <2>2, <2>3 DEF Preflight, Think, Fail
<1>14. CASE Revalidate(j)
  <2>1. v.seen.phase = "revalidating" /\ ~v.seen.cancel_requested
    BY <1>14 DEF Revalidate, Looping
  <2>2. CASE Aim(j, "move", Goal("staging", None, None))
    <3>1. <<"revalidating", "staging">> \in Forward /\ "staging" \in Phases
      BY <1>7 DEF Forward
    <3>2. QED BY <1>6, <2>1, <2>2, <3>1
  <2>3. ASSUME NEW result \in FailureCodesOf(v.seen.phase),
               Aim(j, "cleanfail", Goal("failed", None, result))
        PROVE  Proceeds(j)
    <3>1. Early(v.seen) /\ v.seen.phase \in LocalPhases
      BY <1>5, <2>1 DEF Early, EarlyPhases, CancellablePhases, LocalPhases
    <3>2. QED BY <1>1, <1>4, <2>3, <3>1, FailProceeds
  <2>4. QED BY <1>14, <2>2, <2>3 DEF Revalidate, Think, Fail, Move
<1>15. CASE Staging(j)
  <2>1. v.seen.phase = "staging" /\ ~v.seen.cancel_requested
    BY <1>15 DEF Staging, Looping
  <2>2. CASE Operate(j, "stage")
    <3>1. a \subseteq Below("stage") /\ "stage" \in Ops
      BY <1>3, <2>1 DEF AtLoop, Below, Ops
    <3>2. QED BY <1>1, <2>1, <2>2, <3>1, OperateProceeds
  <2>3. CASE Recover(j, "ambiguous_mutation")
    BY <1>1, <2>1, <2>3, RecoverProceeds DEF PanelPhases, RecoveryCodes
  <2>4. QED BY <1>15, <2>2, <2>3 DEF Staging, Think
<1>16. CASE Installing(j)
  <2>1. v.seen.phase = "installing"
    BY <1>16 DEF Installing, Looping
  <2>2. CASE Operate(j, "install")
    <3>1. a \subseteq Below("install") /\ "install" \in Ops
      BY <1>3, <2>1 DEF AtLoop, Below, Ops
    <3>2. QED BY <1>1, <2>1, <2>2, <3>1, OperateProceeds
  <2>3. CASE Recover(j, "ambiguous_mutation")
    BY <1>1, <2>1, <2>3, RecoverProceeds DEF PanelPhases, RecoveryCodes
  <2>4. QED BY <1>16, <2>2, <2>3 DEF Installing, Think
<1>17. CASE Launching(j)
  <2>1. v.seen.phase = "launching"
    BY <1>17 DEF Launching, Looping
  <2>2. CASE Operate(j, "clean")
    <3>1. a \subseteq Below("clean") /\ "clean" \in Ops
      BY <1>3, <2>1 DEF AtLoop, Below, Ops
    <3>2. QED BY <1>1, <2>1, <2>2, <3>1, OperateProceeds
  <2>3. CASE Recover(j, "ambiguous_mutation")
    BY <1>1, <2>1, <2>3, RecoverProceeds DEF PanelPhases, RecoveryCodes
  <2>4. QED BY <1>17, <2>2, <2>3 DEF Launching, Think
<1>18. CASE HealthCheck(j)
  <2>1. v.seen.phase = "health_check" /\ ~v.seen.cancel_requested
    BY <1>18 DEF HealthCheck, Looping
  <2>2. CASE Aim(j, "move", Goal("healthy_unclaimed", None, None))
    <3>1. <<"health_check", "healthy_unclaimed">> \in Forward
            /\ "healthy_unclaimed" \in Phases
      BY <1>7 DEF Forward
    <3>2. QED BY <1>6, <2>1, <2>2, <3>1
  <2>3. CASE Recover(j, "verification_required")
    BY <1>1, <2>1, <2>3, RecoverProceeds DEF PanelPhases, RecoveryCodes
  <2>4. QED BY <1>18, <2>2, <2>3 DEF HealthCheck, Think, Move
<1>19. CASE CancelSeen(j)
  <2>1. v.seen.cancel_requested /\ Active(v.seen)
    BY <1>19 DEF CancelSeen
  <2>2. v.seen.phase \in CancellablePhases
    <3>1. Sane(v.seen)
      BY <1>2 DEF Known, Fits
    <3>2. QED BY <2>1, <3>1 DEF Sane, Active, TerminalPhases
  <2>3. CASE StagedRemotely(j) /\ Operate(j, "clean")
    <3>1. v.seen.phase = "staging"
      BY <2>3 DEF StagedRemotely
    <3>2. a \subseteq Below("clean") /\ "clean" \in Ops
      BY <1>3, <3>1 DEF AtLoop, Below, Ops
    <3>3. QED BY <1>1, <2>1, <2>3, <3>1, <3>2, OperateProceeds
  <2>4. CASE ~StagedRemotely(j) /\ To(j, "droplocal")
    <3>1. SlotFree(c, l)
      <4>1. CASE v.seen.phase = "staging"
        <5>1. a = {}
          BY <1>3, <2>4, <4>1 DEF AtLoop, StagedRemotely
        <5>2. QED BY <1>2, <5>1 DEF Known
      <4>2. CASE v.seen.phase # "staging"
        BY <1>4, <1>5, <2>2, <4>2 DEF Early, EarlyPhases
      <4>3. QED BY <4>1, <4>2
    <3>2. Now(j, "droplocal", v.seen, v.staged, v.op, v.goal)
      BY <1>1, <2>4, ToNow DEF Places
    <3>3. task'[j].pc = "droplocal" /\ task'[j].seen = v.seen
      BY <3>2 DEF Now
    <3>4. Place(task'[j], d, a, c, l, custody'[j])
      BY <2>1, <2>2, <3>1, <3>3 DEF Place, Operating
    <3>5. QED BY <1>1, <3>2, <3>4, GoesOn DEF Claiming
  <2>5. QED BY <1>19, <2>3, <2>4 DEF CancelSeen, Think
<1>20. QED
  BY <1>8, <1>9, <1>10, <1>11, <1>12, <1>13, <1>14, <1>15, <1>16, <1>17, <1>18, <1>19

\* What cleaning a job's files leaves of them.
LEMMA CustodyEffect ==
    ASSUME Standing, NEW j \in JobIds, NEW x
    PROVE  /\ custody[j] \in {"none", "part", "ready"}
           /\ custody' = [custody EXCEPT ![j] = x] => custody'[j] = x
  BY DEF Standing, ExecInv, ExecTypeOK

\* A worker comes back to its loop with something learned.
LEMMA FlagNow ==
    ASSUME Standing, NEW j \in JobIds, task[j] # None, NEW v, v = task[j],
           \/ v.pc = "loop" /\ Go(j, [v EXCEPT !.local = TRUE])
           \/ Go(j, [v EXCEPT !.pc = "loop", !.local = TRUE])
           \/ Go(j, [v EXCEPT !.pc = "loop", !.cleared = TRUE])
    PROVE  Now(j, "loop", v.seen, v.staged, v.op, v.goal)
<1> DEFINE u == [v EXCEPT !.pc = "loop"]
<1>1. v \in Worker
  BY WorkFacts DEF Known
<1>2. u \in Worker
  BY <1>1, PcWorker DEF Places
<1>3. /\ [u EXCEPT !.local = TRUE] = [v EXCEPT !.pc = "loop", !.local = TRUE]
      /\ [u EXCEPT !.cleared = TRUE] = [v EXCEPT !.pc = "loop", !.cleared = TRUE]
  OBVIOUS
<1>4. /\ u.job = v.job /\ u.pc = "loop" /\ u.seen = v.seen
      /\ u.staged = v.staged /\ u.op = v.op /\ u.goal = v.goal
  BY <1>1 DEF Worker
<1>5. ASSUME NEW w, w.job = v.job, w.pc = "loop", w.seen = v.seen,
             w.staged = v.staged, w.op = v.op, w.goal = v.goal,
             w \in Worker, Go(j, w)
      PROVE  Now(j, "loop", v.seen, v.staged, v.op, v.goal)
  BY <1>5, GoNow
<1>6. CASE v.pc = "loop" /\ Go(j, [v EXCEPT !.local = TRUE])
  <2> DEFINE w == [v EXCEPT !.local = TRUE]
  <2>1. w \in Worker
    BY <1>1, FlagWorker
  <2>2. /\ w.job = v.job /\ w.pc = "loop" /\ w.seen = v.seen
        /\ w.staged = v.staged /\ w.op = v.op /\ w.goal = v.goal
    BY <1>1, <1>6 DEF Worker
  <2>3. Go(j, w)
    BY <1>6
  <2> HIDE DEF w
  <2>4. QED BY <1>5, <2>1, <2>2, <2>3
<1>7. CASE Go(j, [v EXCEPT !.pc = "loop", !.local = TRUE])
  <2> DEFINE w == [u EXCEPT !.local = TRUE]
  <2> HIDE DEF u
  <2>1. w \in Worker
    BY <1>2, FlagWorker
  <2>2. /\ w.job = v.job /\ w.pc = "loop" /\ w.seen = v.seen
        /\ w.staged = v.staged /\ w.op = v.op /\ w.goal = v.goal
    BY <1>2, <1>4 DEF Worker
  <2>3. Go(j, w)
    BY <1>3, <1>7
  <2> HIDE DEF w
  <2>4. QED BY <1>5, <2>1, <2>2, <2>3
<1>8. CASE Go(j, [v EXCEPT !.pc = "loop", !.cleared = TRUE])
  <2> DEFINE w == [u EXCEPT !.cleared = TRUE]
  <2> HIDE DEF u
  <2>1. w \in Worker
    BY <1>2, FlagWorker
  <2>2. /\ w.job = v.job /\ w.pc = "loop" /\ w.seen = v.seen
        /\ w.staged = v.staged /\ w.op = v.op /\ w.goal = v.goal
    BY <1>2, <1>4 DEF Worker
  <2>3. Go(j, w)
    BY <1>3, <1>8
  <2> HIDE DEF w
  <2>4. QED BY <1>5, <2>1, <2>2, <2>3
<1>9. QED BY <1>6, <1>7, <1>8

\* A worker in its loop, in a phase in which it handles the local file.
LEMMA LocalProceeds ==
    ASSUME Standing, NEW j \in JobIds, task[j] # None, NEW pc,
           Now(j, pc, task[j].seen, task[j].staged, task[j].op, task[j].goal),
           pc \in {"loop", "fetch", "unpart"},
           task[j].seen.phase \in LocalPhases
    PROVE  Proceeds(j)
<1>1. task'[j].pc = pc /\ task'[j].seen = task[j].seen
  BY DEF Now
<1>2. Place(task'[j], disk[j], asked[j], cmd[j], LiesOn(j), custody'[j])
  BY <1>1 DEF Place, Operating, AtLoop, LocalPhases
<1>3. QED BY <1>2, GoesOn DEF Claiming

\* The download.
LEMMA FetchProceeds ==
    ASSUME Standing, NEW j \in JobIds, Acquire(j) \/ Fetch(j) \/ Unpart(j)
    PROVE  Proceeds(j)
<1> DEFINE v == task[j]
<1>1. task[j] # None
  BY DEF Acquire, Fetch, Unpart, At, Looping
<1>2. /\ v.seen.phase \in LocalPhases
      /\ SlotFree(cmd[j], LiesOn(j))
      /\ v.seen.phase \notin AmbiguousPhases
  <2>1. Known(j, v, disk[j], asked[j], cmd[j], LiesOn(j), custody[j])
    BY <1>1, WorkFacts
  <2>2. v.seen.phase \in LocalPhases
    BY <2>1 DEF Known, Fits, Place, Acquire, Fetch, Unpart, At, Looping, LocalPhases
  <2>3. Early(v.seen) /\ v.seen.phase \notin AmbiguousPhases
    BY <2>1, <2>2, PhaseFacts, NoneAssumption DEF Known, Early
  <2>4. QED BY <2>1, <2>2, <2>3 DEF Known
<1>3. ASSUME Fail(j, "cleanfail") PROVE Proceeds(j)
  <2>1. PICK result \in FailureCodesOf(v.seen.phase) :
            Aim(j, "cleanfail", Goal("failed", None, result))
    BY <1>3 DEF Fail
  <2>2. QED BY <1>1, <1>2, <2>1, FailProceeds
<1>4. ASSUME End(j, TRUE) \/ End(j, FALSE) PROVE Proceeds(j)
  BY <1>1, <1>2, <1>4, EndStops
<1>5. ASSUME NEW pc \in {"fetch", "unpart"}, To(j, pc) PROVE Proceeds(j)
  <2>1. Now(j, pc, v.seen, v.staged, v.op, v.goal)
    BY <1>1, <1>5, ToNow DEF Places
  <2>2. QED BY <1>1, <1>2, <2>1, LocalProceeds
<1>6. ASSUME \/ v.pc = "loop" /\ Go(j, [v EXCEPT !.local = TRUE])
             \/ Go(j, [v EXCEPT !.pc = "loop", !.local = TRUE])
             \/ Go(j, [v EXCEPT !.pc = "loop", !.cleared = TRUE])
      PROVE  Proceeds(j)
  <2>1. Now(j, "loop", v.seen, v.staged, v.op, v.goal)
    BY <1>1, <1>6, FlagNow
  <2>2. QED BY <1>1, <1>2, <2>1, LocalProceeds
<1>7. CASE Acquire(j)
  <2>1. v.pc = "loop"
    BY <1>7 DEF Acquire, Looping, At
  <2>2. \/ Go(j, [v EXCEPT !.local = TRUE])
        \/ Fail(j, "cleanfail")
        \/ End(j, TRUE)
        \/ To(j, "unpart") \/ To(j, "fetch")
    BY <1>7 DEF Acquire, Think
  <2>3. QED BY <1>3, <1>4, <1>5, <1>6, <2>1, <2>2
<1>8. CASE Fetch(j)
  BY <1>3, <1>6, <1>8 DEF Fetch
<1>9. CASE Unpart(j)
  BY <1>4, <1>6, <1>9 DEF Unpart, CleanLocal
<1>10. QED BY <1>7, <1>8, <1>9

\* The steps that end with the job's files removed.
LEMMA CleanProceeds ==
    ASSUME Standing, NEW j \in JobIds,
           Installed(j) \/ DropLocal(j) \/ DropRefused(j) \/ CleanFail(j) \/ RecClean(j)
    PROVE  Proceeds(j)
<1> DEFINE v == task[j]
           d == disk[j]
           a == asked[j]
           c == cmd[j]
           l == LiesOn(j)
           e == custody[j]
           f == custody'[j]
<1>1. task[j] # None
  BY DEF Installed, DropLocal, DropRefused, CleanFail, RecClean, At, Looping
<1>2. Known(j, v, d, a, c, l, e)
  BY <1>1, WorkFacts
<1>3. \A x : custody' = [custody EXCEPT ![v.job] = x] => f = x
  BY <1>2, CustodyEffect DEF Known, Fits
<1>4. v.seen.phase \in Phases /\ v.seen # None
  BY <1>2, NoneAssumption DEF Known, Receipt
<1>5. ASSUME NEW result \in RecoveryCodes, Recover(j, result),
             v.seen.phase \in {"installed", "staging", "installing"}
      PROVE  Proceeds(j)
  BY <1>1, <1>5, RecoverProceeds DEF PanelPhases
<1>6. ASSUME End(j, TRUE) \/ (End(j, FALSE) /\ v.seen.phase \notin AmbiguousPhases)
      PROVE  Proceeds(j)
  BY <1>1, <1>6, EndStops
<1>7. CASE Installed(j)
  <2>1. v.pc = "loop" /\ v.seen.phase = "installed" /\ ~v.seen.cancel_requested
    BY <1>7 DEF Installed, Looping, At
  <2>2. a \subseteq {"stage", "install"}
    BY <1>2, <2>1 DEF Known, Fits, Place, AtLoop
  <2> DEFINE u == [v EXCEPT !.staged = TRUE]
             g == Goal("launching", None, None)
             w == [u EXCEPT !.pc = "move", !.goal = g]
  <2>3. \/ f = "none" /\ Go(j, w)
        \/ Recover(j, "verification_required")
    BY <1>3, <1>7 DEF Installed, CleanLocal
  <2>4. CASE f = "none" /\ Go(j, w)
    <3>1. g \in Goals
      BY GoalType DEF Phases, AmbiguousPhases, RecoverySources
    <3>2. u \in Worker
      BY <1>2, FlagWorker DEF Known
    <3>3. u.job = v.job /\ u.seen = v.seen /\ u.staged = TRUE
      BY <1>2 DEF Known, Worker
    <3>4. g.phase = "launching" /\ g.root = None /\ g.result = None
      BY DEF Goal
    <3> HIDE DEF u, g
    <3> DEFINE x == [u EXCEPT !.pc = "move"]
    <3>5. x \in Worker
      BY <3>2, PcWorker DEF Calling
    <3>6. w = [x EXCEPT !.goal = g]
      OBVIOUS
    <3>7. w.job = v.job /\ w.pc = "move" /\ w.seen = v.seen /\ w.goal = g /\ w.staged
      BY <3>2, <3>3 DEF Worker
    <3> HIDE DEF x
    <3>8. w \in Worker
      BY <3>1, <3>5, <3>6, GoalWorker
    <3>9. task'[j] = w /\ Now(j, w.pc, w.seen, w.staged, w.op, w.goal)
      <4> HIDE DEF w
      <4>1. QED BY <1>1, <2>4, <3>7, <3>8, GoNow
    <3> HIDE DEF w
    <3>10. Advances(w)
      BY <2>1, <3>4, <3>7 DEF Advances, Forward
    <3>11. AtMove(w, d, a, c, l, f)
      BY <2>1, <2>2, <2>4, <3>7, <3>10 DEF AtMove, Emptied
    <3>12. Place(w, d, a, c, l, f)
      BY <3>7, <3>11 DEF Place, Operating
    <3>13. Fits(j, v, d, a, c, l, e)
      BY <1>2 DEF Known
    <3>14. Fits(j, w, d, a, c, l, f)
      BY <2>1, <3>7, <3>12, <3>13, PhaseFacts
         DEF Fits, Claiming, Early, PanelPhases
    <3>15. QED
      BY <3>7, <3>9, <3>14 DEF Proceeds, Continues, Claiming, Now
  <2>5. QED BY <1>5, <2>1, <2>3, <2>4 DEF RecoveryCodes
<1>8. CASE DropLocal(j)
  <2>1. /\ v.pc = "droplocal" /\ v.seen.cancel_requested
        /\ v.seen.phase \in CancellablePhases /\ SlotFree(c, l)
    BY <1>2, <1>8 DEF DropLocal, At, Known, Fits, Place
  <2> DEFINE g == CancelGoal(j)
  <2>2. ASSUME Aim(j, "move", g), Emptied(d, f) PROVE Proceeds(j)
    <3>1. g \in Goals
      BY GoalType DEF CancelGoal, Phases, TerminalPhases, ResultCodes, CancelCodes
    <3>2. /\ g.phase = "cancelled" /\ g.root = None
          /\ g.result = IF v.seen.phase = "staging"
                        THEN "cancelled_after_staging_cleanup"
                        ELSE "cancelled_by_user"
      BY DEF CancelGoal, Goal
    <3> HIDE DEF g
    <3>3. Now(j, "move", v.seen, v.staged, v.op, g)
      BY <1>1, <2>2, <3>1, AimNow DEF Calling
    <3>4. task'[j].pc = "move" /\ task'[j].seen = v.seen /\ task'[j].goal = g
      BY <3>3 DEF Now
    <3>5. Cancels(task'[j])
      BY <2>1, <3>2, <3>4 DEF Cancels
    <3>6. Place(task'[j], d, a, c, l, f)
      BY <2>1, <2>2, <3>4, <3>5 DEF Place, Operating, AtMove
    <3>7. Fits(j, v, d, a, c, l, e)
      BY <1>2 DEF Known
    <3>8. Fits(j, task'[j], d, a, c, l, f)
      BY <3>3, <3>4, <3>6, <3>7 DEF Fits, Claiming, Now
    <3>9. QED BY <3>3, <3>4, <3>8 DEF Proceeds, Continues, Claiming, Now
  <2>3. CASE HasLocal(j)
    <3>1. \/ f = "none" /\ Aim(j, "move", g)
          \/ IF v.seen.phase = "staging"
             THEN Recover(j, "verification_required") ELSE End(j, FALSE)
      BY <1>3, <1>8, <2>3 DEF DropLocal, CleanLocal
    <3>2. v.seen.phase # "staging" => v.seen.phase \notin AmbiguousPhases
      BY <2>1 DEF CancellablePhases, AmbiguousPhases
    <3>3. QED BY <1>5, <1>6, <2>2, <3>1, <3>2 DEF Emptied, RecoveryCodes
  <2>4. CASE ~HasLocal(j)
    <3>1. Aim(j, "move", g) /\ custody' = custody
      BY <1>8, <2>4 DEF DropLocal, Think
    <3>2. ~v.seen.apk /\ v.seen.phase # "downloading"
      BY <2>4 DEF HasLocal
    <3>3. v.seen.phase \notin ArtifactPhases
      BY <1>2, <3>2 DEF Known, Fits, Sane
    <3>4. v.seen.phase \in EmptyPhases
      BY <2>1, <3>2, <3>3 DEF CancellablePhases, ArtifactPhases, EmptyPhases
    <3>5. QED BY <1>2, <2>2, <3>1, <3>4 DEF Known
  <2>5. QED BY <2>3, <2>4
<1>9. CASE DropRefused(j)
  <2>1. v.seen.phase = "installing" /\ SlotFree(c, l)
    BY <1>2, <1>9 DEF DropRefused, At, Known, Fits, Place
  <2>2. \/ f = "none" /\ Aim(j, "fail", Goal("failed", None, "install_failed"))
        \/ Recover(j, "verification_required")
    BY <1>3, <1>9 DEF DropRefused, CleanLocal
  <2>3. "install_failed" \in FailureCodesOf(v.seen.phase)
    BY <2>1 DEF FailureCodesOf
  <2>4. QED
    BY <1>1, <1>5, <2>1, <2>2, <2>3, FailProceeds DEF Emptied, RecoveryCodes
<1>10. CASE CleanFail(j)
  <2>1. /\ Fails(v) /\ SlotFree(c, l)
        /\ v.seen.phase \in LocalPhases \cup {"staging"}
    BY <1>2, <1>10 DEF CleanFail, At, Known, Fits, Place
  <2>2. \/ f = "none" /\ To(j, "fail")
        \/ IF v.seen.phase = "staging"
           THEN Recover(j, "verification_required") ELSE End(j, FALSE)
    BY <1>3, <1>10 DEF CleanFail, CleanLocal
  <2>3. CASE f = "none" /\ To(j, "fail")
    <3>1. Now(j, "fail", v.seen, v.staged, v.op, v.goal)
      BY <1>1, <2>3, ToNow DEF Calling
    <3>2. task'[j].pc = "fail" /\ task'[j].seen = v.seen /\ task'[j].goal = v.goal
      BY <3>1 DEF Now
    <3>3. Fails(task'[j])
      BY <2>1, <3>2 DEF Fails
    <3>4. Place(task'[j], d, a, c, l, f)
      BY <2>1, <2>3, <3>2, <3>3 DEF Place, Operating, Emptied
    <3>5. QED BY <1>1, <3>1, <3>4, GoesOn DEF Claiming
  <2>4. v.seen.phase # "staging" => v.seen.phase \notin AmbiguousPhases
    BY <2>1 DEF LocalPhases, AmbiguousPhases
  <2>5. QED BY <1>5, <1>6, <2>2, <2>3, <2>4 DEF RecoveryCodes
<1>11. CASE RecClean(j)
  <2>1. Recovers(v)
    BY <1>2, <1>11 DEF RecClean, At, Known, Fits, Place
  <2>2. \/ f = "none" /\ To(j, "recget")
        \/ End(j, TRUE)
    BY <1>3, <1>11 DEF RecClean, CleanLocal
  <2>3. CASE f = "none" /\ To(j, "recget")
    <3>1. Now(j, "recget", v.seen, v.staged, v.op, v.goal)
      BY <1>1, <2>3, ToNow DEF Calling
    <3>2. task'[j].pc = "recget" /\ task'[j].seen = v.seen /\ task'[j].goal = v.goal
      BY <3>1 DEF Now
    <3>3. Recovers(task'[j])
      BY <2>1, <3>2 DEF Recovers
    <3>4. Place(task'[j], d, a, c, l, f)
      BY <2>3, <3>2, <3>3 DEF Place, Operating, Emptied
    <3>5. QED BY <1>1, <3>1, <3>4, GoesOn DEF Claiming
  <2>4. QED BY <1>6, <2>2, <2>3
<1>12. QED BY <1>7, <1>8, <1>9, <1>10, <1>11

\* A worker comes back to its loop with a newer receipt and nothing in mind.
LEMMA LoopNow ==
    ASSUME Standing, NEW j \in JobIds, task[j] # None, NEW v, v = task[j],
           NEW r \in Receipt,
           \/ Go(j, [v EXCEPT !.pc = "loop", !.seen = r, !.op = None])
           \/ Go(j, [v EXCEPT !.pc = "loop", !.seen = r, !.goal = None,
                              !.op = None])
           \/ Go(j, [v EXCEPT !.pc = "loop", !.seen = r, !.retried = FALSE])
    PROVE  Now(j, "loop", r, v.staged, task'[j].op, task'[j].goal)
<1> DEFINE u == [[v EXCEPT !.pc = "loop"] EXCEPT !.seen = r]
           w == [u EXCEPT !.op = None]
           x == [w EXCEPT !.goal = None]
           y == [u EXCEPT !.retried = FALSE]
<1>1. v \in Worker
  BY WorkFacts DEF Known
<1>2. [v EXCEPT !.pc = "loop"] \in Worker
  BY <1>1, PcWorker DEF Places
<1>3. u \in Worker
  BY <1>2, SeenWorker
<1>4. /\ w = [v EXCEPT !.pc = "loop", !.seen = r, !.op = None]
      /\ x = [v EXCEPT !.pc = "loop", !.seen = r, !.goal = None, !.op = None]
      /\ y = [v EXCEPT !.pc = "loop", !.seen = r, !.retried = FALSE]
  BY <1>1 DEF Worker
<1>5. \A z \in {w, x, y} :
        z.job = v.job /\ z.pc = "loop" /\ z.seen = r /\ z.staged = v.staged
  BY <1>1 DEF Worker
<1>6. w \in Worker /\ y \in Worker
  <2> HIDE DEF u
  <2>1. QED BY <1>3, OpWorker, FlagWorker
<1>7. x \in Worker
  <2> HIDE DEF w
  <2>1. QED BY <1>6, GoalWorker
<1>8. Go(j, w) \/ Go(j, x) \/ Go(j, y)
  BY <1>4
<1> HIDE DEF w, x, y
<1>9. ASSUME NEW z \in {w, x, y}, Go(j, z)
      PROVE  Now(j, "loop", r, v.staged, task'[j].op, task'[j].goal)
  <2>1. z \in Worker /\ z.job = v.job
    BY <1>5, <1>6, <1>7
  <2>2. task'[j] = z /\ Now(j, z.pc, z.seen, z.staged, z.op, z.goal)
    BY <1>9, <2>1, GoNow
  <2>3. QED BY <1>5, <2>2
<1>10. QED BY <1>8, <1>9

\* A worker goes on with the receipt it has just read.
LEMMA SeesOn ==
    ASSUME Standing, NEW j \in JobIds, task[j] # None, disk[j] # None,
           NEW pc, NEW op, NEW goal,
           Now(j, pc, disk[j], task[j].staged, op, goal),
           pc \in Claiming => task[j].pc \in Claiming,
           Place(task'[j], disk[j], asked[j], cmd[j], LiesOn(j), custody'[j])
    PROVE  Proceeds(j)
<1> DEFINE v == task[j]
           d == disk[j]
<1>1. /\ v.seen \in Receipt /\ d \in Receipt
      /\ v.job = j /\ Tracks(d, v.seen) /\ (Early(v.seen) => ~v.staged)
      /\ v.pc \in Claiming => ~v.staged /\ v.seen.phase # "healthy_unclaimed"
  BY WorkFacts DEF Known, Fits
<1>2. Sane(d)
  BY ReadIsSane DEF Standing
<1>3. Tracks(d, d)
  BY <1>1, PhaseFacts DEF Tracks, Early, Active
<1>4. Early(d) => Early(v.seen)
  <2>1. ASSUME Early(d) PROVE Early(v.seen)
    <3>1. Active(d)
      BY <2>1, PhaseFacts DEF Early, Active
    <3>2. d.phase = v.seen.phase
      BY <1>1, <3>1, OvertakenFields DEF Tracks
    <3>3. QED BY <1>1, <2>1, <3>2, NoneAssumption DEF Early
  <2>2. QED BY <2>1
<1>5. v.seen.plan = d.plan
  BY <1>1 DEF Tracks
<1>8. d.phase = "healthy_unclaimed" => v.seen.phase = "healthy_unclaimed"
  BY <1>1, OvertakenFields DEF Tracks, Active, TerminalPhases
<1> HIDE DEF v, d
<1>6. Fits(j, task'[j], d, asked[j], cmd[j], LiesOn(j), custody'[j])
  BY <1>1, <1>2, <1>3, <1>4, <1>8 DEF Fits, Now, v, d
<1>7. QED BY <1>5, <1>6 DEF Proceeds, Continues, Now, v, d

\* An operation that certainly did not reach the panel.
LEMMA RefusedProceeds ==
    ASSUME Standing, NEW j \in JobIds, task[j] # None, Refused(j),
           custody' = custody, task[j].pc \in {"authority", "send"}
    PROVE  Proceeds(j)
<1> DEFINE v == task[j]
           d == disk[j]
           a == asked[j]
           c == cmd[j]
           l == LiesOn(j)
           e == custody[j]
<1>1. Known(j, v, d, a, c, l, e)
  BY WorkFacts
<1>2. AtOperation(v, a, c, l) /\ v.op \in Ops
  BY <1>1 DEF Known, Fits, Place, Operating, Sound
<1>3. a \subseteq Below(v.op) /\ OpFits(v, c, l)
  BY <1>2 DEF AtOperation
<1>4. CASE v.op = "stage"
  <2>1. v.seen.phase = "staging"
    BY <1>3, <1>4 DEF OpFits
  <2>2. SlotFree(c, l)
    BY <1>1, <1>3, <1>4 DEF Below, Known
  <2>3. PICK result \in FailureCodesOf(v.seen.phase) :
            Aim(j, "cleanfail", Goal("failed", None, result))
    BY <1>4 DEF Refused, Fail
  <2>4. QED BY <2>1, <2>2, <2>3, FailProceeds
<1>5. CASE v.op = "launch"
  <2>1. v.seen.phase = "launching" /\ SlotFree(c, l)
    BY <1>3, <1>5 DEF OpFits
  <2>2. Emptied(d, custody'[j])
    BY <1>1, <2>1 DEF Known, EmptyPhases
  <2>3. "launch_failed" \in FailureCodesOf(v.seen.phase)
    BY <2>1 DEF FailureCodesOf
  <2>4. \/ Aim(j, "fail", Goal("failed", None, "launch_failed"))
        \/ Recover(j, "verification_required")
    BY <1>5 DEF Refused
  <2>5. QED
    BY <2>1, <2>2, <2>3, <2>4, FailProceeds, RecoverProceeds
       DEF PanelPhases, RecoveryCodes
<1>6. CASE v.op \notin {"stage", "launch"}
  <2>1. Recover(j, "verification_required")
    BY <1>6 DEF Refused
  <2>2. v.seen.phase \in PanelPhases
    BY <1>2, <1>3, <1>6 DEF OpFits, Ops, PanelPhases
  <2>3. QED BY <2>1, <2>2, RecoverProceeds DEF RecoveryCodes
<1>7. QED BY <1>4, <1>5, <1>6

\* What an undisturbed, or merely cancelled, receipt is.
LEMMA FreshFacts ==
    ASSUME Standing, NEW j \in JobIds, task[j] # None, disk[j] # None
    PROVE  /\ Fresh(j) = disk[j] /\ disk[j] \in Receipt
           /\ Undisturbed(j) /\ task[j].seen.phase \in PanelPhases
                 => disk[j] = task[j].seen
           /\ CancelledMeanwhile(j) /\ Active(task[j].seen)
                /\ ~task[j].seen.cancel_requested
                 => Overtaken(disk[j], task[j].seen)
<1> DEFINE s == task[j].seen
           d == disk[j]
<1>1. /\ s \in Receipt /\ d \in Receipt /\ Tracks(d, s) /\ Fresh(j) = d
  BY WorkFacts DEF Known, Fits, Fresh
<1>2. Active(d) => d = s \/ (Overtaken(d, s) /\ d.revision = s.revision + 1)
  BY <1>1, OvertakenFields DEF Tracks
<1>3. s.revision \in Nat
  BY <1>1 DEF Receipt
<1>4. Undisturbed(j) /\ s.phase \in PanelPhases => d = s
  BY <1>1, <1>2, <1>3, PhaseFacts DEF Undisturbed, Active
<1>5. CancelledMeanwhile(j) /\ Active(s) /\ ~s.cancel_requested => Overtaken(d, s)
  BY <1>1, <1>2 DEF CancelledMeanwhile, Active
<1>6. QED BY <1>1, <1>4, <1>5

\* Authority for an operation, up to the barrier, and the session.
Commands(j) ==
    /\ At(j, "send")
    /\ Ready(task[j].op, panel[task[j].seen.plan.serial])
    /\ task[j].op = "stage" => custody[j] = "ready"
    /\ cmd' = [cmd EXCEPT ![j] = [op |-> task[j].op, state |-> "sent",
                                  panel |-> task[j].seen.plan.serial]]
    /\ asked' = [asked EXCEPT ![j] = @ \cup {task[j].op}]
    /\ To(j, "answer")
    /\ UNCHANGED <<vars, up, custody, panel>>

LEMMA AuthorityProceeds ==
    ASSUME Standing, NEW j \in JobIds, Authority(j) \/ Barrier(j) \/ Send(j)
    PROVE  Proceeds(j) \/ Commands(j)
<1> DEFINE v == task[j]
           d == disk[j]
           a == asked[j]
           c == cmd[j]
           l == LiesOn(j)
           e == custody[j]
<1>1. task[j] # None /\ custody' = custody
  BY WorkFacts DEF Authority, Barrier, Send, At, Think, Get, Await
<1>2. CASE Commands(j)
  BY <1>2
<1>3. CASE task[j] # None /\ ~Commands(j)
  <2>1. Known(j, v, d, a, c, l, e) /\ custody' = custody /\ v.op \in Ops
    <3>1. Known(j, v, d, a, c, l, e) /\ custody' = custody
      BY <1>1, <1>3, WorkFacts
    <3>2. v.op \in Ops
      BY <3>1 DEF Known, Sound, Operating, Authority, Barrier, Send, At
    <3>3. QED BY <3>1, <3>2
  <2>2. v.pc \in {"authority", "barrier", "send"}
    BY DEF Authority, Barrier, Send, At
  <2>3. AtOperation(v, a, c, l)
    BY <2>1, <2>2 DEF Known, Fits, Place, Operating
  <2>4. a \subseteq Below(v.op) /\ OpFits(v, c, l)
    BY <2>2, <2>3 DEF AtOperation
  <2>5. ASSUME End(j, TRUE) PROVE Proceeds(j)
    BY <1>3, <2>5, EndStops
  <2>6. ASSUME Refused(j), v.pc \in {"authority", "send"} PROVE Proceeds(j)
    BY <1>3, <2>1, <2>6, RefusedProceeds
  <2>7. v.seen.phase \in PanelPhases /\ Active(v.seen)
    <3>1. v.seen.phase \in PanelPhases
      BY <2>1, <2>4 DEF OpFits, Ops, PanelPhases
    <3>2. QED BY <2>1, <3>1, PhaseFacts, NoneAssumption DEF Active, Known
  <2>8. ASSUME NEW pc \in {"barrier", "send"},
               Now(j, pc, v.seen, v.staged, v.op, v.goal)
        PROVE  Proceeds(j)
    <3>1. task'[j].pc = pc /\ task'[j].seen = v.seen /\ task'[j].op = v.op
      BY <2>8 DEF Now
    <3>2. AtOperation(task'[j], a, c, l)
      BY <2>4, <3>1 DEF AtOperation, OpFits
    <3>3. Place(task'[j], d, a, c, l, custody'[j])
      BY <3>1, <3>2 DEF Place, Operating
    <3>4. QED BY <1>3, <2>8, <3>3, GoesOn DEF Claiming
  <2>9. CASE Authority(j)
    <3>1. v.pc = "authority"
      BY <2>9 DEF Authority, At
    <3>2. \/ Refused(j) \/ End(j, TRUE)
          \/ /\ d # None /\ Fresh(j) = d
             /\ \/ /\ Undisturbed(j)
                   /\ Go(j, [v EXCEPT !.pc = "barrier", !.seen = d])
                \/ /\ CancelledMeanwhile(j) /\ v.op = "stage"
                   /\ Go(j, [v EXCEPT !.pc = "loop", !.seen = d, !.op = None])
      <4>1. Fresh(j) = d
        BY <2>1 DEF Fresh, Known, Fits
      <4>2. QED BY <2>9, <4>1 DEF Authority, Get, Await, Think
    <3>3. CASE /\ d # None /\ Undisturbed(j)
               /\ Go(j, [v EXCEPT !.pc = "barrier", !.seen = d])
      <4>1. d = v.seen /\ d \in Receipt
        BY <1>3, <2>7, <3>3, FreshFacts
      <4>2. Now(j, "barrier", d, v.staged, v.op, v.goal)
        BY <1>3, <3>3, <4>1, SeeNow DEF Calling
      <4>3. QED BY <2>8, <4>1, <4>2
    <3>4. CASE /\ d # None /\ CancelledMeanwhile(j) /\ v.op = "stage"
               /\ Go(j, [v EXCEPT !.pc = "loop", !.seen = d, !.op = None])
      <4>1. v.seen.phase = "staging" /\ ~v.seen.cancel_requested /\ a = {}
        BY <2>4, <3>4 DEF OpFits, Below
      <4>2. d \in Receipt /\ Overtaken(d, v.seen)
        BY <1>3, <2>7, <3>4, <4>1, FreshFacts
      <4>3. d.phase = "staging" /\ d.cancel_requested
        BY <2>1, <4>1, <4>2, OvertakenFields DEF Known
      <4>4. Now(j, "loop", d, v.staged, task'[j].op, task'[j].goal)
        BY <1>3, <3>4, <4>2, LoopNow
      <4>5. task'[j].pc = "loop" /\ task'[j].seen = d
        BY <4>4 DEF Now
      <4>6. Place(task'[j], d, a, c, l, custody'[j])
        BY <4>1, <4>3, <4>5 DEF Place, Operating, AtLoop
      <4>7. QED BY <1>3, <3>4, <4>4, <4>6, SeesOn DEF Claiming
    <3>5. QED BY <2>5, <2>6, <3>1, <3>2, <3>3, <3>4
  <2>10. CASE Barrier(j)
    <3>1. To(j, "send") \/ End(j, TRUE)
      BY <2>10 DEF Barrier, Await
    <3>2. To(j, "send") => Now(j, "send", v.seen, v.staged, v.op, v.goal)
      BY <1>3, ToNow DEF Places
    <3>3. QED BY <2>5, <2>8, <3>1, <3>2
  <2>11. CASE Send(j)
    <3>1. v.pc = "send" /\ v.job = j
      BY <2>1, <2>11 DEF Send, At, Known, Fits
    <3>2. Refused(j) \/ (v.op = "install" /\ Recover(j, "ambiguous_mutation"))
      BY <1>3, <2>1, <2>11, <3>1 DEF Send, Think, Commands
    <3>3. QED
      BY <1>3, <2>6, <2>7, <3>1, <3>2, RecoverProceeds DEF RecoveryCodes
  <2>12. QED BY <2>9, <2>10, <2>11
<1>4. QED BY <1>1, <1>2, <1>3

\* What the panel's answer, or its absence, makes of a worker.
LEMMA AnswerProceeds ==
    ASSUME Standing, NEW j \in JobIds, Answer(j)
    PROVE  Proceeds(j)
<1> DEFINE v == task[j]
           d == disk[j]
           a == asked[j]
           c == cmd[j]
           l == LiesOn(j)
           e == custody[j]
           goal == Goal("installing", None, None)
<1>1. /\ task[j] # None /\ v.pc = "answer" /\ custody' = custody
  BY DEF Answer, At, Think
<1>2. /\ Known(j, v, d, a, c, l, e) /\ Sent(d, a, c, l) /\ v.op \in Ops
      /\ v.job = j
  BY <1>1, WorkFacts, JobFacts DEF JobInv, Known, Sound, Operating, Fits
<1>3. /\ a \subseteq Below(v.op) \cup {v.op} /\ c # None /\ c.op = v.op
      /\ OpFits(v, c, l)
  BY <1>1, <1>2 DEF Known, Fits, Place, Operating, AtOperation
<1>4. v.seen.phase \in PanelPhases
  BY <1>2, <1>3 DEF OpFits, Ops, PanelPhases
<1>5. ASSUME Unknown(j) PROVE Proceeds(j)
  BY <1>1, <1>4, <1>5, RecoverProceeds DEF Unknown, RecoveryCodes
<1>6. v.seen.phase # "staging" => ~v.seen.cancel_requested
  BY <1>2, <1>4 DEF Known, Fits, Sane, PanelPhases, CancellablePhases
<1>7. \/ c.state = "done" /\ Succeeded(j)
      \/ /\ c.state = "refused" /\ v.op = "install" /\ Operate(j, "clean")
      \/ /\ c.state = "refused" /\ v.op = "launch"
         /\ Aim(j, "fail", Goal("failed", None, "launch_failed"))
      \/ Unknown(j)
  BY <1>2 DEF Answer, Think
<1>8. CASE c.state = "done" /\ Succeeded(j) /\ v.op = "stage"
  <2> DEFINE u == [v EXCEPT !.staged = TRUE]
             w == [[[u EXCEPT !.pc = "move"] EXCEPT !.op = None] EXCEPT !.goal = goal]
  <2>1. goal \in Goals
    BY GoalType DEF Phases, AmbiguousPhases, RecoverySources
  <2>2. /\ goal.phase = "installing" /\ goal.root = None /\ goal.result = None
    BY DEF Goal
  <2> HIDE DEF goal
  <2>3. w = [v EXCEPT !.pc = "move", !.staged = TRUE, !.op = None, !.goal = goal]
    BY <1>2 DEF Known, Worker
  <2>4. /\ w.job = j /\ w.pc = "move" /\ w.seen = v.seen /\ w.staged = TRUE
        /\ w.goal = goal
    BY <1>2 DEF Known, Worker
  <2>5. w \in Worker
    <3>1. u \in Worker
      BY <1>2, FlagWorker DEF Known
    <3> DEFINE x == [u EXCEPT !.pc = "move"]
               y == [x EXCEPT !.op = None]
    <3>2. x \in Worker
      <4> HIDE DEF u
      <4>1. QED BY <3>1, PcWorker DEF Calling
    <3>3. y \in Worker
      <4> HIDE DEF x
      <4>1. QED BY <3>2, OpWorker
    <3>4. [y EXCEPT !.goal = goal] \in Worker
      <4> HIDE DEF y
      <4>1. QED BY <2>1, <3>3, GoalWorker
    <3>5. QED BY <3>4
  <2>6. Go(j, w)
    <3>1. Go(j, [v EXCEPT !.pc = "move", !.staged = TRUE, !.op = None, !.goal = goal])
      BY <1>8 DEF Succeeded, goal
    <3> HIDE DEF w
    <3>2. QED BY <2>3, <3>1
  <2> HIDE DEF w
  <2>7. task'[j] = w /\ poisoned' = poisoned /\ task'[j] # None
    BY <1>1, <1>2, <2>4, <2>5, <2>6, GoNow DEF Now
  <2>8. v.seen.phase = "staging" /\ ~v.seen.cancel_requested /\ a \subseteq {"stage"}
    BY <1>3, <1>8 DEF OpFits, Below
  <2>9. Advances(w)
    BY <2>2, <2>4, <2>8 DEF Advances, Forward
  <2>10. Place(w, d, a, c, l, e)
    BY <2>4, <2>8, <2>9 DEF Place, Operating, AtMove
  <2>11. Fits(j, v, d, a, c, l, e)
    BY <1>2 DEF Known
  <2>12. Fits(j, w, d, a, c, l, e)
    BY <2>4, <2>8, <2>10, <2>11, PhaseFacts
       DEF Fits, Claiming, Early, PanelPhases, EarlyPhases
  <2>13. QED
    BY <1>1, <2>4, <2>7, <2>12 DEF Proceeds, Continues, Claiming
<1>9. CASE c.state = "done" /\ Succeeded(j) /\ v.op = "install"
  <2>1. v.seen.phase = "installing" /\ a \subseteq {"stage", "install"}
    BY <1>3, <1>9 DEF OpFits, Below
  <2>2. Aim(j, "move", Goal("installed", None, None))
    BY <1>9 DEF Succeeded, Move
  <2>3. "installed" \in Phases /\ <<"installing", "installed">> \in Forward
    BY DEF Phases, RecoverySources, Forward
  <2>4. QED BY <1>1, <1>6, <2>1, <2>2, <2>3, MoveProceeds
<1>10. CASE c.state = "done" /\ Succeeded(j) /\ v.op = "launch"
  <2>1. v.seen.phase = "launching" /\ SlotFree(c, l)
    BY <1>3, <1>10 DEF OpFits
  <2>2. Aim(j, "move", Goal("health_check", None, None))
    BY <1>10 DEF Succeeded, Move
  <2>3. "health_check" \in Phases /\ <<"launching", "health_check">> \in Forward
    BY DEF Phases, RecoverySources, Forward
  <2>4. QED BY <1>1, <1>6, <2>1, <2>2, <2>3, MoveProceeds
<1>11. CASE c.state = "done" /\ Succeeded(j) /\ v.op = "clean"
  <2>1. /\ SlotFree(c, l) /\ a \subseteq Below("launch")
        /\ \/ v.seen.phase = "staging" /\ v.seen.cancel_requested
           \/ v.seen.phase \in {"installing", "launching"}
    BY <1>2, <1>3, <1>11 DEF Sent, Below, OpFits
  <2>2. CASE v.seen.phase = "staging"
    <3>1. To(j, "droplocal")
      BY <1>11, <2>2 DEF Succeeded
    <3>2. Now(j, "droplocal", v.seen, v.staged, v.op, v.goal)
      BY <1>1, <3>1, ToNow DEF Places
    <3>3. task'[j].pc = "droplocal" /\ task'[j].seen = v.seen
      BY <3>2 DEF Now
    <3>4. Place(task'[j], d, a, c, l, custody'[j])
      BY <2>1, <2>2, <3>3 DEF Place, Operating, CancellablePhases
    <3>5. QED BY <1>1, <3>2, <3>4, GoesOn DEF Claiming
  <2>3. CASE v.seen.phase = "installing"
    <3>1. To(j, "droprefused")
      BY <1>11, <2>3 DEF Succeeded
    <3>2. Now(j, "droprefused", v.seen, v.staged, v.op, v.goal)
      BY <1>1, <3>1, ToNow DEF Places
    <3>3. task'[j].pc = "droprefused" /\ task'[j].seen = v.seen
      BY <3>2 DEF Now
    <3>4. Place(task'[j], d, a, c, l, custody'[j])
      BY <2>1, <2>3, <3>3 DEF Place, Operating
    <3>5. QED BY <1>1, <3>2, <3>4, GoesOn DEF Claiming
  <2>4. CASE v.seen.phase = "launching"
    <3>1. Operate(j, "launch")
      BY <1>11, <2>4 DEF Succeeded
    <3>2. QED BY <1>1, <2>1, <2>4, <3>1, OperateProceeds DEF Ops
  <2>5. QED BY <2>1, <2>2, <2>3, <2>4
<1>12. CASE v.op = "install" /\ Operate(j, "clean")
  <2>1. v.seen.phase = "installing" /\ a \subseteq Below("clean")
    BY <1>3, <1>12 DEF OpFits, Below
  <2>2. QED BY <1>1, <1>12, <2>1, OperateProceeds DEF Ops
<1>13. CASE v.op = "launch" /\ Aim(j, "fail", Goal("failed", None, "launch_failed"))
  <2>1. v.seen.phase = "launching" /\ SlotFree(c, l)
    BY <1>3, <1>13 DEF OpFits
  <2>2. Emptied(d, custody'[j])
    BY <1>1, <1>2, <2>1 DEF Known, EmptyPhases
  <2>3. "launch_failed" \in FailureCodesOf(v.seen.phase)
    BY <2>1 DEF FailureCodesOf
  <2>4. QED BY <1>1, <1>13, <2>1, <2>2, <2>3, FailProceeds
<1>14. QED
  BY <1>2, <1>5, <1>7, <1>8, <1>9, <1>10, <1>11, <1>12, <1>13 DEF Ops

\* The fresh looks before, and the failed attempts at, a transition.
LEMMA LookProceeds ==
    ASSUME Standing, NEW j \in JobIds,
           \/ Recheck(j) \/ DoFail(j) \/ DoRecover(j) \/ RecGet(j) \/ CallFails(j)
           \/ DoMove(j) /\ (To(j, "recheck") \/ End(j, TRUE))
                /\ ~Current(disk, j, task[j].seen.revision)
           \/ (Claims(j) \/ DoMove(j) \/ Finish(j)) /\ End(j, TRUE)
    PROVE  Proceeds(j)
<1> DEFINE v == task[j]
           d == disk[j]
           a == asked[j]
           c == cmd[j]
           l == LiesOn(j)
           e == custody[j]
<1>1. task[j] # None
  BY TaskThere DEF TaskStep, Claims, Works, Tasks
<1>2. /\ Known(j, v, d, a, c, l, e) /\ v.job = j /\ Tracks(d, v.seen)
      /\ Fresh(j) = d /\ Place(v, d, a, c, l, e)
  BY <1>1, WorkFacts DEF Known, Fits, Fresh
<1>3. ASSUME End(j, TRUE) PROVE Proceeds(j)
  BY <1>1, <1>3, EndStops
<1>4. CASE CallFails(j)
  BY <1>3, <1>4 DEF CallFails
<1>5. CASE DoMove(j) /\ To(j, "recheck") /\ ~Current(disk, j, v.seen.revision)
  <2>1. v.pc = "move" /\ custody' = custody
    BY <1>5 DEF DoMove, At, AskTransition, Await
  <2>2. AtMove(v, d, a, c, l, e)
    BY <1>2, <2>1 DEF Place
  <2>3. Active(d) => Overtaken(d, v.seen)
    BY <1>2, <1>5 DEF Tracks, Active, Current
  <2>4. Now(j, "recheck", v.seen, v.staged, v.op, v.goal)
    BY <1>1, <1>5, ToNow DEF Calling
  <2>5. /\ task'[j].pc = "recheck" /\ task'[j].seen = v.seen
        /\ task'[j].goal = v.goal /\ task'[j].staged = v.staged
    BY <2>4 DEF Now
  <2>6. AtMove(task'[j], d, a, c, l, e)
    BY <2>2, <2>5 DEF AtMove, Advances, Cancels
  <2>7. Place(task'[j], d, a, c, l, custody'[j])
    BY <2>1, <2>3, <2>5, <2>6 DEF Place, Operating
  <2>8. QED BY <1>1, <2>4, <2>7, GoesOn DEF Claiming
<1>6. CASE Recheck(j)
  <2>1. v.pc = "recheck" /\ custody' = custody
    BY <1>6 DEF Recheck, At, Get, Await
  <2>2. AtMove(v, d, a, c, l, e) /\ (Active(d) => Overtaken(d, v.seen))
    BY <1>2, <2>1 DEF Place
  <2>3. \/ End(j, TRUE)
        \/ /\ d # None /\ CancelledMeanwhile(j)
           /\ Go(j, [v EXCEPT !.pc = "loop", !.seen = d, !.goal = None, !.op = None])
    BY <1>2, <1>6 DEF Recheck, Get, Await
  <2>4. CASE /\ d # None /\ CancelledMeanwhile(j)
             /\ Go(j, [v EXCEPT !.pc = "loop", !.seen = d, !.goal = None, !.op = None])
    <3>1. v.seen.phase \notin TerminalPhases
      <4>1. CASE Advances(v)
        BY <4>1 DEF Advances, Forward, TerminalPhases
      <4>2. CASE Cancels(v)
        BY <4>2 DEF Cancels, CancellablePhases, TerminalPhases
      <4>3. QED BY <2>2, <4>1, <4>2 DEF AtMove
    <3>2. Overtaken(d, v.seen) /\ d \in Receipt
      BY <1>2, <2>2, <2>4, <3>1 DEF CancelledMeanwhile, Active, Known
    <3>3. /\ ~v.seen.cancel_requested /\ v.seen.phase \in CancellablePhases
          /\ d.phase = v.seen.phase /\ d.cancel_requested
      BY <1>2, <3>2, OvertakenFields DEF Known
    <3>4. Advances(v)
      BY <2>2, <3>3 DEF AtMove, Cancels
    <3>5. v.seen.phase = "staging" => v.staged /\ a \subseteq {"stage"}
      BY <2>2, <3>3 DEF AtMove, Cancels
    <3>6. Now(j, "loop", d, v.staged, task'[j].op, task'[j].goal)
      BY <1>1, <2>4, <3>2, LoopNow
    <3>7. task'[j].pc = "loop" /\ task'[j].seen = d /\ task'[j].staged = v.staged
      BY <3>6 DEF Now
    <3>8. AtLoop(task'[j], a)
      BY <3>3, <3>5, <3>7 DEF AtLoop, CancellablePhases
    <3>9. Place(task'[j], d, a, c, l, custody'[j])
      BY <3>7, <3>8 DEF Place, Operating
    <3>10. QED BY <1>1, <2>4, <3>6, <3>9, SeesOn DEF Claiming
  <2>5. QED BY <1>3, <2>3, <2>4
<1>7. CASE DoFail(j) \/ DoRecover(j) \/ RecGet(j)
  <2>1. /\ v.pc \in {"fail", "recover", "recget"} /\ custody' = custody
    BY <1>7 DEF DoFail, DoRecover, RecGet, At, Get, Await
  <2> DEFINE pc == IF v.pc = "recover" THEN "recclean" ELSE "finish"
             next == IF Terminal(d) THEN "loop" ELSE pc
  <2>2. \/ End(j, TRUE)
        \/ d # None /\ Go(j, [v EXCEPT !.seen = d, !.pc = next])
    BY <1>2, <1>7 DEF DoFail, DoRecover, RecGet, At, Get, Await, Unfinished
  <2>3. CASE d # None /\ Go(j, [v EXCEPT !.seen = d, !.pc = next])
    <3>1. d \in Receipt /\ next \in Calling \cup Places /\ next \notin Claiming
      BY <1>2, <2>3 DEF Known, Calling, Places, Claiming
    <3>2. [v EXCEPT !.seen = d, !.pc = next] = [v EXCEPT !.pc = next, !.seen = d]
      BY <1>2 DEF Known, Worker
    <3>3. Now(j, next, d, v.staged, v.op, v.goal)
      <4> HIDE DEF next
      <4>1. Go(j, [v EXCEPT !.pc = next, !.seen = d])
        BY <2>3, <3>2
      <4>2. QED BY <1>1, <3>1, <4>1, SeeNow
    <3>4. task'[j].pc = next /\ task'[j].seen = d /\ task'[j].goal = v.goal
      BY <3>3 DEF Now
    <3>5. CASE Terminal(d)
      <4>1. AtLoop(task'[j], a)
        BY <3>4, <3>5 DEF AtLoop, Terminal, TerminalPhases
      <4>2. Place(task'[j], d, a, c, l, custody'[j])
        BY <3>4, <3>5, <4>1 DEF Place, Operating
      <4>3. QED BY <1>1, <2>3, <3>1, <3>3, <4>2, SeesOn
    <3>6. CASE ~Terminal(d)
      <4>1. d.phase = v.seen.phase
        BY <1>2, <2>3, <3>6 DEF Known, Active, Terminal
      <4>2. CASE v.pc = "fail"
        <5>1. Fails(v) /\ SlotFree(c, l) /\ Emptied(d, e)
          BY <1>2, <4>2 DEF Place
        <5>2. Fails(task'[j])
          BY <3>4, <4>1, <5>1 DEF Fails
        <5>3. Place(task'[j], d, a, c, l, custody'[j])
          BY <2>1, <3>4, <3>6, <4>2, <5>1, <5>2 DEF Place, Operating
        <5>4. QED BY <1>1, <2>3, <3>1, <3>3, <5>3, SeesOn
      <4>3. CASE v.pc \in {"recover", "recget"}
        <5>1. Recovers(v) /\ (v.pc = "recget" => Emptied(d, e))
          BY <1>2, <4>3 DEF Place
        <5>2. Recovers(task'[j])
          BY <3>4, <4>1, <5>1 DEF Recovers
        <5>3. Place(task'[j], d, a, c, l, custody'[j])
          BY <2>1, <3>4, <3>6, <4>3, <5>1, <5>2 DEF Place, Operating
        <5>4. QED BY <1>1, <2>3, <3>1, <3>3, <5>3, SeesOn
      <4>4. QED BY <2>1, <4>2, <4>3
    <3>7. QED BY <3>5, <3>6
  <2>4. QED BY <1>3, <2>2, <2>3
<1>8. QED BY <1>3, <1>4, <1>5, <1>6, <1>7

\* A claim that is written.
Reclaims(j) ==
    /\ \E cleaned \in BOOLEAN :
           /\ At(j, IF cleaned THEN "confirm" ELSE "claim")
           /\ Claim(Ha, j, task[j].seen.revision, cleaned)
    /\ \/ End(j, TRUE)
       \/ disk'[j] # None /\ cache'[Ha] # None /\ Claimed(j, disk'[j])
    /\ UNCHANGED <<up, custody, world>>

LEMMA ClaimsProceed ==
    ASSUME Standing, NEW j \in JobIds, Claims(j)
    PROVE  Proceeds(j) \/ Reclaims(j)
<1> DEFINE v == task[j]
           d == disk[j]
           a == asked[j]
           c == cmd[j]
           l == LiesOn(j)
           e == custody[j]
           k == claimed[Ha][j]
<1>1. /\ task[j] # None /\ v.pc \in Claiming
  BY DEF Claims, Begin, AskFirst, Reget, Reclean, Confirm, At, Claiming
<1>2. /\ Known(j, v, d, a, c, l, e) /\ v.job = j /\ Fresh(j) = d
      /\ Fits(j, v, d, a, c, l, e) /\ j # Resumer /\ j \notin poisoned
      /\ Says(d, a, c, l, e) /\ (Grasped(d, k) => Past(j) \/ j \in poisoned)
  BY <1>1, WorkFacts, JobFacts DEF Known, Fits, Fresh, JobInv
<1>3. ~Grasped(d, k) /\ ~v.staged
  BY <1>1, <1>2 DEF Past, Fits
<1>4. ASSUME End(j, TRUE) PROVE Proceeds(j)
  BY <1>1, <1>4, EndStops
<1>5. ASSUME NEW pc \in {"claim", "reclean"}, d # None,
             Go(j, [v EXCEPT !.pc = pc, !.seen = d])
      PROVE  Proceeds(j)
  <2>1. d \in Receipt
    BY <1>2, <1>5 DEF Known
  <2>2. Now(j, pc, d, v.staged, v.op, v.goal)
    BY <1>1, <1>5, <2>1, SeeNow DEF Calling, Places
  <2>3. task'[j].pc = pc
    BY <2>2 DEF Now
  <2>4. Place(task'[j], d, a, c, l, custody'[j])
    BY <2>3 DEF Place, Operating
  <2>5. QED BY <1>1, <1>5, <2>2, <2>4, SeesOn
<1>6. ASSUME NEW pc \in {"reget", "confirm"}, To(j, pc),
             pc = "confirm" => custody'[j] = "none"
      PROVE  Proceeds(j)
  <2>1. Now(j, pc, v.seen, v.staged, v.op, v.goal)
    BY <1>1, <1>6, ToNow DEF Calling, Places
  <2>2. task'[j].pc = pc
    BY <2>1 DEF Now
  <2>3. Place(task'[j], d, a, c, l, custody'[j])
    BY <1>6, <2>2 DEF Place, Operating, Emptied
  <2>4. QED BY <1>1, <2>1, <2>3, GoesOn
<1>7. ASSUME ClaimLost(j) PROVE Proceeds(j)
  <2> DEFINE u == [v EXCEPT !.pc = "begin"]
             w == [u EXCEPT !.retried = TRUE]
  <2>1. CASE Go(j, [v EXCEPT !.pc = "begin", !.retried = TRUE])
    <3>1. u \in Worker
      BY <1>2, PcWorker DEF Known, Calling
    <3>2. /\ w = [v EXCEPT !.pc = "begin", !.retried = TRUE]
          /\ w.job = v.job /\ w.pc = "begin" /\ w.seen = v.seen
          /\ w.staged = v.staged /\ w.op = v.op /\ w.goal = v.goal
      BY <1>2 DEF Known, Worker
    <3>3. w \in Worker
      <4> HIDE DEF u
      <4>1. QED BY <3>1, FlagWorker
    <3>4. Go(j, w)
      BY <2>1, <3>2
    <3> HIDE DEF w
    <3>5. task'[j] = w /\ Now(j, "begin", v.seen, v.staged, v.op, v.goal)
      BY <1>1, <3>2, <3>3, <3>4, GoNow
    <3>6. Place(task'[j], d, a, c, l, custody'[j])
      BY <3>2, <3>5 DEF Place, Operating
    <3>7. QED BY <1>1, <3>5, <3>6, GoesOn
  <2>2. QED BY <1>4, <1>7, <2>1 DEF ClaimLost
<1>8. ASSUME d # None, Held(j), Current(disk, j, v.seen.revision),
             Claimable(d), Claimed(j, d), custody' = custody
      PROVE  Proceeds(j)
  <2>1. Go(j, [v EXCEPT !.pc = "loop", !.seen = d, !.retried = FALSE])
    BY <1>2, <1>8 DEF Claimed
  <2>2. d \in Receipt
    BY <1>2, <1>8 DEF Known
  <2>3. Now(j, "loop", d, v.staged, task'[j].op, task'[j].goal)
    BY <1>1, <2>1, <2>2, LoopNow
  <2>4. task'[j].pc = "loop" /\ task'[j].seen = d /\ task'[j].staged = v.staged
    BY <2>3 DEF Now
  <2>5. d.phase \notin AmbiguousPhases
    BY <1>3, <1>8 DEF Grasped, Held, Claimable
  <2>6. d.phase = "installed" => a \subseteq {"stage", "install"}
    BY <1>2, <1>8 DEF Says
  <2>7. AtLoop(task'[j], a)
    BY <2>4, <2>5, <2>6 DEF AtLoop, AmbiguousPhases
  <2>8. Place(task'[j], d, a, c, l, custody'[j])
    BY <2>4, <2>7 DEF Place, Operating
  <2>9. QED BY <1>1, <1>8, <2>3, <2>8, SeesOn DEF Claiming
<1>9. ASSUME NEW cleaned \in BOOLEAN, AskClaim(j, cleaned),
             At(j, IF cleaned THEN "confirm" ELSE "claim")
      PROVE  Proceeds(j) \/ Reclaims(j)
  <2>1. \/ End(j, TRUE) /\ ~Claim(Ha, j, v.seen.revision, cleaned)
        \/ ClaimLost(j)
        \/ /\ d # None /\ Held(j) /\ Current(disk, j, v.seen.revision)
           /\ Claimable(d) /\ Claimed(j, d) /\ custody' = custody
        \/ To(j, "reget")
        \/ /\ Claim(Ha, j, v.seen.revision, cleaned)
           /\ \/ End(j, TRUE)
              \/ disk'[j] # None /\ cache'[Ha] # None /\ Claimed(j, disk'[j])
           /\ UNCHANGED <<up, custody, world>>
    BY <1>2, <1>9 DEF AskClaim, Await, Current
  <2>2. QED BY <1>4, <1>6, <1>7, <1>8, <1>9, <2>1 DEF Reclaims
<1>10. CASE Begin(j)
  <2>1. End(j, TRUE) \/ (d # None /\ Go(j, [v EXCEPT !.pc = "claim", !.seen = d]))
    BY <1>2, <1>10 DEF Begin, Get, Await
  <2>2. QED BY <1>4, <1>5, <2>1
<1>11. CASE Reget(j)
  <2>1. End(j, TRUE) \/ (d # None /\ Go(j, [v EXCEPT !.pc = "reclean", !.seen = d]))
    BY <1>2, <1>11 DEF Reget, Get, Await
  <2>2. QED BY <1>4, <1>5, <2>1
<1>12. CASE Reclean(j)
  <2>1. End(j, TRUE) \/ (custody'[j] = "none" /\ To(j, "confirm"))
    <3>1. End(j, TRUE) \/ (custody' = [custody EXCEPT ![j] = "none"] /\ To(j, "confirm"))
      BY <1>2, <1>12 DEF Reclean, CleanLocal
    <3> QED BY <3>1, CustodyEffect
  <2>2. QED BY <1>4, <1>6, <2>1
<1>13. CASE AskFirst(j)
  BY <1>9, <1>13 DEF AskFirst
<1>14. CASE Confirm(j)
  BY <1>9, <1>14 DEF Confirm
<1>15. QED BY <1>10, <1>11, <1>12, <1>13, <1>14 DEF Claims

\* A transition that is written.
Transits(j) ==
    /\ At(j, "move") \/ At(j, "finish")
    /\ Transition(Ha, j, task[j].seen.revision, task[j].goal.phase,
                  task[j].goal.root, task[j].goal.result, None)
    /\ \/ End(j, TRUE)
       \/ /\ disk'[j] # None /\ cache'[Ha] # None
          /\ Go(j, [task[j] EXCEPT !.pc = "loop", !.seen = disk'[j],
                                   !.goal = None, !.op = None])
    /\ UNCHANGED <<up, custody, world>>

LEMMA TransitionProceeds ==
    ASSUME Standing, NEW j \in JobIds, DoMove(j) \/ Finish(j)
    PROVE  (Proceeds(j) /\ Refresh(Ha)) \/ Transits(j)
<1>1. task[j] # None /\ task[j].job = j
  BY WorkFacts DEF DoMove, Finish, At, Known, Fits
<1> DEFINE lost == (DoMove(j) /\ To(j, "recheck")) \/ End(j, TRUE)
<1>2. \/ /\ ~Current(disk, j, task[j].seen.revision)
         /\ Refresh(Ha) /\ lost
      \/ Refresh(Ha) /\ End(j, TRUE)
      \/ Transits(j)
  BY <1>1 DEF DoMove, Finish, AskTransition, Await, Transits
<1>3. QED BY <1>2, LookProceeds

\* Every step a worker takes, by what it writes.
LEMMA OwnSteps ==
    ASSUME Standing, NEW j \in JobIds, TaskStep(j)
    PROVE  \/ /\ Proceeds(j) /\ UNCHANGED world
              /\ disk' = disk /\ Shrunk(j)
           \/ Commands(j) \/ Reclaims(j) \/ Transits(j)
<1>1. /\ j \in Tasks /\ task[j] # None /\ TypeOK
  BY TaskThere DEF Tasks, Standing, ExecInv, ExecTypeOK
<1>2. (Refresh(Ha) \/ Fault(Ha) \/ UNCHANGED vars) => disk' = disk /\ Shrunk(j)
  <2>1. UNCHANGED vars => disk' = disk /\ Shrunk(j)
    BY DEF vars, Shrunk
  <2>2. QED BY <1>1, <2>1, StillEffect
<1>3. CASE Send(j) /\ ~Commands(j)
  <2>1. UNCHANGED vars /\ UNCHANGED world
    <3>1. task[j].job = j
      BY <1>1, WorkFacts DEF Known, Fits
    <3>2. QED BY <1>3, <3>1 DEF Send, Think, Commands
  <2>2. QED BY <1>2, <1>3, <2>1, AuthorityProceeds
<1>4. CASE ~Send(j)
  <2>1. UNCHANGED world
    BY <1>1, <1>4, OnlySendCommands
  <2>2. CASE DoMove(j) \/ Finish(j)
    BY <1>2, <2>1, <2>2, TransitionProceeds
  <2>3. CASE Claims(j)
    <3>1. task[j].job = j
      BY <1>1, WorkFacts DEF Known, Fits
    <3>2. \/ Refresh(Ha) \/ UNCHANGED vars
          \/ /\ At(j, "claim") /\ Claim(Ha, j, task[j].seen.revision, FALSE)
             /\ AskClaim(j, FALSE)
          \/ /\ At(j, "confirm") /\ Claim(Ha, j, task[j].seen.revision, TRUE)
             /\ AskClaim(j, TRUE)
      BY <2>3, <3>1 DEF Claims, Begin, AskFirst, Reget, Reclean, Confirm, Get, Await,
                 CleanLocal, AskClaim
    <3>3. CASE Refresh(Ha) \/ UNCHANGED vars
      <4>1. Reclaims(j) \/ Proceeds(j)
        BY <2>3, ClaimsProceed
      <4>2. QED BY <1>2, <2>1, <3>3, <4>1
    <3>4. ASSUME NEW cleaned \in BOOLEAN,
                 Claim(Ha, j, task[j].seen.revision, cleaned),
                 At(j, IF cleaned THEN "confirm" ELSE "claim"),
                 AskClaim(j, cleaned)
          PROVE  Reclaims(j)
      <4>1. /\ disk[j] # None /\ Current(disk, j, task[j].seen.revision)
            /\ Claimable(disk[j]) /\ ~Held(j)
            /\ Terminal(ClaimedReceipt(disk[j])) => cleaned
        BY <3>4 DEF Claim, Held, Current
      <4>2. /\ End(j, TRUE) \/ (disk'[j] # None /\ cache'[Ha] # None
                                  /\ Claimed(j, disk'[j]))
            /\ UNCHANGED <<up, custody, world>>
        BY <3>1, <3>4, <4>1 DEF AskClaim, Await, Current
      <4>3. QED BY <3>4, <4>2 DEF Reclaims
    <3>5. QED BY <3>2, <3>3, <3>4
  <2>4. CASE CallFails(j)
    BY <1>2, <2>1, <2>4, LookProceeds DEF CallFails
  <2>5. CASE ~(DoMove(j) \/ Finish(j) \/ Claims(j) \/ CallFails(j))
    <3>1. ~(\E pc \in {"claim", "confirm", "move", "finish"} : At(j, pc))
      BY <1>4, <2>5
         DEF TaskStep, Works, At, Looping,
             LoopEnds, Approved, Authorizing, Preflight, Acquire, Fetch, Unpart,
             Downloaded, ArtifactReady, Revalidate, Staging, Installing, Installed,
             Launching, HealthCheck, CancelSeen, DropLocal, Authority, Barrier,
             Answer, DropRefused, CleanFail, Recheck, DoFail, DoRecover, RecClean,
             RecGet
    <3>2. disk' = disk /\ Shrunk(j)
      BY <1>1, <3>1, TaskSpares
    <3>3. Proceeds(j) \/ Commands(j)
      BY <1>4, <2>5, LoopProceeds, FetchProceeds, CleanProceeds,
         AuthorityProceeds, AnswerProceeds, LookProceeds DEF TaskStep, Works
    <3>4. QED BY <2>1, <3>2, <3>3
  <2>6. QED BY <2>2, <2>3, <2>4, <2>5
<1>5. QED BY <1>3, <1>4

\* A worker leaves the files alone, removes them, or downloads.
LEMMA WorkerCustody ==
    ASSUME Standing, NEW j \in JobIds, TaskStep(j)
    PROVE  \/ custody'[j] \in {custody[j], "none"}
           \/ task[j].seen.phase \in LocalPhases
<1>1. /\ j \in Tasks /\ task[j] # None
      /\ custody \in [JobIds -> {"none", "part", "ready"}]
  BY TaskThere DEF Tasks, Standing, ExecInv, ExecTypeOK
<1>2. task[j].job = j /\ Place(task[j], disk[j], asked[j], cmd[j], LiesOn(j), custody[j])
  BY <1>1, WorkFacts DEF Known, Fits
<1>3. CASE Acquire(j) \/ Fetch(j)
  BY <1>2, <1>3 DEF Acquire, Fetch, Place, Looping, At, LocalPhases
<1>4. CASE \/ Unpart(j) \/ Installed(j) \/ DropLocal(j) \/ DropRefused(j)
           \/ CleanFail(j) \/ RecClean(j) \/ Reclean(j)
  BY <1>1, <1>2, <1>4
     DEF Think, CleanLocal, Unpart, Installed, DropLocal, DropRefused,
         CleanFail, RecClean, Reclean
<1>5. CASE \/ LoopEnds(j) \/ Approved(j) \/ Authorizing(j) \/ Preflight(j)
           \/ Downloaded(j) \/ ArtifactReady(j) \/ Revalidate(j)
           \/ Staging(j) \/ Installing(j) \/ Launching(j)
           \/ HealthCheck(j) \/ CancelSeen(j) \/ Answer(j) \/ Send(j)
  BY <1>5
     DEF Think, LoopEnds, Approved, Authorizing, Preflight, Downloaded,
         ArtifactReady, Revalidate, Staging, Installing, Launching,
         HealthCheck, CancelSeen, Answer, Send
<1>6. CASE \/ Begin(j) \/ Reget(j) \/ Recheck(j) \/ DoFail(j) \/ DoRecover(j)
           \/ RecGet(j) \/ Authority(j) \/ Barrier(j) \/ CallFails(j)
  BY <1>6
     DEF Begin, Reget, Recheck, DoFail, DoRecover, RecGet, Authority, Barrier,
         CallFails, Get, Await, Think
<1>7. CASE AskFirst(j) \/ Confirm(j) \/ DoMove(j) \/ Finish(j)
  BY <1>7
     DEF AskFirst, Confirm, DoMove, Finish, AskClaim, AskTransition, Await
<1>8. QED
  BY <1>3, <1>4, <1>5, <1>6, <1>7 DEF TaskStep, Claims, Works

\* A step of a worker that writes nothing.
LEMMA OwnStill ==
    ASSUME Standing, NEW j \in JobIds, TaskStep(j),
           Proceeds(j), UNCHANGED world, disk' = disk, Shrunk(j)
    PROVE  JobInv(j)'
<1> DEFINE v == task[j]
           w == task'[j]
           d == disk[j]
           a == asked[j]
           c == cmd[j]
           l == LiesOn(j)
           e == custody[j]
           f == custody'[j]
           k == claimed[Ha][j]
           h == claimed'[Ha][j]
<1>1. /\ v # None /\ j \in Tasks /\ j \in used /\ up /\ j \notin poisoned
      /\ Known(j, v, d, a, c, l, e)
  BY TaskThere, WorkFacts DEF Tasks
<1>2. up' = up /\ used' = used
  <2>2. up' = up
    BY <1>1, TaskCustody DEF Standing
  <2>3. used' = used
    <3>1. CASE UNCHANGED vars
      BY <3>1 DEF vars
    <3>2. QED
      BY <1>1, <3>1, TaskKinds
         DEF TaskCall, Refresh, Fault, VerifyBarrier, Claim, Transition
  <2>4. QED BY <2>2, <2>3
<1>3. /\ asked' = asked /\ cmd' = cmd /\ LiesOn(j)' = LiesOn(j)
  BY DEF world, LiesOn
<1>4. /\ Says(d, a, c, l, e) /\ Sent(d, a, c, l)
      /\ c # None => c.panel = v.seen.plan.serial
      /\ Grasped(d, k) => Past(j)
  BY <1>1, JobFacts DEF JobInv
<1>5. Says(d, a, c, l, f)
  <2>1. CASE f \in {e, "none"}
    BY <1>4, <2>1 DEF Says
  <2>2. CASE v.seen.phase \in LocalPhases
    <3>1. Early(v.seen)
      BY <1>1, <2>2, PhaseFacts, NoneAssumption DEF Known, Early
    <3>2. d.phase \in LocalPhases
      BY <1>1, <2>2, <3>1 DEF Known, Fits, Tracks
    <3>3. QED BY <1>4, <3>2 DEF Says, LocalPhases, EmptyPhases, TerminalPhases
  <2>3. QED BY <2>1, <2>2, WorkerCustody
<1>6. Grasped(d, h) => Past(j)
  <2>1. d \in Receipt \cup {None} /\ h \in {k, None}
    BY <1>1 DEF Shrunk, Known
  <2> HIDE DEF d, h, k
  <2>2. Grasped(d, h) => Grasped(d, k)
    BY <2>1, GraspedBefore DEF Grasped
  <2>3. Grasped(d, k) => Past(j)
    BY <1>4 DEF d, k
  <2>4. QED BY <2>2, <2>3
<1>7. CASE Continues(j)
  <2>1. /\ w # None /\ poisoned' = poisoned /\ w.seen.plan = v.seen.plan
        /\ w.pc \in Claiming => v.pc \in Claiming
        /\ Fits(j, w, d, a, c, l, f)
    BY <1>7 DEF Continues
  <2>2. Past(j) => Past(j)'
    BY <2>1 DEF Past
  <2> HIDE DEF v, w, d, a, c, l, e, f, k, h
  <2>3. QED
    BY <1>1, <1>2, <1>3, <1>4, <1>5, <1>6, <2>1, <2>2
       DEF JobInv, v, w, d, a, c, l, e, f, k, h
<1>8. CASE Stops(j)
  <2>1. w = None /\ (j \in poisoned' \/ v.seen.phase \notin AmbiguousPhases)
    BY <1>8 DEF Stops
  <2>2. Grasped(d, h) => v.seen.phase \in AmbiguousPhases
    BY <1>1 DEF Grasped, Known
  <2> HIDE DEF v, w, d, a, c, l, e, f, k, h
  <2>3. QED
    BY <1>1, <1>2, <1>3, <1>4, <1>5, <1>6, <2>1, <2>2
       DEF JobInv, v, w, d, a, c, l, e, f, k, h
<1>9. QED BY <1>7, <1>8 DEF Proceeds

\* A command leaves for the panel.
LEMMA OwnSend ==
    ASSUME Standing, NEW j \in JobIds, Commands(j)
    PROVE  JobInv(j)'
<1> DEFINE v == task[j]
           w == task'[j]
           d == disk[j]
           a == asked[j]
           b == asked'[j]
           c == cmd[j]
           q == cmd'[j]
           l == LiesOn(j)
           e == custody[j]
           s == v.seen
<1>1. /\ v # None /\ v.pc = "send" /\ j \in used /\ up /\ j \notin poisoned
      /\ Known(j, v, d, a, c, l, e) /\ j \in Tasks
  BY WorkFacts DEF Commands, At
<1>2. /\ Says(d, a, c, l, e) /\ Sent(d, a, c, l)
      /\ c # None => c.panel = s.plan.serial
  BY <1>1, JobFacts DEF JobInv
<1>3. /\ v.op \in Ops /\ OpFits(v, c, l) /\ a \subseteq Below(v.op)
      /\ v \in Worker /\ s \in Receipt /\ Tracks(d, s) /\ v.job = j
      /\ Fits(j, v, d, a, c, l, e)
  BY <1>1 DEF Known, Fits, Place, Operating, Sound, AtOperation
<1>4. /\ UNCHANGED <<disk, claimed, used, up, custody>>
      /\ LiesOn(j)' = LiesOn(j)
  BY DEF Commands, vars, LiesOn
<1>5. /\ b = a \cup {v.op}
      /\ q = [op |-> v.op, state |-> "sent", panel |-> s.plan.serial]
  BY <1>1 DEF Commands, Standing, ExecInv, ExecTypeOK
<1>6. q # None /\ q.op = v.op /\ q.state = "sent" /\ q.panel = s.plan.serial
  <2>1. s.plan.serial \in Panels
    BY <1>3 DEF Receipt, Panels
  <2>2. q \in Command
    BY <1>3, <1>5, <2>1 DEF Command
  <2>3. QED BY <1>5, <2>2, NoneIsApart
<1>7. /\ w # None /\ poisoned' = poisoned /\ w.job = j /\ w.pc = "answer"
      /\ w.seen = s /\ w.staged = v.staged /\ w.op = v.op
  <2>1. Now(j, "answer", s, v.staged, v.op, v.goal)
    BY <1>1, ToNow DEF Commands, Places
  <2>2. QED BY <1>3, <2>1 DEF Now
<1> HIDE DEF v, w, d, a, b, c, q, l, e, s
<1>8. s.phase \in {"staging", "installing", "launching"}
  BY <1>3 DEF OpFits, Ops, s
<1>9. d # None => \/ d.phase = s.phase \/ d.phase = "recovery_required"
  <2>1. s.phase \in PanelPhases
    BY <1>8 DEF PanelPhases
  <2>2. Active(d) => d.phase = s.phase
    BY <1>1 DEF Known, s
  <2>3. QED BY <1>3, <2>1, <2>2 DEF Tracks
<1>10. Says(d, b, q, l, e)
  BY <1>2, <1>8, <1>9
     DEF Says, EarlyPhases, CancellablePhases, FreePhases
<1>11. Sent(d, b, q, l)
  BY <1>2, <1>3, <1>5, <1>6 DEF Sent, Tracks
<1>12. AtOperation(w, b, q, l)
  BY <1>3, <1>5, <1>6, <1>7 DEF AtOperation, OpFits, SlotFree, s
<1>13. Place(w, d, b, q, l, e)
  BY <1>7, <1>12 DEF Place, Operating
<1>14. Fits(j, w, d, b, q, l, e)
  BY <1>3, <1>7, <1>13 DEF Fits, Claiming, s
<1>15. Past(j)'
  BY <1>7 DEF Past, Claiming, w
<1>16. QED
  BY <1>1, <1>4, <1>6, <1>7, <1>10, <1>11, <1>14, <1>15
     DEF JobInv, v, w, d, a, b, c, q, l, e

\* A step that writes the receipt of its job.
LEMMA OwnWrite ==
    ASSUME Standing, NEW j \in JobIds, TaskStep(j),
           UNCHANGED <<world, custody>>, IInv',
           NEW f, f = disk'[j],
           f # None => f \in Receipt /\ disk[j] # None /\ f.plan = disk[j].plan,
           Says(f, asked[j], cmd[j], LiesOn(j), custody[j]),
           \/ End(j, TRUE)
           \/ /\ f # None
              /\ Now(j, "loop", f, task[j].staged, task'[j].op, task'[j].goal)
              /\ AtLoop(task'[j], asked[j])
              /\ Early(f) => ~task[j].staged
    PROVE  JobInv(j)'
<1> DEFINE v == task[j]
           w == task'[j]
           d == disk[j]
           a == asked[j]
           c == cmd[j]
           l == LiesOn(j)
           e == custody[j]
<1>1. /\ v # None /\ j \in Tasks /\ j # Resumer /\ j \in used /\ up
      /\ j \notin poisoned /\ Known(j, v, d, a, c, l, e)
      /\ task \in [Tasks -> Worker \cup {None}]
  BY TaskThere, WorkFacts DEF Tasks, Standing, ExecInv, ExecTypeOK
<1>2. up' = up /\ used' = used
  <2>1. up' = up
    BY <1>1, TaskCustody DEF Standing
  <2>2. used' = used
    <3>1. CASE UNCHANGED vars
      BY <3>1 DEF vars
    <3>2. QED
      BY <1>1, <3>1, TaskKinds
         DEF TaskCall, Refresh, Fault, VerifyBarrier, Claim, Transition
  <2>3. QED BY <2>1, <2>2
<1>3. asked' = asked /\ cmd' = cmd /\ custody' = custody /\ LiesOn(j)' = LiesOn(j)
  BY DEF world, LiesOn
<1>4. /\ Sent(d, a, c, l) /\ (c # None => c.panel = v.seen.plan.serial)
      /\ d # None => d.plan = v.seen.plan /\ v.job = j
  BY <1>1, JobFacts DEF JobInv, Known, Fits, Tracks
<1>5. Sent(f, a, c, l)
  BY <1>4 DEF Sent
<1>6. CASE End(j, TRUE)
  <2>1. w = None /\ j \in poisoned'
    BY <1>1, <1>6 DEF End
  <2>2. QED
    BY <1>1, <1>2, <1>3, <1>5, <2>1 DEF JobInv
<1>7. CASE /\ f # None
           /\ Now(j, "loop", f, v.staged, w.op, w.goal)
           /\ AtLoop(w, a)
           /\ Early(f) => ~v.staged
  <2>1. /\ w # None /\ poisoned' = poisoned /\ w.job = j /\ w.pc = "loop"
        /\ w.seen = f /\ w.staged = v.staged
    BY <1>1, <1>4, <1>7 DEF Now, Known, Fits
  <2>2. Sane(f)
    <3>1. /\ (ValidReceipt(disk[j]))' /\ CancelHonoured'
      BY <1>7 DEF IInv, StoreStaysReadable
    <3>2. QED BY <1>7, <3>1 DEF ValidReceipt, ValidEvidence, CancelHonoured, Sane
  <2>3. Tracks(f, f)
    BY <1>7, PhaseFacts DEF Tracks, Early, Active
  <2>4. Place(w, f, a, c, l, e)
    BY <1>7, <2>1 DEF Place, Operating
  <2>5. Fits(j, w, f, a, c, l, e)
    BY <1>7, <2>1, <2>2, <2>3, <2>4 DEF Fits, Claiming
  <2>6. Past(j)'
    BY <2>1 DEF Past, Claiming
  <2>7. c # None => c.panel = w.seen.plan.serial
    BY <1>4, <1>7, <2>1
  <2> HIDE DEF v, w, d, a, c, l, e
  <2>8. QED
    BY <1>1, <1>2, <1>3, <1>5, <2>1, <2>5, <2>6, <2>7
       DEF JobInv, v, w, d, a, c, l, e
<1>8. QED BY <1>6, <1>7

\* What is in the file when the manager's memory survives a write.
LEMMA WrittenThrough ==
    ASSUME TypeOK, NEW j \in JobIds, NEW r, cache'[Ha] # None,
           \E gone \in Prunable([disk EXCEPT ![j] = r], j) : \E claims :
               Saved(Ha, Without([disk EXCEPT ![j] = r], gone), claims)
    PROVE  disk'[j] \in {r, None}
<1> DEFINE jobs == [disk EXCEPT ![j] = r]
<1>1. PICK gone \in Prunable(jobs, j) :
        \E claims : Saved(Ha, Without(jobs, gone), claims)
  OBVIOUS
<1>2. jobs[j] = r
  BY DEF TypeOK
<1> HIDE DEF jobs
<1>3. disk' = Without(jobs, gone)
  BY <1>1, TheManager DEF Saved, Invalidated, TypeOK
<1>4. QED BY <1>2, <1>3 DEF Without

LEMMA OwnClaim ==
    ASSUME Standing, IInv', NEW j \in JobIds, TaskStep(j), Reclaims(j), TypeOK'
    PROVE  JobInv(j)'
<1> DEFINE v == task[j]
           d == disk[j]
           f == disk'[j]
           r == ClaimedReceipt(d)
           a == asked[j]
           c == cmd[j]
           l == LiesOn(j)
           e == custody[j]
<1>0. PICK cleaned \in BOOLEAN :
        /\ At(j, IF cleaned THEN "confirm" ELSE "claim")
        /\ Claim(Ha, j, v.seen.revision, cleaned)
  BY DEF Reclaims
<1>1. /\ v # None /\ TypeOK /\ j # Resumer
      /\ v.pc = IF cleaned THEN "confirm" ELSE "claim"
      /\ Known(j, v, d, a, c, l, e) /\ Fits(j, v, d, a, c, l, e)
      /\ Says(d, a, c, l, e)
  BY <1>0, WorkFacts, JobFacts
     DEF At, Standing, ExecInv, ExecTypeOK, Known, JobInv
<1>2. /\ d # None /\ Claimable(d) /\ (Terminal(r) => cleaned)
      /\ d \in Receipt /\ f \in Receipt \cup {None}
  BY <1>0, <1>1 DEF Claim, Known, Current, TypeOK
<1>3. /\ f = d \/ f = r \/ (f = None /\ Terminal(r))
      /\ cache'[Ha] # None => f \in {r, None}
  <2>1. f = d \/ f = r \/ (f = None /\ Terminal(r))
    BY <1>0, <1>1, ClaimEffect
  <2>2. \E gone \in Prunable([disk EXCEPT ![j] = r], j) : \E claims :
            Saved(Ha, Without([disk EXCEPT ![j] = r], gone), claims)
    BY <1>0 DEF Claim
  <2> HIDE DEF r
  <2>3. QED BY <1>1, <2>1, <2>2, WrittenThrough
<1>4. ~v.staged
  BY <1>1 DEF Fits, Claiming
<1>5. /\ r.plan = d.plan
      /\ \/ r.phase = "recovery_required"
         \/ r.phase = d.phase /\ d.phase \notin AmbiguousPhases
  BY <1>2 DEF ClaimedReceipt, Receipt
<1>6. r.phase = "recovery_required" /\ f = r => e = "none"
  <2>1. CASE cleaned
    BY <1>1, <1>2, <2>1 DEF Fits, Place, Emptied
  <2>2. CASE ~cleaned
    <3>1. r # None
      BY <1>2, ClaimedShape
    <3>2. QED BY <1>2, <2>2, <3>1 DEF Terminal, TerminalPhases
  <2>3. QED BY <2>1, <2>2
<1> HIDE DEF r
<1>7. Says(f, a, c, l, e)
  <2>1. CASE f = r /\ r.phase = "recovery_required"
    BY <1>6, <2>1
       DEF Says, EarlyPhases, CancellablePhases, FreePhases
  <2>2. CASE f = r /\ r.phase = d.phase
    BY <1>1, <1>2, <2>2 DEF Says
  <2>3. QED BY <1>1, <1>3, <1>5, <2>1, <2>2 DEF Says
<1>8. f # None => f \in Receipt /\ d # None /\ f.plan = d.plan
  BY <1>2, <1>3, <1>5
<1>9. CASE End(j, TRUE)
  BY <1>7, <1>8, <1>9, OwnWrite DEF Reclaims
<1>10. CASE f # None /\ cache'[Ha] # None /\ Claimed(j, f)
  <2>1. Go(j, [v EXCEPT !.pc = "loop", !.seen = f, !.retried = FALSE])
    BY <1>1, <1>10 DEF Claimed
  <2>2. f \in Receipt /\ f = r
    BY <1>2, <1>3, <1>10
  <2>3. Now(j, "loop", f, v.staged, task'[j].op, task'[j].goal)
    BY <1>1, <2>1, <2>2, LoopNow
  <2>4. task'[j].seen = f
    BY <2>3 DEF Now
  <2>5. f.phase = "installed" => a \subseteq {"stage", "install"}
    BY <1>7, <1>10 DEF Says
  <2>6. f.phase \notin AmbiguousPhases
    BY <1>5, <2>2 DEF AmbiguousPhases
  <2>7. AtLoop(task'[j], a)
    BY <2>4, <2>5, <2>6 DEF AtLoop, AmbiguousPhases
  <2> HIDE DEF f
  <2>8. QED BY <1>4, <1>7, <1>8, <1>10, <2>3, <2>7, OwnWrite DEF Reclaims, f
<1>11. QED BY <1>9, <1>10 DEF Reclaims

LEMMA OwnMove ==
    ASSUME Standing, IInv', NEW j \in JobIds, TaskStep(j), Transits(j), TypeOK'
    PROVE  JobInv(j)'
<1> DEFINE v == task[j]
           s == v.seen
           g == v.goal
           d == disk[j]
           f == disk'[j]
           r == MovedReceipt(d, g.phase, g.root, g.result, None)
           a == asked[j]
           c == cmd[j]
           l == LiesOn(j)
           e == custody[j]
<1>1. /\ v # None /\ TypeOK /\ j # Resumer /\ v.pc \in {"move", "finish"}
      /\ Known(j, v, d, a, c, l, e) /\ Fits(j, v, d, a, c, l, e)
      /\ Says(d, a, c, l, e) /\ g \in Goals
      /\ Transition(Ha, j, s.revision, g.phase, g.root, g.result, None)
  BY WorkFacts, JobFacts
     DEF Transits, At, Standing, ExecInv, ExecTypeOK, Known, JobInv, Sound, Aiming
<1>2. /\ d \in Receipt /\ f \in Receipt \cup {None} /\ d.phase \notin TerminalPhases
      /\ d.revision = s.revision /\ d # None
  BY <1>1, FinishedIsFinal DEF Transition, Admitted, Known, Current, TypeOK
<1>3. d = s
  <2>1. Active(d)
    BY <1>2 DEF Active
  <2>2. s \in Receipt /\ s.revision \in Nat
    BY <1>1 DEF Known, Receipt
  <2>3. ~Overtaken(d, s)
    BY <1>2, <2>2, OvertakenFields
  <2>4. QED BY <1>1, <2>1, <2>3 DEF Fits, Tracks
<1>4. /\ f = d \/ f = r \/ (f = None /\ Terminal(r))
      /\ cache'[Ha] # None => f \in {r, None}
  <2>1. f = d \/ f = r \/ (f = None /\ Terminal(r))
    BY <1>1, TransitionEffect
  <2>2. \E gone \in Prunable([disk EXCEPT ![j] = r], j) : \E claims :
            Saved(Ha, Without([disk EXCEPT ![j] = r], gone), claims)
    BY <1>1 DEF Transition, Stamped
  <2> HIDE DEF r
  <2>3. QED BY <1>1, <2>1, <2>2, WrittenThrough
<1>5. r.plan = d.plan /\ r.phase = g.phase
  BY <1>2 DEF MovedReceipt, Receipt
<1>6. \/ v.pc = "move" /\ AtMove(v, d, a, c, l, e)
      \/ /\ v.pc = "finish" /\ Emptied(d, e)
         /\ Recovers(v) \/ (Fails(v) /\ SlotFree(c, l))
  BY <1>1 DEF Fits, Place
<1>7. /\ Early(s) => a = {} /\ SlotFree(c, l) /\ ~v.staged
      /\ s.phase \in EmptyPhases => e = "none"
      /\ s.phase \in FreePhases => SlotFree(c, l)
  BY <1>1, <1>2, <1>3 DEF Known, Fits, Emptied, Says
<1> HIDE DEF r
<1>8. ASSUME v.pc = "move", Advances(v), AtMove(v, d, a, c, l, e)
      PROVE  /\ Says(r, a, c, l, e)
             /\ r.phase = "staging" => a = {} /\ ~v.staged
             /\ r.phase = "installing" => a \subseteq {"stage"}
             /\ r.phase \in {"installed", "launching"} => a \subseteq {"stage", "install"}
             /\ r.phase \in EarlyPhases => ~v.staged
  <2>1. <<s.phase, r.phase>> \in Forward /\ r.phase # "consumed"
    BY <1>5, <1>8 DEF Advances
  <2>2. ~Cancels(v)
    BY <1>8 DEF Advances, Cancels
  <2>3. /\ s.phase = "staging" => a \subseteq {"stage"}
        /\ s.phase = "installing" => a \subseteq {"stage", "install"}
        /\ s.phase = "installed" => a \subseteq {"stage", "install"} /\ Emptied(d, e)
        /\ s.phase = "launching" => SlotFree(c, l)
    BY <1>8, <2>2 DEF AtMove
  <2>4. s # None
    BY <1>2, <1>3
  <2>5. \/ /\ s.phase \in EarlyPhases /\ a = {} /\ SlotFree(c, l) /\ ~v.staged
           /\ r.phase \in EarlyPhases \cup {"staging"}
           /\ r.phase \in EmptyPhases => e = "none"
        \/ s.phase = "staging" /\ r.phase = "installing"
        \/ s.phase = "installing" /\ r.phase = "installed"
        \/ s.phase = "installed" /\ r.phase = "launching"
        \/ s.phase = "launching" /\ r.phase = "health_check"
        \/ s.phase = "health_check" /\ r.phase = "healthy_unclaimed"
    <3>1. CASE s.phase \in EarlyPhases
      <4>1. a = {} /\ SlotFree(c, l) /\ ~v.staged
        BY <1>7, <2>4, <3>1 DEF Early
      <4>2. r.phase \in EarlyPhases \cup {"staging"}
        BY <2>1, <3>1 DEF Forward, EarlyPhases, CancellablePhases
      <4>3. r.phase \in EmptyPhases => s.phase \in EmptyPhases
        BY <2>1, <3>1, <4>2
           DEF Forward, EarlyPhases, CancellablePhases, EmptyPhases, TerminalPhases
      <4>4. QED BY <1>7, <3>1, <4>1, <4>2, <4>3
    <3>2. CASE s.phase \notin EarlyPhases
      BY <2>1, <3>2 DEF Forward, EarlyPhases, CancellablePhases
    <3>3. QED BY <3>1, <3>2
  <2>6. {"staging", "installing", "installed", "launching", "health_check",
         "healthy_unclaimed"} \cap EarlyPhases = {}
    BY DEF EarlyPhases, CancellablePhases
  <2>7. /\ {"launching", "health_check", "healthy_unclaimed"} \subseteq EmptyPhases
        /\ {"staging", "installing", "installed"} \cap EmptyPhases = {}
        /\ {"health_check", "healthy_unclaimed"} \subseteq FreePhases
        /\ {"staging", "installing", "installed", "launching"} \cap FreePhases = {}
        /\ EarlyPhases \cap FreePhases = {}
    BY DEF EarlyPhases, CancellablePhases, EmptyPhases, FreePhases, TerminalPhases
  <2>8. s.phase = "installed" => e = "none"
    BY <1>2, <2>3 DEF Emptied
  <2> HIDE DEF v, d, a, c, l, e, s
  <2>9. Says(r, a, c, l, e)
    BY <1>7, <2>3, <2>5, <2>6, <2>7, <2>8 DEF Says
  <2>10. QED BY <2>3, <2>5, <2>6, <2>9
<1>9. ASSUME ~(v.pc = "move" /\ Advances(v) /\ AtMove(v, d, a, c, l, e))
      PROVE  Says(r, a, c, l, e) /\ r.phase \in TerminalPhases
  <2>1. /\ r.phase \in {"cancelled", "failed", "recovery_required"}
        /\ Emptied(d, e) /\ (r.phase # "recovery_required" => SlotFree(c, l))
    BY <1>5, <1>6, <1>9 DEF AtMove, Cancels, Fails, Recovers
  <2>2. r.phase \in TerminalPhases /\ r.phase \notin EarlyPhases
    BY <2>1 DEF TerminalPhases, EarlyPhases, CancellablePhases
  <2>3. r.phase = "recovery_required" => r.phase \notin FreePhases
    BY DEF FreePhases
  <2>4. QED BY <1>2, <2>1, <2>2, <2>3 DEF Says, Emptied
<1>10. Says(r, a, c, l, e)
  BY <1>8, <1>9
<1>11. Says(f, a, c, l, e)
  BY <1>1, <1>4, <1>10 DEF Says
<1>12. f # None => f \in Receipt /\ d # None /\ f.plan = d.plan
  BY <1>2, <1>4, <1>5
<1>13. CASE End(j, TRUE)
  BY <1>11, <1>12, <1>13, OwnWrite DEF Transits
<1>14. CASE /\ f # None /\ cache'[Ha] # None
            /\ Go(j, [v EXCEPT !.pc = "loop", !.seen = f, !.goal = None, !.op = None])
  <2>1. f \in Receipt /\ f = r
    BY <1>2, <1>4, <1>14
  <2>2. Now(j, "loop", f, v.staged, task'[j].op, task'[j].goal)
    BY <1>1, <1>14, <2>1, LoopNow
  <2>3. task'[j].seen = f /\ task'[j].staged = v.staged
    BY <2>2 DEF Now
  <2>4. AtLoop(task'[j], a)
    <3>1. CASE r.phase \in TerminalPhases
      BY <2>1, <2>3, <3>1 DEF AtLoop, TerminalPhases
    <3>2. CASE r.phase \notin TerminalPhases
      BY <1>8, <1>9, <2>1, <2>3, <3>2 DEF AtLoop
    <3>3. QED BY <3>1, <3>2
  <2>5. Early(f) => ~v.staged
    BY <1>8, <1>9, <2>1, PhaseFacts DEF Early
  <2> HIDE DEF f
  <2>6. QED BY <1>11, <1>12, <1>14, <2>2, <2>4, <2>5, OwnWrite DEF Transits, f
<1>15. QED BY <1>13, <1>14 DEF Transits

\* ------------------------------------------------------------------------
\* The resumer, while others act; the memory of the manager.

LEMMA ResumeOwn ==
    ASSUME Standing, NEW j \in JobIds, Resume(j)
    PROVE  ResumerInv'
<1> DEFINE u == NewTask(j, "claim", disk[j])
<1>1. /\ disk[j] # None /\ disk[j].phase \in AmbiguousPhases /\ up
      /\ Refresh(Ha) /\ Go(Resumer, u) /\ UNCHANGED <<up, custody, world>>
      /\ disk[j] \in Receipt /\ j \in used /\ Resumer \in Tasks
      /\ task \in [Tasks -> Worker \cup {None}]
  BY JobFacts DEF Resume, Standing, ExecInv, ExecTypeOK, Tasks
<1>2. task'[Resumer] = u /\ disk' = disk /\ used' = used /\ up' = up
  BY <1>1 DEF Go, Refresh
<1>3. u.job = j /\ u.pc = "claim" /\ u.seen = disk[j]
  BY DEF NewTask
<1> HIDE DEF u
<1>4. ~Early(disk[j]) /\ disk[j].revision >= disk[j].revision
  BY <1>1, PhaseFacts DEF Early, Receipt
<1>5. QED
  BY <1>1, <1>2, <1>3, <1>4 DEF ResumerInv, ResumerFits, Claiming

LEMMA ResumerBeside ==
    ASSUME Standing, NEW i \in JobIds, TaskStep(i)
    PROVE  ResumerInv'
<1>1. /\ i \in Tasks /\ Resumer \in Tasks /\ i # Resumer /\ task[i] # None
      /\ ExecInv /\ task \in [Tasks -> Worker \cup {None}]
  BY TaskThere, WorkFacts DEF Tasks, Standing, ExecInv, ExecTypeOK
<1>2. Next \/ UNCHANGED vars
  BY <1>1, TaskCalls
<1>3. TypeOK'
  <2>1. [ExecNext]_execVars
    BY <1>1 DEF ExecNext
  <2>2. ExecInv'
    BY <1>1, <2>1, ExecInductive
  <2>3. QED BY <2>2 DEF ExecInv, ExecTypeOK
<1>4. task'[Resumer] = task[Resumer] /\ (up => up')
  <2>1. Moves(i) /\ up' = up
    BY <1>1, <1>3, TaskMoves, TaskCustody
  <2>2. QED BY <1>1, <2>1 DEF Moves
<1>5. ASSUME task[Resumer] # None
      PROVE  custody'[task[Resumer].job] \in {custody[task[Resumer].job], "none"}
  <2> DEFINE j == task[Resumer].job
  <2>1. j \in JobIds /\ (disk[j] # None => ~Early(disk[j]))
    BY <1>5, ResumerFacts DEF ResumerFits
  <2>2. Known(i, task[i], disk[i], asked[i], cmd[i], LiesOn(i), custody[i])
    BY <1>1, WorkFacts
  <2>3. CASE j = i
    <3>1. CASE task[i].seen.phase \in LocalPhases
      <4>1. Early(task[i].seen)
        BY <2>2, <3>1, PhaseFacts, NoneAssumption DEF Known, Early
      <4>2. Active(disk[i]) /\ disk[i].phase = task[i].seen.phase
        BY <2>2, <4>1 DEF Known, Fits, Tracks
      <4>3. QED BY <2>1, <2>3, <3>1, <4>2, PhaseFacts DEF Early, Active
    <3>2. QED BY <2>3, <3>1, WorkerCustody
  <2>4. CASE j # i
    <3>1. task[i].job = i
      BY <2>2 DEF Known, Fits
    <3>2. QED BY <1>1, <2>1, <2>4, <3>1, TaskAround
  <2>5. QED BY <2>3, <2>4
<1>6. QED BY <1>2, <1>4, <1>5, ResumerStays

LEMMA ResumerAround ==
    ASSUME Standing, Surroundings, ~Crash, \A j \in JobIds : ~Resume(j)
    PROVE  ResumerInv'
<1>1. /\ Resumer \in Tasks /\ Resumer \notin JobIds
      /\ ExecInv /\ task \in [Tasks -> Worker \cup {None}]
      /\ custody \in [JobIds -> {"none", "part", "ready"}]
  BY ExecutorAssumption DEF Tasks, Standing, ExecInv, ExecTypeOK
<1>2. Next \/ UNCHANGED vars
  BY <1>1, SurroundingCalls
<1>3. /\ task'[Resumer] = task[Resumer] /\ (up => up')
      /\ \A j \in JobIds : custody'[j] \in {custody[j], "none"}
  <2>1. ASSUME UNCHANGED <<up, task, custody>>
        PROVE  /\ task'[Resumer] = task[Resumer] /\ (up => up')
               /\ \A j \in JobIds : custody'[j] \in {custody[j], "none"}
    BY <2>1
  <2>2. CASE FlowFails
    BY <2>1, <2>2 DEF FlowFails, Outside
  <2>3. CASE Boot
    BY <1>1, <2>3 DEF Boot
  <2>4. ASSUME NEW j \in JobIds, NEW p \in Plans, FlowCreates(j, p)
        PROVE  UNCHANGED <<up, task, custody>>
    BY <2>4 DEF FlowCreates, Outside
  <2>5. ASSUME NEW j \in JobIds, NEW rev, FlowCancels(j, rev) \/ FlowFinalizes(j, rev)
        PROVE  UNCHANGED <<up, task, custody>>
    BY <2>5 DEF FlowCancels, FlowFinalizes, Outside
  <2>6. ASSUME NEW j \in JobIds, Ensure(j)
        PROVE  UNCHANGED <<up, custody>> /\ task'[Resumer] = task[Resumer]
    BY <1>1, <2>6 DEF Ensure, Go
  <2>7. ASSUME NEW j \in JobIds, PanelActs(j)
        PROVE  UNCHANGED <<up, task, custody>>
    BY <2>7 DEF PanelActs
  <2>8. QED
    BY <2>1, <2>2, <2>3, <2>4, <2>5, <2>6, <2>7 DEF Surroundings
<1>4. task[Resumer] # None => task[Resumer].job \in JobIds
  BY <1>1, AtWorker
<1>5. QED BY <1>2, <1>3, <1>4, ResumerStays

LEMMA MemoryStays ==
    ASSUME Standing, [ExecNext]_execVars
    PROVE  MemoryInv'
<1>1. TypeOK /\ ExecInv /\ MemoryInv
  BY DEF Standing, ExecInv, ExecTypeOK, WorkInv
<1>2. Next \/ UNCHANGED vars
  BY <1>1, TaskCalls, SurroundingCalls DEF ExecNext, execVars, vars, Cancelled
<1>3. CASE UNCHANGED vars
  BY <1>1, <1>3 DEF vars, MemoryInv
<1>4. CASE Next
  <2>1. PICK m \in Managers :
            \/ Invalidated(m)
            \/ \E claims \in [JobIds -> Nat \cup {None}] : Remembers(m, claims)
    BY <1>1, <1>4, NextIsMemoryStep
  <2>2. m = Ha
    BY TheManager
  <2>3. QED
    BY <1>1, <2>1, <2>2, TheManager
       DEF Invalidated, Remembers, Adopted, MemoryInv, TypeOK
<1>5. QED BY <1>2, <1>3, <1>4

\* ------------------------------------------------------------------------
\* A task is cancelled.

\* What it leaves of its own job's artifact, when it was not downloading.
LEMMA CancelledCustody ==
    ASSUME Standing, NEW t \in Tasks, Cancelled(t)
    PROVE  \/ custody'[task[t].job] \in {custody[task[t].job], "none"}
           \/ At(t, "fetch")
<1>1. /\ ExecInv /\ custody \in [JobIds -> {"none", "part", "ready"}]
  BY DEF Standing, ExecInv, ExecTypeOK
<1>2. PICK e \in Abandoned(t) : custody' = [custody EXCEPT ![task[t].job] = e]
  BY <1>1, CancelledLeaves
<1>3. custody'[task[t].job] = e
  BY <1>1, <1>2, CancelledLeaves
<1>4. At(t, "fetch") \/ e \in {custody[task[t].job], "none"}
  BY <1>2 DEF Abandoned
<1>5. QED BY <1>3, <1>4

LEMMA CancelledElsewhere ==
    ASSUME Standing, NEW t \in Tasks, Cancelled(t), NEW k \in JobIds, k # t
    PROVE  Elsewhere(k)
<1>1. /\ ExecInv /\ k \in Tasks /\ task \in [Tasks -> Worker \cup {None}]
      /\ custody \in [JobIds -> {"none", "part", "ready"}]
  BY DEF Standing, ExecInv, ExecTypeOK, Tasks
<1>2. /\ task'[k] = task[k] /\ UNCHANGED <<vars, up, world>>
      /\ k \in poisoned' <=> k \in poisoned
  BY <1>1 DEF Cancelled
<1>3. custody'[k] \in {custody[k], "none"}
  <2>1. CASE k # task[t].job
    BY <1>1, <2>1, CancelledLeaves
  <2>2. CASE k = task[t].job /\ t = Resumer
    <3>1. task[t].pc # "fetch"
      BY <1>1, <2>2, CancelledLeaves, ResumerFacts DEF ResumerFits, Claiming
    <3>2. QED BY <2>2, <3>1, CancelledCustody DEF At
  <2>3. CASE k = task[t].job /\ t # Resumer
    <3>1. t \in JobIds /\ task[t] # None
      BY <1>1, <2>3, CancelledLeaves DEF Tasks
    <3>2. task[t].job = t
      BY <3>1, WorkFacts DEF Known, Fits
    <3>3. QED BY <2>3, <3>2
  <2>4. QED BY <2>1, <2>2, <2>3
<1>4. LiesOn(k)' = LiesOn(k)
  BY <1>2 DEF LiesOn, world
<1>5. Spared(k) /\ Shrunk(k) /\ Around(k)
  BY <1>2, <1>3, <1>4 DEF Spared, Shrunk, Around, vars, world
<1>6. QED BY <1>5, SparedElsewhere

\* A worker that is downloading has the receipt of a phase before the panel.
LEMMA FetchFacts ==
    ASSUME Standing, NEW j \in JobIds, At(j, "fetch")
    PROVE  Active(disk[j]) /\ disk[j].phase \in LocalPhases /\ Early(disk[j])
<1>1. task[j] # None /\ task[j].pc = "fetch"
  BY DEF At
<1>2. Known(j, task[j], disk[j], asked[j], cmd[j], LiesOn(j), custody[j])
  BY <1>1, WorkFacts
<1>3. task[j].seen.phase \in LocalPhases
  BY <1>1, <1>2 DEF Known, Fits, Place
<1>4. Early(task[j].seen)
  BY <1>2, <1>3, PhaseFacts, NoneAssumption DEF Known, Early
<1>5. Active(disk[j]) /\ disk[j].phase = task[j].seen.phase
  BY <1>2, <1>4 DEF Known, Fits, Tracks
<1>6. QED BY <1>3, <1>4, <1>5 DEF Early, Active

LEMMA CancelledOwn ==
    ASSUME Standing, NEW j \in JobIds, Cancelled(j)
    PROVE  JobInv(j)'
<1>1. /\ j \in Tasks /\ ExecInv /\ task \in [Tasks -> Worker \cup {None}]
  BY DEF Standing, ExecInv, ExecTypeOK, Tasks
<1>2. /\ task[j] # None /\ task'[j] = None /\ poisoned' = poisoned \cup {j}
      /\ UNCHANGED <<vars, up, world>>
  BY <1>1 DEF Cancelled
<1>3. /\ JobInv(j) /\ task[j].job = j
  BY <1>2, JobFacts DEF JobInv, Fits
<1>4. up /\ j \in used
  BY <1>2, <1>3 DEF JobInv
<1>5. LiesOn(j)' = LiesOn(j)
  BY <1>2 DEF LiesOn, world
<1>6. Says(disk[j], asked[j], cmd[j], LiesOn(j), custody'[j])
  <2>1. CASE custody'[j] \in {custody[j], "none"}
    BY <1>3, <2>1 DEF JobInv, Says
  <2>2. CASE At(j, "fetch")
    <3>1. disk[j].phase \notin EmptyPhases
      BY <2>2, FetchFacts, PhaseFacts DEF LocalPhases, EmptyPhases, TerminalPhases
    <3>2. QED BY <1>3, <3>1 DEF JobInv, Says
  <2>3. QED BY <1>1, <1>3, <2>1, <2>2, CancelledCustody
<1>7. QED
  BY <1>2, <1>3, <1>4, <1>5, <1>6 DEF JobInv, vars, world

LEMMA CancelledBeside ==
    ASSUME Standing, NEW t \in Tasks, Cancelled(t)
    PROVE  ResumerInv'
<1>1. /\ ExecInv /\ task \in [Tasks -> Worker \cup {None}] /\ Resumer \in Tasks
      /\ custody \in [JobIds -> {"none", "part", "ready"}]
  BY DEF Standing, ExecInv, ExecTypeOK, Tasks
<1>2. task' = [task EXCEPT ![t] = None] /\ UNCHANGED <<vars, up>>
  BY DEF Cancelled
<1>3. CASE t = Resumer
  BY <1>1, <1>2, <1>3 DEF ResumerInv
<1>4. CASE t # Resumer
  <2>1. t \in JobIds /\ task[t].job = t
    <3>1. t \in JobIds /\ task[t] # None
      BY <1>1, <1>4, CancelledLeaves DEF Tasks
    <3>2. QED BY <3>1, WorkFacts DEF Known, Fits
  <2>2. ASSUME task[Resumer] # None
        PROVE  custody'[task[Resumer].job]
                   \in {custody[task[Resumer].job], "none"}
    <3>1. /\ task[Resumer].job \in JobIds
          /\ disk[task[Resumer].job] # None => ~Early(disk[task[Resumer].job])
      BY <2>2, ResumerFacts DEF ResumerFits
    <3>2. CASE task[Resumer].job # t
      BY <1>1, <2>1, <3>1, <3>2, CancelledLeaves
    <3>3. CASE task[Resumer].job = t
      <4>1. ~At(t, "fetch")
        BY <2>1, <3>1, <3>3, FetchFacts DEF Active
      <4>2. QED BY <2>1, <3>3, <4>1, CancelledCustody
    <3>4. QED BY <3>2, <3>3
  <2>3. task'[Resumer] = task[Resumer]
    BY <1>1, <1>2, <1>4
  <2>4. QED BY <1>2, <2>2, <2>3, ResumerStays
<1>5. QED BY <1>3, <1>4

\* ------------------------------------------------------------------------
\* The invariant is inductive.

LEMMA WorkInductive ==
    ASSUME Standing, [ExecNext]_execVars
    PROVE  Standing'
<1>1. ExecInv /\ IInv /\ WorkInv
  BY DEF Standing
<1>2. ExecInv' /\ TypeOK'
  <2>1. ExecInv'
    BY <1>1, ExecInductive
  <2>2. QED BY <2>1 DEF ExecInv, ExecTypeOK
<1>3. IInv'
  <2>1. [Next]_vars
    BY <1>1, TaskCalls, SurroundingCalls
       DEF ExecNext, execVars, vars, Cancelled
  <2>2. QED BY <1>1, <2>1, Inductive
<1>4. MemoryInv'
  BY MemoryStays
<1>5. CASE UNCHANGED execVars
  <2>1. UNCHANGED <<disk, cache, claimed, used, up, task, poisoned, custody,
                    panel, cmd, asked>>
    BY <1>5 DEF execVars, vars, world
  <2>2. ResumerInv' /\ \A j \in JobIds : JobInv(j)'
    BY <1>1, <2>1 DEF WorkInv, ResumerInv, JobInv, LiesOn, Past
  <2>3. QED BY <1>2, <1>3, <1>4, <2>2 DEF Standing, WorkInv
<1>6. ASSUME NEW i \in JobIds, TaskStep(i)
      PROVE  ResumerInv' /\ \A j \in JobIds : JobInv(j)'
  <2>1. JobInv(i)'
    BY <1>2, <1>3, <1>6, OwnSteps, OwnStill, OwnSend, OwnClaim, OwnMove
  <2>2. \A j \in JobIds : j # i => JobInv(j)'
    BY <1>6, WorkerElsewhere, Bystander
  <2>3. QED BY <1>6, <2>1, <2>2, ResumerBeside
<1>7. CASE TaskStep(Resumer)
  BY <1>2, <1>3, <1>4, <1>7, ResumerOwn, ResumerElsewhere, Bystander
     DEF Standing, WorkInv
<1>8. CASE Surroundings
  <2>1. ResumerInv'
    <3>1. CASE Crash
      BY <3>1 DEF Crash, Tasks, ResumerInv
    <3>2. CASE \E j \in JobIds : Resume(j)
      BY <3>2, ResumeOwn
    <3>3. CASE ~Crash /\ \A j \in JobIds : ~Resume(j)
      BY <1>8, <3>3, ResumerAround
    <3>4. QED BY <3>1, <3>2, <3>3
  <2>2. ASSUME NEW k \in JobIds PROVE JobInv(k)'
    <3>1. CASE Crash
      BY <3>1, CrashOwn
    <3>2. CASE \/ FlowFails
               \/ \E j \in JobIds :
                      \/ \E p \in Plans : FlowCreates(j, p)
                      \/ \E rev \in 0 .. MaxRevision :
                             FlowCancels(j, rev) \/ FlowFinalizes(j, rev)
      BY <3>2, FlowsElsewhere, Bystander
    <3>3. CASE Boot \/ \E j \in JobIds : (Ensure(j) /\ k # j) \/ Resume(j)
      BY <3>3, BeginningsElsewhere, Bystander
    <3>4. CASE Ensure(k)
      BY <3>4, EnsureOwn
    <3>5. ASSUME NEW j \in JobIds, PanelActs(j) PROVE JobInv(k)'
      BY <3>5, PanelElsewhere, Bystander, PanelOwn
    <3>6. QED
      BY <1>8, <3>1, <3>2, <3>3, <3>4, <3>5 DEF Surroundings
  <2>3. QED BY <1>2, <1>3, <1>4, <2>1, <2>2 DEF Standing, WorkInv
<1>9. ASSUME NEW t \in Tasks, Cancelled(t)
      PROVE  ResumerInv' /\ \A j \in JobIds : JobInv(j)'
  BY <1>9, CancelledBeside, CancelledOwn, CancelledElsewhere, Bystander
<1>10. QED
  BY <1>2, <1>3, <1>4, <1>5, <1>6, <1>7, <1>8, <1>9
     DEF ExecNext, Tasks, Standing, WorkInv

LEMMA WorkInitial ==
    ASSUME ExecInit
    PROVE  Standing
<1>1. ExecInv /\ IInv
  BY ExecInitial, Inductive DEF ExecInit
<1>2. /\ cache[Ha] = None
      /\ \A j \in JobIds : /\ disk[j] = None /\ task[j] = None /\ cmd[j] = None
                           /\ asked[j] = {} /\ custody[j] = "none"
                           /\ j \notin poisoned
      /\ task[Resumer] = None
  BY TheManager DEF ExecInit, Init, Tasks
<1>3. \A j \in JobIds : LiesOn(j) = {}
  BY NoneAssumption DEF ExecInit, LiesOn
<1>4. \A j \in JobIds : JobInv(j)
  BY <1>2, <1>3
     DEF JobInv, Says, Sent, Grasped, Active
<1>5. QED
  BY <1>1, <1>2, <1>4 DEF Standing, WorkInv, MemoryInv, ResumerInv

\* A job whose receipt says that nothing happened, or that all is over, has
\* nothing on the panel and no command under way that could put it there; one
\* that is over has nothing in the custody directory: whatever fails, whoever
\* ends it, and after any number of restarts.
THEOREM NothingLeftBehindAlways == ExecSpec => []NothingLeftBehind
<1>1. Standing => NothingLeftBehind
  <2> SUFFICES ASSUME Standing, NEW j \in JobIds
               PROVE  /\ /\ disk[j] # None
                         /\ \/ \E s \in Panels : panel[s].slot = j
                            \/ cmd[j] # None /\ cmd[j].op = "stage"
                                 /\ cmd[j].state = "sent"
                         => disk[j].phase \in {"staging", "installing",
                                "installed", "launching", "recovery_required"}
                      /\ Terminal(disk[j]) => custody[j] = "none"
    BY DEF NothingLeftBehind
  <2>1. /\ Says(disk[j], asked[j], cmd[j], LiesOn(j), custody[j])
        /\ Sent(disk[j], asked[j], cmd[j], LiesOn(j))
        /\ disk[j] # None => disk[j].phase \in Phases
    BY JobFacts DEF JobInv, Receipt
  <2>2. ASSUME disk[j] # None,
               \/ \E s \in Panels : panel[s].slot = j
               \/ cmd[j] # None /\ cmd[j].op = "stage" /\ cmd[j].state = "sent"
        PROVE  disk[j].phase \in {"staging", "installing", "installed",
                                  "launching", "recovery_required"}
    <3>1. ~SlotFree(cmd[j], LiesOn(j)) /\ asked[j] # {}
      BY <2>1, <2>2 DEF SlotFree, LiesOn, Sent
    <3>2. disk[j].phase \notin EarlyPhases \cup FreePhases
      BY <2>1, <2>2, <3>1 DEF Says
    <3>3. QED
      BY <2>1, <2>2, <3>2
         DEF Phases, EarlyPhases, FreePhases, RecoverySources, AmbiguousPhases,
             TerminalPhases
  <2>3. Terminal(disk[j]) => custody[j] = "none"
    BY <2>1 DEF Says, EmptyPhases, Terminal
  <2>4. QED BY <2>2, <2>3
<1>2. QED BY <1>1, WorkInductive, WorkInitial, PTL DEF ExecSpec

\* No operation is commanded twice for one job.
THEOREM MutationOnceAlways == ExecSpec => MutationOnce
<1> DEFINE A == \A j \in JobIds :
                    cmd'[j] # cmd[j] /\ cmd'[j].state = "sent"
                        => cmd'[j].op \notin asked[j]
<1>1. ASSUME Standing, [ExecNext]_execVars PROVE [A]_execVars
  <2>1. CASE UNCHANGED cmd
    BY <2>1
  <2>2. ASSUME NEW i \in JobIds, PanelActs(i) PROVE A
    <3>1. PICK q, state : Carried(i, q, state)
      BY <1>1, <2>2, PanelEffect DEF Standing
    <3>2. cmd \in [JobIds -> Command \cup {None}]
      BY <1>1 DEF Standing, ExecInv, ExecTypeOK
    <3>3. /\ cmd[i] \in Command /\ state # "sent"
          /\ cmd' = [cmd EXCEPT ![i].state = state]
      BY <3>1, <3>2 DEF Carried
    <3>4. cmd'[i].state = state /\ \A j \in JobIds : j # i => cmd'[j] = cmd[j]
      BY <3>2, <3>3 DEF Command
    <3>5. QED BY <3>3, <3>4
  <2>3. ASSUME NEW t \in Tasks, Send(t) PROVE A
    <3>1. t \in JobIds /\ task[t] # None /\ task[t].pc = "send"
      <4>1. task[t] # None /\ task[t].pc = "send"
        BY <2>3 DEF Send, At
      <4>2. t # Resumer
        BY <1>1, <4>1, ResumerFacts DEF ResumerFits, Claiming
      <4>3. QED BY <4>1, <4>2 DEF Tasks
    <3>2. task[t].job = t /\ asked[t] \subseteq Below(task[t].op) /\ task[t].op \in Ops
      BY <1>1, <3>1, WorkFacts
         DEF Known, Fits, Place, Operating, AtOperation, Sound
    <3>3. task[t].op \notin asked[t]
      BY <3>2 DEF Below, Ops
    <3>4. CASE UNCHANGED cmd
      BY <3>4
    <3>5. CASE cmd' = [cmd EXCEPT ![t] = [op |-> task[t].op, state |-> "sent",
                                          panel |-> task[t].seen.plan.serial]]
      BY <1>1, <3>1, <3>3, <3>5 DEF Standing, ExecInv, ExecTypeOK
    <3>6. QED BY <2>3, <3>2, <3>4, <3>5 DEF Send, Think, world
  <2>4. ASSUME NEW t \in Tasks, TaskStep(t), ~Send(t) PROVE UNCHANGED cmd
    BY <2>4, OnlySendCommands DEF world
  <2>5. ASSUME Surroundings, \A i \in JobIds : ~PanelActs(i) PROVE UNCHANGED cmd
    BY <2>5
       DEF Surroundings, FlowFails, Boot, Crash, FlowCreates, FlowCancels,
           FlowFinalizes, Ensure, Resume, Outside, world
  <2>6. QED
    BY <1>1, <2>1, <2>2, <2>3, <2>4, <2>5
       DEF ExecNext, Cancelled, execVars, world
<1>2. QED BY <1>1, WorkInductive, WorkInitial, PTL DEF ExecSpec, MutationOnce


\* ------------------------------------------------------------------------
\* As long as no call fails under it, a worker keeps its claim and its artifact,
\* and one that gives up has been overtaken.  A worker that met a failed or a
\* cancelled call is excused; the invariant is about the others.

Working == {"loop", "move"} \cup Operating

\* What the worker of a job not yet on the panel believes of its artifact.
Supplied(w, e) ==
    /\ w.pc = "unpart" => ~w.local
    /\ w.pc \in Operating /\ w.op = "stage" => w.local
    /\ /\ ~w.seen.cancel_requested
       /\ w.seen.phase \in CancellablePhases /\ w.pc \in Working
       => (w.local => e = "ready") /\ (w.cleared => e # "part")

\* A job under way is under way in the file, and claimed.
Backed(w, d, k) ==
    /\ Claimable(d) => k = d.generation
    /\ Claimable(w.seen) => Claimable(d)

\* A receipt of the revision seen is the receipt seen.
Dated(d, s) ==
    d # None => d.revision >= s.revision /\ (d.revision = s.revision => d = s)

CalmFits(w, d, k, e) ==
    /\ Dated(d, w.seen)
    /\ Supplied(w, e)
    /\ w.pc \in Claiming => ~w.local /\ ~w.cleared /\ (w.retried => Raced(d))
    /\ w.pc \notin Claiming => Backed(w, d, k)

Calm(j) ==
    /\ task[j] # None => CalmFits(task[j], disk[j], claimed[Ha][j], custody[j])
    /\ j \in poisoned => Raced(disk[j])

CalmInv == \A j \in JobIds : j \in excused \/ Calm(j)

\* The job is claimed, and others do no more to it than ask it to cancel.
Firm(j) == Claimable(disk[j]) /\ Held(j)
Steady(j) ==
    /\ disk'[j] = disk[j] \/ Overtaken(disk'[j], disk[j])
    /\ claimed'[Ha][j] = claimed[Ha][j]
    /\ custody'[j] = custody[j]

\* A call that leaves the manager its memory leaves it the claim.
LEMMA ClaimKept ==
    ASSUME TypeOK, Next, cache'[Ha] # None, NEW k \in JobIds, Firm(k),
           Claimable(disk'[k]), disk'[k].generation = disk[k].generation
    PROVE  claimed'[Ha][k] = claimed[Ha][k]
<1> DEFINE c == claimed[Ha][k]
           once == Reconciled(claimed[Ha], disk)
<1>1. c # None /\ c = disk[k].generation
  <2>1. disk[k] \in Receipt
    BY DEF TypeOK, Firm, Claimable, Active
  <2>2. QED BY <2>1, NoneAssumption DEF Firm, Held, Receipt
<1>2. once[k] = c
  BY <1>1 DEF Reconciled, Firm, Claimable
<1> HIDE DEF once
<1>3. ASSUME NEW jobs, Claimable(jobs[k]), jobs[k].generation = c
      PROVE  Reconciled(once, jobs)[k] = c
  BY <1>1, <1>2, <1>3 DEF Reconciled, Claimable
<1>4. \A claims : (\E jobs : Adopted(Ha, jobs, claims)) => claimed'[Ha][k] = claims[k]
  BY ClaimsOf
<1>5. ~Invalidated(Ha)
  BY TheManager DEF Invalidated, TypeOK
<1>6. ASSUME NEW jobs, NEW claims, Saved(Ha, jobs, claims)
      PROVE  disk' = jobs /\ claimed'[Ha][k] = claims[k]
  BY <1>4, <1>5, <1>6 DEF Saved
<1>7. \A jobs : Saved(Ha, jobs, Reconciled(once, jobs)) => claimed'[Ha][k] = c
  BY <1>1, <1>3, <1>6
<1>8. \/ Refresh(Ha)
      \/ \E j \in JobIds, p \in Plans : Create(Ha, j, p)
      \/ \E j \in JobIds : JobCall(Ha, j) \/ BarrierCall(Ha, j)
  BY <1>5, TheManager DEF Next, Fault, Restart
<1>9. CASE Refresh(Ha) \/ \E j \in JobIds : BarrierCall(Ha, j)
  BY <1>2, <1>4, <1>9 DEF Refresh, BarrierCall, VerifyBarrier, once
<1>10. ASSUME NEW j \in JobIds, NEW p \in Plans, Create(Ha, j, p)
       PROVE  claimed'[Ha][k] = c
  BY <1>7, <1>10 DEF Create, once
<1>11. ASSUME NEW j \in JobIds, NEW rev, RequestCancel(Ha, j, rev)
       PROVE  claimed'[Ha][k] = c
  BY <1>7, <1>11 DEF RequestCancel, once
<1>12. ASSUME NEW j \in JobIds, NEW rev, NEW cleaned, Claim(Ha, j, rev, cleaned)
       PROVE  claimed'[Ha][k] = c
  <2> DEFINE r == ClaimedReceipt(disk[j])
             jobs == [disk EXCEPT ![j] = r]
  <2>1. j # k
    BY <1>12 DEF Claim, Firm, Held
  <2>2. PICK gone \in Prunable(jobs, j) :
          LET kept == Without(jobs, gone)
              left == Reconciled(once, kept)
          IN Saved(Ha, kept, IF Terminal(r) THEN left
                             ELSE [left EXCEPT ![j] = r.generation])
    BY <1>12 DEF Claim, once
  <2> DEFINE kept == Without(jobs, gone)
             left == Reconciled(once, kept)
  <2>3. left = [i \in JobIds |-> left[i]]
    BY DEF Reconciled
  <2> HIDE DEF r, jobs, kept
  <2>4. CASE Terminal(r)
    BY <1>7, <2>2, <2>4 DEF kept
  <2>5. CASE ~Terminal(r)
    <3>1. Saved(Ha, kept, [left EXCEPT ![j] = r.generation])
      BY <2>2, <2>5 DEF kept
    <3>2. disk' = kept /\ claimed'[Ha][k] = [left EXCEPT ![j] = r.generation][k]
      BY <1>6, <3>1
    <3>3. left[k] = c
      BY <1>1, <1>3, <3>2
    <3> HIDE DEF left
    <3>4. [left EXCEPT ![j] = r.generation][k] = left[k]
      BY <2>1, <2>3
    <3>5. QED BY <3>2, <3>3, <3>4
  <2>6. QED BY <2>4, <2>5
<1>13. ASSUME NEW j \in JobIds, NEW rev, NEW ph, NEW root, NEW result, NEW entry,
              Transition(Ha, j, rev, ph, root, result, entry)
       PROVE  claimed'[Ha][k] = c
  BY <1>7, <1>13 DEF Transition, Stamped, once
<1>14. QED BY <1>8, <1>9, <1>10, <1>11, <1>12, <1>13 DEF JobCall

LEMMA SteadyCall ==
    ASSUME Standing, NEW k \in JobIds, Firm(k), custody'[k] = custody[k],
           disk'[k] = disk[k] \/ Overtaken(disk'[k], disk[k]),
           UNCHANGED vars \/ (Next /\ cache'[Ha] # None)
    PROVE  Steady(k)
<1>1. CASE UNCHANGED vars
  BY <1>1 DEF vars, Steady
<1>2. CASE Next /\ cache'[Ha] # None
  <2>1. TypeOK /\ disk[k] \in Receipt
    BY JobFacts DEF Standing, ExecInv, ExecTypeOK, Firm, Claimable, Active
  <2>2. Claimable(disk'[k]) /\ disk'[k].generation = disk[k].generation
    BY <2>1, OvertakenFields DEF Firm, Claimable
  <2>3. QED BY <1>2, <2>1, <2>2, ClaimKept DEF Steady
<1>3. QED BY <1>1, <1>2

\* A job that was overtaken stays so.
LEMMA RacedStays ==
    ASSUME NEW d \in Receipt \cup {None}, NEW f, Raced(d), Meanwhile(d, f)
    PROVE  Raced(f)
<1>1. CASE d # None /\ Overtaken(f, d)
  BY <1>1, OvertakenFields DEF Raced
<1>2. CASE f = d \/ f = None
  BY <1>2 DEF Raced, Active
<1>3. CASE f.phase \in {"recovery_required", "consumed"}
  BY <1>3 DEF Raced, Active, TerminalPhases
<1>4. QED BY <1>1, <1>2, <1>3 DEF Meanwhile

LEMMA DatedStays ==
    ASSUME Standing, Next \/ UNCHANGED vars, NEW k \in JobIds, k \in used,
           NEW s \in Receipt, Dated(disk[k], s)
    PROVE  Dated(disk'[k], s)
<1> DEFINE d == disk[k]
           f == disk'[k]
<1>1. CASE UNCHANGED vars
  BY <1>1 DEF vars
<1>2. CASE Next
  <2>1. TypeOK /\ UsedInv /\ IInv /\ d \in Receipt \cup {None}
    BY DEF Standing, ExecInv, ExecTypeOK, TypeOK
  <2>2. JobStep(k)
    BY <1>2, <2>1, NextIsJobStep
  <2>3. f # None => d # None
    BY <2>2
       DEF JobStep, Unchanged, Forgotten, Created, CancelMarked, Reclaimed,
           Moved, Active
  <2>4. f # None => f = d \/ f.revision = d.revision + 1
    BY <2>1, <2>2, <2>3, StepAdvances DEF Advanced
  <2>5. d # None => d.revision \in Nat /\ s.revision \in Nat
    BY <2>1 DEF Receipt
  <2> HIDE DEF d, f
  <2>6. QED BY <2>3, <2>4, <2>5 DEF Dated, d, f
<1>3. QED BY <1>1, <1>2

LEMMA CalmBystander ==
    ASSUME Standing, NEW j \in JobIds, Calm(j), Elsewhere(j),
           Next \/ UNCHANGED vars,
           Firm(j) /\ Past(j) => Steady(j)
    PROVE  Calm(j)'
<1> DEFINE w == task[j]
           d == disk[j]
           f == disk'[j]
           k == claimed[Ha][j]
           h == claimed'[Ha][j]
           e == custody[j]
           g == custody'[j]
<1>1. /\ d \in Receipt \cup {None} /\ JobInv(j)
      /\ w # None => w \in Worker /\ w.seen \in Receipt
  BY JobFacts
<1>2. /\ task'[j] = w /\ (j \in poisoned' <=> j \in poisoned) /\ g \in {e, "none"}
  BY DEF Elsewhere
<1>3. CASE Born(j)
  BY <1>1, <1>2, <1>3 DEF Born, JobInv, Calm
<1>4. CASE Meanwhile(d, f)
  <2>1. Raced(d) => Raced(f)
    BY <1>1, <1>4, RacedStays
  <2>2. ASSUME w # None PROVE CalmFits(w, f, h, g)
    <3>1. /\ CalmFits(w, d, k, e) /\ w.seen \in Receipt /\ w.seen # None
      BY <1>1, <2>2, NoneAssumption DEF Calm
    <3>6. Dated(f, w.seen)
      BY <1>1, <2>2, <3>1, DatedStays DEF CalmFits, JobInv
    <3>2. CASE w.pc \in Claiming
      <4>1. w.pc \notin Working \cup {"unpart", "fetch"}
        BY <3>2 DEF Claiming, Working, Operating
      <4>2. Supplied(w, g)
        BY <1>2, <3>1, <4>1 DEF CalmFits, Supplied, Working
      <4>3. QED BY <2>1, <3>1, <3>2, <3>6, <4>2 DEF CalmFits
    <3>3. CASE w.pc \notin Claiming /\ Claimable(d)
      <4>1. Steady(j) /\ Backed(w, d, k)
        BY <2>2, <3>1, <3>3 DEF CalmFits, Backed, Firm, Held, Past
      <4>2. Claimable(f) /\ f.generation = d.generation
        BY <1>1, <3>3, <4>1, OvertakenFields DEF Steady, Claimable, Active
      <4>3. Supplied(w, g) /\ Backed(w, f, h)
        BY <3>1, <3>3, <4>1, <4>2 DEF CalmFits, Backed, Steady
      <4>4. QED BY <3>3, <3>6, <4>3 DEF CalmFits
    <3>4. CASE w.pc \notin Claiming /\ ~Claimable(d)
      <4>1. ~Claimable(w.seen) /\ Supplied(w, e)
        BY <3>1, <3>4 DEF CalmFits, Backed
      <4>2. w.seen.phase \notin CancellablePhases
        BY <3>1, <4>1
           DEF Claimable, Active, CancellablePhases, TerminalPhases
      <4>3. Supplied(w, g)
        BY <1>2, <4>1, <4>2 DEF Supplied
      <4>4. ~Claimable(f)
        <5>1. /\ d # None => d.phase \notin CancellablePhases \cup AmbiguousPhases
          BY <3>4
             DEF Claimable, Active, CancellablePhases, TerminalPhases,
                 AmbiguousPhases
        <5>2. CASE f = d \/ f = None
          BY <3>4, <5>2 DEF Claimable, Active
        <5>3. CASE f.phase \in {"consumed", "recovery_required"}
          BY <5>3 DEF Claimable, Active, TerminalPhases
        <5>4. QED
          BY <1>4, <5>1, <5>2, <5>3 DEF Meanwhile, Overtaken
      <4>5. QED BY <3>4, <3>6, <4>1, <4>3, <4>4 DEF CalmFits, Backed
    <3>5. QED BY <3>2, <3>3, <3>4
  <2>3. QED BY <1>2, <2>1, <2>2 DEF Calm
<1>5. QED BY <1>3, <1>4 DEF Elsewhere


\* ------------------------------------------------------------------------
\* Steps that leave the manager its memory.

Quietly == UNCHANGED vars \/ (Next /\ cache'[Ha] # None)

\* A worker at the barrier is refused only when the receipt has moved on.
LEMMA BarrierHolds ==
    ASSUME Standing, NEW j \in JobIds, task[j] # None, Calm(j), At(j, "barrier"),
           Active(disk[j]), disk[j] = task[j].seen
    PROVE  LET s == task[j].seen IN
           Authorized(Ha, j, s.revision, s.phase,
                      task[j].op = "clean" /\ s.phase = "staging")
<1> DEFINE v == task[j]
           s == v.seen
           cancel == v.op = "clean" /\ s.phase = "staging"
<1>1. /\ s \in Receipt /\ v.op \in Ops /\ OpFits(v, cmd[j], LiesOn(j)) /\ Sane(s)
  BY WorkFacts DEF Known, Sound, Operating, At, Fits, Place, AtOperation
<1>2. s.phase \in AmbiguousPhases /\ s.cancel_requested = cancel
  <2>1. s.phase \in AmbiguousPhases
    BY <1>1 DEF OpFits, Ops, AmbiguousPhases
  <2>2. s.cancel_requested \in BOOLEAN
    BY <1>1 DEF Receipt
  <2>3. s.cancel_requested => s.phase \in CancellablePhases
    BY <1>1, <2>1 DEF Sane, AmbiguousPhases
  <2>4. s.phase \in {"installing", "launching"} => ~s.cancel_requested
    BY <2>3 DEF CancellablePhases
  <2>5. s.cancel_requested <=> cancel
    BY <1>1, <2>4 DEF OpFits, Ops
  <2>6. cancel \in BOOLEAN
    OBVIOUS
  <2> HIDE DEF cancel
  <2>7. QED BY <2>1, <2>2, <2>5, <2>6
<1>3. claimed[Ha][j] = disk[j].generation
  BY <1>2 DEF Calm, CalmFits, Backed, At, Claiming, Claimable, AmbiguousPhases
<1>4. Memory(Ha) = disk
  BY DEF Memory, Standing, WorkInv, MemoryInv
<1>5. disk[j] # None
  BY DEF Active
<1>6. QED
  BY <1>2, <1>3, <1>4, <1>5 DEF Authorized, Current

LEMMA ReadsQuietly ==
    ASSUME TypeOK, Refresh(Ha)
    PROVE  cache'[Ha] # None /\ Next
<1>1. cache'[Ha] = disk
  BY TheManager DEF Refresh, Adopted, TypeOK
<1>2. disk # None
  BY NoneAssumption DEF TypeOK
<1>3. QED BY <1>1, <1>2, PlainCalls

LEMMA TaskQuiet ==
    ASSUME Standing, NEW t \in Tasks, TaskStep(t), ~CallsMayFail,
           t \in JobIds => Calm(t)
    PROVE  Quietly
<1>1. ExecInv /\ TypeOK /\ (Next \/ UNCHANGED vars)
  BY TaskCalls DEF Standing, ExecInv, ExecTypeOK
<1>2. CASE ~Barrier(t)
  <2>1. UNCHANGED vars \/ cache'[Ha] # None
    <3>1. CASE Quiet(t)
      BY <3>1, QuietSteps
    <3>2. CASE CallFails(t)
      BY <3>2 DEF CallFails
    <3>3. CASE \/ Begin(t) \/ Reget(t) \/ Recheck(t) \/ DoFail(t) \/ DoRecover(t)
               \/ RecGet(t) \/ Authority(t)
      BY <3>3
         DEF Begin, Reget, Recheck, DoFail, DoRecover, RecGet, Authority, Get,
             Await, Think
    <3>4. CASE AskFirst(t) \/ Confirm(t) \/ DoMove(t) \/ Finish(t)
      BY <3>4
         DEF AskFirst, Confirm, DoMove, Finish, AskClaim, AskTransition, Await
    <3>5. QED
      BY <1>2, <3>1, <3>2, <3>3, <3>4 DEF TaskStep, Claims, Works, Quiet
  <2>2. QED BY <1>1, <2>1 DEF Quietly
<1>3. CASE Barrier(t)
  <2>1. task[t] # None /\ task[t].pc = "barrier"
    BY <1>3 DEF Barrier, At
  <2>2. t \in JobIds
    BY <2>1, ResumerFacts DEF ResumerFits, Claiming, Tasks
  <2> DEFINE v == task[t]
             s == v.seen
             cancel == v.op = "clean" /\ s.phase = "staging"
  <2>3. /\ v.job = t /\ Tracks(disk[t], s) /\ s \in Receipt
        /\ s.phase \in PanelPhases
    BY <2>1, <2>2, WorkFacts
       DEF Known, Sound, Operating, Fits, Place, AtOperation, OpFits, Ops,
           PanelPhases
  <2>4. CASE Authorized(Ha, t, s.revision, s.phase, cancel)
    BY <1>1, <1>3, <2>3, <2>4 DEF Barrier, Await, Quietly
  <2>5. CASE ~Authorized(Ha, t, s.revision, s.phase, cancel)
    <3>1. ~(Active(disk[t]) /\ disk[t] = s)
      BY <1>3, <2>1, <2>2, <2>5, BarrierHolds DEF Barrier
    <3>2. ~Current(disk, t, s.revision)
      <4>1. Dated(disk[t], s)
        BY <2>1, <2>2 DEF Calm, CalmFits
      <4>2. disk[t] = s => Active(disk[t])
        BY <2>3, PhaseFacts, NoneAssumption DEF Active
      <4>3. QED BY <3>1, <4>1, <4>2 DEF Dated, Current
    <3>3. Refresh(Ha)
      BY <1>3, <2>3, <2>5, <3>2 DEF Barrier
    <3>4. QED BY <1>1, <3>3, ReadsQuietly DEF Quietly
  <2>6. QED BY <2>4, <2>5
<1>4. QED BY <1>2, <1>3

LEMMA SurroundingQuiet ==
    ASSUME Standing, Surroundings, ~Crash, ~CallsMayFail
    PROVE  Quietly
<1>1. ExecInv /\ TypeOK /\ (Next \/ UNCHANGED vars)
  BY SurroundingCalls DEF Standing, ExecInv, ExecTypeOK
<1>2. CASE FlowFails
  BY <1>1, <1>2 DEF FlowFails, Outside, Quietly
<1>3. CASE Boot \/ \E j \in JobIds : Ensure(j) \/ Resume(j)
  BY <1>1, <1>3, ReadsQuietly DEF Boot, Ensure, Resume, Quietly
<1>4. ASSUME NEW j \in JobIds, NEW p \in Plans, FlowCreates(j, p)
      PROVE  Quietly
  BY <1>1, <1>4 DEF FlowCreates, Outside, Quietly
<1>5. ASSUME NEW j \in JobIds, NEW rev, FlowCancels(j, rev) \/ FlowFinalizes(j, rev)
      PROVE  Quietly
  BY <1>1, <1>5 DEF FlowCancels, FlowFinalizes, Outside, Quietly
<1>6. ASSUME NEW j \in JobIds, PanelActs(j) PROVE Quietly
  BY <1>6 DEF PanelActs, Quietly
<1>7. QED BY <1>2, <1>3, <1>4, <1>5, <1>6 DEF Surroundings


\* ------------------------------------------------------------------------
\* What others do leaves a claimed job steady.

LEMMA ClaimableKept ==
    ASSUME Standing, NEW k \in JobIds, Firm(k), Spared(k)
    PROVE  disk'[k] = disk[k] /\ disk[k] # None /\ k \in used
  BY JobFacts DEF Firm, Claimable, Active, Terminal, Spared

LEMMA FlowsSteady ==
    ASSUME Standing, NEW k \in JobIds, Firm(k), Quietly,
           \E j \in JobIds :
               \/ \E p \in Plans : FlowCreates(j, p)
               \/ \E rev \in 0 .. MaxRevision :
                      FlowCancels(j, rev) \/ FlowFinalizes(j, rev)
    PROVE  Steady(k)
<1>1. TypeOK /\ disk[k] \in Receipt /\ disk[k] # None /\ k \in used
  BY JobFacts DEF Standing, ExecInv, ExecTypeOK, Firm, Claimable, Active
<1>2. custody'[k] = custody[k]
  BY DEF FlowCreates, FlowCancels, FlowFinalizes, Outside
<1>3. ASSUME NEW j \in JobIds, NEW p \in Plans, FlowCreates(j, p)
      PROVE  disk'[k] = disk[k]
  <2>1. Create(Ha, j, p)
    BY <1>3 DEF FlowCreates, Outside
  <2>2. Spared(k)
    BY <1>1, <2>1, CreateEffect
  <2>3. QED BY <2>2, ClaimableKept
<1>4. ASSUME NEW j \in JobIds, NEW rev, FlowCancels(j, rev)
      PROVE  disk'[k] = disk[k] \/ Overtaken(disk'[k], disk[k])
  <2>1. RequestCancel(Ha, j, rev)
    BY <1>4 DEF FlowCancels, Outside
  <2>2. QED BY <1>1, <2>1, CancelEffect
<1>5. ASSUME NEW j \in JobIds, NEW rev, FlowFinalizes(j, rev)
      PROVE  disk'[k] = disk[k]
  <2>1. PICK ph, result, entry : Transition(Ha, j, rev, ph, None, result, entry)
    BY <1>5 DEF FlowFinalizes, Outside
  <2>2. k # j
    BY <1>5 DEF FlowFinalizes, Firm, Claimable
  <2>3. Spared(k)
    BY <1>1, <2>1, <2>2, TransitionEffect
  <2>4. QED BY <2>3, ClaimableKept
<1>6. disk'[k] = disk[k] \/ Overtaken(disk'[k], disk[k])
  BY <1>3, <1>4, <1>5
<1>7. QED BY <1>2, <1>6, SteadyCall DEF Quietly

LEMMA BeginningsSteady ==
    ASSUME Standing, NEW k \in JobIds, Firm(k), Past(k), Quietly,
           Boot \/ \E j \in JobIds : Ensure(j) \/ Resume(j)
    PROVE  Steady(k)
<1>1. up
  BY JobFacts DEF Past, JobInv
<1>2. disk' = disk /\ custody' = custody
  BY <1>1 DEF Boot, Ensure, Resume, Refresh
<1>3. QED BY <1>2, SteadyCall DEF Quietly

LEMMA PanelSteady ==
    ASSUME Standing, NEW k \in JobIds, NEW j \in JobIds, PanelActs(j)
    PROVE  Steady(k)
  BY DEF PanelActs, Steady, vars

LEMMA WorkerSteady ==
    ASSUME Standing, NEW i \in JobIds, TaskStep(i), NEW k \in JobIds, k # i,
           Firm(k), Quietly
    PROVE  Steady(k)
<1>1. i \in Tasks /\ task[i] # None
  BY TaskThere DEF Tasks
<1>2. task[i].job = i
  BY <1>1, WorkFacts DEF Known, Fits
<1>3. custody'[k] = custody[k] /\ Spared(k)
  BY <1>1, <1>2, TaskAround, TaskSpares
<1>4. disk'[k] = disk[k]
  BY <1>3, ClaimableKept
<1>5. QED BY <1>3, <1>4, SteadyCall DEF Quietly

LEMMA ResumerSteady ==
    ASSUME Standing, TaskStep(Resumer), NEW k \in JobIds, Firm(k), Quietly
    PROVE  Steady(k)
<1> DEFINE w == task[Resumer]
           j == w.job
<1>1. /\ w # None /\ Resumer \in Tasks /\ k # Resumer /\ TypeOK
      /\ Claims(Resumer) \/ CallFails(Resumer)
      /\ ResumerFits(w, disk[j], claimed[Ha][j], custody[j])
  BY TaskThere, ResumerClaims, ResumerFacts, ExecutorAssumption
     DEF Tasks, Standing, ExecInv, ExecTypeOK
<1>2. CASE k # j
  <2>1. custody'[k] = custody[k] /\ Spared(k)
    BY <1>1, <1>2, TaskAround, TaskSpares
  <2>2. disk'[k] = disk[k]
    BY <2>1, ClaimableKept
  <2>3. QED BY <2>1, <2>2, SteadyCall DEF Quietly
<1>3. CASE k = j
  <2>1. w.pc \notin {"reget", "reclean", "confirm"}
    BY <1>1, <1>3 DEF ResumerFits, Orphaned, Firm, Held, Claimable
  <2>2. ~Reclean(Resumer)
    BY <2>1 DEF Reclean, At
  <2>3. custody' = custody
    BY <1>1, <2>2 DEF Claims, Begin, AskFirst, Reget, Confirm, CallFails, Get,
           AskClaim, Await
  <2>4. \A rev, cleaned : ~Claim(Ha, k, rev, cleaned)
    BY DEF Claim, Firm, Held
  <2>5. \/ UNCHANGED vars \/ Refresh(Ha) \/ Fault(Ha)
    BY <1>1, <1>3, <2>1, <2>4, TaskKinds
       DEF TaskCall, At, ResumerFits, Claiming
  <2>6. disk' = disk
    BY <2>5 DEF vars, Refresh, Fault
  <2>7. QED BY <2>3, <2>6, SteadyCall DEF Quietly
<1>4. QED BY <1>2, <1>3

\* ------------------------------------------------------------------------
\* The steps of a worker, for its own job.

\* A claimed job stays claimed while its worker looks around.
LEMMA CalmClaim ==
    ASSUME Standing, NEW j \in JobIds, Quietly, disk'[j] = disk[j], Held(j)
    PROVE  Claimable(disk'[j]) => claimed'[Ha][j] = disk'[j].generation
<1>1. CASE UNCHANGED vars
  BY <1>1 DEF vars, Held
<1>2. CASE Next /\ cache'[Ha] # None /\ Claimable(disk[j])
  BY <1>2, ClaimKept DEF Firm, Held, Standing, ExecInv, ExecTypeOK
<1>3. QED BY <1>1, <1>2 DEF Quietly

\* What a step of it keeps of a worker's memory.
Keeps(j, pc, seen, op) ==
    LET w == task'[j] IN
    /\ poisoned' = poisoned
    /\ w.pc = pc /\ w.seen = seen /\ w.op = op
    /\ w.local = task[j].local /\ w.cleared = task[j].cleared

LEMMA GoesAs ==
    ASSUME Standing, NEW j \in JobIds, NEW w, Go(j, w)
    PROVE  task'[j] = w /\ poisoned' = poisoned
  BY DEF Go, Standing, ExecInv, ExecTypeOK, Tasks

LEMMA KeepsNow ==
    ASSUME Standing, NEW j \in JobIds, task[j] # None, NEW v, v = task[j]
    PROVE  /\ \A pc : To(j, pc) => Keeps(j, pc, v.seen, v.op)
           /\ \A pc, goal : Aim(j, pc, goal) => Keeps(j, pc, v.seen, v.op)
           /\ \A op : Operate(j, op) => Keeps(j, "authority", v.seen, op)
           /\ \A pc, r : Go(j, [v EXCEPT !.pc = pc, !.seen = r])
                             => Keeps(j, pc, r, v.op)
<1>1. v \in Worker
  BY WorkFacts DEF Known
<1>2. ASSUME NEW pc, To(j, pc) PROVE Keeps(j, pc, v.seen, v.op)
  <2>1. task'[j] = [v EXCEPT !.pc = pc] /\ poisoned' = poisoned
    BY <1>2, GoesAs DEF To
  <2>2. QED BY <1>1, <2>1 DEF Keeps, Worker
<1>3. ASSUME NEW pc, NEW goal, Aim(j, pc, goal) PROVE Keeps(j, pc, v.seen, v.op)
  <2>1. task'[j] = [v EXCEPT !.pc = pc, !.goal = goal] /\ poisoned' = poisoned
    BY <1>3, GoesAs DEF Aim
  <2>2. QED BY <1>1, <2>1 DEF Keeps, Worker
<1>4. ASSUME NEW op, Operate(j, op) PROVE Keeps(j, "authority", v.seen, op)
  <2>1. task'[j] = [v EXCEPT !.pc = "authority", !.op = op] /\ poisoned' = poisoned
    BY <1>4, GoesAs DEF Operate
  <2>2. QED BY <1>1, <2>1 DEF Keeps, Worker
<1>5. ASSUME NEW pc, NEW r, Go(j, [v EXCEPT !.pc = pc, !.seen = r])
      PROVE  Keeps(j, pc, r, v.op)
  <2>1. task'[j] = [v EXCEPT !.pc = pc, !.seen = r] /\ poisoned' = poisoned
    BY <1>5, GoesAs
  <2>2. QED BY <1>1, <2>1 DEF Keeps, Worker
<1>6. QED BY <1>2, <1>3, <1>4, <1>5

\* What is known of a worker past its claim.
CalmFacts(j) ==
    LET v == task[j]
        d == disk[j]
    IN /\ v \in Worker /\ v.seen \in Receipt /\ v.seen # None
       /\ d \in Receipt \cup {None}
       /\ v.job = j /\ Fresh(j) = d /\ j \in Tasks /\ j # Resumer
       /\ j \notin poisoned
       /\ Fits(j, v, d, asked[j], cmd[j], LiesOn(j), custody[j])
       /\ CalmFits(v, d, claimed[Ha][j], custody[j])

LEMMA CalmKnown ==
    ASSUME Standing, NEW j \in JobIds, task[j] # None, Calm(j)
    PROVE  CalmFacts(j)
  BY WorkFacts, NoneAssumption DEF Known, Fits, Fresh, Calm, CalmFacts

\* A step that leaves the receipt alone, and the worker at work.
LEMMA CalmGo ==
    ASSUME Standing, NEW j \in JobIds, task[j] # None, Calm(j), Past(j), Quietly,
           disk'[j] = disk[j], NEW pc, NEW seen, NEW op, pc \notin Claiming,
           Keeps(j, pc, seen, op),
           seen = task[j].seen \/ (disk[j] # None /\ seen = disk[j]),
           Supplied(task'[j], custody'[j])
    PROVE  Calm(j)'
<1> DEFINE v == task[j]
           w == task'[j]
           d == disk[j]
           h == claimed'[Ha][j]
<1>1. CalmFacts(j)
  BY CalmKnown
<1>2. /\ d \in Receipt \cup {None} /\ j \notin poisoned /\ Dated(d, v.seen)
      /\ Backed(v, d, claimed[Ha][j])
  BY <1>1 DEF CalmFacts, CalmFits, Past
<1>3. Claimable(d) => h = d.generation
  <2>1. CASE Claimable(d)
    <3>1. Held(j)
      BY <1>2, <2>1 DEF Backed, Held
    <3>2. QED BY <2>1, <3>1, CalmClaim
  <2>2. QED BY <2>1
<1>4. j \notin poisoned' /\ w.pc \notin Claiming /\ w.seen = seen
  BY <1>2 DEF Keeps
<1>5. Dated(d, seen)
  BY <1>2 DEF Dated, Receipt
<1>6. Backed(w, d, h)
  BY <1>2, <1>3, <1>4 DEF Backed
<1>7. CalmFits(w, d, h, custody'[j])
  BY <1>4, <1>5, <1>6 DEF CalmFits
<1>8. QED BY <1>4, <1>7 DEF Calm

\* A step with which the worker ends.
LEMMA CalmEnd ==
    ASSUME Standing, NEW j \in JobIds, task[j] # None, Calm(j),
           \/ End(j, FALSE)
           \/ End(j, TRUE) /\ Raced(disk'[j])
    PROVE  Calm(j)'
<1>1. CalmFacts(j)
  BY CalmKnown
<1>2. task'[j] = None /\ (j \in poisoned' => Raced(disk'[j]))
  BY <1>1 DEF CalmFacts, End, Standing, ExecInv, ExecTypeOK
<1>3. QED BY <1>2 DEF Calm


\* It turns to something that needs no artifact.
Asides ==
    {"recheck", "droplocal", "droprefused", "cleanfail", "fail", "recover",
     "recclean", "recget", "finish"}

LEMMA CalmAside ==
    ASSUME Standing, NEW j \in JobIds, task[j] # None, Calm(j), Past(j), Quietly,
           disk'[j] = disk[j], NEW pc \in Asides, NEW seen, NEW op,
           Keeps(j, pc, seen, op),
           seen = task[j].seen \/ (disk[j] # None /\ seen = disk[j])
    PROVE  Calm(j)'
<1>1. pc \notin Claiming \cup Working \cup {"unpart"}
  BY DEF Asides, Claiming, Working, Operating
<1>2. Supplied(task'[j], custody'[j])
  BY <1>1 DEF Supplied, Keeps, Working
<1>3. QED BY <1>1, <1>2, CalmGo

\* It works on, with the artifact it has.
LEMMA CalmOnward ==
    ASSUME Standing, NEW j \in JobIds, task[j] # None, Calm(j), Quietly,
           disk'[j] = disk[j], NEW pc \in Working, NEW op,
           Keeps(j, pc, task[j].seen, op), task[j].pc \in Working,
           pc \in Operating /\ op = "stage" => task[j].local,
           custody'[j] = custody[j]
    PROVE  Calm(j)'
<1>1. pc \notin Claiming \cup {"unpart"} /\ task[j].pc \notin Claiming \cup {"fetch"}
  BY DEF Claiming, Working, Operating
<1>2. Supplied(task[j], custody[j])
  BY CalmKnown DEF CalmFacts, CalmFits
<1>3. Supplied(task'[j], custody'[j])
  BY <1>1, <1>2 DEF Supplied, Keeps
<1>4. QED BY <1>1, <1>3, CalmGo DEF Past

\* It works on, past the phases that need the artifact.
LEMMA CalmVacant ==
    ASSUME Standing, NEW j \in JobIds, task[j] # None, Calm(j), Past(j), Quietly,
           disk'[j] = disk[j], NEW pc \in Working, NEW seen, NEW op,
           Keeps(j, pc, seen, op),
           seen = task[j].seen \/ (disk[j] # None /\ seen = disk[j]),
           seen.cancel_requested \/ seen.phase \notin CancellablePhases,
           pc \in Operating => op # "stage"
    PROVE  Calm(j)'
<1>1. pc \notin Claiming \cup {"unpart"}
  BY DEF Claiming, Working, Operating
<1>2. Supplied(task'[j], custody'[j])
  BY <1>1 DEF Supplied, Keeps
<1>3. QED BY <1>1, <1>2, CalmGo

\* A step of a worker at work that changes only its memory.
LEMMA CalmThinks ==
    ASSUME Standing, NEW j \in JobIds, task[j] # None, Calm(j),
           UNCHANGED <<vars, custody>>, task[j].pc \in Working,
           \/ End(j, FALSE)
           \/ \E pc \in Asides : To(j, pc) \/ \E goal : Aim(j, pc, goal)
           \/ \E pc \in Operating :
                  To(j, pc) /\ (task[j].op = "stage" => task[j].local)
           \/ \E goal : Aim(j, "move", goal)
           \/ \E op \in Ops : Operate(j, op) /\ (op = "stage" => task[j].local)
    PROVE  Calm(j)'
<1>1. Quietly /\ disk'[j] = disk[j] /\ custody'[j] = custody[j]
  BY DEF Quietly, vars
<1>2. Past(j) /\ task[j].pc # "fetch"
  BY DEF Past, Working, Operating, Claiming
<1>3. CASE End(j, FALSE)
  BY <1>3, CalmEnd
<1>4. ASSUME NEW pc \in Asides, To(j, pc) \/ \E goal : Aim(j, pc, goal)
      PROVE  Calm(j)'
  <2>1. Keeps(j, pc, task[j].seen, task[j].op)
    BY <1>4, KeepsNow
  <2>2. QED BY <1>1, <1>2, <2>1, CalmAside
<1>5. ASSUME NEW pc \in Operating, To(j, pc), task[j].op = "stage" => task[j].local
      PROVE  Calm(j)'
  <2>1. Keeps(j, pc, task[j].seen, task[j].op)
    BY <1>5, KeepsNow
  <2>2. pc \in Working
    BY DEF Working
  <2>3. QED BY <1>1, <1>5, <2>1, <2>2, CalmOnward
<1>6. ASSUME NEW goal, Aim(j, "move", goal)
      PROVE  Calm(j)'
  <2>1. Keeps(j, "move", task[j].seen, task[j].op)
    BY <1>6, KeepsNow
  <2>2. "move" \in Working /\ "move" \notin Operating
    BY DEF Working, Operating
  <2>3. QED BY <1>1, <2>1, <2>2, CalmOnward
<1>7. ASSUME NEW op, Operate(j, op), op = "stage" => task[j].local
      PROVE  Calm(j)'
  <2>1. Keeps(j, "authority", task[j].seen, op)
    BY <1>7, KeepsNow
  <2>2. "authority" \in Working
    BY DEF Working, Operating
  <2>3. QED BY <1>1, <1>7, <2>1, <2>2, CalmOnward
<1>8. QED BY <1>3, <1>4, <1>5, <1>6, <1>7

\* The phase loop, but for the local file; the session on the panel.
LEMMA CalmWorks ==
    ASSUME Standing, NEW j \in JobIds, Calm(j),
           \/ LoopEnds(j) \/ Approved(j) \/ Authorizing(j) \/ Preflight(j)
           \/ Downloaded(j) \/ ArtifactReady(j) \/ Revalidate(j)
           \/ Staging(j) \/ Installing(j) \/ Launching(j) \/ HealthCheck(j)
           \/ CancelSeen(j) \/ Send(j) \/ Answer(j)
    PROVE  Calm(j)'
<1> DEFINE Minded ==
        \/ End(j, FALSE)
        \/ \E pc \in Asides : To(j, pc) \/ \E goal : Aim(j, pc, goal)
        \/ \E pc \in Operating :
               To(j, pc) /\ (task[j].op = "stage" => task[j].local)
        \/ \E goal : Aim(j, "move", goal)
        \/ \E op \in Ops : Operate(j, op) /\ (op = "stage" => task[j].local)
<1>1. task[j] # None /\ task[j].pc \in Working /\ UNCHANGED <<vars, custody>>
  <2>1. task[j] # None /\ task[j].pc \in Working
    BY DEF LoopEnds, Approved, Authorizing, Preflight, Downloaded, ArtifactReady,
           Revalidate, Staging, Installing, Launching, HealthCheck, CancelSeen,
           Send, Answer, Looping, At, Working, Operating
  <2>2. UNCHANGED <<vars, custody>>
    BY DEF LoopEnds, Approved, Authorizing, Preflight, Downloaded, ArtifactReady,
           Revalidate, Staging, Installing, Launching, HealthCheck, CancelSeen,
           Send, Answer, Think
  <2>3. QED BY <2>1, <2>2
<1>2. Minded => Calm(j)'
  BY <1>1, CalmThinks
<1>3. \A result : Recover(j, result) => Minded
  BY DEF Recover, Asides
<1>4. /\ Fail(j, "fail") => Minded
      /\ Fail(j, "cleanfail") => Minded
  BY DEF Fail, Asides
<1>5. \A ph : Move(j, ph) => Minded
  BY DEF Move
<1>6. \A op \in {"install", "clean", "launch"} : Operate(j, op) => Minded
  BY DEF Ops
<1>7. CASE LoopEnds(j) \/ Approved(j) \/ Authorizing(j) \/ Preflight(j)
  <2>1. \A goal : Aim(j, "fail", goal) \/ Aim(j, "move", goal) => Minded
    BY DEF Asides
  <2> HIDE DEF Minded
  <2>2. End(j, FALSE) => Minded
    BY DEF Minded
  <2>3. Minded
    BY <1>4, <1>5, <1>7, <2>1, <2>2
       DEF LoopEnds, Approved, Authorizing, Preflight, Think
  <2>4. QED BY <1>2, <2>3
<1>8. CASE Downloaded(j) \/ ArtifactReady(j) \/ Revalidate(j) \/ HealthCheck(j)
  <2> HIDE DEF Minded
  <2>1. Minded
    BY <1>3, <1>4, <1>5, <1>8
       DEF Downloaded, ArtifactReady, Revalidate, HealthCheck, Think
  <2>2. QED BY <1>2, <2>1
<1>9. CASE Staging(j) \/ Installing(j) \/ Launching(j) \/ CancelSeen(j)
  <2>1. task[j].local /\ Operate(j, "stage") => Minded
    BY DEF Ops
  <2>2. To(j, "droplocal") => Minded
    BY DEF Asides
  <2> HIDE DEF Minded
  <2>3. Minded
    BY <1>3, <1>6, <1>9, <2>1, <2>2
       DEF Staging, Installing, Launching, CancelSeen, Think
  <2>4. QED BY <1>2, <2>3
<1>10. Refused(j) => Minded
  <2>1. \A goal : Aim(j, "fail", goal) => Minded
    BY DEF Asides
  <2> HIDE DEF Minded
  <2>2. QED BY <1>3, <1>4, <2>1 DEF Refused
<1>11. CASE Send(j)
  <2>1. task[j].op = "stage" => task[j].local
    BY <1>1, <1>11, CalmKnown
       DEF CalmFacts, CalmFits, Supplied, Operating, Send, At
  <2>2. To(j, "answer") => Minded
    BY <2>1 DEF Operating
  <2> HIDE DEF Minded
  <2>3. Minded
    BY <1>3, <1>10, <1>11, <2>2 DEF Send, Think
  <2>4. QED BY <1>2, <2>3
<1>12. CASE Answer(j)
  <2>1. \A goal : Aim(j, "fail", goal) => Minded
    BY DEF Asides
  <2>2. To(j, "droplocal") \/ To(j, "droprefused") => Minded
    BY DEF Asides
  <2> DEFINE g == Goal("installing", None, None)
             Staged == Go(j, [task[j] EXCEPT !.pc = "move", !.staged = TRUE,
                                             !.op = None, !.goal = g])
  <2> HIDE DEF Minded, g
  <2>3. (task[j].op # "stage" \/ ~Succeeded(j)) \/ Staged
    BY DEF Succeeded, g
  <2>4. Succeeded(j) /\ task[j].op # "stage" => Minded
    BY <1>5, <1>6, <2>2 DEF Succeeded
  <2>5. Minded \/ Staged
    BY <1>3, <1>6, <1>12, <2>1, <2>3, <2>4 DEF Answer, Think, Unknown
  <2>6. CASE Staged
    <3>1. task'[j] = [task[j] EXCEPT !.pc = "move", !.staged = TRUE,
                                     !.op = None, !.goal = g]
          /\ poisoned' = poisoned
      BY <2>6, GoesAs
    <3>2. Keeps(j, "move", task[j].seen, None)
      BY <1>1, <3>1, CalmKnown DEF Keeps, Worker, CalmFacts
    <3>3. Quietly /\ disk'[j] = disk[j] /\ custody'[j] = custody[j]
      BY <1>1 DEF Quietly, vars
    <3>4. "move" \in Working /\ "move" \notin Operating
      BY DEF Working, Operating
    <3>5. QED BY <1>1, <3>2, <3>3, <3>4, CalmOnward
  <2>7. QED BY <1>2, <2>5, <2>6
<1>13. QED BY <1>7, <1>8, <1>9, <1>11, <1>12


\* The download.
LEMMA CalmFetch ==
    ASSUME Standing, NEW j \in JobIds, Calm(j),
           Acquire(j) \/ Fetch(j) \/ Unpart(j)
    PROVE  Calm(j)'
<1> DEFINE v == task[j]
           e == custody[j]
<1>1. task[j] # None /\ v.pc \in {"loop", "fetch", "unpart"} /\ UNCHANGED vars
  BY DEF Acquire, Fetch, Unpart, Looping, At, Think, CleanLocal
<1>2. CalmFacts(j) /\ Past(j) /\ Quietly /\ disk'[j] = disk[j]
  BY <1>1, CalmKnown DEF Past, Claiming, Quietly, vars
<1>3. v \in Worker /\ Supplied(v, e) /\ v.job = j
  BY <1>2 DEF CalmFacts, CalmFits
<1>4. ASSUME NEW w, Go(j, w), w.pc \in {"loop", "fetch", "unpart"},
             w.seen = v.seen, Supplied(w, custody'[j])
      PROVE  Calm(j)'
  <2>2. task'[j] = w /\ poisoned' = poisoned
    BY <1>4, GoesAs
  <2>3. Dated(disk[j], w.seen) /\ Backed(w, disk[j], claimed[Ha][j])
    BY <1>2, <1>4 DEF CalmFacts, CalmFits, Past, Backed
  <2>4. claimed'[Ha][j] = claimed[Ha][j] /\ w.pc \notin Claiming
    BY <1>1, <1>4 DEF vars, Claiming
  <2>5. CalmFits(w, disk'[j], claimed'[Ha][j], custody'[j])
    BY <1>2, <1>4, <2>3, <2>4 DEF CalmFits
  <2>6. QED BY <1>2, <2>2, <2>5 DEF Calm, CalmFacts
<1>5. ASSUME Fail(j, "cleanfail") PROVE Calm(j)'
  <2>1. PICK goal : Aim(j, "cleanfail", goal)
    BY <1>5 DEF Fail
  <2>2. Keeps(j, "cleanfail", v.seen, v.op)
    BY <1>1, <2>1, KeepsNow
  <2>3. QED BY <1>1, <1>2, <1>5, <2>2, CalmAside DEF Asides
<1>6. CASE Acquire(j)
  <2>1. v.pc = "loop" /\ ~v.local
    BY <1>6 DEF Acquire, Looping, At
  <2>2. CASE e = "ready" /\ custody' = custody /\ Go(j, [v EXCEPT !.local = TRUE])
    <3> DEFINE w == [v EXCEPT !.local = TRUE]
    <3>1. w.pc = "loop" /\ w.seen = v.seen /\ w.cleared = v.cleared
      BY <1>3, <2>1 DEF Worker
    <3>2. Go(j, w)
      BY <2>2
    <3> HIDE DEF w
    <3>3. Supplied(w, custody'[j])
      BY <2>2, <3>1 DEF Supplied, Operating
    <3>4. QED BY <1>4, <3>1, <3>2, <3>3
  <2>3. CASE e = "part" /\ custody' = custody /\ To(j, "unpart") /\ ~v.cleared
    <3> DEFINE w == [v EXCEPT !.pc = "unpart"]
    <3>1. /\ w.pc = "unpart" /\ w.seen = v.seen /\ w.cleared = v.cleared
          /\ w.local = v.local
      BY <1>3 DEF Worker
    <3>2. Go(j, w)
      BY <2>3 DEF To
    <3> HIDE DEF w
    <3>3. Supplied(w, custody'[j])
      BY <2>1, <2>3, <3>1 DEF Supplied, Operating
    <3>4. QED BY <1>4, <3>1, <3>2, <3>3
  <2>4. CASE custody' = [custody EXCEPT ![j] = "part"] /\ To(j, "fetch")
    <3> DEFINE w == [v EXCEPT !.pc = "fetch"]
    <3>1. w.pc = "fetch" /\ w.seen = v.seen /\ w.local = v.local
      BY <1>3 DEF Worker
    <3>2. Go(j, w)
      BY <2>4 DEF To
    <3> HIDE DEF w
    <3>3. Supplied(w, custody'[j])
      BY <2>1, <3>1 DEF Supplied, Operating, Working
    <3>4. QED BY <1>4, <3>1, <3>2, <3>3
  <2>5. ~(e = "part" /\ v.cleared)
    BY <1>3, <1>6, <2>1
       DEF Supplied, Acquire, Looping, Working, CancellablePhases
  <2>6. \/ e = "ready" /\ custody' = custody /\ Go(j, [v EXCEPT !.local = TRUE])
        \/ e = "part" /\ custody' = custody /\ To(j, "unpart") /\ ~v.cleared
        \/ custody' = [custody EXCEPT ![j] = "part"] /\ To(j, "fetch")
        \/ Fail(j, "cleanfail")
    BY <1>3, <1>6, <2>5 DEF Acquire, Think
  <2>7. QED BY <1>5, <2>2, <2>3, <2>4, <2>6
<1>7. CASE Fetch(j)
  <2>1. \/ /\ custody' = [custody EXCEPT ![j] = "ready"]
           /\ Go(j, [v EXCEPT !.pc = "loop", !.local = TRUE])
        \/ Fail(j, "cleanfail")
    BY <1>3, <1>7 DEF Fetch
  <2>2. CASE /\ custody' = [custody EXCEPT ![j] = "ready"]
             /\ Go(j, [v EXCEPT !.pc = "loop", !.local = TRUE])
    <3> DEFINE w == [v EXCEPT !.pc = "loop", !.local = TRUE]
    <3>1. w.pc = "loop" /\ w.seen = v.seen
      BY <1>3 DEF Worker
    <3>2. Go(j, w) /\ custody'[j] = "ready"
      BY <2>2, CustodyEffect
    <3> HIDE DEF w
    <3>3. Supplied(w, custody'[j])
      BY <3>1, <3>2 DEF Supplied, Operating
    <3>4. QED BY <1>4, <3>1, <3>2, <3>3
  <2>3. QED BY <1>5, <2>1, <2>2
<1>8. CASE Unpart(j)
  <2> DEFINE w == [v EXCEPT !.pc = "loop", !.cleared = TRUE]
  <2>1. \/ custody' = [custody EXCEPT ![j] = "none"] /\ Go(j, w)
        \/ End(j, FALSE)
    BY <1>3, <1>8 DEF Unpart, CleanLocal
  <2>2. w.pc = "loop" /\ w.seen = v.seen /\ w.local = v.local
    BY <1>3 DEF Worker
  <2> HIDE DEF w
  <2>3. CASE custody' = [custody EXCEPT ![j] = "none"] /\ Go(j, w)
    <3>1. custody'[j] = "none" /\ ~v.local
      BY <1>3, <1>8, <2>3, CustodyEffect DEF Supplied, Unpart, At
    <3>2. Supplied(w, custody'[j])
      BY <2>2, <3>1 DEF Supplied, Operating
    <3>3. QED BY <1>4, <2>2, <2>3, <3>2
  <2>4. QED BY <1>1, <2>1, <2>3, CalmEnd
<1>9. QED BY <1>6, <1>7, <1>8

\* A worker whose last cleaning fails is excused.
LEMMA CleanExcused ==
    ASSUME Standing, NEW j \in JobIds, At(j, "reclean") \/ At(j, "recclean"),
           End(j, TRUE)
    PROVE  j \in excused'
<1>1. task'[j] = None /\ j \in poisoned'
  BY ExecutorAssumption DEF End, Standing, ExecInv, ExecTypeOK, Tasks
<1>2. j \in Hindered
  BY <1>1 DEF Hindered, At
<1>3. QED BY <1>1, <1>2 DEF End, Excuse

\* The steps that remove the job's files.
LEMMA CalmClean ==
    ASSUME Standing, NEW j \in JobIds, Calm(j),
           \/ Installed(j) \/ DropLocal(j) \/ DropRefused(j) \/ CleanFail(j)
           \/ RecClean(j)
    PROVE  Calm(j)' \/ j \in excused'
<1> DEFINE v == task[j]
<1>1. /\ task[j] # None /\ UNCHANGED vars
      /\ v.pc \in {"loop", "droplocal", "droprefused", "cleanfail", "recclean"}
  BY DEF Installed, DropLocal, DropRefused, CleanFail, RecClean, Looping, At, Think,
         CleanLocal
<1>2. CalmFacts(j) /\ Past(j) /\ Quietly /\ disk'[j] = disk[j]
  BY <1>1, CalmKnown DEF Past, Claiming, Quietly, vars
<1>3. v \in Worker /\ v.job = j /\ Place(v, disk[j], asked[j], cmd[j], LiesOn(j), custody[j])
  BY <1>2 DEF CalmFacts, Fits
<1>4. ASSUME NEW pc \in Asides, To(j, pc) \/ \E goal : Aim(j, pc, goal)
      PROVE  Calm(j)'
  <2>1. Keeps(j, pc, v.seen, v.op)
    BY <1>1, <1>4, KeepsNow
  <2>2. QED BY <1>1, <1>2, <2>1, CalmAside
<1>5. ASSUME NEW result, Recover(j, result) PROVE Calm(j)'
  BY <1>4, <1>5 DEF Recover, Asides
<1>6. ASSUME End(j, FALSE) PROVE Calm(j)'
  BY <1>1, <1>6, CalmEnd
<1>7. "move" \in Working \ Operating
  BY DEF Working, Operating
<1>8. CASE Installed(j)
  <2> DEFINE g == Goal("launching", None, None)
             u == [v EXCEPT !.staged = TRUE]
             w == [u EXCEPT !.pc = "move", !.goal = g]
  <2> HIDE DEF g
  <2>1. /\ Go(j, w) \/ Recover(j, "verification_required")
        /\ v.seen.phase = "installed"
    BY <1>3, <1>8 DEF Installed, CleanLocal, Looping, g
  <2>2. ASSUME Go(j, w) PROVE Calm(j)'
    <3>1. task'[j] = w /\ poisoned' = poisoned
      BY <2>2, GoesAs
    <3>2. Keeps(j, "move", v.seen, v.op)
      BY <1>3, <3>1 DEF Keeps, Worker
    <3>3. v.seen.phase \notin CancellablePhases
      BY <2>1 DEF CancellablePhases
    <3>4. QED BY <1>1, <1>2, <1>7, <3>2, <3>3, CalmVacant
  <2> HIDE DEF w
  <2>3. QED BY <1>5, <2>1, <2>2
<1>9. CASE DropLocal(j)
  <2> DEFINE g == CancelGoal(j)
  <2> HIDE DEF g
  <2>1. /\ Aim(j, "move", g) \/ Recover(j, "verification_required") \/ End(j, FALSE)
        /\ v.seen.cancel_requested
    BY <1>3, <1>9 DEF DropLocal, CleanLocal, Think, At, Place, g
  <2>2. ASSUME Aim(j, "move", g) PROVE Calm(j)'
    <3>1. Keeps(j, "move", v.seen, v.op)
      BY <1>1, <2>2, KeepsNow
    <3>2. QED BY <1>1, <1>2, <1>7, <2>1, <3>1, CalmVacant
  <2>3. QED BY <1>5, <1>6, <2>1, <2>2
<1>10. CASE DropRefused(j) \/ CleanFail(j)
  <2>1. /\ "fail" \in Asides
        /\ \/ To(j, "fail") \/ \E goal : Aim(j, "fail", goal)
           \/ Recover(j, "verification_required") \/ End(j, FALSE)
    BY <1>3, <1>10 DEF DropRefused, CleanFail, CleanLocal, Asides
  <2>2. QED BY <1>4, <1>5, <1>6, <2>1
<1>11. CASE RecClean(j)
  <2>1. /\ "recget" \in Asides /\ At(j, "recclean")
        /\ To(j, "recget") \/ End(j, TRUE)
    BY <1>11 DEF RecClean, CleanLocal, Asides
  <2>2. QED BY <1>4, <2>1, CleanExcused
<1>12. QED BY <1>8, <1>9, <1>10, <1>11


\* A job that has moved on under its worker has been asked to cancel.
LEMMA MovedOn ==
    ASSUME Standing, NEW j \in JobIds, task[j] # None,
           Active(disk[j]) => disk[j] # task[j].seen
    PROVE  Raced(disk[j])
<1>1. Tracks(disk[j], task[j].seen) /\ task[j].seen \in Receipt
  BY WorkFacts DEF Known, Fits
<1>2. QED BY <1>1, OvertakenFields DEF Tracks, Raced

\* The steps with which a worker reads the receipt afresh.
LEMMA CalmReads ==
    ASSUME Standing, NEW j \in JobIds, Calm(j), cache'[Ha] # None,
           \/ Authority(j) \/ Barrier(j) \/ Recheck(j) \/ DoFail(j)
           \/ DoRecover(j) \/ RecGet(j)
    PROVE  Calm(j)'
<1> DEFINE v == task[j]
           d == disk[j]
<1>1. /\ task[j] # None /\ custody' = custody /\ disk' = disk
      /\ v.pc \in {"authority", "barrier", "recheck", "fail", "recover", "recget"}
  BY DEF Authority, Barrier, Recheck, DoFail, DoRecover, RecGet, At, Think, Get,
         Await, Refresh, VerifyBarrier, Fault, vars
<1>2. /\ CalmFacts(j) /\ Past(j) /\ disk'[j] = disk[j]
      /\ v.pc # "fetch" /\ custody'[j] = custody[j]
  BY <1>1, CalmKnown DEF Past, Claiming
<1>3. Quietly
  <2>1. TaskStep(j) /\ j \in Tasks
    BY DEF TaskStep, Works, Tasks
  <2>2. QED BY <2>1, TaskCalls DEF Quietly, Standing
<1>4. /\ Tracks(d, v.seen) /\ Fresh(j) = d /\ v.seen \in Receipt
      /\ d \in Receipt \cup {None}
      /\ Place(v, d, asked[j], cmd[j], LiesOn(j), custody[j])
  BY <1>2 DEF CalmFacts, Fits
<1>5. ASSUME End(j, TRUE), Raced(d) PROVE Calm(j)'
  BY <1>1, <1>2, <1>5, CalmEnd
<1>6. Raced(None)
  BY DEF Raced, Active
<1>7. ASSUME NEW pc, NEW op, Keeps(j, pc, d, op), d # None, pc \in Working,
             d.cancel_requested \/ Terminal(d),
             pc \in Operating => op # "stage"
      PROVE  Calm(j)'
  <2>1. d.cancel_requested \/ d.phase \notin CancellablePhases
    BY <1>7 DEF Terminal, TerminalPhases, CancellablePhases
  <2>2. QED BY <1>1, <1>2, <1>3, <1>7, <2>1, CalmVacant
<1>8. CASE Authority(j)
  <2>1. /\ v.pc = "authority" /\ AtOperation(v, asked[j], cmd[j], LiesOn(j))
        /\ v.op \in Ops
    BY <1>1, <1>4, <1>8, WorkFacts
       DEF Authority, At, Place, Operating, Known, Sound
  <2>2. v.seen.phase \in PanelPhases /\ (v.op = "stage" => ~v.seen.cancel_requested)
    BY <2>1 DEF AtOperation, OpFits, Ops, PanelPhases
  <2>3. CASE Refused(j)
    <3>1. PICK pc \in Asides : \E goal : Aim(j, pc, goal)
      BY <2>3 DEF Refused, Fail, Recover, Asides
    <3>2. Keeps(j, pc, v.seen, v.op)
      BY <1>1, <3>1, KeepsNow
    <3>3. QED BY <1>1, <1>2, <1>3, <3>2, CalmAside
  <2>4. CASE d # None /\ Undisturbed(j)
                /\ Go(j, [v EXCEPT !.pc = "barrier", !.seen = d])
    <3>1. d = v.seen
      BY <1>1, <2>2, <2>4, FreshFacts
    <3>2. Keeps(j, "barrier", v.seen, v.op)
      BY <1>1, <2>4, <3>1, KeepsNow
    <3>3. v.op = "stage" => v.local
      BY <1>2, <2>1 DEF CalmFacts, CalmFits, Supplied, Operating
    <3>4. "barrier" \in Working /\ v.pc \in Working
      BY <2>1 DEF Working, Operating
    <3>5. QED BY <1>1, <1>2, <1>3, <3>2, <3>3, <3>4, CalmOnward
  <2>5. CASE d # None /\ CancelledMeanwhile(j)
                /\ Go(j, [v EXCEPT !.pc = "loop", !.seen = d, !.op = None])
    <3>1. d.cancel_requested
      BY <1>4, <2>5 DEF CancelledMeanwhile
    <3>2. Keeps(j, "loop", d, None)
      <4>1. /\ task'[j] = [v EXCEPT !.pc = "loop", !.seen = d, !.op = None]
            /\ poisoned' = poisoned
        BY <2>5, GoesAs
      <4>2. QED BY <1>2, <4>1 DEF CalmFacts, Keeps, Worker
    <3>3. QED BY <1>7, <2>5, <3>1, <3>2 DEF Working, Operating
  <2>6. CASE End(j, TRUE) /\ (d # None => ~Undisturbed(j))
    <3>1. Active(d) => d # v.seen
      BY <1>4, <2>6 DEF Undisturbed, Active
    <3>2. QED BY <1>1, <1>5, <2>6, <3>1, MovedOn
  <2>7. QED
    BY <1>4, <1>8, <2>3, <2>4, <2>5, <2>6 DEF Authority, Think, Get, Await
<1>9. CASE Barrier(j)
  <2> DEFINE s == v.seen
             cancel == v.op = "clean" /\ s.phase = "staging"
  <2>1. At(j, "barrier") /\ v.job = j
    BY <1>2, <1>9 DEF Barrier, CalmFacts
  <2>2. CASE Authorized(Ha, j, s.revision, s.phase, cancel)
    <3>1. To(j, "send")
      BY <1>9, <2>1, <2>2 DEF Barrier, Await
    <3>2. Keeps(j, "send", v.seen, v.op)
      BY <1>1, <3>1, KeepsNow
    <3>3. v.op = "stage" => v.local
      BY <1>2, <2>1 DEF CalmFacts, CalmFits, Supplied, Operating, At
    <3>4. "send" \in Working /\ v.pc \in Working
      BY <2>1 DEF Working, Operating, At
    <3>5. QED BY <1>1, <1>2, <1>3, <3>2, <3>3, <3>4, CalmOnward
  <2>3. CASE ~Authorized(Ha, j, s.revision, s.phase, cancel)
    <3>1. End(j, TRUE)
      BY <1>9, <2>1, <2>3 DEF Barrier
    <3>2. Active(d) => d # v.seen
      BY <1>1, <2>1, <2>3, BarrierHolds
    <3>3. QED BY <1>1, <1>5, <3>1, <3>2, MovedOn
  <2>4. QED BY <2>2, <2>3
<1>10. CASE Recheck(j)
  <2>1. v.pc = "recheck" /\ (Active(d) => Overtaken(d, v.seen))
    BY <1>4, <1>10 DEF Recheck, At, Place
  <2>2. CASE End(j, TRUE)
    <3>1. Raced(d)
      BY <1>4, <2>1, OvertakenFields DEF Raced
    <3>2. QED BY <1>5, <2>2, <3>1
  <2>3. CASE d # None /\ CancelledMeanwhile(j)
                /\ Go(j, [v EXCEPT !.pc = "loop", !.seen = d, !.goal = None,
                                   !.op = None])
    <3>1. d.cancel_requested
      BY <1>4, <2>3 DEF CancelledMeanwhile
    <3>2. Keeps(j, "loop", d, None)
      <4>1. /\ task'[j] = [v EXCEPT !.pc = "loop", !.seen = d, !.goal = None,
                                    !.op = None]
            /\ poisoned' = poisoned
        BY <2>3, GoesAs
      <4>2. QED BY <1>2, <4>1 DEF CalmFacts, Keeps, Worker
    <3>3. QED BY <1>7, <2>3, <3>1, <3>2 DEF Working, Operating
  <2>4. QED BY <1>4, <1>10, <2>2, <2>3 DEF Recheck, Get, Await
<1>11. CASE DoFail(j) \/ DoRecover(j) \/ RecGet(j)
  <2>1. PICK pc \in {"finish", "recclean"} :
          \/ End(j, TRUE) /\ d = None
          \/ d # None /\ Unfinished(j, pc)
    BY <1>4, <1>11 DEF DoFail, DoRecover, RecGet, Get, Await
  <2>2. CASE End(j, TRUE) /\ d = None
    BY <1>5, <1>6, <2>2
  <2>3. CASE d # None /\ Unfinished(j, pc)
    <3> DEFINE next == IF Terminal(d) THEN "loop" ELSE pc
    <3>1. task'[j] = [v EXCEPT !.seen = d, !.pc = next] /\ poisoned' = poisoned
      BY <1>4, <2>3, GoesAs DEF Unfinished
    <3> HIDE DEF next
    <3>2. Keeps(j, next, d, v.op)
      BY <1>2, <3>1 DEF CalmFacts, Keeps, Worker
    <3>3. CASE Terminal(d)
      BY <1>7, <2>3, <3>2, <3>3 DEF next, Working, Operating
    <3>4. CASE ~Terminal(d)
      <4>1. next \in Asides
        BY <3>4 DEF next, Asides
      <4>2. QED BY <1>1, <1>2, <1>3, <2>3, <3>2, <4>1, CalmAside
    <3>5. QED BY <3>3, <3>4
  <2>4. QED BY <2>1, <2>2, <2>3
<1>12. QED BY <1>8, <1>9, <1>10, <1>11


\* A transition the worker has in mind is admitted, unless the job has moved on.
LEMMA MoveIsAdmitted ==
    ASSUME Standing, NEW j \in JobIds, task[j] # None, Calm(j),
           At(j, "move") \/ At(j, "finish"),
           Active(disk[j]), disk[j] = task[j].seen
    PROVE  LET g == task[j].goal IN
           Admitted(Ha, j, g.phase, g.root, g.result, None)
<1> DEFINE v == task[j]
           r == disk[j]
           g == v.goal
<1>1. /\ r \in Receipt /\ r # None /\ g \in Goals /\ ValidReceipt(r)
      /\ Advances(v) \/ Cancels(v) \/ Fails(v) \/ Recovers(v)
      /\ v.seen = r
  <2>1. Known(j, v, disk[j], asked[j], cmd[j], LiesOn(j), custody[j])
    BY WorkFacts
  <2>2. r \in Receipt /\ r # None /\ ValidReceipt(r)
    BY <2>1 DEF Known, Active, Standing, IInv, StoreStaysReadable
  <2>3. g \in Goals
    BY <2>1 DEF Known, Sound, Aiming, At
  <2>4. Advances(v) \/ Cancels(v) \/ Fails(v) \/ Recovers(v)
    BY <2>1 DEF Known, Fits, Place, AtMove, At
  <2>5. QED BY <2>2, <2>3, <2>4
<1>2. r.phase = "healthy_unclaimed" \/ claimed[Ha][j] = r.generation
  BY CalmKnown DEF CalmFacts, CalmFits, Backed, Claimable, At, Claiming
<1>3. /\ r.phase \in {"approved", "authorizing", "preflight"} => r.root = None
      /\ r.phase = "downloading" => ~r.apk
      /\ r.phase = "health_check" => ~r.health
      /\ r.phase \notin TerminalPhases
  BY <1>1
     DEF ValidReceipt, ValidEvidence, Active, ArtifactPhases, TerminalPhases
<1>4. g.phase \in Phases /\ g.root \in RootModes \cup {None}
  BY <1>1 DEF Goals
<1> HIDE DEF g
<1>5. CASE Advances(v)
  <2>1. /\ ~r.cancel_requested /\ <<r.phase, g.phase>> \in Forward
        /\ g.phase # "consumed" /\ g.result = None
        /\ g.root # None <=> r.phase = "preflight"
    BY <1>1, <1>5 DEF Advances, g
  <2>2. NextPhase(r.phase, g.phase) /\ CancelAllows(r, g.phase)
    BY <2>1 DEF NextPhase, CancelAllows
  <2>3. /\ g.phase = "artifact_ready" => r.phase = "downloading"
        /\ g.phase = "healthy_unclaimed" => r.phase = "health_check"
        /\ r.phase = "preflight" => g.phase = "downloading"
        /\ g.phase \notin {"cancelled", "failed", "recovery_required"}
    BY <2>1 DEF Forward
  <2>4. RootAllowed(r, g.phase, g.root)
    BY <1>3, <2>1, <2>3 DEF RootAllowed
  <2>5. OutcomeAllowed(r, g.phase, g.result, None)
    BY <2>1, <2>3 DEF OutcomeAllowed
  <2>6. QED
    BY <1>2, <1>3, <2>2, <2>3, <2>4, <2>5 DEF Admitted, g
<1>6. CASE Cancels(v) \/ Fails(v) \/ Recovers(v)
  <2>1. /\ g.phase \in {"cancelled", "failed", "recovery_required"}
        /\ g.root = None
        /\ g.phase = "cancelled" =>
               /\ r.cancel_requested /\ r.phase \in CancellablePhases
               /\ g.result = IF r.phase = "staging"
                             THEN "cancelled_after_staging_cleanup"
                             ELSE "cancelled_by_user"
        /\ g.phase = "failed" => g.result \in FailureCodesOf(r.phase)
        /\ g.phase = "recovery_required" =>
               g.result \in RecoveryCodes /\ r.phase \in PanelPhases
    BY <1>1, <1>6 DEF Cancels, Fails, Recovers, g
  <2>2. NextPhase(r.phase, g.phase)
    <3>1. g.phase = "failed" => r.phase \in Phases \ (TerminalPhases \cup {"healthy_unclaimed"})
      <4>1. r.phase = "healthy_unclaimed" => FailureCodesOf(r.phase) = {}
        BY DEF FailureCodesOf
      <4>2. r.phase \in Phases
        BY <1>1 DEF Receipt
      <4>3. QED BY <1>3, <2>1, <4>1, <4>2
    <3>2. g.phase = "recovery_required" => r.phase \in RecoverySources
      BY <2>1, PhaseFacts
    <3>3. QED BY <2>1, <3>1, <3>2 DEF NextPhase
  <2>3. /\ CancelAllows(r, g.phase)
        /\ OutcomeAllowed(r, g.phase, g.result, None)
        /\ RootAllowed(r, g.phase, g.root)
    BY <2>1 DEF CancelAllows, OutcomeAllowed, RootAllowed
  <2>4. QED
    BY <1>2, <2>1, <2>2, <2>3 DEF Admitted, g
<1>7. QED BY <1>1, <1>5, <1>6

LEMMA CalmMoves ==
    ASSUME Standing, NEW j \in JobIds, Calm(j), cache'[Ha] # None,
           DoMove(j) \/ Finish(j)
    PROVE  Calm(j)'
<1> DEFINE v == task[j]
           d == disk[j]
           g == v.goal
           r == MovedReceipt(d, g.phase, g.root, g.result, None)
           h == claimed'[Ha][j]
<1>1. /\ task[j] # None /\ custody' = custody /\ v.pc \in {"move", "finish"}
      /\ At(j, "move") \/ At(j, "finish")
  BY DEF DoMove, Finish, AskTransition, Await, At
<1>2. CalmFacts(j) /\ Past(j) /\ custody'[j] = custody[j] /\ v.pc # "fetch"
  BY <1>1, CalmKnown DEF Past, Claiming
<1>3. Quietly /\ TypeOK
  <2>1. TaskStep(j) /\ j \in Tasks
    BY DEF TaskStep, Works, Tasks
  <2>2. QED BY <2>1, TaskCalls DEF Quietly, Standing, ExecInv, ExecTypeOK
<1>4. /\ Tracks(d, v.seen) /\ v.seen \in Receipt /\ v.job = j
      /\ d \in Receipt \cup {None} /\ v \in Worker /\ g \in Goals
      /\ Place(v, d, asked[j], cmd[j], LiesOn(j), custody[j])
  BY <1>1, <1>2, WorkFacts DEF CalmFacts, Fits, Known, Sound, Aiming
<1>5. ASSUME End(j, TRUE), Raced(disk'[j]) PROVE Calm(j)'
  BY <1>1, <1>2, <1>5, CalmEnd
<1>6. Raced(None)
  BY DEF Raced, Active
<1>7. CASE ~Current(disk, j, v.seen.revision) /\ Refresh(Ha)
              /\ (End(j, TRUE) \/ To(j, "recheck"))
  <2>1. disk'[j] = d
    BY <1>7 DEF Refresh
  <2>2. CASE End(j, TRUE)
    <3>1. Active(d) => d # v.seen
      BY <1>7 DEF Current, Active
    <3>2. QED BY <1>1, <1>5, <2>1, <2>2, <3>1, MovedOn
  <2>3. CASE To(j, "recheck")
    <3>1. Keeps(j, "recheck", v.seen, v.op) /\ "recheck" \in Asides
      BY <1>1, <2>3, KeepsNow DEF Asides
    <3>2. QED BY <1>1, <1>2, <1>3, <2>1, <3>1, CalmAside
  <2>4. QED BY <1>7, <2>2, <2>3
<1>8. CASE ~Admitted(Ha, j, g.phase, g.root, g.result, None) /\ Refresh(Ha)
              /\ End(j, TRUE)
  <2>1. disk'[j] = d
    BY <1>8 DEF Refresh
  <2>2. Active(d) => d # v.seen
    BY <1>1, <1>8, MoveIsAdmitted
  <2>3. QED BY <1>1, <1>5, <1>8, <2>1, <2>2, MovedOn
<1>9. CASE Transition(Ha, j, v.seen.revision, g.phase, g.root, g.result, None)
              /\ cache'[Ha] # None /\ disk'[j] = None /\ End(j, TRUE)
  BY <1>5, <1>6, <1>9
<1>10. CASE Transition(Ha, j, v.seen.revision, g.phase, g.root, g.result, None)
              /\ cache'[Ha] # None /\ disk'[j] # None
              /\ Go(j, [v EXCEPT !.pc = "loop", !.seen = disk'[j], !.goal = None,
                                 !.op = None])
  <2>1. /\ d # None /\ d \in Receipt /\ d.revision = v.seen.revision
        /\ Admitted(Ha, j, g.phase, g.root, g.result, None)
    BY <1>4, <1>10 DEF Transition, Current
  <2>2. d = v.seen
    BY <1>2, <2>1 DEF CalmFacts, CalmFits, Dated
  <2>3. d.phase \notin TerminalPhases
    BY <2>1, FinishedIsFinal DEF Admitted
  <2>4. disk'[j] = r
    <3>1. PICK gone \in Prunable([disk EXCEPT ![j] = r], j) : \E claims :
              Saved(Ha, Without([disk EXCEPT ![j] = r], gone), claims)
      BY <1>10 DEF Transition, Stamped
    <3> HIDE DEF r
    <3>2. disk'[j] \in {r, None}
      BY <1>3, <1>10, <3>1, WrittenThrough
    <3>3. QED BY <1>10, <3>2
  <2>5. r \in Receipt /\ r # None /\ MovedAs(r, d, g.phase, g.root, g.result, None)
    <3>1. /\ g.phase \in Phases /\ g.root \in RootModes \cup {None}
          /\ g.result \in ResultCodes \cup {None}
      BY <1>4 DEF Goals
    <3>2. MovedAs(r, d, g.phase, g.root, g.result, None)
      <4> HIDE DEF g
      <4>1. None \in EntryIds \cup {None} /\ d \in Receipt
        BY <2>1
      <4>2. QED BY <3>1, <4>1, MovedShape
    <3>3. disk'[j] \in Receipt \cup {None}
      <4>1. TaskStep(j) /\ j \in Tasks
        BY DEF TaskStep, Works, Tasks
      <4>2. [ExecNext]_execVars
        BY <4>1 DEF ExecNext
      <4>3. ExecInv'
        BY <4>2, ExecInductive DEF Standing
      <4>4. QED BY <4>3 DEF ExecInv, ExecTypeOK, TypeOK
    <3>4. QED BY <1>10, <2>4, <3>2, <3>3
  <2>6. r.phase = g.phase /\ r.generation = d.generation
        /\ r.cancel_requested = d.cancel_requested
    BY <2>5 DEF MovedAs
  <2>7. /\ task'[j] = [v EXCEPT !.pc = "loop", !.seen = r, !.goal = None,
                                !.op = None]
        /\ poisoned' = poisoned
    <3> HIDE DEF r
    <3>1. Go(j, [v EXCEPT !.pc = "loop", !.seen = r, !.goal = None, !.op = None])
      BY <1>10, <2>4
    <3>2. QED BY <3>1, GoesAs
  <2> HIDE DEF r
  <2>8. Keeps(j, "loop", r, None)
    BY <1>4, <2>7 DEF Keeps, Worker
  <2>9. Claimable(r) => h = r.generation
    <3>1. ASSUME Claimable(r) PROVE h = r.generation
      <4>1. d.phase # "healthy_unclaimed"
        BY <2>1, <2>6, <3>1
           DEF Admitted, NextPhase, Forward, Claimable, Active, CancellablePhases,
               TerminalPhases
      <4>2. Firm(j)
        BY <2>1, <2>3, <4>1 DEF Admitted, Firm, Held, Claimable, Active
      <4>3. claimed'[Ha][j] = claimed[Ha][j]
        <5>1. Next
          BY <1>3, <1>10, <2>2, <2>4, <2>5, <2>6 DEF Quietly, vars, MovedAs, Receipt
        <5>2. QED BY <1>3, <1>10, <2>4, <2>6, <3>1, <4>2, <5>1, ClaimKept
      <4>4. QED BY <2>6, <4>2, <4>3 DEF Firm, Held
    <3>2. QED BY <3>1
  <2>10. Supplied(task'[j], custody'[j])
    <3>1. Supplied(v, custody[j])
      BY <1>2 DEF CalmFacts, CalmFits
    <3>2. ASSUME ~r.cancel_requested, r.phase \in CancellablePhases
          PROVE  /\ v.local => custody[j] = "ready"
                 /\ v.cleared => custody[j] # "part"
      <4>1. Advances(v) \/ Cancels(v) \/ Fails(v) \/ Recovers(v)
        BY <1>1, <1>4 DEF Place, AtMove
      <4>2. Advances(v)
        BY <2>6, <3>2, <4>1 DEF Cancels, Fails, Recovers, CancellablePhases
      <4>3. v.seen.phase \in CancellablePhases /\ ~v.seen.cancel_requested
        BY <2>6, <3>2, <4>2 DEF Advances, Forward, CancellablePhases
      <4>4. v.pc = "move"
        <5>1. CASE v.pc = "finish"
          BY <1>4, <4>2, <5>1 DEF Place, Recovers, Fails, Advances, Forward
        <5>2. QED BY <1>1, <5>1
      <4>5. QED BY <3>1, <3>2, <4>3, <4>4 DEF Supplied, Working
    <3>3. QED
      BY <1>2, <2>8, <3>1, <3>2 DEF Supplied, Keeps, Operating
  <2>11. CalmFits(task'[j], r, h, custody'[j])
    <3>1. Dated(r, r)
      BY <2>5 DEF Dated, Receipt
    <3>2. task'[j].pc = "loop" /\ task'[j].seen = r
      BY <2>8 DEF Keeps
    <3>3. QED BY <2>9, <2>10, <3>1, <3>2 DEF CalmFits, Backed, Claiming
  <2>12. QED BY <1>2, <2>4, <2>7, <2>11 DEF Calm, CalmFacts
<1>11. QED
  <2>1. d = None => ~Current(disk, j, v.seen.revision)
    BY DEF Current
  <2>2. CASE ~Current(disk, j, v.seen.revision) /\ Refresh(Ha)
                /\ (End(j, TRUE) \/ To(j, "recheck"))
    BY <1>7, <2>2
  <2>3. \/ ~Current(disk, j, v.seen.revision) /\ Refresh(Ha)
              /\ (End(j, TRUE) \/ To(j, "recheck"))
        \/ ~Admitted(Ha, j, g.phase, g.root, g.result, None) /\ Refresh(Ha)
              /\ End(j, TRUE)
        \/ /\ Transition(Ha, j, v.seen.revision, g.phase, g.root, g.result, None)
           /\ cache'[Ha] # None
           /\ IF disk'[j] = None THEN End(j, TRUE)
              ELSE Go(j, [v EXCEPT !.pc = "loop", !.seen = disk'[j], !.goal = None,
                                   !.op = None])
    BY <1>4 DEF DoMove, Finish, AskTransition, Await
  <2>4. QED BY <1>8, <1>9, <1>10, <2>2, <2>3


\* A claim that is written is remembered, unless it ends the job.
LEMMA ClaimWritten ==
    ASSUME Standing, NEW j \in JobIds, NEW rev, NEW cleaned,
           Claim(Ha, j, rev, cleaned), cache'[Ha] # None
    PROVE  LET r == ClaimedReceipt(disk[j]) IN
           /\ disk'[j] \in {r, None}
           /\ ~Terminal(r) => claimed'[Ha][j] = r.generation
<1> DEFINE r == ClaimedReceipt(disk[j])
           jobs == [disk EXCEPT ![j] = r]
           left(kept) == Reconciled(Reconciled(claimed[Ha], disk), kept)
<1>1. PICK gone \in Prunable(jobs, j) :
        LET kept == Without(jobs, gone) IN
        Saved(Ha, kept, IF Terminal(r) THEN left(kept)
                        ELSE [left(kept) EXCEPT ![j] = r.generation])
  BY DEF Claim
<1>2. TypeOK
  BY DEF Standing, ExecInv, ExecTypeOK
<1>3. disk'[j] \in {r, None}
  <2>1. \E kept \in Prunable([disk EXCEPT ![j] = r], j) : \E claims :
            Saved(Ha, Without([disk EXCEPT ![j] = r], kept), claims)
    BY <1>1
  <2> HIDE DEF r
  <2>2. QED BY <1>2, <2>1, WrittenThrough
<1> DEFINE kept == Without(jobs, gone)
<1>4. ASSUME ~Terminal(r) PROVE claimed'[Ha][j] = r.generation
  <2>1. left(kept) = [i \in JobIds |-> left(kept)[i]]
    BY DEF Reconciled
  <2>2. Saved(Ha, kept, [left(kept) EXCEPT ![j] = r.generation])
    BY <1>1, <1>4
  <2> HIDE DEF left, kept, r
  <2>3. [left(kept) EXCEPT ![j] = r.generation][j] = r.generation
    BY <2>1
  <2>4. ~Invalidated(Ha)
    BY <1>2, TheManager DEF Invalidated, TypeOK
  <2>5. Adopted(Ha, kept, [left(kept) EXCEPT ![j] = r.generation])
    BY <2>2, <2>4 DEF Saved
  <2>6. QED BY <1>2, <2>3, <2>5, ClaimsOf
<1>5. QED BY <1>3, <1>4

LEMMA CalmClaims ==
    ASSUME Standing, NEW j \in JobIds, Calm(j), cache'[Ha] # None, Claims(j)
    PROVE  Calm(j)' \/ j \in excused'
<1> DEFINE v == task[j]
           d == disk[j]
           e == custody[j]
<1>1. /\ task[j] # None /\ v.pc \in Claiming
  BY DEF Claims, Begin, AskFirst, Reget, Reclean, Confirm, At, Claiming
<1>2. CalmFacts(j)
  BY <1>1, CalmKnown
<1>3. /\ v \in Worker /\ v.seen \in Receipt /\ v.seen # None /\ v.job = j
      /\ d \in Receipt \cup {None} /\ Fresh(j) = d /\ j # Resumer
      /\ j \notin poisoned /\ v.seen.phase # "healthy_unclaimed"
      /\ Dated(d, v.seen) /\ ~v.local /\ (v.retried => Raced(d))
      /\ ~v.cleared
  BY <1>1, <1>2 DEF CalmFacts, CalmFits, Fits, Claiming
<1>4. Quietly
  <2>1. TaskStep(j) /\ j \in Tasks
    BY DEF TaskStep, Tasks
  <2>2. QED BY <2>1, TaskCalls DEF Quietly, Standing
<1>5. ASSUME End(j, TRUE), Raced(disk'[j]) PROVE Calm(j)'
  BY <1>1, <1>5, CalmEnd
<1>6. Raced(None)
  BY DEF Raced, Active
<1>7. ASSUME NEW w, Go(j, w), w.pc \in Claiming,
             w.seen = v.seen \/ (d # None /\ w.seen = d),
             ~w.local, w.cleared = v.cleared, w.retried => Raced(d),
             disk'[j] = d, custody'[j] \in {e, "none"}
      PROVE  Calm(j)'
  <2>1. task'[j] = w /\ poisoned' = poisoned
    BY <1>7, GoesAs
  <2>2. Dated(d, w.seen)
    BY <1>3, <1>7 DEF Dated, Receipt
  <2>3. Supplied(w, custody'[j])
    BY <1>7 DEF Supplied, Claiming, Working, Operating
  <2>4. CalmFits(w, d, claimed'[Ha][j], custody'[j])
    BY <1>3, <1>7, <2>2, <2>3 DEF CalmFits
  <2>5. QED BY <1>3, <1>7, <2>1, <2>4 DEF Calm
<1>8. ASSUME NEW r \in Receipt, Claimed(j, r), disk'[j] = r, custody' = custody,
             Claimable(r) => claimed'[Ha][j] = r.generation
      PROVE  Calm(j)'
  <2> DEFINE w == [v EXCEPT !.pc = "loop", !.seen = r, !.retried = FALSE]
  <2>1. task'[j] = w /\ poisoned' = poisoned
    BY <1>3, <1>8, GoesAs DEF Claimed
  <2>2. /\ w.pc = "loop" /\ w.seen = r /\ w.local = v.local
        /\ w.cleared = v.cleared
    BY <1>3 DEF Worker
  <2> HIDE DEF w
  <2>3. Dated(r, w.seen)
    BY <2>2 DEF Dated, Receipt
  <2>4. Supplied(w, e)
    BY <1>3, <2>2 DEF Supplied, Operating
  <2>5. CalmFits(w, r, claimed'[Ha][j], e)
    BY <1>8, <2>2, <2>3, <2>4 DEF CalmFits, Backed, Claiming
  <2>6. QED BY <1>3, <1>8, <2>1, <2>5 DEF Calm
<1>9. ASSUME NEW pc \in {"claim", "reclean"}, d # None, disk' = disk,
             custody' = custody, Go(j, [v EXCEPT !.pc = pc, !.seen = d])
      PROVE  Calm(j)'
  <2> DEFINE w == [v EXCEPT !.pc = pc, !.seen = d]
  <2>1. /\ w.pc \in Claiming /\ w.seen = d /\ ~w.local
        /\ w.cleared = v.cleared /\ w.retried = v.retried
    BY <1>3 DEF Worker, Claiming
  <2>2. Go(j, w)
    BY <1>9
  <2> HIDE DEF w
  <2>3. QED BY <1>3, <1>7, <1>9, <2>1, <2>2
<1>10. ASSUME NEW pc \in {"reget", "confirm"}, disk' = disk,
              custody'[j] \in {e, "none"}, To(j, pc)
       PROVE  Calm(j)'
  <2> DEFINE w == [v EXCEPT !.pc = pc]
  <2>1. /\ w.pc \in Claiming /\ w.seen = v.seen /\ ~w.local
        /\ w.cleared = v.cleared /\ w.retried = v.retried
    BY <1>3 DEF Worker, Claiming
  <2>2. Go(j, w)
    BY <1>10 DEF To
  <2> HIDE DEF w
  <2>3. QED BY <1>3, <1>7, <1>10, <2>1, <2>2
<1>11. ASSUME NEW cleaned \in BOOLEAN, AskClaim(j, cleaned) PROVE Calm(j)'
  <2> DEFINE rev == v.seen.revision
             r == ClaimedReceipt(d)
  <2>1. custody' = custody
    BY <1>11 DEF AskClaim, Await
  <2>2. CASE Refresh(Ha) /\ d = None /\ End(j, TRUE)
    BY <1>5, <1>6, <2>2 DEF Refresh
  <2>3. CASE Refresh(Ha) /\ d # None /\ d.revision # rev /\ ClaimLost(j)
    <3>1. disk' = disk
      BY <2>3 DEF Refresh
    <3>2. Raced(d)
      BY <1>1, <2>3, MovedOn
    <3>3. CASE End(j, TRUE)
      BY <1>5, <3>1, <3>2, <3>3
    <3>4. CASE Go(j, [v EXCEPT !.pc = "begin", !.retried = TRUE])
      <4> DEFINE w == [v EXCEPT !.pc = "begin", !.retried = TRUE]
      <4>1. /\ w.pc \in Claiming /\ w.seen = v.seen /\ ~w.local
            /\ w.cleared = v.cleared
        BY <1>3 DEF Worker, Claiming
      <4>2. Go(j, w)
        BY <3>4
      <4> HIDE DEF w
      <4>3. QED BY <1>7, <2>1, <3>1, <3>2, <4>1, <4>2
    <3>5. QED BY <2>3, <3>3, <3>4 DEF ClaimLost
  <2>4. CASE Refresh(Ha) /\ Current(disk, j, rev) /\ ~Claimable(d) /\ End(j, TRUE)
    <3>1. d = v.seen
      BY <1>3, <2>4 DEF Current, Dated
    <3>2. Raced(d)
      BY <1>3, <2>4, <3>1 DEF Raced, Claimable
    <3>3. QED BY <1>5, <2>4, <3>2 DEF Refresh
  <2>5. CASE Refresh(Ha) /\ Current(disk, j, rev) /\ Held(j) /\ Claimed(j, d)
    <3>1. disk'[j] = d /\ d # None
      BY <2>5 DEF Refresh, Current
    <3>2. Claimable(d) => claimed'[Ha][j] = d.generation
      BY <1>4, <2>5, <3>1, CalmClaim
    <3>3. QED BY <1>3, <1>8, <2>1, <2>5, <3>1, <3>2
  <2>6. CASE Refresh(Ha) /\ To(j, "reget")
    BY <1>10, <2>1, <2>6 DEF Refresh
  <2>7. CASE /\ Claim(Ha, j, rev, cleaned) /\ cache'[Ha] # None
             /\ IF disk'[j] = None THEN End(j, TRUE) ELSE Claimed(j, disk'[j])
    <3>1. /\ disk'[j] \in {r, None}
          /\ ~Terminal(r) => claimed'[Ha][j] = r.generation
      BY <2>7, ClaimWritten
    <3>2. d \in Receipt /\ d # None
      BY <1>3, <2>7 DEF Claim, Current
    <3>3. r \in Receipt /\ r # None
      BY <3>2, ClaimedShape
    <3> HIDE DEF r
    <3>4. CASE disk'[j] = None
      BY <1>5, <1>6, <2>7, <3>4
    <3>5. CASE disk'[j] = r
      <4>1. Claimed(j, r)
        BY <2>7, <3>3, <3>5
      <4>2. Claimable(r) => ~Terminal(r)
        BY DEF Claimable, Active, Terminal
      <4>3. QED BY <1>8, <2>1, <3>1, <3>3, <3>5, <4>1, <4>2
    <3>6. QED BY <3>1, <3>4, <3>5
  <2>8. QED
    BY <1>3, <1>11, <2>2, <2>3, <2>4, <2>5, <2>6, <2>7 DEF AskClaim, Await
<1>12. CASE Begin(j)
  <2>1. /\ disk' = disk /\ custody' = custody
        /\ \/ End(j, TRUE) /\ d = None
           \/ d # None /\ Go(j, [v EXCEPT !.pc = "claim", !.seen = d])
    BY <1>3, <1>12 DEF Begin, Get, Await, Refresh
  <2>2. QED BY <1>5, <1>6, <1>9, <2>1
<1>13. CASE Reget(j)
  <2>1. /\ disk' = disk /\ custody' = custody
        /\ \/ End(j, TRUE) /\ d = None
           \/ d # None /\ Go(j, [v EXCEPT !.pc = "reclean", !.seen = d])
    BY <1>3, <1>13 DEF Reget, Get, Await, Refresh
  <2>2. QED BY <1>5, <1>6, <1>9, <2>1
<1>14. CASE Reclean(j)
  <2>1. /\ disk' = disk
        /\ custody' = custody \/ custody' = [custody EXCEPT ![j] = "none"]
        /\ To(j, "confirm") \/ End(j, TRUE)
        /\ At(j, "reclean")
    BY <1>3, <1>14 DEF Reclean, CleanLocal, vars
  <2>2. custody'[j] \in {e, "none"}
    BY <2>1, CustodyEffect
  <2>3. QED BY <1>10, <2>1, <2>2, CleanExcused
<1>15. QED
  BY <1>11, <1>12, <1>13, <1>14 DEF Claims, AskFirst, Confirm


\* The worker's own steps, the beginning of a worker and the end of them all.
LEMMA CalmOwn ==
    ASSUME Standing, NEW j \in JobIds, Calm(j), cache'[Ha] # None, TaskStep(j)
    PROVE  Calm(j)' \/ j \in excused'
<1>1. CASE Claims(j)
  BY <1>1, CalmClaims
<1>2. CASE Works(j)
  BY <1>2, CalmWorks, CalmFetch, CalmClean, CalmReads, CalmMoves DEF Works
<1>3. ~CallFails(j)
  BY ExecutorAssumption DEF CallFails, Fault, Invalidated, Standing, ExecInv,
                      ExecTypeOK, TypeOK
<1>4. QED BY <1>1, <1>2, <1>3 DEF TaskStep

LEMMA CalmBegins ==
    ASSUME Standing, NEW j \in JobIds, Ensure(j)
    PROVE  Calm(j)'
<1> DEFINE w == NewTask(j, "begin", disk[j])
<1>1. /\ disk[j] \in Receipt \cup {None} /\ disk[j] # None
      /\ disk' = disk /\ custody' = custody /\ j \notin poisoned
  BY JobFacts DEF Ensure, Active, Refresh
<1>2. task'[j] = w /\ poisoned' = poisoned
  BY GoesAs DEF Ensure
<1>3. /\ w.pc = "begin" /\ w.seen = disk[j] /\ ~w.local /\ ~w.cleared
      /\ ~w.retried
  BY DEF NewTask
<1> HIDE DEF w
<1>4. Dated(disk[j], w.seen)
  BY <1>1, <1>3 DEF Dated, Receipt
<1>5. Supplied(w, custody[j])
  BY <1>3 DEF Supplied, Operating
<1>6. CalmFits(w, disk[j], claimed'[Ha][j], custody[j])
  BY <1>3, <1>4, <1>5 DEF CalmFits, Claiming
<1>7. QED BY <1>1, <1>2, <1>6 DEF Calm

\* What a step leaves of the ghost: an excused job stays so as long as it has a
\* worker, or is given up.
LEMMA StaysExcused ==
    ASSUME Standing, NEW j \in JobIds, NEW more, Excuse(more),
           j \in excused \cup more
    PROVE  Calm(j)' \/ j \in excused'
<1>1. CASE task'[j] # None \/ j \in poisoned'
  BY <1>1 DEF Excuse
<1>2. CASE task'[j] = None /\ j \notin poisoned'
  BY <1>2 DEF Calm
<1>3. QED BY <1>1, <1>2

\* A step that is not about the job: either the manager keeps its memory, or
\* the job's worker, if it has one, is excused.
LEMMA CalmAround ==
    ASSUME Standing, NEW j \in JobIds, j \in excused \/ Calm(j), Elsewhere(j),
           Next \/ UNCHANGED vars, NEW more, Excuse(more),
           Quietly \/ (task[j] # None => j \in more),
           Quietly /\ Firm(j) /\ Past(j) => Steady(j)
    PROVE  Calm(j)' \/ j \in excused'
<1>1. CASE j \in excused \cup more
  BY <1>1, StaysExcused
<1>2. CASE Calm(j) /\ Quietly
  BY <1>2, CalmBystander
<1>3. CASE Calm(j) /\ task[j] = None
  <2>1. task'[j] = None /\ (j \in poisoned' <=> j \in poisoned)
    BY <1>3 DEF Elsewhere
  <2>2. j \in poisoned => Raced(disk'[j])
    <3>1. SUFFICES ASSUME j \in poisoned PROVE Raced(disk'[j])
      OBVIOUS
    <3>2. j \in used /\ disk[j] \in Receipt \cup {None} /\ Raced(disk[j])
      BY <1>3, <3>1, JobFacts DEF JobInv, Calm
    <3>3. Meanwhile(disk[j], disk'[j])
      BY <3>2 DEF Elsewhere, Born
    <3>4. QED BY <3>2, <3>3, RacedStays
  <2>3. QED BY <2>1, <2>2 DEF Calm
<1>4. QED BY <1>1, <1>2, <1>3

\* A step that takes the memory hinders every worker.
LEMMA QuietOrHindered ==
    ASSUME Standing, NEW j \in JobIds, Next \/ UNCHANGED vars
    PROVE  Quietly \/ (task[j] # None => j \in Hindered)
  BY DEF Quietly, Hindered

LEMMA CalmWorker ==
    ASSUME Standing, CalmInv, NEW i \in JobIds, TaskStep(i)
    PROVE  CalmInv'
<1>1. /\ i \in Tasks /\ ExecInv /\ task[i] # None
      /\ Next \/ UNCHANGED vars
  BY TaskThere, TaskCalls DEF Tasks, Standing
<1>2. Excuse(Hindered)
  <2>1. ExecInv'
    <3>1. [ExecNext]_execVars
      BY <1>1 DEF ExecNext
    <3>2. QED BY <1>1, <3>1, ExecInductive
  <2>2. Moves(i)
    BY <1>1, <2>1, TaskMoves DEF ExecInv, ExecTypeOK
  <2>3. QED BY <2>2 DEF Moves
<1>3. ASSUME NEW j \in JobIds, j # i PROVE Calm(j)' \/ j \in excused'
  <2>1. Elsewhere(j)
    BY <1>3, WorkerElsewhere
  <2>2. Quietly /\ Firm(j) => Steady(j)
    BY <1>3, WorkerSteady
  <2>3. j \in excused \/ Calm(j)
    BY DEF CalmInv
  <2>4. QED BY <1>1, <1>2, <2>1, <2>2, <2>3, QuietOrHindered, CalmAround
<1>4. Calm(i)' \/ i \in excused'
  <2>1. CASE i \in excused \/ cache'[Ha] = None
    <3>1. i \in excused \cup Hindered
      BY <1>1, <2>1 DEF Hindered
    <3>2. QED BY <1>2, <3>1, StaysExcused
  <2>2. CASE Calm(i) /\ cache'[Ha] # None
    BY <2>2, CalmOwn
  <2>3. QED BY <2>1, <2>2 DEF CalmInv
<1>5. (\A j \in JobIds : j \in excused \/ Calm(j))'
  BY <1>3, <1>4
<1>6. QED BY <1>5 DEF CalmInv

LEMMA CalmResumer ==
    ASSUME Standing, CalmInv, TaskStep(Resumer)
    PROVE  CalmInv'
<1>1. /\ Resumer \in Tasks /\ ExecInv
      /\ Next \/ UNCHANGED vars
  BY TaskCalls DEF Tasks, Standing
<1>2. Excuse(Hindered)
  <2>1. ExecInv'
    <3>1. [ExecNext]_execVars
      BY <1>1 DEF ExecNext
    <3>2. QED BY <1>1, <3>1, ExecInductive
  <2>2. Moves(Resumer)
    BY <1>1, <2>1, TaskMoves DEF ExecInv, ExecTypeOK
  <2>3. QED BY <2>2 DEF Moves
<1>3. ASSUME NEW j \in JobIds PROVE Calm(j)' \/ j \in excused'
  <2>1. Elsewhere(j)
    BY ResumerElsewhere
  <2>2. Quietly /\ Firm(j) => Steady(j)
    BY ResumerSteady
  <2>3. j \in excused \/ Calm(j)
    BY DEF CalmInv
  <2>4. QED BY <1>1, <1>2, <2>1, <2>2, <2>3, QuietOrHindered, CalmAround
<1>4. (\A j \in JobIds : j \in excused \/ Calm(j))'
  BY <1>3
<1>5. QED BY <1>4 DEF CalmInv

\* A cancelled task is excused; the resumer, cancelled while it cleans, cleans
\* no job that is claimed.
LEMMA CalmCancelled ==
    ASSUME Standing, CalmInv, NEW t \in Tasks, Cancelled(t)
    PROVE  CalmInv'
<1>1. /\ ExecInv /\ custody \in [JobIds -> {"none", "part", "ready"}]
      /\ UNCHANGED vars /\ Excuse(JobIds \cap {t}) /\ Quietly
  BY DEF Cancelled, Standing, ExecInv, ExecTypeOK, Quietly
<1>2. ASSUME NEW j \in JobIds, j # t, Firm(j) PROVE Steady(j)
  <2>1. custody'[j] = custody[j]
    <3>1. CASE j # task[t].job
      BY <1>1, <3>1, CancelledLeaves
    <3>2. CASE j = task[t].job
      <4>1. t = Resumer
        <5>1. ASSUME t \in JobIds PROVE task[t].job = t
          BY <1>1, <5>1, CancelledLeaves, WorkFacts DEF Known, Fits
        <5>2. QED BY <1>2, <3>2, <5>1 DEF Tasks
      <4>2. ResumerFits(task[t], disk[j], claimed[Ha][j], custody[j])
        BY <1>1, <3>2, <4>1, CancelledLeaves, ResumerFacts
      <4>3. task[t].pc \in {"begin", "claim"}
        BY <1>2, <4>2
           DEF ResumerFits, Claiming, Orphaned, Firm, Held, Claimable
      <4>4. Abandoned(t) = {custody[j]}
        BY <3>2, <4>3 DEF Abandoned, At
      <4>5. QED BY <1>1, <3>2, <4>4, CancelledLeaves
    <3>3. QED BY <3>1, <3>2
  <2>2. disk'[j] = disk[j]
    BY <1>1 DEF vars
  <2>3. QED BY <1>1, <1>2, <2>1, <2>2, SteadyCall
<1>3. ASSUME NEW j \in JobIds PROVE Calm(j)' \/ j \in excused'
  <2>1. CASE j = t
    BY <1>1, <2>1, StaysExcused
  <2>2. CASE j # t
    <3>1. Elsewhere(j)
      BY <2>2, CancelledElsewhere
    <3>2. j \in excused \/ Calm(j)
      BY DEF CalmInv
    <3>3. QED BY <1>1, <1>2, <2>2, <3>1, <3>2, CalmAround
  <2>3. QED BY <2>1, <2>2
<1>4. (\A j \in JobIds : j \in excused \/ Calm(j))'
  BY <1>3
<1>5. QED BY <1>4 DEF CalmInv

LEMMA CalmSurroundings ==
    ASSUME Standing, CalmInv, Surroundings, ~Crash
    PROVE  CalmInv'
<1>1. ExecInv /\ TypeOK /\ (Next \/ UNCHANGED vars)
  BY SurroundingCalls DEF Standing, ExecInv, ExecTypeOK
<1>2. Excuse(Hindered)
  BY DEF Surroundings, FlowFails, Boot, FlowCreates, FlowCancels, FlowFinalizes,
         Outside, Ensure, Resume, PanelActs, Go
<1>3. ASSUME NEW j \in JobIds PROVE Calm(j)' \/ j \in excused'
  <2>1. /\ j \in excused \/ Calm(j)
        /\ Quietly \/ (task[j] # None => j \in Hindered)
    BY <1>1, QuietOrHindered DEF CalmInv
  <2>2. CASE \/ FlowFails
             \/ \E i \in JobIds :
                    \/ \E p \in Plans : FlowCreates(i, p)
                    \/ \E rev \in 0 .. MaxRevision :
                           FlowCancels(i, rev) \/ FlowFinalizes(i, rev)
    <3>1. Elsewhere(j)
      BY <2>2, FlowsElsewhere
    <3>2. Quietly /\ Firm(j) => Steady(j)
      <4>1. CASE FlowFails
        <5>1. disk' = disk /\ custody' = custody
          BY <4>1 DEF FlowFails, Outside, Fault
        <5>2. QED BY <5>1, SteadyCall DEF Quietly
      <4>2. CASE ~FlowFails
        BY <2>2, <4>2, FlowsSteady
      <4>3. QED BY <4>1, <4>2
    <3>3. QED BY <1>1, <1>2, <2>1, <3>1, <3>2, CalmAround
  <2>3. CASE Boot \/ \E i \in JobIds : (Ensure(i) /\ j # i) \/ Resume(i)
    <3>1. Elsewhere(j)
      BY <2>3, BeginningsElsewhere
    <3>2. Quietly /\ Firm(j) /\ Past(j) => Steady(j)
      BY <2>3, BeginningsSteady
    <3>3. QED BY <1>1, <1>2, <2>1, <3>1, <3>2, CalmAround
  <2>4. CASE Ensure(j)
    BY <2>4, CalmBegins
  <2>5. ASSUME NEW i \in JobIds, PanelActs(i) PROVE Calm(j)' \/ j \in excused'
    <3>1. CASE j \in excused
      BY <1>2, <3>1, StaysExcused
    <3>2. CASE Calm(j)
      BY <2>5, <3>2 DEF PanelActs, Calm, vars
    <3>3. QED BY <2>1, <3>1, <3>2
  <2>6. QED BY <2>2, <2>3, <2>4, <2>5 DEF Surroundings
<1>4. (\A j \in JobIds : j \in excused \/ Calm(j))'
  BY <1>3
<1>5. QED BY <1>4 DEF CalmInv

LEMMA CalmInductive ==
    ASSUME Standing, CalmInv, [ExecNext]_execVars
    PROVE  CalmInv'
<1>1. CASE UNCHANGED execVars
  <2>1. UNCHANGED <<disk, claimed, task, poisoned, custody, excused>>
    BY <1>1 DEF execVars, vars
  <2>2. QED BY <2>1 DEF CalmInv, Calm
<1>2. CASE Crash
  <2>1. \A j \in JobIds : task'[j] = None /\ j \notin poisoned'
    BY <1>2 DEF Crash, Tasks
  <2>2. QED BY <2>1 DEF CalmInv, Calm
<1>3. CASE \E t \in Tasks : TaskStep(t) \/ Cancelled(t)
  BY <1>3, CalmWorker, CalmResumer, CalmCancelled DEF Tasks
<1>4. QED
  BY <1>1, <1>2, <1>3, CalmSurroundings DEF ExecNext

LEMMA CalmInitial ==
    ASSUME ExecInit
    PROVE  CalmInv
<1>1. \A j \in JobIds : task[j] = None /\ j \notin poisoned
  BY DEF ExecInit, Tasks
<1>2. QED BY <1>1 DEF CalmInv, Calm

\* A worker gives up an unfinished job only when a cancel request overtook it,
\* when it was itself cancelled or could not clean up, or when, while it ran, a
\* call of the manager failed or was cancelled: whatever the claims, the resume,
\* the flows, the panel and the restarts do meanwhile.
THEOREM StrandedForCauseAlways == ExecSpec => []StrandedForCause
<1>1. Standing /\ CalmInv => StrandedForCause
  <2>1. Standing => poisoned \subseteq JobIds
    BY DEF Standing, ExecInv, ExecTypeOK
  <2>2. QED BY <2>1 DEF CalmInv, Calm, Raced, StrandedForCause
<1>2. ExecInit => Standing /\ CalmInv
  BY WorkInitial, CalmInitial
<1>3. Standing /\ CalmInv /\ [ExecNext]_execVars => (Standing /\ CalmInv)'
  BY WorkInductive, CalmInductive
<1>4. QED BY <1>1, <1>2, <1>3, PTL DEF ExecSpec

\* ------------------------------------------------------------------------
\* While no call fails or is cancelled, nobody is excused.

Unhindered ==
    /\ excused = {}
    /\ \A t \in Tasks : task[t] # None => cache[Ha] # None

LEMMA NobodyExcused ==
    ASSUME ExecInv, Excuse(Hindered), excused = {},
           cache'[Ha] # None \/ \A t \in Tasks : task[t] = None,
           \A j \in JobIds : At(j, "reclean") \/ At(j, "recclean")
                                 => task'[j] # None
    PROVE  excused' = {}
<1>1. Hindered = {}
  BY DEF Hindered, Tasks
<1>2. QED BY <1>1 DEF Excuse

\* Without faults of the disk, a cleaning does not fail.
LEMMA CleansThrough ==
    ASSUME ExecInv, ~DiskFaults, NEW t \in Tasks, TaskStep(t),
           NEW j \in JobIds, At(j, "reclean") \/ At(j, "recclean"),
           TypeOK'
    PROVE  task'[j] # None
<1>1. /\ j \in Tasks /\ task[j] # None /\ task[j] \in Worker
      /\ task \in [Tasks -> Worker \cup {None}]
  BY AtFacts DEF Tasks, ExecInv, ExecTypeOK
<1>2. CASE t # j
  <2>1. Moves(t)
    BY TaskMoves
  <2>2. QED BY <1>1, <1>2, <2>1 DEF Moves
<1>3. CASE t = j
  <2>1. Reclean(j) \/ RecClean(j)
    BY <1>3 DEF TaskStep, Claims, Works, CallFails, Calling, At, Looping,
         Begin, AskFirst, Reget, Reclean, Confirm,
         LoopEnds, Approved, Authorizing, Preflight, Acquire, Fetch, Unpart,
         Downloaded, ArtifactReady, Revalidate, Staging, Installing, Installed,
         Launching, HealthCheck, CancelSeen, DropLocal, Authority, Barrier,
         Send, Answer, DropRefused, CleanFail, DoMove, Recheck, DoFail,
         DoRecover, RecClean, RecGet, Finish
  <2>2. PICK pc \in {"confirm", "recget"} : To(j, pc)
    BY <2>1 DEF Reclean, RecClean, CleanLocal
  <2>3. task'[j] = [task[j] EXCEPT !.pc = pc]
    BY <1>1, <2>2 DEF To, Go
  <2>4. [task[j] EXCEPT !.pc = pc] \in Worker
    BY <1>1, PcWorker DEF Calling
  <2>5. QED BY <2>3, <2>4, NoneIsApart
<1>4. QED BY <1>2, <1>3

LEMMA UnhinderedStays ==
    ASSUME ~CallsMayFail, Standing, CalmInv, Unhindered, [ExecNext]_execVars
    PROVE  Unhindered'
<1>1. /\ ExecInv /\ ExecInv' /\ TypeOK /\ TypeOK' /\ ~DiskFaults /\ ~HangUps
      /\ task \in [Tasks -> Worker \cup {None}] /\ excused = {}
      /\ \A j \in JobIds : Calm(j)
  BY ExecInductive
     DEF CallsMayFail, Standing, ExecInv, ExecTypeOK, Unhindered, CalmInv
<1>2. CASE UNCHANGED execVars
  BY <1>2 DEF execVars, vars, Unhindered
<1>3. CASE Crash
  BY <1>3 DEF Crash, Unhindered
<1>4. ASSUME NEW t \in Tasks, TaskStep(t)
      PROVE  Unhindered'
  <2>1. Quietly
    BY <1>1, <1>4, TaskQuiet
  <2>2. cache[Ha] # None
    BY <1>4, TaskThere DEF Unhindered
  <2>3. cache'[Ha] # None
    BY <2>1, <2>2 DEF Quietly, vars
  <2>4. Excuse(Hindered)
    BY <1>1, <1>4, TaskMoves DEF Moves
  <2>5. excused' = {}
    BY <1>1, <1>4, <2>3, <2>4, CleansThrough, NobodyExcused
  <2>6. QED BY <2>3, <2>5 DEF Unhindered
<1>5. CASE Surroundings /\ ~Crash
  <2>1. Quietly
    BY <1>5, SurroundingQuiet
  <2>2. Excuse(Hindered)
    BY <1>5
       DEF Surroundings, FlowFails, Boot, FlowCreates, FlowCancels,
           FlowFinalizes, Outside, Ensure, Resume, PanelActs, Go
  <2>3. task' = task \/ cache'[Ha] # None
    <3>1. CASE \E j \in JobIds : Ensure(j) \/ Resume(j)
      BY <1>1, <3>1, ReadsQuietly DEF Ensure, Resume
    <3>2. CASE ~\E j \in JobIds : Ensure(j) \/ Resume(j)
      BY <1>5, <3>2
         DEF Surroundings, FlowFails, Boot, FlowCreates, FlowCancels,
             FlowFinalizes, Outside, PanelActs
    <3>3. QED BY <3>1, <3>2
  <2>4. cache'[Ha] # None \/ \A t \in Tasks : task[t] = None
    BY <2>1 DEF Quietly, vars, Unhindered
  <2>5. \A j \in JobIds : task[j] # None => task'[j] # None
    <3>1. CASE \E j \in JobIds : Ensure(j) \/ Resume(j)
      <4>1. PICK t, w : /\ t \in Tasks /\ task[t] = None
                        /\ task' = [task EXCEPT ![t] = w]
        BY <3>1 DEF Ensure, Resume, Go, Tasks
      <4>2. QED BY <1>1, <4>1 DEF Tasks
    <3>2. CASE ~\E j \in JobIds : Ensure(j) \/ Resume(j)
      BY <1>5, <3>2
         DEF Surroundings, FlowFails, Boot, FlowCreates, FlowCancels,
             FlowFinalizes, Outside, PanelActs
    <3>3. QED BY <3>1, <3>2
  <2>6. excused' = {}
    BY <1>1, <2>2, <2>4, <2>5, NobodyExcused DEF At
  <2>7. QED BY <2>3, <2>4, <2>6 DEF Unhindered
<1>6. ~\E t \in Tasks : Cancelled(t)
  BY <1>1 DEF Cancelled
<1>7. QED BY <1>2, <1>3, <1>4, <1>5, <1>6 DEF ExecNext

LEMMA CalmAlways == ~CallsMayFail => (ExecSpec => [](Standing /\ CalmInv /\ excused = {}))
<1> DEFINE I == Standing /\ CalmInv /\ Unhindered
<1>1. ExecInit => I
  BY WorkInitial, CalmInitial DEF ExecInit, Unhindered, Tasks
<1>2. ~CallsMayFail /\ I /\ [ExecNext]_execVars => I'
  BY WorkInductive, CalmInductive, UnhinderedStays
<1>3. I => Standing /\ CalmInv /\ excused = {}
  BY DEF Unhindered
<1>4. QED
  <2>1. SUFFICES ASSUME ~CallsMayFail
                 PROVE  ExecSpec => [](Standing /\ CalmInv /\ excused = {})
    OBVIOUS
  <2>2. I /\ [ExecNext]_execVars => I'
    BY <1>2, <2>1
  <2> HIDE DEF I
  <2>3. QED BY <1>1, <1>3, <2>2, PTL DEF ExecSpec

\* What holds of every worker that is not excused, whatever fails: the file it
\* stages is there, and the job it commands is under way in the store.
LEMMA WorkersHand ==
    ASSUME Standing, CalmInv, NEW j \in JobIds \ excused, OnPanel(j)
    PROVE  /\ task[j].op = "stage" => custody[j] = "ready"
           /\ Active(disk[j]) /\ disk[j].plan = task[j].seen.plan
<1>1. task[j] # None /\ task[j].pc \in {"send", "answer"}
  BY DEF OnPanel, At
<1>2. CalmFacts(j)
  BY <1>1, CalmKnown DEF CalmInv
<1>3. ASSUME task[j].op = "stage" PROVE custody[j] = "ready"
  <2>1. task[j].seen.phase = "staging" /\ ~task[j].seen.cancel_requested
    BY <1>1, <1>2, <1>3 DEF CalmFacts, Fits, Place, Operating, AtOperation, OpFits
  <2>2. QED
    BY <1>1, <1>2, <1>3, <2>1
       DEF CalmFacts, CalmFits, Supplied, Operating, Working, CancellablePhases
<1>4. Active(disk[j]) /\ disk[j].plan = task[j].seen.plan
  <2>1. task[j].op \in Ops
    BY <1>1, WorkFacts DEF Known, Sound, Operating
  <2>2. task[j].seen.phase \in PanelPhases
    BY <1>1, <1>2, <2>1
       DEF CalmFacts, Fits, Place, Operating, AtOperation, OpFits, Ops, PanelPhases
  <2>3. Claimable(task[j].seen)
    BY <1>2, <2>2
       DEF CalmFacts, Claimable, Active, PanelPhases, TerminalPhases
  <2>4. Claimable(disk[j])
    BY <1>1, <1>2, <2>3 DEF CalmFacts, CalmFits, Claiming, Backed
  <2>5. QED BY <1>2, <2>4 DEF CalmFacts, Fits, Tracks, Claimable, Active
<1>5. QED BY <1>3, <1>4

\* Whatever fails, a worker that stages a file on a panel has that file, and
\* commands no panel that another does, as long as it met no failed or cancelled
\* call: no resume, no other worker and no cleaning takes them away.
UndisturbedHands ==
    /\ \A j \in JobIds \ excused :
           OnPanel(j) /\ task[j].op = "stage" => custody[j] = "ready"
    /\ \A i, j \in JobIds \ excused :
           OnPanel(i) /\ OnPanel(j)
               /\ task[i].seen.plan.serial = task[j].seen.plan.serial => i = j

LEMMA HandsFollow ==
    ASSUME Standing, CalmInv
    PROVE  UndisturbedHands
<1>1. ASSUME NEW i \in JobIds \ excused, NEW j \in JobIds \ excused,
             OnPanel(i), OnPanel(j),
             task[i].seen.plan.serial = task[j].seen.plan.serial
      PROVE  i = j
  <2>1. /\ Active(disk[i]) /\ disk[i].plan = task[i].seen.plan
        /\ Active(disk[j]) /\ disk[j].plan = task[j].seen.plan
    BY <1>1, WorkersHand
  <2>2. SameTarget(disk[i].plan, disk[j].plan)
    BY <1>1, <2>1 DEF SameTarget
  <2>3. ActiveTargetsDisjoint
    BY DEF Standing, IInv
  <2>4. QED BY <2>1, <2>2, <2>3 DEF ActiveTargetsDisjoint
<1>2. QED BY <1>1, WorkersHand DEF UndisturbedHands

THEOREM UndisturbedHandsAlways == ExecSpec => []UndisturbedHands
<1>1. ExecInit => Standing /\ CalmInv
  BY WorkInitial, CalmInitial
<1>2. Standing /\ CalmInv /\ [ExecNext]_execVars => (Standing /\ CalmInv)'
  BY WorkInductive, CalmInductive
<1>3. Standing /\ CalmInv => UndisturbedHands
  BY HandsFollow
<1>4. QED BY <1>1, <1>2, <1>3, PTL DEF ExecSpec

\* So while no call fails or is cancelled, every worker that stages a file has
\* it: "an active same-manager worker ... must never ... have its live artifact
\* cleaned" (async_resume_loaded_jobs).
THEOREM LiveArtifactKeptAlways ==
    ~CallsMayFail => (ExecSpec => []LiveArtifactKept)
<1>1. Standing /\ CalmInv /\ excused = {} => LiveArtifactKept
  BY HandsFollow DEF UndisturbedHands, LiveArtifactKept
<1>2. QED BY <1>1, CalmAlways, PTL

\* And no two workers command one panel at the same time.
THEOREM OneHandPerPanelAlways ==
    ~CallsMayFail => (ExecSpec => []OneHandPerPanel)
<1>1. Standing /\ CalmInv /\ excused = {} => OneHandPerPanel
  BY HandsFollow DEF UndisturbedHands, OneHandPerPanel
<1>2. QED BY <1>1, CalmAlways, PTL

============================================================================
