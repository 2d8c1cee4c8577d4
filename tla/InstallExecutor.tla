-------------------------- MODULE InstallExecutor --------------------------
(***************************************************************************)
(* The process that carries out installations                              *)
(* (custom_components/panel_assistant/install_executor.py), composed with  *)
(* the receipts of InstallJobs, the private artifact custody and the panel *)
(* at the other end of ADB.                                                *)
(*                                                                         *)
(* Every await of a worker ends a step, so cancel requests, the resume     *)
(* that each entry setup performs, other callers' failed or cancelled      *)
(* calls, the worker's own cancellation and the death of the process land  *)
(* between any two of them.  A command sent to                             *)
(* the panel outlives the call that sent it: the panel may act on it       *)
(* after the caller has given up, or after the process is gone.            *)
(*                                                                         *)
(* Abstractions: custody is what a look into the directory shows for one   *)
(* job (nothing, a partial file, a verified file); ADB probes are a        *)
(* verdict; which of the codes of its phase a failure is filed under is a  *)
(* free choice; the jobs' artifacts carry the same bytes, the hardest case *)
(* for a slot that is verified by digest.                                  *)
(*                                                                         *)
(* A definition marked "mutant" is a faulty variant of the one below it;   *)
(* nothing uses it.  PROJECT.json names the property that tells them apart.*)
(***************************************************************************)
EXTENDS InstallJobs

CONSTANTS
    Ha,          \* the manager of the running process
    Resumer,     \* the resume that an entry setup performs
    DiskFaults,  \* may calls on the store and the custody directory fail?
    HangUps      \* may workers and callers of the manager be cancelled?

ASSUME ExecutorAssumption ==
    /\ Managers = {Ha}
    /\ Resumer \notin JobIds
    /\ DiskFaults \in BOOLEAN
    /\ HangUps \in BOOLEAN

VARIABLES
    up,         \* has this process created its executor?
    task,       \* the running tasks: a worker per job, and the resumer
    poisoned,   \* _nonrestartable_workers
    custody,    \* the local artifact of each job: none, part or ready
    panel,      \* serial -> what lies in the staging slot, what is installed
    cmd,        \* the last command sent to a panel for each job
    asked,      \* ghost: the operations commanded for each job so far
    excused     \* ghost: the workers that met a failed or cancelled call

world == <<panel, cmd, asked>>
execVars == <<vars, up, task, poisoned, custody, world, excused>>

Tasks == JobIds \cup {Resumer}
Panels == {p.serial : p \in Plans}
Ops == {"stage", "install", "clean", "launch"}

----------------------------------------------------------------------------
(* Tasks. *)

\* What a worker remembers between awaits: the receipt it last saw, whether
\* its claim lost a race already, local_artifact, staged,
\* stale_partial_removed, the operation under way and the transition it is
\* about to ask for.
NewTask(j, pc, seen) ==
    [job |-> j, pc |-> pc, seen |-> seen, retried |-> FALSE, local |-> FALSE,
     staged |-> FALSE, cleared |-> FALSE, op |-> None, goal |-> None]

At(t, pc) == task[t] # None /\ task[t].pc = pc

\* The ghost, kept by every step: a worker is excused from keeping its job once
\* the manager has dropped its memory, because a call of the worker or of
\* anybody failed, once its last cleaning has failed, and once it was
\* cancelled.  The next worker of the job starts anew.
Excuse(more) ==
    excused' = {j \in JobIds : /\ j \in excused \cup more
                               /\ task'[j] # None \/ j \in poisoned'}

Hindered ==
    {j \in JobIds :
        /\ task[j] # None
        /\ \/ cache'[Ha] = None
           \/ (At(j, "reclean") \/ At(j, "recclean")) /\ task'[j] = None}

Go(t, w) ==
    /\ task' = [task EXCEPT ![t] = w]
    /\ UNCHANGED poisoned
    /\ Excuse(Hindered)
To(t, pc) == Go(t, [task[t] EXCEPT !.pc = pc])

\* The task ends; a worker that lost its authority is not restarted here.
End(t, poison) ==
    /\ task' = [task EXCEPT ![t] = None]
    /\ poisoned' = IF poison /\ t # Resumer THEN poisoned \cup {t} ELSE poisoned
    /\ Excuse(Hindered)

Goal(ph, root, result) == [phase |-> ph, root |-> root, result |-> result]

Aim(t, pc, goal) == Go(t, [task[t] EXCEPT !.pc = pc, !.goal = goal])

\* The detours a worker takes to a transition.
Move(t, ph) == Aim(t, "move", Goal(ph, None, None))
Fail(t, pc) ==
    \E result \in FailureCodesOf(task[t].seen.phase) :
        Aim(t, pc, Goal("failed", None, result))
Recover(t, result) ==
    Aim(t, "recover", Goal("recovery_required", None, result))

\* A call of the manager fails when its files do, or is cancelled with its
\* caller; either way the memory of the manager is dropped, and with it every
\* claim.
CallsMayFail == DiskFaults \/ HangUps

\* Task t awaits call A of the manager and goes on as done says; a call that
\* fails ends it.
Await(t, A, done) ==
    /\ A
    /\ IF cache'[Ha] # None THEN done ELSE CallsMayFail /\ End(t, TRUE)
    /\ UNCHANGED <<up, custody, world>>

\* A call that fails before it has done anything.
Calling ==
    {"begin", "claim", "reget", "confirm", "authority", "barrier", "move",
     "recheck", "fail", "recover", "recget", "finish"}
CallFails(t) ==
    /\ \E pc \in Calling : At(t, pc)
    /\ CallsMayFail
    /\ Fault(Ha)
    /\ End(t, TRUE)
    /\ UNCHANGED <<up, custody, world>>

\* The receipt as the file has it: what async_get returns.
Fresh(t) == disk[task[t].job]

\* async_get, and what follows when it finds the receipt.
Get(t, done) ==
    Await(t, Refresh(Ha), IF Fresh(t) = None THEN End(t, TRUE) ELSE done)

\* _async_cleanup_local: both files are gone, or it raises half way.
CleanLocal(t, done, failed) ==
    /\ UNCHANGED <<vars, up, world>>
    /\ \/ custody' = [custody EXCEPT ![task[t].job] = "none"] /\ done
       \/ /\ DiskFaults
          /\ custody' \in {custody, [custody EXCEPT ![task[t].job] = "none"]}
          /\ failed

\* A step of t that touches nothing but its own memory.
Think(t, A) == UNCHANGED <<vars, up, custody, world>> /\ A

----------------------------------------------------------------------------
(* Claiming: _async_claim, for workers and for the resumer. *)

\* The receipt read first; the resumer reads it only after a lost race.
Begin(t) ==
    /\ At(t, "begin")
    /\ Get(t, IF t = Resumer /\ Fresh(t).phase \notin AmbiguousPhases
              THEN End(t, FALSE)
              ELSE Go(t, [task[t] EXCEPT !.pc = "claim", !.seen = Fresh(t)]))

\* The resumer is done once it holds a claim, or has quarantined the job.
Claimed(t, r) ==
    IF t = Resumer THEN End(t, FALSE)
    ELSE Go(t, [task[t] EXCEPT !.pc = "loop", !.seen = r, !.retried = FALSE])

\* InstallJobRevisionError: once round again.
ClaimLost(t) ==
    IF task[t].retried THEN End(t, TRUE)
    ELSE Go(t, [task[t] EXCEPT !.pc = "begin", !.retried = TRUE])

\* The claim is already this process's own.
HeldNever(j) == FALSE                                            \* mutant
Held(j) == claimed[Ha][j] = disk[j].generation

AskClaim(t, cleaned) ==
    LET j == task[t].job
        rev == task[t].seen.revision
    IN \/ /\ disk[j] = None
          /\ Await(t, Refresh(Ha), End(t, TRUE))
       \/ /\ disk[j] # None /\ disk[j].revision # rev
          /\ Await(t, Refresh(Ha), ClaimLost(t))
       \/ /\ Current(disk, j, rev) /\ ~Claimable(disk[j])
          /\ Await(t, Refresh(Ha), End(t, TRUE))
       \/ /\ Current(disk, j, rev) /\ Claimable(disk[j])
          /\ Held(j)
          /\ Await(t, Refresh(Ha), Claimed(t, disk[j]))
       \/ /\ Current(disk, j, rev) /\ Claimable(disk[j])
          /\ ~Held(j)
          /\ Terminal(ClaimedReceipt(disk[j])) /\ ~cleaned
          /\ Await(t, Refresh(Ha), To(t, "reget"))
       \/ Await(t, Claim(Ha, j, rev, cleaned),
                IF disk'[j] = None THEN End(t, TRUE) ELSE Claimed(t, disk'[j]))

AskFirst(t) == At(t, "claim") /\ AskClaim(t, FALSE)
Reget(t) ==
    /\ At(t, "reget")
    /\ Get(t, Go(t, [task[t] EXCEPT !.pc = "reclean", !.seen = Fresh(t)]))
Reclean(t) ==
    At(t, "reclean") /\ CleanLocal(t, To(t, "confirm"), End(t, TRUE))
Confirm(t) == At(t, "confirm") /\ AskClaim(t, TRUE)

----------------------------------------------------------------------------
(* The phase loop of _async_run. *)

Looping(t, phases) ==
    /\ At(t, "loop")
    /\ task[t].seen.phase \in phases
    /\ ~task[t].seen.cancel_requested

LoopEnds(t) ==
    /\ At(t, "loop")
    /\ task[t].seen.phase \in TerminalPhases \cup {"healthy_unclaimed"}
    /\ Think(t, End(t, FALSE))

Approved(t) == Looping(t, {"approved"}) /\ Think(t, Move(t, "authorizing"))

Authorizing(t) ==
    /\ Looping(t, {"authorizing"})
    /\ Think(t,
          \/ Move(t, "preflight")
          \/ Aim(t, "fail", Goal("failed", None, "authorization_failed")))

Clean(t) == panel[task[t].seen.plan.serial].pkg = None

\* The panel is proved clean; what root access it offers is learned once and
\* must not have changed at the second look.
Preflight(t) ==
    /\ Looping(t, {"preflight"})
    /\ Think(t,
          \/ /\ Clean(t)
             /\ \E root \in RootModes :
                    Aim(t, "move", Goal("downloading", root, None))
          \/ Fail(t, "fail"))
Revalidate(t) ==
    /\ Looping(t, {"revalidating"})
    /\ task[t].local
    /\ Think(t, (Clean(t) /\ Move(t, "staging")) \/ Fail(t, "cleanfail"))

\* async_download_install_artifact: a verified file is reused, a partial one
\* is somebody else's download, otherwise one is begun.  Any look at the
\* directory may fail, even beside a partial.
Acquire(t) ==
    /\ Looping(t, {"downloading", "artifact_ready", "revalidating"})
    /\ ~task[t].local
    /\ LET j == task[t].job IN
       \/ /\ custody[j] = "ready"
          /\ Think(t, Go(t, [task[t] EXCEPT !.local = TRUE]))
       \/ /\ custody[j] = "part"
          /\ Think(t, IF task[t].cleared THEN End(t, TRUE)
                      ELSE To(t, "unpart"))
       \/ /\ custody[j] = "none"
          /\ custody' = [custody EXCEPT ![j] = "part"]
          /\ UNCHANGED <<vars, up, world>>
          /\ To(t, "fetch")
       \/ /\ custody[j] # "part" \/ DiskFaults
          /\ Think(t, Fail(t, "cleanfail"))

\* The download ends; one that fails removes its partial file if it can.
Fetch(t) ==
    /\ At(t, "fetch")
    /\ UNCHANGED <<vars, up, world>>
    /\ LET j == task[t].job IN
       \/ /\ custody[j] = "part"
          /\ custody' = [custody EXCEPT ![j] = "ready"]
          /\ Go(t, [task[t] EXCEPT !.pc = "loop", !.local = TRUE])
       \/ /\ custody' \in
                 {[custody EXCEPT ![j] = left] :
                     left \in {"none"} \cup
                         (IF DiskFaults THEN {"part", "ready"} ELSE {})}
          /\ Fail(t, "cleanfail")

\* _async_clear_stale_partial
Unpart(t) ==
    /\ At(t, "unpart")
    /\ CleanLocal(t, Go(t, [task[t] EXCEPT !.pc = "loop", !.cleared = TRUE]),
                  End(t, FALSE))

Downloaded(t) ==
    /\ Looping(t, {"downloading"}) /\ task[t].local
    /\ Think(t, Move(t, "artifact_ready"))
ArtifactReady(t) ==
    /\ Looping(t, {"artifact_ready"}) /\ task[t].local
    /\ Think(t, Move(t, "revalidating"))

Operate(t, op) == Go(t, [task[t] EXCEPT !.pc = "authority", !.op = op])

\* The three mutations; one whose evidence did not survive in this worker's
\* memory is not attempted.
Staging(t) ==
    /\ Looping(t, {"staging"})
    /\ Think(t, IF task[t].local THEN Operate(t, "stage")
                ELSE Recover(t, "ambiguous_mutation"))
Installing(t) ==
    /\ Looping(t, {"installing"})
    /\ Think(t, IF task[t].staged THEN Operate(t, "install")
                ELSE Recover(t, "ambiguous_mutation"))
Launching(t) ==
    /\ Looping(t, {"launching"})
    /\ Think(t, IF task[t].staged THEN Operate(t, "clean")
                ELSE Recover(t, "ambiguous_mutation"))

Installed(t) ==
    /\ Looping(t, {"installed"})
    /\ LET w == [task[t] EXCEPT !.staged = TRUE] IN
       CleanLocal(t,
           Go(t, [w EXCEPT !.pc = "move", !.goal = Goal("launching", None, None)]),
           Recover(t, "verification_required"))

\* _async_health answers with the installed version, or gives up.
HealthCheck(t) ==
    /\ Looping(t, {"health_check"})
    /\ Think(t, \/ /\ panel[task[t].seen.plan.serial].pkg # None
                   /\ Move(t, "healthy_unclaimed")
                \/ Recover(t, "verification_required"))

\* The staged file is on the panel and has to go before the job may end.
StagedRemotely(t) == task[t].seen.phase = "staging" /\ task[t].staged

\* _async_cancel_requested
CancelSeen(t) ==
    /\ At(t, "loop")
    /\ task[t].seen.cancel_requested /\ Active(task[t].seen)
    /\ Think(t, IF StagedRemotely(t) THEN Operate(t, "clean")
                ELSE To(t, "droplocal"))

CancelGoal(t) ==
    Goal("cancelled", None,
         IF task[t].seen.phase = "staging"
         THEN "cancelled_after_staging_cleanup" ELSE "cancelled_by_user")

\* There may be a local file, by this worker or by an earlier one.
HasLocalByMemory(t) == task[t].local \/ task[t].seen.apk         \* mutant
HasLocal(t) ==
    task[t].local \/ task[t].seen.apk \/ task[t].seen.phase = "downloading"

DropLocal(t) ==
    /\ At(t, "droplocal")
    /\ IF HasLocal(t)
       THEN CleanLocal(t, Aim(t, "move", CancelGoal(t)),
                IF task[t].seen.phase = "staging"
                THEN Recover(t, "verification_required") ELSE End(t, FALSE))
       ELSE Think(t, Aim(t, "move", CancelGoal(t)))

----------------------------------------------------------------------------
(* Authority, and the panel. *)

\* The same work as seen, only cancelled meanwhile.
CancelledMeanwhile(t) ==
    /\ Fresh(t).phase = task[t].seen.phase
    /\ Fresh(t).generation = task[t].seen.generation
    /\ Fresh(t).cancel_requested

Undisturbed(t) ==
    /\ Fresh(t).revision = task[t].seen.revision
    /\ Fresh(t).phase = task[t].seen.phase
    /\ Fresh(t).generation = task[t].seen.generation

\* The operation certainly did not reach the panel: no pin, no credential, no
\* connection, or a proof on the panel that failed before the command.
Refused(t) ==
    CASE task[t].op = "stage" -> Fail(t, "cleanfail")
      [] task[t].op = "launch" ->
           \/ Aim(t, "fail", Goal("failed", None, "launch_failed"))
           \/ Recover(t, "verification_required")
      [] OTHER -> Recover(t, "verification_required")

\* _async_mutation_authority and _async_cleanup_authority, up to the barrier.
Authority(t) ==
    /\ At(t, "authority")
    /\ \/ Think(t, Refused(t))
       \/ Get(t, IF Undisturbed(t)
                 THEN Go(t, [task[t] EXCEPT !.pc = "barrier", !.seen = Fresh(t)])
                 ELSE IF CancelledMeanwhile(t) /\ task[t].op = "stage"
                 THEN Go(t, [task[t] EXCEPT !.pc = "loop", !.seen = Fresh(t),
                                            !.op = None])
                 ELSE End(t, TRUE))

Barrier(t) ==
    /\ At(t, "barrier")
    /\ LET j == task[t].job
           s == task[t].seen
           cancel == task[t].op = "clean" /\ s.phase = "staging"
       IN \/ /\ Authorized(Ha, j, s.revision, s.phase, cancel)
             /\ Await(t, VerifyBarrier(Ha, j, s.revision, s.phase, cancel),
                      To(t, "send"))
          \/ /\ ~Authorized(Ha, j, s.revision, s.phase, cancel)
             /\ IF Current(disk, j, s.revision) THEN Fault(Ha) ELSE Refresh(Ha)
             /\ End(t, TRUE)
             /\ UNCHANGED <<up, custody, world>>

\* What the panel must show in the session that sends the command.
Ready(op, p) ==
    CASE op = "stage" -> p.pkg = None /\ p.slot = None
      [] op = "install" -> p.pkg = None /\ p.slot # None
      [] op = "launch" -> p.pkg # None
      [] OTHER -> TRUE

\* The command leaves, or the session fails before it does.  (Staging also
\* needs the verified local file to be there.)
Send(t) ==
    /\ At(t, "send")
    /\ LET j == task[t].job
           op == task[t].op
           serial == task[t].seen.plan.serial
       IN \/ Think(t, Refused(t))
          \/ /\ op = "install"
             /\ Think(t, Recover(t, "ambiguous_mutation"))
          \/ /\ Ready(op, panel[serial])
             /\ op = "stage" => custody[j] = "ready"
             /\ cmd' = [cmd EXCEPT ![j] =
                           [op |-> op, state |-> "sent", panel |-> serial]]
             /\ asked' = [asked EXCEPT ![j] = @ \cup {op}]
             /\ UNCHANGED <<vars, up, custody, panel>>
             /\ To(t, "answer")

\* What follows a command the panel carried out.
Succeeded(t) ==
    CASE task[t].op = "stage" ->
           Go(t, [task[t] EXCEPT !.pc = "move", !.staged = TRUE, !.op = None,
                                 !.goal = Goal("installing", None, None)])
      [] task[t].op = "install" -> Move(t, "installed")
      [] task[t].op = "launch" -> Move(t, "health_check")
      [] OTHER ->
           CASE task[t].seen.phase = "staging" -> To(t, "droplocal")
             [] task[t].seen.phase = "installing" -> To(t, "droprefused")
             [] OTHER -> Operate(t, "launch")

\* No answer, or none that can be trusted.
UnknownTriedAgain(t) == To(t, "loop")                            \* mutant
Unknown(t) == Recover(t, "ambiguous_mutation")

Answer(t) ==
    /\ At(t, "answer")
    /\ Think(t,
          LET state == cmd[task[t].job].state
          IN \/ state = "done" /\ Succeeded(t)
             \/ /\ state = "refused"
                /\ CASE task[t].op = "install" -> Operate(t, "clean")
                     [] task[t].op = "launch" ->
                          Aim(t, "fail", Goal("failed", None, "launch_failed"))
                     [] OTHER -> Unknown(t)
             \/ Unknown(t))

\* _async_install_refused, after the slot was cleared
DropRefused(t) ==
    /\ At(t, "droprefused")
    /\ CleanLocal(t, Aim(t, "fail", Goal("failed", None, "install_failed")),
                  Recover(t, "verification_required"))

\* _async_cleanup_local_then_fail
CleanFail(t) ==
    /\ At(t, "cleanfail")
    /\ CleanLocal(t, To(t, "fail"),
           IF task[t].seen.phase = "staging"
           THEN Recover(t, "verification_required") ELSE End(t, FALSE))

----------------------------------------------------------------------------
(* Transitions. *)

AskTransition(t, lost) ==
    LET j == task[t].job
        g == task[t].goal
        rev == task[t].seen.revision
    IN \/ /\ ~Current(disk, j, rev)
          /\ Await(t, Refresh(Ha), IF disk[j] = None THEN End(t, TRUE) ELSE lost)
       \/ /\ Current(disk, j, rev)
          /\ ~Admitted(Ha, j, g.phase, g.root, g.result, None)
          /\ Await(t, Refresh(Ha), End(t, TRUE))
       \/ Await(t, Transition(Ha, j, rev, g.phase, g.root, g.result, None),
                IF disk'[j] = None THEN End(t, TRUE)
                ELSE Go(t, [task[t] EXCEPT !.pc = "loop", !.seen = disk'[j],
                                           !.goal = None, !.op = None]))

\* _async_transition: a revision that only a cancel request has moved sends
\* the worker round its loop once more.
DoMove(t) == At(t, "move") /\ AskTransition(t, To(t, "recheck"))
Recheck(t) ==
    /\ At(t, "recheck")
    /\ Get(t, IF CancelledMeanwhile(t)
              THEN Go(t, [task[t] EXCEPT !.pc = "loop", !.seen = Fresh(t),
                                         !.goal = None, !.op = None])
              ELSE End(t, TRUE))

\* A fresh look before a final transition: somebody may have ended the job.
Unfinished(t, pc) ==
    Go(t, [task[t] EXCEPT !.seen = Fresh(t),
                          !.pc = IF Terminal(Fresh(t)) THEN "loop" ELSE pc])

\* _async_fail
DoFail(t) ==
    At(t, "fail") /\ Get(t, Unfinished(t, "finish"))

\* _async_recovery
DoRecover(t) ==
    At(t, "recover") /\ Get(t, Unfinished(t, "recclean"))
RecClean(t) ==
    At(t, "recclean") /\ CleanLocal(t, To(t, "recget"), End(t, TRUE))
RecGet(t) ==
    At(t, "recget") /\ Get(t, Unfinished(t, "finish"))

Finish(t) == At(t, "finish") /\ AskTransition(t, End(t, TRUE))

----------------------------------------------------------------------------
(* Cancellation. *)

\* What a cancelled await may leave of the job's artifact: a download removes
\* its partial file if it can, or has its verified file already; a removal,
\* and a look that found a partial, are carried out or not begun.
Abandoned(t) ==
    LET e == custody[task[t].job] IN
    CASE At(t, "fetch") ->
           {"none", "ready"} \cup (IF DiskFaults THEN {"part"} ELSE {})
      [] \/ At(t, "loop") /\ (e = "part" \/ task[t].seen.phase = "installed")
         \/ \E pc \in {"unpart", "reclean", "droplocal", "droprefused",
                       "cleanfail", "recclean"} : At(t, pc) -> {e, "none"}
      [] OTHER -> {e}

\* CancelledError reaches a task in whatever it awaits, a turn at the manager
\* included; a call of the manager that is cancelled later has failed.
Cancelled(t) ==
    /\ HangUps
    /\ task[t] # None
    /\ \E e \in Abandoned(t) : custody' = [custody EXCEPT ![task[t].job] = e]
    /\ task' = [task EXCEPT ![t] = None]
    /\ poisoned' = poisoned \cup (JobIds \cap {t})
    /\ Excuse(JobIds \cap {t})
    /\ UNCHANGED <<vars, up, world>>

----------------------------------------------------------------------------
(* Around the workers. *)

\* A manager call of a config flow or of an entry setup.
Outside(A) ==
    /\ A
    /\ CallsMayFail \/ cache'[Ha] # None
    /\ UNCHANGED <<up, task, poisoned, custody, world>>
    /\ Excuse(Hindered)

FlowCreates(j, p) == Outside(Create(Ha, j, p))
FlowCancels(j, rev) == Outside(RequestCancel(Ha, j, rev))

\* A healthy job is consumed, or found to be otherwise.
FlowFinalizes(j, rev) ==
    /\ Current(disk, j, rev) /\ disk[j].phase = "healthy_unclaimed"
    /\ \/ \E e \in EntryIds :
            Outside(Transition(Ha, j, rev, "consumed", None, "entry_created", e))
       \/ Outside(Transition(Ha, j, rev, "recovery_required", None,
                             "verification_required", None))

\* Any other call of theirs that fails or is cancelled takes the memory with it.
FlowFails == Outside(Fault(Ha))

\* async_get_install_executor: artifacts of finished jobs are removed; where
\* that fails half way there is no executor yet.
Boot ==
    LET done == {j \in JobIds : ~Active(disk[j])} IN
    /\ ~up
    /\ Refresh(Ha)
    /\ \E gone \in SUBSET done :
          /\ custody' = [j \in JobIds |-> IF j \in gone THEN "none" ELSE custody[j]]
          /\ \/ gone = done /\ up' = TRUE
             \/ CallsMayFail /\ up' = FALSE
    /\ UNCHANGED <<task, poisoned, world>>
    /\ Excuse(Hindered)

\* async_ensure_job, by a flow or by the resume of a safe phase
Ensure(j) ==
    /\ up
    /\ task[j] = None
    /\ j \notin poisoned
    /\ Refresh(Ha)
    /\ Active(disk[j]) /\ disk[j].phase # "healthy_unclaimed"
    /\ Go(j, NewTask(j, "begin", disk[j]))
    /\ UNCHANGED <<up, custody, world>>

\* async_resume_loaded_jobs finds a job in a phase of unknown effect.
Resume(j) ==
    /\ up
    /\ task[Resumer] = None
    /\ Refresh(Ha)
    /\ disk[j] # None /\ disk[j].phase \in AmbiguousPhases
    /\ Go(Resumer, NewTask(j, "claim", disk[j]))
    /\ UNCHANGED <<up, custody, world>>

\* The process dies; files and panels keep what they have.
Crash ==
    /\ Restart(Ha)
    /\ up' = FALSE
    /\ task' = [t \in Tasks |-> None]
    /\ poisoned' = {}
    /\ excused' = {}
    /\ UNCHANGED <<custody, world>>

\* The panel acts on a command it was sent, whoever still waits for it.  A
\* staging that goes wrong may leave part of the file.
PanelActs(j) ==
    /\ cmd[j] # None /\ cmd[j].state = "sent"
    /\ LET p == panel[cmd[j].panel]
           after(q, state) ==
               /\ panel' = [panel EXCEPT ![cmd[j].panel] = q]
               /\ cmd' = [cmd EXCEPT ![j].state = state]
       IN CASE cmd[j].op = "stage" ->
                 \E state \in {"done", "refused"} :
                     after([p EXCEPT !.slot = j], state)
            [] cmd[j].op = "install" ->
                 \/ p.pkg = None /\ after([p EXCEPT !.pkg = j], "done")
                 \/ after(p, "refused")
            [] cmd[j].op = "clean" ->
                 after([p EXCEPT !.slot = None], "done") \/ after(p, "refused")
            [] OTHER -> \E state \in {"done", "refused"} : after(p, state)
    /\ UNCHANGED <<vars, up, task, poisoned, custody, asked>>
    /\ Excuse(Hindered)

----------------------------------------------------------------------------
ExecInit ==
    /\ Init
    /\ up = FALSE
    /\ task = [t \in Tasks |-> None]
    /\ poisoned = {}
    /\ custody = [j \in JobIds |-> "none"]
    /\ panel = [s \in Panels |-> [slot |-> None, pkg |-> None]]
    /\ cmd = [j \in JobIds |-> None]
    /\ asked = [j \in JobIds |-> {}]
    /\ excused = {}

Claims(t) == Begin(t) \/ AskFirst(t) \/ Reget(t) \/ Reclean(t) \/ Confirm(t)

Works(t) ==
    \/ LoopEnds(t) \/ Approved(t) \/ Authorizing(t) \/ Preflight(t)
    \/ Acquire(t) \/ Fetch(t) \/ Unpart(t) \/ Downloaded(t)
    \/ ArtifactReady(t) \/ Revalidate(t)
    \/ Staging(t) \/ Installing(t) \/ Installed(t) \/ Launching(t)
    \/ HealthCheck(t) \/ CancelSeen(t) \/ DropLocal(t)
    \/ Authority(t) \/ Barrier(t) \/ Send(t) \/ Answer(t)
    \/ DropRefused(t) \/ CleanFail(t)
    \/ DoMove(t) \/ Recheck(t) \/ DoFail(t)
    \/ DoRecover(t) \/ RecClean(t) \/ RecGet(t) \/ Finish(t)

\* A step of task t of its own.
TaskStep(t) == Claims(t) \/ Works(t) \/ CallFails(t)

Surroundings ==
    \/ FlowFails \/ Boot \/ Crash
    \/ \E j \in JobIds :
           \/ \E p \in Plans : FlowCreates(j, p)
           \/ \E rev \in 0 .. MaxRevision :
                  FlowCancels(j, rev) \/ FlowFinalizes(j, rev)
           \/ Ensure(j) \/ Resume(j) \/ PanelActs(j)

ExecNext == Surroundings \/ \E t \in Tasks : TaskStep(t) \/ Cancelled(t)

ExecSpec == ExecInit /\ [][ExecNext]_execVars

\* Every await of a worker returns: manager calls and file operations finish,
\* downloads, ADB sessions and health probes run under timeouts.
FairExecSpec == ExecSpec /\ \A t \in Tasks : WF_execVars(TaskStep(t))

----------------------------------------------------------------------------
(* Properties. *)

Places ==
    {"loop", "fetch", "unpart", "reclean", "send", "answer", "droplocal",
     "droprefused", "cleanfail", "recclean"}

Goals == [phase : Phases, root : RootModes \cup {None},
          result : ResultCodes \cup {None}]

Worker ==
    [job : JobIds, pc : Calling \cup Places, seen : Receipt, retried : BOOLEAN,
     local : BOOLEAN, staged : BOOLEAN, cleared : BOOLEAN,
     op : Ops \cup {None}, goal : Goals \cup {None}]

Command == [op : Ops, state : {"sent", "done", "refused"}, panel : Panels]

\* None is neither a worker nor a command.
ASSUME NoneIsApart == None \notin Worker /\ None \notin Command

ExecTypeOK ==
    /\ TypeOK
    /\ up \in BOOLEAN
    /\ task \in [Tasks -> Worker \cup {None}]
    /\ poisoned \subseteq JobIds
    /\ custody \in [JobIds -> {"none", "part", "ready"}]
    /\ panel \in [Panels -> [slot : JobIds \cup {None}, pkg : JobIds \cup {None}]]
    /\ cmd \in [JobIds -> Command \cup {None}]
    /\ asked \in [JobIds -> SUBSET Ops]
    /\ excused \subseteq JobIds

\* No operation is ever commanded twice for one job: not after a crash, not
\* by a retry of the phase loop, not by a second worker or a later process.
MutationOnce ==
    [][\A j \in JobIds :
           cmd'[j] # cmd[j] /\ cmd'[j].state = "sent"
               => cmd'[j].op \notin asked[j]]_execVars

\* A job that says cancelled, failed, healthy or consumed, or is still before
\* its first mutation, has nothing in the panel's staging slot and no command
\* under way that could put it there; and a finished job has left nothing in
\* the custody directory, however often cleaning it failed and whoever
\* finished the job.
NothingLeftBehind ==
    \A j \in JobIds :
        /\ /\ disk[j] # None
           /\ \/ \E s \in Panels : panel[s].slot = j
              \/ cmd[j] # None /\ cmd[j].op = "stage" /\ cmd[j].state = "sent"
           => disk[j].phase \in {"staging", "installing", "installed",
                                 "launching", "recovery_required"}
        /\ Terminal(disk[j]) => custody[j] = "none"

OnPanel(t) == At(t, "send") \/ At(t, "answer")

\* "An active same-manager worker retains its claim.  It must never be
\* duplicated or have its live artifact cleaned" (async_resume_loaded_jobs):
\* while a worker stages a file, the file is there.
LiveArtifactKept ==
    \A j \in JobIds :
        OnPanel(j) /\ task[j].op = "stage" => custody[j] = "ready"

\* Two workers never command one panel at the same time.
OneHandPerPanel ==
    \A i, j \in JobIds :
        OnPanel(i) /\ OnPanel(j)
            /\ task[i].seen.plan.serial = task[j].seen.plan.serial => i = j

\* A worker gives up an unfinished job for this process (it is not restarted
\* before Home Assistant is) only when a cancel request overtook it, when it
\* was cancelled or its last cleaning failed, or when since it began a call of
\* the manager failed or was cancelled, its own or another caller's: by their
\* own steps the claim, the resume, the flows and the transitions never cost a
\* worker its job.
StrandedForCause ==
    \A j \in poisoned :
        Active(disk[j]) => disk[j].cancel_requested \/ j \in excused

\* Every worker and every resume comes to an end.
TasksEnd == \A t \in Tasks : task[t] # None ~> task[t] = None

============================================================================
