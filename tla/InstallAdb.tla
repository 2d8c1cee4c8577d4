----------------------------- MODULE InstallAdb -----------------------------
(***************************************************************************)
(* One panel, and the calls that install over ADB (install_adb.py): each   *)
(* opens a connection of its own, proves on it what it may rely on, sends  *)
(* at most one command that changes the panel, and answers with a code     *)
(* that says whether the command may have been carried out.  The order of  *)
(* the calls, and what becomes of a job after each, are the executor's.    *)
(*                                                                         *)
(* Abstractions: an exchange that changes nothing reads the panel once;    *)
(* a reply is the facts it frames, or garbled; the connection may break,   *)
(* and a timeout pass, at every exchange.  What the panel runs in a shell  *)
(* outlives the connection; a file transfer does not, the panel keeps what *)
(* it has received.  A panel that restarts, or is replaced at its address, *)
(* takes the connection with it.                                           *)
(***************************************************************************)
EXTENDS Naturals, Sequences

CONSTANTS
    Jobs,       \* one after the other on this panel
    Sdks,       \* Android versions the panel may have
    None,
    MaxMoves    \* how often somebody else may change the panel

ASSUME AdbAssumption ==
    /\ Jobs \cap {None, "foreign", "retained", "remains"} = {}
    /\ Sdks \subseteq 1..100
    /\ MaxMoves \in Nat

VARIABLES
    panel,      \* what is true of the panel
    host,       \* is it the panel that answers at the address?
    moves,      \* how often somebody else has changed the panel
    phase,      \* job -> what the executor has made of it
    mode,       \* job -> the root mode its receipt records
    call,       \* the call under way, or None
    fd,         \* its descriptor of the local APK, which a thread opens
    link,       \* its connection
    cmd         \* job -> its last command that changes the panel

outside == <<panel, host, moves>>
custody == <<fd, link>>
adbVars == <<outside, phase, mode, call, custody, cmd>>

----------------------------------------------------------------------------
(* The panel. *)

Roots == {"adbd", "su", "rootless", "unclear"}

\* The application is a job's, one somebody else installed, one uninstalled
\* that kept its data, or stray directories of one that is gone.
Apps == Jobs \cup {None, "foreign", "retained", "remains"}
Installed(app) == app \in Jobs \cup {"foreign"}

\* The one staging slot: whose file, and how much of it.
Slots == {None} \cup (Jobs \X {"part", "whole"})

Panel == [app : Apps, slot : Slots, root : Roots, sdk : Sdks]

\* What the commands show.  Only root sees the data directories.
ShowsPackage(p) == p.app \in Jobs \cup {"foreign", "retained"}
ShowsRemains(p) == p.root = "adbd" /\ p.app = "remains"
SuShowsRemains(p) == p.app = "remains"

\* `pm install` replaces an application by default from Android 9 on, unless
\* it is told not to.
NoReplaceAfter(sdk) == sdk > 28                                  \* mutant
NoReplace(sdk) == sdk >= 28
Replaces(p) == p.sdk >= 28 /\ ~NoReplace(p.sdk)

----------------------------------------------------------------------------
(* Calls.  A call goes through the steps of its operation, closes what it  *)
(* has opened, and returns.                                                *)

Ops == {"preflight", "verify", "stage", "install", "launch", "clean"}

PreflightSteps == <<"connect", "admit">>
VerifySteps == <<"connect", "posture", "package">>
StageSteps == <<"open", "connect", "admit", "vacant", "send", "check">>
InstallSteps == <<"connect", "admit", "artifact", "send">>
LaunchSteps == <<"connect", "posture", "package", "send">>
CleanStepsUnproved == <<"connect", "send">>                      \* mutant
CleanSteps == <<"connect", "posture", "send">>

Steps(op) ==
    CASE op = "preflight" -> PreflightSteps
      [] op = "verify"    -> VerifySteps
      [] op = "stage"     -> StageSteps
      [] op = "install"   -> InstallSteps
      [] op = "launch"    -> LaunchSteps
      [] op = "clean"     -> CleanSteps

Pcs == {"open", "connect", "admit", "posture", "package", "vacant", "artifact",
        "send", "answer", "check", "close", "returned"}

Outs == {"ok", "refused", "ambiguous", "unverified", "unreachable", "invalid",
         "changed", "root_changed", "root_unclear", "not_clean", "missing",
         "occupied", "unsafe", "local", "auth", "cancelled"}

Call == [job : Jobs, op : Ops, pc : Pcs, cut : {None, "timeout", "cancel"},
         out : Outs]

\* A command: sent, or what has become of it.
Command == [op : Ops, state : {"sent", "done", "refused", "failed"}]

ASSUME NoneIsApart ==
    /\ None \notin {"foreign", "retained", "remains", "timeout", "cancel"} \cup Roots
    /\ None \notin Jobs \X {"part", "whole"}
    /\ None \notin Call \cup Command

At(pc) == call # None /\ call.pc = pc

\* The step after pc, for a call whose answer is its last.
Following(op, pc) ==
    LET steps == Steps(op)
        i == CHOOSE k \in 1..Len(steps) : steps[k] = pc
    IN IF i = Len(steps) THEN "close" ELSE steps[i + 1]

Go(pc) == call' = [call EXCEPT !.pc = pc]
Out(out) == call' = [call EXCEPT !.pc = "close", !.out = out]

\* What a proof yields: the next step, or the reason against it.
Proved(pc, verdict) ==
    IF verdict = "ok" THEN Go(Following(call.op, pc)) ELSE Out(verdict)

\* The exceptions of the connection and of a timeout, by what the call had
\* done: mutation_started is set just before the command is sent.
MutatingAnswered == {"answer"}                                   \* mutant
Mutating == {"answer", "check"}
Broken(pc) == IF pc \in Mutating THEN "ambiguous" ELSE "unreachable"

\* A reply that is not one whole frame with the nonce of its command.
Garbled(pc) ==
    CASE pc \in {"artifact", "check"} -> "unverified"
      [] pc \in {"posture", "package"} /\ call.op = "verify" -> "invalid"
      [] OTHER -> Broken(pc)

Asks(pc) == At(pc) /\ link = "up"
Still == UNCHANGED <<phase, mode>>
Quiet == UNCHANGED <<outside, custody, cmd>> /\ Still

----------------------------------------------------------------------------
(* What is proved on a connection. *)

\* The serial, model, ABI and Android version are those of the receipt.
SameTarget == host = "ours"

\* One of five dialects of su answers as root, or none does.
SuProof == {"ok", "root_unclear"}

RootMode(p, want) ==
    IF p.root = "unclear" THEN {"root_unclear"}
    ELSE IF want \notin {None, p.root} THEN {"root_changed"}
    ELSE IF p.root = "su" THEN SuProof ELSE {"ok"}

\* A clean installation: nothing installed, nothing left, the root mode known
\* and, but for the first preflight, as it was.
Admission(p, want) ==
    IF ~SameTarget THEN {"changed"}
    ELSE IF ShowsPackage(p) \/ ShowsRemains(p) THEN {"not_clean"}
    ELSE IF p.root = "su" /\ SuShowsRemains(p) THEN {"not_clean", "root_unclear"}
    ELSE RootMode(p, want)

Posture(p, want) == IF ~SameTarget THEN {"changed"} ELSE RootMode(p, want)

Admit ==
    /\ Asks("admit")
    /\ \E verdict \in Admission(panel, mode[call.job]) :
          /\ Proved("admit", verdict)
          /\ mode' = IF call.op = "preflight" /\ verdict = "ok"
                     THEN [mode EXCEPT ![call.job] = panel.root] ELSE mode
    /\ UNCHANGED <<outside, custody, cmd, phase>>

ProvePosture ==
    /\ Asks("posture")
    /\ \E verdict \in Posture(panel, mode[call.job]) : Proved("posture", verdict)
    /\ Quiet

\* Nothing has the name of the slot, and the panel takes packets of a size
\* that is safe.
Vacant ==
    /\ Asks("vacant")
    /\ \/ panel.slot = None /\ Proved("vacant", "ok")
       \/ panel.slot = None /\ Out("unsafe")
       \/ panel.slot # None /\ Out("occupied")
    /\ Quiet

\* The staged file has the mode, the size and the digest of the job's APK.
Verified(pc) ==
    Proved(pc, IF panel.slot = <<call.job, "whole">> THEN "ok" ELSE "unverified")

Artifact == Asks("artifact") /\ Verified("artifact") /\ Quiet
Check == Asks("check") /\ Verified("check") /\ Quiet

Package ==
    /\ Asks("package")
    /\ Proved("package", IF Installed(panel.app) THEN "ok" ELSE "missing")
    /\ Quiet

----------------------------------------------------------------------------
(* The local APK, and the connection. *)

\* The thread that opens and hashes the file, _open_verified_apk.
OpenApk ==
    /\ fd = "opening"
    /\ fd' \in {"open", "refused"}
    /\ UNCHANGED <<outside, link, cmd, call>> /\ Still

\* _async_wait_for_completion: the call goes on when the thread is done, and
\* if it was interrupted closes what the thread has opened.
OpenedOrCut == fd \in {"open", "refused"} \/ call.cut # None     \* mutant
OpenedWell == fd = "open"                                        \* mutant
Opened == fd \in {"open", "refused"}

TakeApk ==
    /\ At("open") /\ Opened
    /\ LET held == fd = "open" /\ call.cut = None
       IN fd' = IF held THEN "open" ELSE IF fd = "opening" THEN fd ELSE "none"
    /\ CASE call.cut = "cancel" -> Out("cancelled")
         [] call.cut = "timeout" -> Out("unreachable")
         [] fd = "refused" /\ call.cut = None -> Out("local")
         [] OTHER -> Go("connect")
    /\ UNCHANGED <<outside, link, cmd>> /\ Still

Connect ==
    /\ At("connect")
    /\ \/ link' = "up" /\ Go(Following(call.op, "connect"))
       \/ /\ \E out \in {"auth", "unreachable", "invalid"} : Out(out)
          /\ UNCHANGED link
    /\ UNCHANGED <<outside, fd, cmd>> /\ Still

\* What is closed under a transfer leaves what the panel has received.
BrokenOff(j) ==
    IF cmd[j] # None /\ cmd[j].op = "stage" /\ cmd[j].state = "sent"
    THEN \E slot \in {panel.slot, <<j, "part">>, <<j, "whole">>} :
            /\ panel' = [panel EXCEPT !.slot = slot]
            /\ cmd' = [cmd EXCEPT ![j] = None]
    ELSE UNCHANGED <<panel, cmd>>

\* The connection is closed, or given up after two seconds, then the file;
\* who was cancelled meanwhile learns so at the end.
Close ==
    /\ At("close")
    /\ link' = "none"
    /\ fd' = IF fd = "opening" THEN fd ELSE "none"
    /\ BrokenOff(call.job)
    /\ call' = [call EXCEPT !.pc = "returned",
                            !.out = IF call.cut = "cancel" THEN "cancelled" ELSE @]
    /\ UNCHANGED <<host, moves>> /\ Still

----------------------------------------------------------------------------
(* The command that changes the panel. *)

\* Nothing is awaited between the last proof and the command, so that it is
\* the panel that was proved that gets it, or none.
Send ==
    /\ At("send")
    /\ LET j == call.job
       IN IF link = "up"
          THEN cmd' = [cmd EXCEPT ![j] = [op |-> call.op, state |-> "sent"]]
          ELSE UNCHANGED cmd
    /\ Go("answer")
    /\ UNCHANGED <<outside, custody>> /\ Still

\* The panel carries it out, whoever still waits for the answer.
Performed(j, p, state) ==
    /\ panel' = p
    /\ cmd' = [cmd EXCEPT ![j].state = state]
    /\ UNCHANGED <<host, moves, custody, call>> /\ Still

Push(j) ==
    /\ cmd[j].op = "stage"
    /\ \/ Performed(j, [panel EXCEPT !.slot = <<j, "whole">>], "done")
       \/ Performed(j, [panel EXCEPT !.slot = <<j, "part">>], "failed")
       \/ Performed(j, panel, "failed")

PmInstall(j) ==
    /\ cmd[j].op = "install"
    /\ \/ /\ panel.slot \in Jobs \X {"whole"}
          /\ ~Installed(panel.app) \/ Replaces(panel)
          /\ Performed(j, [panel EXCEPT !.app = panel.slot[1]], "done")
       \/ Performed(j, panel, "refused")

AmStart(j) ==
    /\ cmd[j].op = "launch"
    /\ \/ Installed(panel.app) /\ Performed(j, panel, "done")
       \/ Performed(j, panel, "refused")

Rm(j) ==
    /\ cmd[j].op = "clean"
    /\ \/ Performed(j, [panel EXCEPT !.slot = None], "done")
       \/ Performed(j, panel, "failed")

PanelActs(j) ==
    /\ cmd[j] # None /\ cmd[j].state = "sent"
    /\ Push(j) \/ PmInstall(j) \/ AmStart(j) \/ Rm(j)

\* Its answer.  "Success", an installation failure, a status of 0 or 1 and an
\* empty path are definite; everything else is not.
Definite(state) ==
    CASE state = "done" -> "ok"
      [] state = "refused" -> "refused"
      [] OTHER -> "ambiguous"

Answer ==
    /\ Asks("answer") /\ cmd[call.job].state # "sent"
    /\ LET j == call.job
           verdict == Definite(cmd[j].state)
       IN /\ IF call.op = "stage" /\ verdict = "ok" THEN Go("check") ELSE Out(verdict)
          /\ cmd' = [cmd EXCEPT ![j] = None]
    /\ UNCHANGED <<outside, custody>> /\ Still

----------------------------------------------------------------------------
(* What goes wrong with a call. *)

Exchanges == {"admit", "posture", "package", "vacant", "artifact", "answer",
              "check"}

\* A reply that cannot be used, and an exchange that fails.
Garble ==
    /\ call # None /\ call.pc \in Exchanges /\ link = "up"
    /\ Out(Garbled(call.pc))
    /\ Quiet

Break ==
    /\ call # None /\ call.pc \in Exchanges
    /\ Out(Broken(call.pc))
    /\ Quiet

\* The timeout of the call, over everything but the closing.
Expire ==
    /\ call # None
    /\ \/ /\ call.pc = "open" /\ call.cut = None
          /\ call' = [call EXCEPT !.cut = "timeout"]
       \/ /\ call.pc \in Exchanges \cup {"connect"}
          /\ Out(Broken(call.pc))
    /\ Quiet

\* Its task is cancelled: raised at once, but where something is drained.
Cancel ==
    /\ call # None /\ call.pc \notin {"send", "returned"}
    /\ IF call.pc \in {"open", "close"}
       THEN call' = [call EXCEPT !.cut = "cancel"]
       ELSE Out("cancelled")
    /\ Quiet

----------------------------------------------------------------------------
(* The executor: which call a job makes, and what it makes of the answer.  *)

Phases == {"new", "ready", "staged", "installed", "refused", "clean",
           "launched", "unlaunched", "over", "unknown"}

\* No other job has this panel.
Alone(j) == \A k \in Jobs \ {j} : phase[k] \in {"new", "over", "unlaunched", "unknown"}

\* A staged job is installed, or cleaned up after because it was cancelled.
Wanted(j) ==
    CASE phase[j] = "new" -> {"preflight"}
      [] phase[j] = "ready" -> {"stage"}
      [] phase[j] = "staged" -> {"install", "clean"}
      [] phase[j] \in {"installed", "refused"} -> {"clean"}
      [] phase[j] = "clean" -> {"launch"}
      [] phase[j] = "launched" -> {"verify"}
      [] OTHER -> {}

Start(j) ==
    /\ call = None /\ Alone(j)
    /\ \E op \in Wanted(j) :
          /\ call' = [job |-> j, op |-> op, pc |-> Head(Steps(op)), cut |-> None,
                      out |-> "ok"]
          /\ fd' = IF op = "stage" THEN "opening" ELSE fd
    /\ UNCHANGED <<outside, link, cmd>> /\ Still

Ambiguous == {"ambiguous", "unverified", "cancelled"}

AfterStage(out) ==
    IF out = "ok" THEN "staged"
    ELSE IF out \in Ambiguous THEN "unknown" ELSE "over"

AfterLaunch(out) ==
    IF out = "ok" THEN "launched"
    ELSE IF out \in Ambiguous \cup {"changed", "root_changed"}
         THEN "unknown" ELSE "unlaunched"

\* A worker that was cancelled leaves its job where a restart finds it.
After(op, ph, out) ==
    CASE op = "preflight" ->
           IF out = "ok" THEN "ready" ELSE IF out = "cancelled" THEN ph ELSE "over"
      [] op = "stage" -> AfterStage(out)
      [] op = "install" ->
           CASE out = "ok" -> "installed" [] out = "refused" -> "refused"
             [] OTHER -> "unknown"
      [] op = "clean" ->
           IF out # "ok" THEN "unknown"
           ELSE IF ph = "installed" THEN "clean" ELSE "over"
      [] op = "launch" -> AfterLaunch(out)
      [] op = "verify" -> ph

Return ==
    /\ At("returned")
    /\ phase' = [phase EXCEPT ![call.job] = After(call.op, @, call.out)]
    /\ call' = None
    /\ UNCHANGED <<outside, custody, cmd, mode>>

\* A restart keeps what the receipts say, and quarantines a job that was in
\* the middle of something.
Restarted(j) ==
    IF call # None /\ call.job = j THEN After(call.op, phase[j], "cancelled")
    ELSE IF phase[j] \in {"staged", "refused", "clean"} THEN "unknown"
    ELSE phase[j]

Crash ==
    /\ call' = None /\ fd' = "none" /\ link' = "none"
    /\ phase' = [j \in Jobs |-> Restarted(j)]
    /\ IF call # None THEN BrokenOff(call.job) ELSE UNCHANGED <<panel, cmd>>
    /\ UNCHANGED <<host, moves, mode>>

----------------------------------------------------------------------------
(* Somebody else. *)

Move(p, h) ==
    /\ moves < MaxMoves /\ moves' = moves + 1
    /\ panel' = p /\ host' = h
    /\ UNCHANGED <<call, fd, cmd>> /\ Still

\* The owner installs or removes the application by hand.
OwnerActs ==
    /\ \/ ~Installed(panel.app) /\ Move([panel EXCEPT !.app = "foreign"], host)
       \/ /\ Installed(panel.app)
          /\ \E app \in {None, "retained", "remains"} :
                Move([panel EXCEPT !.app = app], host)
    /\ UNCHANGED link

\* The panel restarts in another root mode, or another takes its address.
PanelMoves ==
    /\ \/ \E root \in Roots \ {panel.root} : Move([panel EXCEPT !.root = root], host)
       \/ \E h \in {"ours", "other"} \ {host} : Move(panel, h)
    /\ link' = IF link = "up" THEN "dead" ELSE link

----------------------------------------------------------------------------

AdbInit ==
    /\ panel \in [app : {None}, slot : {None}, root : Roots \ {"unclear"}, sdk : Sdks]
    /\ host = "ours" /\ moves = 0
    /\ phase = [j \in Jobs |-> "new"]
    /\ mode = [j \in Jobs |-> None]
    /\ call = None /\ fd = "none" /\ link = "none"
    /\ cmd = [j \in Jobs |-> None]

CallStep ==
    \/ OpenApk \/ TakeApk \/ Connect
    \/ Admit \/ ProvePosture \/ Vacant \/ Artifact \/ Check \/ Package
    \/ Send \/ Answer \/ Close \/ Return

AdbNext ==
    \/ CallStep
    \/ Garble \/ Break \/ Expire \/ Cancel
    \/ \E j \in Jobs : Start(j) \/ PanelActs(j)
    \/ Crash \/ OwnerActs \/ PanelMoves

AdbSpec == AdbInit /\ [][AdbNext]_adbVars

\* Threads and coroutines go on, and timeouts pass; nothing is owed by a panel.
FairAdbSpec == AdbSpec /\ WF_adbVars(CallStep) /\ WF_adbVars(Expire)

----------------------------------------------------------------------------
(* Properties. *)

\* Every variable keeps its shape; what is open belongs to a step that uses it,
\* and between calls nothing is open, however often the call was cancelled
\* (_async_wait_for_completion).
AdbTypeOK ==
    /\ panel \in Panel /\ host \in {"ours", "other"} /\ moves \in 0..MaxMoves
    /\ phase \in [Jobs -> Phases] /\ mode \in [Jobs -> Roots \cup {None}]
    /\ call \in Call \cup {None}
    /\ fd \in {"none", "opening", "open", "refused"}
    /\ link \in {"none", "up", "dead"}
    /\ cmd \in [Jobs -> Command \cup {None}]
    /\ call # None /\ call.pc \in Exchanges \cup {"send"} => link # "none"
    /\ call # None /\ call.op = "stage" /\ call.pc \in Exchanges \cup {"send"}
          => fd = "open"
    /\ call = None => fd = "none" /\ link = "none"

\* A job that ended with a definite answer has left nothing in the staging
\* slot and, unless all that failed was its launch, no application on the
\* panel: a code that is not among those the executor takes for ambiguous
\* says the truth, whenever the call was interrupted.  And what may still be
\* carried out is awaited by the call that sent it, or its job is quarantined.
OverIsClean ==
    \A j \in Jobs :
        /\ phase[j] \in {"over", "unlaunched"} =>
              /\ panel.slot \notin {j} \X {"part", "whole"}
              /\ panel.app = j => phase[j] = "unlaunched"
        /\ cmd[j] # None /\ cmd[j].state = "sent" =>
              phase[j] = "unknown" \/ (call # None /\ call.job = j)

\* No command ever replaces an application: whoever installed it meanwhile,
\* on any Android version, and however late the command is carried out.
NotReplaced ==
    [][Installed(panel.app) /\ moves' = moves => panel'.app = panel.app]_adbVars

\* A command reaches the panel of the receipt, in the root mode it was
\* admitted in, and a transfer overwrites nothing.
SentToTheRightPanel ==
    [][\A j \in Jobs :
          cmd'[j] # cmd[j] /\ cmd'[j] # None /\ cmd'[j].state = "sent" =>
              /\ host = "ours" /\ panel.root = mode[j]
              /\ cmd'[j].op = "stage" => panel.slot = None
      ]_adbVars

\* Every call returns, also when the panel never answers.
CallsReturn == call # None ~> call = None

=============================================================================
