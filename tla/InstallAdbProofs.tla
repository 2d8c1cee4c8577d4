--------------------------- MODULE InstallAdbProofs ---------------------------
(* The safety of InstallAdb for any number of jobs, Android versions and     *)
(* changes by others.  The inductive invariant follows a job through its     *)
(* calls: what is in the staging slot and which application is installed is  *)
(* known in every phase, unless the call under way may be changing it.       *)
EXTENDS InstallAdb, TLAPS

Pair(j) == {j} \X {"part", "whole"}

\* The call of job j for operation op.
Own(j, op) == call # None /\ call.job = j /\ call.op = op
Ended == call.pc \in {"close", "returned"}

\* A call whose job will be quarantined unless the answer that comes is
\* definite, or is about to be.
Acting(j) ==
    /\ call # None /\ call.job = j
    /\ \/ call.pc \in {"answer", "check"}
       \/ Ended /\ After(call.op, phase[j], call.out) = "unknown"

\* Operation op of job j may have changed the panel.
Doing(j, op) == Own(j, op) /\ (Acting(j) \/ (Ended /\ call.out = "ok"))

PcsOf(op) ==
    {"connect", "close", "returned"} \cup
    CASE op = "preflight" -> {"admit"}
      [] op = "verify"    -> {"posture", "package"}
      [] op = "stage"     -> {"open", "admit", "vacant", "send", "answer", "check"}
      [] op = "install"   -> {"admit", "artifact", "send", "answer"}
      [] op = "launch"    -> {"posture", "package", "send", "answer"}
      [] op = "clean"     -> {"posture", "send", "answer"}

\* What a call has opened.
CustodyInv ==
    /\ fd = "opening" => At("open")
    /\ At("returned") => fd = "none" /\ link = "none"
    /\ At("connect") /\ call.op = "stage" => fd = "open"

\* A call is one its job wants, at one of its steps, with no outcome yet.
CallInv ==
    call # None =>
        /\ call.op \in Wanted(call.job)
        /\ call.pc \in PcsOf(call.op)
        /\ ~Ended => call.out = "ok"
        /\ call.pc = "answer" /\ link = "up" => cmd[call.job] # None
        /\ call.pc = "check" => cmd[call.job] = None

\* What was proved on a connection holds as long as it is up.
ProvenInv ==
    /\ call # None /\ link = "up"
           /\ call.pc \in {"vacant", "artifact", "package", "send"} =>
           host = "ours" /\ panel.root = mode[call.job]
    /\ At("send") /\ call.op = "stage" => panel.slot = None

Admitted == {"ready", "staged", "installed", "refused", "clean", "launched"}

ModeInv ==
    /\ \A j \in Jobs : phase[j] \in Admitted => mode[j] # None
    /\ call # None /\ call.op = "preflight" /\ Ended /\ call.out = "ok" =>
           mode[call.job] # None

\* A command under way or answered too late, and what it still may do.
CmdInv(j) ==
    cmd[j] # None =>
        /\ phase[j] = "unknown" \/ (Acting(j) /\ cmd[j].op = call.op)
        /\ cmd[j].op \in {"install", "clean"} /\ cmd[j].state = "sent" =>
               panel.slot = <<j, "whole">>
        /\ cmd[j].op = "stage" =>
               /\ cmd[j].state # "refused"
               /\ cmd[j].state = "sent" =>
                      /\ panel.slot = None
                      /\ Own(j, "stage") /\ call.pc \in {"answer", "close"}
        /\ cmd[j].op = "install" /\ cmd[j].state \in {"sent", "refused"} =>
               panel.app # j
        /\ cmd[j].op = "clean" /\ cmd[j].state = "done" => panel.slot \notin Pair(j)

\* What a job has on the panel.
JobInv(j) ==
    /\ phase[j] \in {"new", "ready", "refused", "over"} => panel.app # j
    /\ phase[j] = "staged" => panel.app # j \/ Doing(j, "install")
    /\ phase[j] \in {"new", "over", "unlaunched", "clean"} => panel.slot \notin Pair(j)
    /\ phase[j] = "ready" => panel.slot \notin Pair(j) \/ Doing(j, "stage")
    /\ phase[j] \in {"staged", "installed", "refused"} =>
           panel.slot = <<j, "whole">> \/ Doing(j, "clean")
    /\ Own(j, "stage") /\ Ended /\ call.out = "ok" => panel.slot = <<j, "whole">>
    /\ Own(j, "clean") /\ Ended /\ call.out = "ok" => panel.slot \notin Pair(j)

AdbInv ==
    /\ AdbTypeOK
    /\ CustodyInv
    /\ CallInv
    /\ ProvenInv
    /\ ModeInv
    /\ \A j \in Jobs : CmdInv(j) /\ JobInv(j)

USE AdbAssumption, NoneIsApart

----------------------------------------------------------------------------
(* The order of the steps. *)

LEMMA StepsOf ==
    /\ Following("preflight", "connect") = "admit"
    /\ Following("preflight", "admit") = "close"
    /\ Following("verify", "connect") = "posture"
    /\ Following("verify", "posture") = "package"
    /\ Following("verify", "package") = "close"
    /\ Following("stage", "connect") = "admit"
    /\ Following("stage", "admit") = "vacant"
    /\ Following("stage", "vacant") = "send"
    /\ Following("stage", "check") = "close"
    /\ Following("install", "connect") = "admit"
    /\ Following("install", "admit") = "artifact"
    /\ Following("install", "artifact") = "send"
    /\ Following("launch", "connect") = "posture"
    /\ Following("launch", "posture") = "package"
    /\ Following("launch", "package") = "send"
    /\ Following("clean", "connect") = "posture"
    /\ Following("clean", "posture") = "send"
  BY DEF Following, Steps, PreflightSteps, VerifySteps, StageSteps, InstallSteps,
         LaunchSteps, CleanSteps

\* A call that goes on, or that ends with an outcome.
LEMMA GoCall ==
    ASSUME call \in Call, NEW pc \in Pcs, Go(pc)
    PROVE  /\ call' \in Call /\ call' # None
           /\ call'.pc = pc /\ call'.op = call.op /\ call'.job = call.job
           /\ call'.cut = call.cut /\ call'.out = call.out
  BY DEF Go, Call

LEMMA OutCall ==
    ASSUME call \in Call, NEW out \in Outs, Out(out)
    PROVE  /\ call' \in Call /\ call' # None
           /\ call'.pc = "close" /\ call'.op = call.op /\ call'.job = call.job
           /\ call'.cut = call.cut /\ call'.out = out
  BY DEF Out, Call, Pcs

----------------------------------------------------------------------------
(* Types, and what a call has opened. *)

LEMMA TypeInit == AdbInit => AdbTypeOK /\ CustodyInv
  BY DEF AdbInit, AdbTypeOK, CustodyInv, At, Panel, Apps, Slots, Phases

\* A call ends before it has succeeded.  What came after its command was sent
\* is ambiguous.
Failing ==
    \E out \in Outs \ {"ok"} :
        /\ call.pc \in {"answer", "check"} => out \in Ambiguous
        /\ Out(out)

\* A step of a call on its connection: it goes on to the next step of its
\* operation, or ends.
Proceeds ==
    /\ call \in Call /\ call.pc \in (Exchanges \cup {"connect"}) \ {"answer"}
    /\ \/ Go(Following(call.op, call.pc)) /\ link' = "up"
       \/ Failing /\ UNCHANGED <<link, mode>>
    /\ UNCHANGED <<outside, fd, cmd, phase>>

LEMMA Proceeding ==
    ASSUME AdbTypeOK, NEW pc, At(pc),
           Admit \/ ProvePosture \/ Vacant \/ Artifact \/ Check \/ Package \/ Connect
    PROVE  Proceeds
<1>1. call \in Call
  BY DEF AdbTypeOK, At
<1>2. CASE Connect
  BY <1>1, <1>2 DEF Connect, Proceeds, Failing, At, Exchanges, outside, Still, Outs
<1>3. CASE Vacant
  BY <1>1, <1>3 DEF Vacant, Proceeds, Failing, Asks, At, Proved, Exchanges, outside,
     custody, Quiet, Still, Outs
<1>4. CASE Artifact \/ Check \/ Package
  BY <1>1, <1>4 DEF Artifact, Check, Package, Verified, Proceeds, Failing, Asks, At,
     Proved, Exchanges, outside, custody, Quiet, Still, Outs, Ambiguous
<1>5. \A p, want : Admission(p, want) \cup Posture(p, want) \subseteq Outs
  BY DEF Admission, Posture, RootMode, SuProof, Outs
<1>6. CASE ProvePosture
  BY <1>1, <1>5, <1>6 DEF ProvePosture, Proceeds, Failing, Asks, At, Proved, Exchanges,
     outside, custody, Quiet, Still
<1>7. CASE Admit
  BY <1>1, <1>5, <1>7 DEF Admit, Proceeds, Failing, Asks, At, Proved, Exchanges,
     outside, custody
<1> QED BY <1>2, <1>3, <1>4, <1>6, <1>7

\* What interrupts a call, or is heard of too late.
Interrupted ==
    /\ call \in Call
    /\ \/ /\ call.pc \in {"open", "close"}
          /\ \E cut \in {"timeout", "cancel"} : call' = [call EXCEPT !.cut = cut]
       \/ call.pc \in Exchanges \cup {"connect"} /\ Failing
    /\ Quiet

LEMMA Interrupting ==
    ASSUME AdbTypeOK, CallInv, Garble \/ Break \/ Expire \/ Cancel
    PROVE  Interrupted
<1>1. call \in Call
  BY DEF AdbTypeOK, Garble, Break, Expire, Cancel
<1>2. /\ Broken(call.pc) \in Outs \ {"ok"}
      /\ call.pc \in {"answer", "check"} => Broken(call.pc) \in Ambiguous
  BY DEF Broken, Mutating, Outs, Ambiguous
<1>3. /\ Garbled(call.pc) \in Outs \ {"ok"}
      /\ call.pc \in {"answer", "check"} => Garbled(call.pc) \in Ambiguous
  BY <1>2 DEF Garbled, Outs, Ambiguous
<1>4. "cancelled" \in Ambiguous \cap (Outs \ {"ok"})
  BY DEF Ambiguous, Outs
<1>5. CASE Garble
  BY <1>1, <1>3, <1>5 DEF Garble, Interrupted, Failing
<1>6. CASE Break
  BY <1>1, <1>2, <1>6 DEF Break, Interrupted, Failing
<1>7. CASE Expire
  BY <1>1, <1>2, <1>7 DEF Expire, Interrupted, Failing
<1>8. CASE Cancel
  <2>1. call.pc \in Exchanges \cup {"connect", "open", "close"}
    BY <1>1, <1>8 DEF Cancel, Call, Pcs, Exchanges
  <2> QED BY <1>1, <1>4, <1>8, <2>1 DEF Cancel, Interrupted, Failing
<1> QED BY <1>5, <1>6, <1>7, <1>8

\* The pcs a call goes on to.
LEMMA FollowingPcs ==
    ASSUME call \in Call, call.pc \in PcsOf(call.op),
           call.pc \in (Exchanges \cup {"connect"}) \ {"answer"}
    PROVE  /\ Following(call.op, call.pc) \in PcsOf(call.op) \ {"open", "returned", "connect", "answer", "check"}
           /\ Following(call.op, call.pc) \in Exchanges \cup {"send", "close"}
  BY StepsOf DEF Call, Ops, PcsOf, Exchanges

\* Every step keeps the types, and closes what was opened.
LEMMA TypeStep ==
    ASSUME AdbTypeOK, CustodyInv, CallInv, [AdbNext]_adbVars
    PROVE  AdbTypeOK' /\ CustodyInv'
<1> USE DEF AdbTypeOK, CustodyInv
<1>1. CASE Admit \/ ProvePosture \/ Vacant \/ Artifact \/ Check \/ Package \/ Connect
  <2>1. PICK pc : At(pc)
    BY <1>1 DEF Admit, ProvePosture, Vacant, Artifact, Check, Package, Connect, Asks
  <2>2. Proceeds
    BY <1>1, <2>1, Proceeding
  <2>3. mode' \in [Jobs -> Roots \cup {None}]
    BY <1>1 DEF Admit, ProvePosture, Vacant, Artifact, Check, Package, Connect, Quiet,
       Still, Panel, Call
  <2>4. CASE Failing
    <3>1. PICK out \in Outs : Out(out)
      BY <2>4 DEF Failing
    <3>2. /\ call' \in Call /\ call' # None /\ call'.pc = "close"
      BY <2>2, <3>1, OutCall DEF Proceeds
    <3> QED BY <2>2, <2>3, <3>2 DEF Proceeds, outside, Exchanges, At
  <2>5. CASE Go(Following(call.op, call.pc)) /\ link' = "up"
    <3>1. /\ Following(call.op, call.pc) \in Exchanges \cup {"send", "close"}
          /\ call.op = "stage" => fd = "open"
      BY <2>1, <2>2, FollowingPcs DEF Proceeds, CallInv, At, Exchanges
    <3>2. /\ call' \in Call /\ call' # None /\ call'.pc = Following(call.op, call.pc)
          /\ call'.op = call.op
      BY <2>2, <2>5, <3>1, GoCall DEF Proceeds, Exchanges, Pcs
    <3>3. fd # "opening"
      BY <2>2 DEF Proceeds, At, Exchanges
    <3> QED BY <2>2, <2>3, <2>5, <3>1, <3>2, <3>3 DEF Proceeds, outside, Exchanges, At
  <2> QED BY <2>2, <2>4, <2>5 DEF Proceeds
<1>2. CASE Garble \/ Break \/ Expire \/ Cancel
  <2>1. Interrupted
    BY <1>2, Interrupting
  <2>2. CASE Failing /\ call.pc \in Exchanges \cup {"connect"}
    <3>1. PICK out \in Outs : Out(out)
      BY <2>2 DEF Failing
    <3>2. call' \in Call /\ call' # None /\ call'.pc = "close"
      BY <2>1, <3>1, OutCall DEF Interrupted
    <3> QED BY <2>1, <2>2, <3>2 DEF Interrupted, Quiet, Still, outside, custody, Exchanges, At
  <2>3. CASE \E cut \in {"timeout", "cancel"} : call' = [call EXCEPT !.cut = cut]
    <3>1. call' \in Call /\ call' # None /\ call'.pc = call.pc /\ call'.op = call.op
      BY <2>1, <2>3 DEF Interrupted, Call
    <3> QED BY <2>1, <3>1 DEF Interrupted, Quiet, Still, outside, custody, At
  <2> QED BY <2>1, <2>2, <2>3 DEF Interrupted
<1>3. CASE OpenApk
  BY <1>3 DEF OpenApk, outside, Still, At
<1>4. CASE TakeApk
  <2>1. call \in Call /\ call.op = "stage"
    BY <1>4 DEF TakeApk, At, CallInv, PcsOf, Call, Ops
  <2>2. \/ fd' = "none" /\ \E out \in Outs : Out(out)
        \/ fd' = "open" /\ Go("connect")
    BY <1>4, <2>1 DEF TakeApk, Opened, Outs, Call
  <2>3. /\ call' \in Call /\ call'.pc \in {"close", "connect"} /\ call'.op = "stage"
        /\ fd' # "opening" /\ (call'.pc = "connect" => fd' = "open")
    BY <2>1, <2>2, GoCall, OutCall DEF Pcs
  <2> QED BY <1>4, <2>1, <2>2, <2>3 DEF TakeApk, outside, Still, At, Exchanges
<1>5. CASE Close
  <2>1. call \in Call /\ fd' = "none" /\ link' = "none"
    BY <1>5 DEF Close, At
  <2>2. call' \in Call /\ call'.pc = "returned"
    BY <1>5, <2>1 DEF Close, Call, Pcs, Outs
  <2>3. panel' \in Panel /\ cmd' \in [Jobs -> Command \cup {None}]
    BY <1>5, <2>1 DEF Close, BrokenOff, Panel, Slots, Call
  <2> QED BY <1>5, <2>1, <2>2, <2>3 DEF Close, Still, At, Exchanges
<1>6. CASE Send
  <2>1. /\ call \in Call /\ call' \in Call /\ call'.pc = "answer"
        /\ call'.op = call.op
    BY <1>6, GoCall DEF Send, At, Pcs
  <2>2. cmd' \in [Jobs -> Command \cup {None}]
    BY <1>6, <2>1 DEF Send, Command, Call
  <2> QED BY <1>6, <2>1, <2>2 DEF Send, outside, custody, Still, At, Exchanges
<1>7. CASE Answer
  <2>1. call \in Call /\ call.pc = "answer"
    BY <1>7 DEF Answer, Asks, At
  <2>2. \/ call.op = "stage" /\ Go("check")
        \/ \E out \in Outs : Out(out)
    BY <1>7 DEF Answer, Definite, Outs
  <2>3. /\ call' \in Call /\ call'.pc \in {"check", "close"} /\ call'.op = call.op
    BY <2>1, <2>2, GoCall, OutCall DEF Pcs
  <2> QED BY <1>7, <2>1, <2>3 DEF Answer, outside, custody, Still, At, Exchanges
<1>8. CASE Return
  <2>1. /\ call \in Call /\ fd = "none" /\ link = "none"
        /\ phase[call.job] \in Phases
    BY <1>8 DEF Return, At, Call
  <2>2. After(call.op, phase[call.job], call.out) \in Phases
    BY <2>1 DEF After, AfterStage, AfterLaunch, Phases, Call, Ops
  <2> QED BY <1>8, <2>1, <2>2 DEF Return, outside, custody, At, Phases
<1>9. ASSUME NEW j \in Jobs, Start(j) PROVE AdbTypeOK' /\ CustodyInv'
  <2>1. \A op \in Ops : Head(Steps(op)) = IF op = "stage" THEN "open" ELSE "connect"
    BY DEF Ops, Steps, PreflightSteps, VerifySteps, StageSteps, InstallSteps,
           LaunchSteps, CleanSteps
  <2>2. PICK op \in Wanted(j) :
          /\ call' = [job |-> j, op |-> op, pc |-> Head(Steps(op)), cut |-> None,
                      out |-> "ok"]
          /\ fd' = IF op = "stage" THEN "opening" ELSE fd
    BY <1>9 DEF Start
  <2>3. op \in Ops
    BY DEF Wanted, Ops
  <2>4. call' \in Call
    BY <2>1, <2>2, <2>3 DEF Call, Pcs, Outs
  <2> QED BY <1>9, <2>1, <2>2, <2>3, <2>4 DEF Start, outside, Still, At, Exchanges
<1>10. ASSUME NEW j \in Jobs, PanelActs(j) PROVE AdbTypeOK' /\ CustodyInv'
  <2>1. /\ panel' \in Panel
        /\ \E state \in {"done", "refused", "failed"} : cmd' = [cmd EXCEPT ![j].state = state]
        /\ UNCHANGED <<host, moves, custody, call>> /\ Still
    BY <1>10 DEF PanelActs, Push, PmInstall, AmStart, Rm, Performed, Panel, Slots, Apps
  <2>2. cmd' \in [Jobs -> Command \cup {None}]
    BY <1>10, <2>1 DEF PanelActs, Command
  <2> QED BY <2>1, <2>2 DEF custody, Still, At
<1>11. CASE Crash
  <2>1. panel' \in Panel /\ cmd' \in [Jobs -> Command \cup {None}]
    BY <1>11 DEF Crash, BrokenOff, Panel, Slots, Call
  <2>2. \A j \in Jobs : Restarted(j) \in Phases
    BY DEF Restarted, After, AfterStage, AfterLaunch, Phases, Call, Ops
  <2> QED BY <1>11, <2>1, <2>2 DEF Crash, At
<1>12. CASE OwnerActs \/ PanelMoves
  BY <1>12 DEF OwnerActs, PanelMoves, Move, Still, Panel, Apps, At
<1>13. CASE UNCHANGED adbVars
  BY <1>13 DEF adbVars, outside, custody, At
<1> QED
  BY <1>1, <1>2, <1>3, <1>4, <1>5, <1>6, <1>7, <1>8, <1>9, <1>10, <1>11, <1>12,
     <1>13 DEF AdbNext, CallStep

----------------------------------------------------------------------------
(* What a job has on the panel. *)

LEMMA SafeInit == AdbInit => AdbInv
  BY TypeInit DEF AdbInit, AdbInv, AdbTypeOK, CallInv, ProvenInv, ModeInv, CmdInv,
     JobInv, Own, At, Admitted, Pair

\* What the executor makes of the answers.
LEMMA AfterFacts ==
    ASSUME NEW ph, NEW out
    PROVE  /\ \A op \in {"stage", "install", "clean", "launch"} :
                 out \in Ambiguous => After(op, ph, out) = "unknown"
           /\ After("verify", ph, out) = ph
           /\ After("preflight", ph, out) \in {ph, "ready", "over"}
           /\ \A op \in {"stage", "install", "launch"} :
                 After(op, ph, "ok") # "unknown"
           /\ ph \in {"staged", "installed", "refused"} =>
                 After("clean", ph, "ok") # "unknown"
           /\ After("install", ph, "refused") # "unknown"
           /\ After("launch", ph, "refused") # "unknown"
  BY DEF After, AfterStage, AfterLaunch, Ambiguous

\* The phases a call's job is in.
LEMMA WantedFacts ==
    ASSUME AdbTypeOK, CallInv, call # None
    PROVE  /\ call \in Call /\ call.job \in Jobs /\ phase[call.job] # "unknown"
           /\ call.op = "preflight" => phase[call.job] = "new"
           /\ call.op = "verify" => phase[call.job] = "launched"
           /\ call.op = "stage" => phase[call.job] = "ready"
           /\ call.op = "install" => phase[call.job] = "staged"
           /\ call.op = "clean" => phase[call.job] \in {"staged", "installed", "refused"}
           /\ call.op = "launch" => phase[call.job] = "clean"
           /\ call.op \in Ops
           /\ After(call.op, phase[call.job], "ok") # "unknown"
           /\ call.pc \in {"answer", "check"} => call.op \notin {"preflight", "verify"}
<1>1. /\ call \in Call /\ call.job \in Jobs /\ call.op \in Ops
      /\ call.op \in Wanted(call.job) /\ call.pc \in PcsOf(call.op)
  BY DEF AdbTypeOK, CallInv, Call
<1>2. /\ phase[call.job] # "unknown"
      /\ call.op = "preflight" => phase[call.job] = "new"
      /\ call.op = "verify" => phase[call.job] = "launched"
      /\ call.op = "stage" => phase[call.job] = "ready"
      /\ call.op = "install" => phase[call.job] = "staged"
      /\ call.op = "clean" => phase[call.job] \in {"staged", "installed", "refused"}
      /\ call.op = "launch" => phase[call.job] = "clean"
  BY <1>1 DEF Wanted
<1>3. call.pc \in {"answer", "check"} => call.op \notin {"preflight", "verify"}
  BY <1>1 DEF PcsOf
<1> QED BY <1>1, <1>2, <1>3, AfterFacts DEF Ops

\* A step of the call that leaves the panel alone, and does not take back
\* that the call may have changed it.
LEMMA Keeps ==
    ASSUME AdbInv, UNCHANGED <<phase, cmd>>, call # None, call' # None,
           panel'.slot = panel.slot, panel'.app = panel.app,
           call'.job = call.job, call'.op = call.op,
           Acting(call.job) => Acting(call.job)',
           Ended => Ended' /\ call'.out = call.out,
           call.pc \in {"answer", "close"} => call'.pc \in {"answer", "close"},
           ~Ended /\ Ended' /\ call'.out = "ok" =>
               /\ call.op = "stage" => panel.slot = <<call.job, "whole">>
               /\ call.op # "clean"
    PROVE  \A j \in Jobs : CmdInv(j)' /\ JobInv(j)'
<1> SUFFICES ASSUME NEW j \in Jobs PROVE CmdInv(j)' /\ JobInv(j)'
  OBVIOUS
<1>1. CmdInv(j) /\ JobInv(j)
  BY DEF AdbInv
<1>2. /\ Acting(j) => Acting(j)'
      /\ \A op : Own(j, op)' <=> Own(j, op)
  BY DEF Acting, Own
<1>3. \A op : Doing(j, op) => Doing(j, op)'
  BY <1>2 DEF Doing
<1>4. CmdInv(j)'
  BY <1>1, <1>2 DEF CmdInv, Own
<1>5. JobInv(j)'
  BY <1>1, <1>2, <1>3 DEF JobInv, Own
<1> QED BY <1>4, <1>5

\* A call that ends without success.
LEMMA FailKeeps ==
    ASSUME AdbInv, call \in Call, call.pc \in Exchanges \cup {"connect", "open"},
           Failing, UNCHANGED <<outside, phase, cmd, mode>>
    PROVE  /\ CallInv' /\ ProvenInv' /\ ModeInv'
           /\ \A j \in Jobs : CmdInv(j)' /\ JobInv(j)'
<1>1. PICK out \in Outs \ {"ok"} :
        /\ call.pc \in {"answer", "check"} => out \in Ambiguous
        /\ Out(out)
  BY DEF Failing
<1>2. /\ call' \in Call /\ call' # None /\ call'.pc = "close" /\ call'.op = call.op
      /\ call'.job = call.job /\ call'.out = out
  BY <1>1, OutCall
<1>3. call # None /\ CallInv /\ AdbTypeOK /\ ModeInv
  BY DEF AdbInv
<1>4. ~Ended
  BY DEF Ended, Exchanges
<1>5. Acting(call.job) => Acting(call.job)'
  <2> SUFFICES ASSUME Acting(call.job) PROVE Acting(call.job)'
    OBVIOUS
  <2>1. call.pc \in {"answer", "check"}
    BY <1>4 DEF Acting
  <2>2. call.op \in {"stage", "install", "clean", "launch"}
    BY <1>3, <2>1, WantedFacts DEF Ops
  <2>3. After(call.op, phase[call.job], out) = "unknown"
    BY <1>1, <2>1, <2>2, AfterFacts
  <2> QED BY <1>2, <2>3 DEF Acting, Ended
<1>6. CallInv'
  BY <1>2, <1>3 DEF CallInv, Wanted, PcsOf, Ended
<1>7. ProvenInv' /\ ModeInv'
  BY <1>1, <1>2, <1>3 DEF ProvenInv, ModeInv, At, Ended
<1>8. \A j \in Jobs : CmdInv(j)' /\ JobInv(j)'
  BY <1>1, <1>2, <1>3, <1>4, <1>5, Keeps DEF outside
<1> QED BY <1>6, <1>7, <1>8

\* A call that goes on to the next step of its operation.
LEMMA OnwardKeeps ==
    ASSUME AdbInv, call \in Call,
           call.pc \in (Exchanges \cup {"connect"}) \ {"answer"},
           Go(Following(call.op, call.pc)),
           call.pc = "check" => panel.slot = <<call.job, "whole">>,
           UNCHANGED <<outside, phase, cmd>>
    PROVE  /\ CallInv'
           /\ \A j \in Jobs : CmdInv(j)' /\ JobInv(j)'
<1> DEFINE next == Following(call.op, call.pc)
<1>1. call # None /\ CallInv /\ AdbTypeOK
  BY DEF AdbInv
<1>2. /\ next \in PcsOf(call.op) \ {"open", "returned", "connect", "answer", "check"}
      /\ next \in Exchanges \cup {"send", "close"}
  BY <1>1, FollowingPcs DEF CallInv
<1>3. /\ call' \in Call /\ call' # None /\ call'.pc = next /\ call'.op = call.op
      /\ call'.job = call.job /\ call'.out = call.out
  BY <1>2, GoCall DEF Exchanges, Pcs
<1>4. ~Ended /\ call.out = "ok"
  BY <1>1 DEF Ended, Exchanges, CallInv
<1>5. call.pc = "check" => call.op = "stage" /\ next = "close"
  <2>1. call.op \in Ops
    BY <1>1, WantedFacts DEF Call
  <2>2. call.pc = "check" => call.op = "stage"
    BY <1>1, <2>1 DEF CallInv, PcsOf, Ops
  <2> QED BY <2>2, StepsOf
<1>6. Acting(call.job) => cmd[call.job] = None
  BY <1>1, <1>4 DEF Acting, CallInv, Exchanges
<1>7. CallInv'
  BY <1>1, <1>2, <1>3, <1>4 DEF CallInv, Wanted, Ended, outside
<1>8. next = "close" => call.op \in {"preflight", "verify", "stage"}
                        /\ (call.op = "stage" => call.pc = "check")
  BY <1>1, StepsOf, WantedFacts DEF CallInv, PcsOf, Ops, Exchanges
<1>9. ASSUME NEW j \in Jobs PROVE CmdInv(j)' /\ JobInv(j)'
  <2>1. CmdInv(j) /\ JobInv(j)
    BY DEF AdbInv
  <2>2. /\ \A op : Own(j, op)' <=> Own(j, op)
        /\ Acting(j) => cmd[j] = None
    BY <1>1, <1>3, <1>6 DEF Own, Acting
  <2>3. CmdInv(j)'
    BY <2>1, <2>2, <1>4 DEF CmdInv, outside, Own, Exchanges
  <2>4. \A op : Doing(j, op) => Doing(j, op)'
    BY <1>3, <1>4, <1>5, <2>2 DEF Doing, Acting, Own, Ended
  <2>5. /\ (Own(j, "stage") /\ Ended /\ call.out = "ok")' => panel.slot = <<j, "whole">>
        /\ ~(Own(j, "clean") /\ Ended /\ call.out = "ok")'
    BY <1>2, <1>3, <1>8, <2>2 DEF Own, Ended
  <2>6. JobInv(j)'
    BY <2>1, <2>2, <2>4, <2>5 DEF JobInv, outside
  <2> QED BY <2>3, <2>6
<1> QED BY <1>7, <1>9

\* What it takes to prove anything of the panel.
LEMMA ProofFacts ==
    ASSUME NEW p, NEW want, "ok" \in Posture(p, want) \/ "ok" \in Admission(p, want)
    PROVE  host = "ours" /\ want \in {None, p.root}
  BY DEF Posture, Admission, RootMode, SuProof, SameTarget

\* The proofs on the connection, one after the other.
LEMMA ProofsKeep ==
    ASSUME AdbInv,
           Admit \/ ProvePosture \/ Vacant \/ Artifact \/ Check \/ Package \/ Connect
    PROVE  /\ CallInv' /\ ProvenInv' /\ ModeInv'
           /\ \A j \in Jobs : CmdInv(j)' /\ JobInv(j)'
<1>1. PICK pc : At(pc)
  BY DEF Admit, ProvePosture, Vacant, Artifact, Check, Package, Connect, Asks
<1>2. /\ Proceeds /\ AdbTypeOK /\ CallInv /\ ProvenInv /\ ModeInv /\ call # None
  BY <1>1, Proceeding DEF AdbInv, At
<1>3. CASE Failing /\ UNCHANGED <<link, mode>>
  BY <1>2, <1>3, FailKeeps DEF Proceeds
<1>4. CASE Go(Following(call.op, call.pc)) /\ link' = "up"
  <2> DEFINE next == Following(call.op, call.pc)
  <2>1. /\ next \in PcsOf(call.op) \ {"open", "returned", "connect", "answer", "check"}
        /\ next \in Exchanges \cup {"send", "close"}
    BY <1>2, FollowingPcs DEF Proceeds, CallInv
  <2>2. /\ call' \in Call /\ call' # None /\ call'.pc = next /\ call'.op = call.op
        /\ call'.job = call.job /\ call'.out = call.out
    BY <1>2, <1>4, <2>1, GoCall DEF Proceeds, Exchanges, Pcs
  <2>3. call.out = "ok" /\ call.pc \in PcsOf(call.op) /\ call.op \in Ops
        /\ call.job \in Jobs /\ UNCHANGED <<panel, host, cmd, phase>>
    BY <1>2 DEF Proceeds, CallInv, Ended, Exchanges, Call, outside
  <2>4. call.op # "preflight" => mode[call.job] # None
    BY <1>2, WantedFacts DEF ModeInv, Admitted, Ops
  <2>5. ASSUME NEW out \in Outs \ {"ok"}, Out(out) PROVE FALSE
    BY <1>2, <2>2, <2>3, <2>5, OutCall DEF Proceeds
  <2>6. call.pc = "check" => panel.slot = <<call.job, "whole">>
    BY <1>1, <1>2, <2>5 DEF Admit, ProvePosture, Vacant, Artifact, Check, Package,
       Connect, Asks, At, Verified, Proved, Outs
  <2>7. CallInv' /\ \A j \in Jobs : CmdInv(j)' /\ JobInv(j)'
    BY <1>2, <1>4, <2>6, OnwardKeeps DEF Proceeds
  <2>8. CASE Connect
    <3>1. next \in {"admit", "posture"} /\ mode' = mode
      BY <2>3, <2>8, StepsOf DEF Connect, At, Ops, PcsOf, Still
    <3> QED BY <1>2, <2>2, <2>3, <2>7, <3>1 DEF ProvenInv, ModeInv, At, Ended
  <2>9. CASE Vacant
    <3>1. /\ next = "send" /\ mode' = mode /\ call.op = "stage" /\ panel.slot = None
          /\ call.pc = "vacant" /\ link = "up"
      BY <2>3, <2>5, <2>9, StepsOf DEF Vacant, Asks, At, Ops, PcsOf, Quiet, Still, Outs
    <3> QED BY <1>2, <2>2, <2>3, <2>7, <3>1 DEF ProvenInv, ModeInv, At, Ended
  <2>10. CASE Artifact \/ Package \/ Check
    <3>1. /\ next \in {"send", "close"} /\ mode' = mode /\ call.op \notin {"preflight"}
          /\ next = "send" => call.pc \in {"artifact", "package"} /\ call.op # "stage"
          /\ link = "up"
      BY <2>3, <2>10, StepsOf DEF Artifact, Package, Check, Asks, At, Ops, PcsOf, Quiet, Still
    <3> QED BY <1>2, <2>2, <2>3, <2>7, <3>1 DEF ProvenInv, ModeInv, At, Ended
  <2>11. CASE ProvePosture
    <3>1. PICK verdict \in Posture(panel, mode[call.job]) : Proved("posture", verdict)
      BY <2>11 DEF ProvePosture
    <3>2. verdict = "ok"
      BY <2>5, <3>1 DEF Proved, Posture, RootMode, SuProof, Outs
    <3>3. /\ next \in {"send", "package"} /\ mode' = mode
          /\ call.op \notin {"preflight", "stage"}
      BY <2>3, <2>11, StepsOf DEF ProvePosture, Asks, At, Ops, PcsOf, Quiet, Still
    <3>4. host = "ours" /\ panel.root = mode[call.job]
      BY <2>4, <3>1, <3>2, <3>3, ProofFacts
    <3> QED BY <1>2, <2>2, <2>3, <2>7, <3>3, <3>4 DEF ProvenInv, ModeInv, At, Ended
  <2>12. CASE Admit
    <3>1. PICK verdict \in Admission(panel, mode[call.job]) :
            /\ Proved("admit", verdict)
            /\ mode' = IF call.op = "preflight" /\ verdict = "ok"
                       THEN [mode EXCEPT ![call.job] = panel.root] ELSE mode
      BY <2>12 DEF Admit
    <3>2. verdict = "ok"
      BY <2>5, <3>1 DEF Proved, Admission, RootMode, SuProof, Outs
    <3>3. /\ call.op = "preflight" => next = "close"
          /\ next \in {"close", "vacant", "artifact"}
          /\ next = "close" => call.op = "preflight"
      BY <2>3, <2>12, StepsOf DEF Admit, Asks, At, Ops, PcsOf
    <3>4. call.op # "preflight" => host = "ours" /\ panel.root = mode[call.job]
      BY <2>4, <3>1, <3>2, ProofFacts
    <3>5. panel.root # None /\ mode \in [Jobs -> Roots \cup {None}]
      BY <1>2 DEF AdbTypeOK, Panel
    <3>6. \A j \in Jobs : mode'[j] = IF j = call.job /\ call.op = "preflight"
                                     THEN panel.root ELSE mode[j]
      BY <2>3, <3>1, <3>2, <3>5
    <3>7. ProvenInv'
      BY <2>2, <2>3, <3>3, <3>4, <3>6 DEF ProvenInv, At
    <3>8. ModeInv'
      BY <1>2, <2>2, <2>3, <3>3, <3>5, <3>6 DEF ModeInv, Ended
    <3> QED BY <2>7, <3>7, <3>8
  <2> QED BY <2>8, <2>9, <2>10, <2>11, <2>12
<1> QED BY <1>2, <1>3, <1>4 DEF Proceeds

\* A step that touches no command, no job and nothing a call knows of itself.
LEMMA AsideKeeps ==
    ASSUME AdbInv, UNCHANGED <<phase, cmd, mode>>,
           panel'.slot = panel.slot, \A j \in Jobs : panel'.app = j => panel.app = j,
           call # None => call' # None /\ call'.job = call.job /\ call'.op = call.op
                          /\ call'.pc = call.pc /\ call'.out = call.out,
           call = None => call' = None,
           link' # link => link' # "up",
           link' = "up" => host' = host /\ panel'.root = panel.root
    PROVE  /\ CallInv' /\ ProvenInv' /\ ModeInv'
           /\ \A j \in Jobs : CmdInv(j)' /\ JobInv(j)'
<1>1. CallInv /\ ProvenInv /\ ModeInv
  BY DEF AdbInv
<1>2. CallInv' /\ ProvenInv' /\ ModeInv'
  BY <1>1 DEF CallInv, ProvenInv, ModeInv, Wanted, Ended, At
<1>3. ASSUME NEW j \in Jobs PROVE CmdInv(j)' /\ JobInv(j)'
  <2>1. CmdInv(j) /\ JobInv(j)
    BY DEF AdbInv
  <2>2. (Acting(j)' <=> Acting(j)) /\ (Ended' <=> Ended \/ (call = None /\ Ended'))
        /\ \A op : Own(j, op)' <=> Own(j, op)
    BY DEF Acting, Ended, Own
  <2>3. \A op : Doing(j, op)' <=> Doing(j, op)
    BY <2>2 DEF Doing, Own, Ended
  <2>4. CmdInv(j)'
    BY <2>1, <2>2 DEF CmdInv, Own, Acting
  <2>5. JobInv(j)'
    BY <2>1, <2>2, <2>3 DEF JobInv, Own, Ended
  <2> QED BY <2>4, <2>5
<1> QED BY <1>2, <1>3

LEMMA ApkKeeps ==
    ASSUME AdbInv, OpenApk \/ TakeApk \/ Interrupted \/ OwnerActs \/ PanelMoves
    PROVE  /\ CallInv' /\ ProvenInv' /\ ModeInv'
           /\ \A j \in Jobs : CmdInv(j)' /\ JobInv(j)'
<1>1. AdbTypeOK /\ CallInv /\ ProvenInv /\ ModeInv
  BY DEF AdbInv
<1>2. CASE OpenApk
  BY <1>2, AsideKeeps DEF OpenApk, Still, outside
<1>3. CASE OwnerActs \/ PanelMoves
  <2>1. panel \in Panel
    BY <1>1 DEF AdbTypeOK
  <2>2. /\ panel'.slot = panel.slot /\ \A j \in Jobs : panel'.app = j => panel.app = j
        /\ UNCHANGED <<phase, cmd, mode, call>>
    BY <1>3, <2>1 DEF OwnerActs, PanelMoves, Move, Still, Panel
  <2>3. link' # link => link' # "up"
    BY <1>3 DEF OwnerActs, PanelMoves
  <2>4. link' = "up" => host' = host /\ panel'.root = panel.root
    BY <1>3, <2>1 DEF OwnerActs, PanelMoves, Move, Panel
  <2> QED BY <2>2, <2>3, <2>4, AsideKeeps
<1>4. CASE Interrupted
  <2>1. CASE Failing /\ call.pc \in Exchanges \cup {"connect"}
    BY <1>4, <2>1, FailKeeps DEF Interrupted, Quiet, Still
  <2>2. CASE \E cut \in {"timeout", "cancel"} : call' = [call EXCEPT !.cut = cut]
    <3>1. /\ call # None /\ call' # None /\ call'.job = call.job /\ call'.op = call.op
          /\ call'.pc = call.pc /\ call'.out = call.out
      BY <1>4, <2>2 DEF Interrupted, Call
    <3> QED BY <1>4, <3>1, AsideKeeps DEF Interrupted, Quiet, Still, outside, custody
  <2> QED BY <1>4, <2>1, <2>2 DEF Interrupted
<1>5. CASE TakeApk
  <2>1. call \in Call /\ call.op = "stage" /\ call.pc = "open" /\ call # None
    BY <1>1, <1>5 DEF TakeApk, At, CallInv, PcsOf, Call, Ops, AdbTypeOK
  <2>2. \/ Failing
        \/ Go("connect")
    BY <1>5, <2>1 DEF TakeApk, Failing, Outs, Call
  <2>3. CASE Failing
    BY <1>5, <2>1, <2>3, FailKeeps DEF TakeApk, Still
  <2>4. CASE Go("connect")
    <3>1. /\ call' # None /\ call'.pc = "connect" /\ call'.op = call.op
          /\ call'.job = call.job /\ call'.out = call.out
      BY <2>1, <2>4, GoCall DEF Pcs
    <3>2. UNCHANGED <<panel, host, phase, cmd, mode, link>>
      BY <1>5 DEF TakeApk, Still, outside
    <3>3. CallInv' /\ ProvenInv' /\ ModeInv'
      BY <1>1, <2>1, <3>1, <3>2 DEF CallInv, ProvenInv, ModeInv, At, Ended, Wanted, PcsOf
    <3>4. \A j \in Jobs : CmdInv(j)' /\ JobInv(j)'
      BY <2>1, <3>1, <3>2, Keeps DEF Acting, Ended
    <3> QED BY <3>3, <3>4
  <2> QED BY <2>2, <2>3, <2>4
<1> QED BY <1>2, <1>3, <1>4, <1>5

----------------------------------------------------------------------------
(* The command. *)

LEMMA SendKeeps ==
    ASSUME AdbInv, Send
    PROVE  /\ CallInv' /\ ProvenInv' /\ ModeInv'
           /\ \A j \in Jobs : CmdInv(j)' /\ JobInv(j)'
<1>1. /\ AdbTypeOK /\ CallInv /\ ProvenInv /\ ModeInv /\ call # None
      /\ call.pc = "send" /\ call.out = "ok"
      /\ UNCHANGED <<panel, host, phase, mode, link>>
  BY DEF AdbInv, Send, At, outside, custody, Still, CallInv, Ended
<1>2. /\ call' # None /\ call'.pc = "answer" /\ call'.op = call.op
      /\ call'.job = call.job /\ call'.out = call.out
      /\ call \in Call /\ call.job \in Jobs
  BY <1>1, GoCall DEF Send, Pcs, AdbTypeOK, Call
<1>3. call.op \in {"stage", "install", "launch", "clean"}
  BY <1>1, <1>2, WantedFacts DEF CallInv, PcsOf, Ops
<1>4. ~Acting(call.job) /\ \A op : ~Doing(call.job, op)
  BY <1>1 DEF Acting, Doing, Ended
<1>5. cmd[call.job] = None
  BY <1>1, <1>2, <1>4, WantedFacts DEF AdbInv, CmdInv
<1>6. \/ link = "up" /\ cmd' = [cmd EXCEPT ![call.job] = [op |-> call.op, state |-> "sent"]]
      \/ link # "up" /\ cmd' = cmd
  BY DEF Send
<1>7. CallInv'
  BY <1>1, <1>2, <1>3, <1>5, <1>6, WantedFacts
     DEF CallInv, Wanted, PcsOf, Ended, AdbTypeOK, Command
<1>8. ProvenInv' /\ ModeInv'
  BY <1>1, <1>2 DEF ProvenInv, ModeInv, At, Ended
<1>9. ASSUME NEW j \in Jobs, j # call.job PROVE CmdInv(j)' /\ JobInv(j)'
  <2>1. CmdInv(j) /\ JobInv(j) /\ cmd'[j] = cmd[j]
    BY <1>1, <1>2, <1>6, <1>9 DEF AdbInv, AdbTypeOK
  <2>2. /\ ~Acting(j) /\ ~Acting(j)' /\ \A op : ~Own(j, op) /\ ~Own(j, op)'
    BY <1>2, <1>9 DEF Acting, Own
  <2> QED BY <1>1, <2>1, <2>2 DEF CmdInv, JobInv, Doing
<1>10. CmdInv(call.job)' /\ JobInv(call.job)'
  <2> DEFINE j == call.job
  <2>1. JobInv(j)
    BY <1>2 DEF AdbInv
  <2>2. /\ call.op = "stage" => panel.slot = None
        /\ call.op \in {"install", "clean"} => panel.slot = <<j, "whole">>
        /\ call.op = "install" => panel.app # j
    BY <1>1, <1>2, <1>4, <2>1, WantedFacts DEF ProvenInv, At, JobInv
  <2>3. cmd'[j] # None => cmd'[j] = [op |-> call.op, state |-> "sent"]
    BY <1>1, <1>2, <1>5, <1>6 DEF AdbTypeOK
  <2>4. Acting(j)' /\ Own(j, call.op)'
    BY <1>2 DEF Acting, Own
  <2>5. CmdInv(j)'
    BY <1>1, <1>2, <2>2, <2>3, <2>4 DEF CmdInv
  <2>6. JobInv(j)'
    BY <1>1, <1>2, <1>4, <2>1 DEF JobInv, Own, Ended
  <2> QED BY <1>2, <2>5, <2>6
<1> QED BY <1>2, <1>7, <1>8, <1>9, <1>10

LEMMA AnswerKeeps ==
    ASSUME AdbInv, Answer
    PROVE  /\ CallInv' /\ ProvenInv' /\ ModeInv'
           /\ \A j \in Jobs : CmdInv(j)' /\ JobInv(j)'
<1>0. PICK j \in Jobs : j = call.job
  BY DEF AdbInv, AdbTypeOK, Answer, Asks, At, Call
<1>a. PICK state : state = cmd[j].state
  OBVIOUS
<1> DEFINE verdict == Definite(state)
<1>1. /\ AdbTypeOK /\ CallInv /\ ModeInv /\ call # None /\ call \in Call
      /\ call.pc = "answer" /\ call.out = "ok" /\ j = call.job /\ link = "up"
      /\ UNCHANGED <<panel, host, phase, mode, link>>
  BY <1>0 DEF AdbInv, AdbTypeOK, Answer, Asks, At, outside, custody, Still, CallInv, Ended,
     Call
<1>2. /\ CmdInv(j) /\ JobInv(j) /\ cmd[j] \in Command /\ state # "sent"
      /\ cmd[j].op = call.op
  <2>1. CmdInv(j) /\ JobInv(j) /\ cmd[j] # None
    BY <1>1 DEF AdbInv, CallInv
  <2> QED BY <1>a, <1>1, <2>1, WantedFacts DEF AdbTypeOK, Answer, CmdInv
<1>3. call.op \in {"stage", "install", "launch", "clean"}
  BY <1>1, WantedFacts DEF CallInv, PcsOf, Ops
<1>4. /\ cmd'[j] = None /\ \A k \in Jobs \ {j} : cmd'[k] = cmd[k]
  BY <1>1, <1>a DEF Answer, AdbTypeOK
<1>5. Acting(j) /\ \A k \in Jobs \ {j} : ~Acting(k) /\ \A op : ~Own(k, op)
  BY <1>1 DEF Acting, Own
<1>6. CASE call.op = "stage" /\ verdict = "ok"
  <2>1. /\ call' # None /\ call'.pc = "check" /\ call'.op = call.op
        /\ call'.job = j /\ call'.out = "ok"
    BY <1>1, <1>6, <1>a, GoCall DEF Answer, Pcs
  <2>2. CallInv' /\ ProvenInv' /\ ModeInv'
    BY <1>1, <1>4, <1>6, <2>1 DEF CallInv, ProvenInv, ModeInv, At, Ended, Wanted, PcsOf
  <2>3. Doing(j, "stage")' /\ Acting(j)'
    BY <1>6, <2>1 DEF Doing, Acting, Own
  <2>4. CmdInv(j)' /\ JobInv(j)'
    BY <1>1, <1>2, <1>4, <1>6, <2>1, <2>3, WantedFacts DEF CmdInv, JobInv, Own, Ended, Doing
  <2>5. \A k \in Jobs \ {j} : CmdInv(k)' /\ JobInv(k)'
    BY <1>1, <1>4, <1>5, <2>1 DEF AdbInv, CmdInv, JobInv, Own, Acting, Doing
  <2> QED BY <1>1, <2>2, <2>4, <2>5
<1>7. CASE ~(call.op = "stage" /\ verdict = "ok")
  <2>1. /\ call' # None /\ call'.pc = "close" /\ call'.op = call.op
        /\ call'.job = j /\ call'.out = verdict
    BY <1>1, <1>7, <1>a, OutCall DEF Answer, Definite, Outs
  <2>2. verdict \in {"ok", "refused", "ambiguous"}
    BY DEF Definite
  <2>3. CallInv' /\ ProvenInv' /\ ModeInv'
    BY <1>1, <1>3, <1>4, <2>1 DEF CallInv, ProvenInv, ModeInv, At, Ended, Wanted, PcsOf
  <2>4. verdict = "ambiguous" => Acting(j)'
    BY <1>1, <1>3, <2>1, AfterFacts DEF Acting, Ended, Ambiguous
  <2>5. Own(j, call.op)' /\ Ended' /\ \A op : op # call.op => ~Own(j, op)'
    BY <2>1 DEF Own, Ended
  <2>6. verdict \in {"ok", "ambiguous"} => Doing(j, call.op)'
    BY <2>1, <2>4, <2>5 DEF Doing
  <2>7. verdict = "ok" <=> state = "done"
    BY DEF Definite
  <2>8. verdict = "refused" <=> state = "refused"
    BY DEF Definite
  <2>9. CmdInv(j)'
    BY <1>4 DEF CmdInv
  <2>10. JobInv(j)'
    <3>1. CASE call.op = "stage"
      <4>1. state # "refused"
        BY <1>a, <1>2, <3>1 DEF CmdInv
      <4> QED BY <1>1, <1>2, <1>7, <2>1, <2>2, <2>5, <2>6, <2>8, <3>1, <4>1, WantedFacts DEF JobInv
    <3>2. CASE call.op = "install"
      <4>1. state = "refused" => panel.app # j
        BY <1>a, <1>2, <3>2 DEF CmdInv
      <4>2. ~Doing(j, "clean")
        BY <3>2 DEF Doing, Own
      <4> QED BY <1>1, <1>2, <2>2, <2>5, <2>6, <2>8, <3>2, <4>1, <4>2, WantedFacts DEF JobInv
    <3>3. CASE call.op = "clean"
      <4>1. state = "done" => panel.slot \notin Pair(j)
        BY <1>a, <1>2, <3>3 DEF CmdInv
      <4>2. ~Doing(j, "install")
        BY <3>3 DEF Doing, Own
      <4>3. verdict = "refused" => Doing(j, "clean")'
        BY <1>1, <2>1, <2>5, <3>3 DEF Doing, Acting, Ended, After
      <4> QED BY <1>1, <1>2, <2>1, <2>2, <2>5, <2>6, <2>7, <3>3, <4>1, <4>2, <4>3, WantedFacts
         DEF JobInv
    <3>4. CASE call.op = "launch"
      BY <1>1, <1>2, <2>5, <3>4, WantedFacts DEF JobInv
    <3> QED BY <1>3, <3>1, <3>2, <3>3, <3>4
  <2>11. \A k \in Jobs \ {j} : CmdInv(k)' /\ JobInv(k)'
    BY <1>1, <1>4, <1>5, <2>1 DEF AdbInv, CmdInv, JobInv, Own, Acting, Doing
  <2> QED BY <1>1, <2>3, <2>9, <2>10, <2>11
<1> QED BY <1>6, <1>7

\* A transfer that is cut off: its job is the one whose file is in the slot,
\* and is not what it was.
LEMMA CutOff ==
    ASSUME AdbInv, NEW j \in Jobs, BrokenOff(j)
    PROVE  /\ panel' \in Panel /\ panel'.app = panel.app /\ panel'.root = panel.root
           /\ \A k \in Jobs \ {j} : cmd'[k] = cmd[k]
           /\ \/ cmd'[j] = cmd[j] /\ panel' = panel
                 /\ (cmd[j] # None => cmd[j].op # "stage" \/ cmd[j].state # "sent")
              \/ /\ cmd'[j] = None /\ panel.slot = None
                 /\ panel'.slot \in Pair(j) \cup {None}
                 /\ Own(j, "stage") /\ Acting(j)
<1>1. /\ panel \in Panel /\ cmd \in [Jobs -> Command \cup {None}] /\ CmdInv(j)
      /\ AdbTypeOK /\ CallInv
  BY DEF AdbInv, AdbTypeOK
<1>2. CASE cmd[j] # None /\ cmd[j].op = "stage" /\ cmd[j].state = "sent"
  <2>1. /\ panel.slot = None /\ Own(j, "stage") /\ Acting(j)
    BY <1>1, <1>2, WantedFacts DEF CmdInv, Own
  <2>2. PICK slot \in {panel.slot, <<j, "part">>, <<j, "whole">>} :
          /\ panel' = [panel EXCEPT !.slot = slot]
          /\ cmd' = [cmd EXCEPT ![j] = None]
    BY <1>2 DEF BrokenOff
  <2> QED BY <1>1, <2>1, <2>2 DEF Panel, Slots, Pair
<1>3. CASE ~(cmd[j] # None /\ cmd[j].op = "stage" /\ cmd[j].state = "sent")
  BY <1>1, <1>3 DEF BrokenOff
<1> QED BY <1>2, <1>3

\* What happens to the slot on behalf of one job does not concern another.
LEMMA OthersKeep ==
    ASSUME AdbInv, NEW i \in Jobs, NEW k \in Jobs, i # k,
           cmd'[k] = cmd[k], phase'[k] = phase[k],
           \/ panel'.slot = panel.slot
           \/ /\ {panel.slot, panel'.slot} \subseteq {None} \cup Pair(i)
              /\ ~Own(k, "stage"),
           panel'.app = k => panel.app = k,
           Acting(k)' <=> Acting(k),
           \A op : Own(k, op)' <=> Own(k, op),
           \A op : Own(k, op) => call'.pc = call.pc /\ call'.out = call.out
                                 /\ call'.op = call.op
    PROVE  CmdInv(k)' /\ JobInv(k)'
<1>1. CmdInv(k) /\ JobInv(k)
  BY DEF AdbInv
<1>2. \A op : Doing(k, op)' <=> Doing(k, op)
  BY DEF Doing, Ended
<1>3. Acting(k) => call'.op = call.op
  BY DEF Acting, Own
<1>4. CASE panel'.slot = panel.slot
  <2>1. CmdInv(k)'
    BY <1>1, <1>3, <1>4 DEF CmdInv
  <2>2. JobInv(k)'
    BY <1>1, <1>2, <1>4 DEF JobInv, Ended
  <2> QED BY <2>1, <2>2
<1>5. CASE /\ {panel.slot, panel'.slot} \subseteq {None} \cup Pair(i)
           /\ ~Own(k, "stage")
  <2>1. /\ panel.slot # <<k, "whole">> /\ panel.slot \notin Pair(k)
        /\ panel'.slot \notin Pair(k)
    BY <1>5 DEF Pair
  <2>2. CmdInv(k)'
    BY <1>1, <1>3, <1>5, <2>1 DEF CmdInv
  <2>3. JobInv(k)'
    BY <1>1, <1>2, <1>5, <2>1 DEF JobInv, Ended
  <2> QED BY <2>2, <2>3
<1> QED BY <1>4, <1>5

LEMMA CloseKeeps ==
    ASSUME AdbInv, Close
    PROVE  /\ CallInv' /\ ProvenInv' /\ ModeInv'
           /\ \A j \in Jobs : CmdInv(j)' /\ JobInv(j)'
<1>1. PICK j \in Jobs : j = call.job
  BY DEF AdbInv, AdbTypeOK, Close, At, Call
<1>2. /\ AdbTypeOK /\ CallInv /\ ModeInv /\ call # None /\ call \in Call
      /\ call.pc = "close" /\ CmdInv(j) /\ JobInv(j)
      /\ UNCHANGED <<phase, mode>>
  BY DEF AdbInv, AdbTypeOK, Close, At, Still
<1>3. /\ call' # None /\ call'.pc = "returned" /\ call'.op = call.op /\ call'.job = j
      /\ call'.out = call.out \/ call'.out = "cancelled"
      /\ Ended /\ Ended'
  <2>1. call' = [call EXCEPT !.pc = "returned",
                             !.out = IF call.cut = "cancel" THEN "cancelled" ELSE @]
    BY DEF Close
  <2>2. /\ call' \in Call /\ call'.pc = "returned" /\ call'.op = call.op
        /\ call'.job = call.job
        /\ call'.out = IF call.cut = "cancel" THEN "cancelled" ELSE call.out
    BY <1>2, <2>1 DEF Call, Pcs, Outs
  <2> QED BY <1>1, <1>2, <2>2 DEF Ended
<1>4. CallInv' /\ ProvenInv' /\ ModeInv'
  BY <1>1, <1>2, <1>3 DEF CallInv, ProvenInv, ModeInv, At, Ended, Wanted, PcsOf
<1>5. /\ panel' \in Panel /\ panel'.app = panel.app /\ panel'.root = panel.root
      /\ \A k \in Jobs \ {j} : cmd'[k] = cmd[k]
      /\ \/ cmd'[j] = cmd[j] /\ panel' = panel
            /\ (cmd[j] # None => cmd[j].op # "stage" \/ cmd[j].state # "sent")
         \/ /\ cmd'[j] = None /\ panel.slot = None
            /\ panel'.slot \in Pair(j) \cup {None}
            /\ Own(j, "stage") /\ Acting(j)
  BY <1>1, CutOff DEF Close
<1>6. /\ \A op : Own(j, op)' <=> Own(j, op)
      /\ \A k \in Jobs \ {j} : /\ ~Acting(k) /\ ~Acting(k)'
                               /\ \A op : ~Own(k, op) /\ ~Own(k, op)'
  BY <1>1, <1>2, <1>3 DEF Own, Acting
<1>7. call'.out = "cancelled" /\ call.op \notin {"preflight", "verify"} => Acting(j)'
  BY <1>1, <1>2, <1>3, WantedFacts, AfterFacts DEF Acting, Ambiguous, Ops
<1>8. Acting(j) => Acting(j)'
  <2>1. Acting(j) => call.op \notin {"preflight", "verify"}
    <3>1. /\ After("verify", phase[j], call.out) = phase[j]
          /\ After("preflight", phase[j], call.out) \in {phase[j], "ready", "over"}
      BY AfterFacts
    <3> QED BY <1>1, <1>2, <3>1, WantedFacts DEF Acting
  <2> QED BY <1>1, <1>2, <1>3, <1>7, <2>1 DEF Acting, Ended
<1>9. \A op \in {"stage", "install", "clean"} : Doing(j, op) => Doing(j, op)'
  BY <1>3, <1>6, <1>7, <1>8 DEF Doing, Own
<1>10. \A k \in Jobs \ {j} : CmdInv(k)' /\ JobInv(k)'
  <2> SUFFICES ASSUME NEW k \in Jobs, k # j PROVE CmdInv(k)' /\ JobInv(k)'
    OBVIOUS
  <2> QED BY <1>1, <1>2, <1>5, <1>6, OthersKeep
<1>11. CmdInv(j)'
  BY <1>1, <1>2, <1>3, <1>5, <1>8 DEF CmdInv
<1>12. JobInv(j)'
  <2>1. CASE panel' = panel
    BY <1>1, <1>2, <1>3, <1>6, <1>9, <2>1 DEF JobInv, Own
  <2>2. CASE Own(j, "stage") /\ Acting(j)
    <3>1. Doing(j, "stage")' /\ ~Own(j, "clean")' /\ call'.out # "ok"
      BY <1>1, <1>2, <1>3, <1>6, <1>8, <2>2, WantedFacts DEF Doing, Acting, Own
    <3> QED BY <1>1, <1>2, <1>5, <2>2, <3>1, WantedFacts DEF JobInv, Own
  <2> QED BY <1>5, <2>1, <2>2
<1> QED BY <1>4, <1>10, <1>11, <1>12

LEMMA ReturnKeeps ==
    ASSUME AdbInv, Return
    PROVE  /\ CallInv' /\ ProvenInv' /\ ModeInv'
           /\ \A j \in Jobs : CmdInv(j)' /\ JobInv(j)'
<1>1. PICK j \in Jobs : j = call.job
  BY DEF AdbInv, AdbTypeOK, Return, At, Call
<1>2. /\ AdbTypeOK /\ CallInv /\ ModeInv /\ call # None /\ call \in Call
      /\ call.pc = "returned" /\ CmdInv(j) /\ JobInv(j) /\ Ended
      /\ UNCHANGED <<panel, cmd, mode>> /\ call' = None
  BY DEF AdbInv, AdbTypeOK, Return, At, outside, Ended
<1>3. /\ phase'[j] = After(call.op, phase[j], call.out)
      /\ \A k \in Jobs \ {j} : phase'[k] = phase[k]
  BY <1>1, <1>2 DEF Return, AdbTypeOK
<1>4. CallInv' /\ ProvenInv'
  BY <1>2 DEF CallInv, ProvenInv, At
<1>5. \A k \in Jobs : \A op : ~Own(k, op)' /\ ~Acting(k)' /\ ~Doing(k, op)'
  BY <1>2 DEF Own, Acting, Doing
<1>6. \A k \in Jobs \ {j} : ~Acting(k) /\ \A op : ~Own(k, op) /\ ~Doing(k, op)
  BY <1>1 DEF Own, Acting, Doing
<1>7. \A k \in Jobs \ {j} : CmdInv(k)' /\ JobInv(k)'
  <2> SUFFICES ASSUME NEW k \in Jobs, k # j PROVE CmdInv(k)' /\ JobInv(k)'
    OBVIOUS
  <2> QED BY <1>1, <1>2, <1>3, <1>5, <1>6, OthersKeep
<1>8. CmdInv(j)'
  BY <1>1, <1>2, <1>3, WantedFacts DEF CmdInv, Acting
<1>9. Acting(j) <=> phase'[j] = "unknown"
  BY <1>1, <1>2, <1>3 DEF Acting
<1>10. ModeInv' /\ JobInv(j)'
  <2> USE <1>1, <1>2, <1>3, <1>5, WantedFacts
  <2>1. CASE call.op = "preflight"
    BY <2>1 DEF After, ModeInv, JobInv, Admitted
  <2>2. CASE call.op = "verify"
    BY <2>2 DEF After, ModeInv, JobInv, Admitted
  <2>3. CASE call.op = "stage"
    BY <1>9, <2>3 DEF After, AfterStage, ModeInv, JobInv, Admitted, Own, Doing
  <2>4. CASE call.op = "install"
    BY <1>9, <2>4 DEF After, ModeInv, JobInv, Admitted, Own, Doing
  <2>5. CASE call.op = "clean"
    BY <1>9, <2>5 DEF After, ModeInv, JobInv, Admitted, Own, Doing
  <2>6. CASE call.op = "launch"
    BY <1>9, <2>6 DEF After, AfterLaunch, ModeInv, JobInv, Admitted, Own, Doing
  <2> QED BY <2>1, <2>2, <2>3, <2>4, <2>5, <2>6 DEF Ops
<1> QED BY <1>4, <1>7, <1>8, <1>10

LEMMA StartKeeps ==
    ASSUME AdbInv, NEW j \in Jobs, Start(j)
    PROVE  /\ CallInv' /\ ProvenInv' /\ ModeInv'
           /\ \A k \in Jobs : CmdInv(k)' /\ JobInv(k)'
<1>1. PICK op \in Wanted(j) :
        call' = [job |-> j, op |-> op, pc |-> Head(Steps(op)), cut |-> None,
                 out |-> "ok"]
  BY DEF Start
<1>2. op \in Ops
  BY DEF Wanted, Ops
<1>3. Head(Steps(op)) = IF op = "stage" THEN "open" ELSE "connect"
  BY <1>2 DEF Ops, Steps, PreflightSteps, VerifySteps, StageSteps, InstallSteps,
     LaunchSteps, CleanSteps
<1>4. /\ call = None /\ call' # None /\ call'.job = j /\ call'.op = op
      /\ call'.pc \in {"open", "connect"} /\ call'.out = "ok"
      /\ UNCHANGED <<panel, host, phase, mode, cmd>>
  BY <1>1, <1>2, <1>3 DEF Start, outside, Still, Call, Pcs, Outs
<1>5. CallInv' /\ ProvenInv' /\ ModeInv'
  BY <1>1, <1>2, <1>3, <1>4 DEF AdbInv, CallInv, ProvenInv, ModeInv, At, Ended, Wanted,
     PcsOf, Ops
<1>6. ASSUME NEW k \in Jobs PROVE CmdInv(k)' /\ JobInv(k)'
  <2>1. /\ ~Acting(k) /\ \A o : ~Own(k, o) /\ ~Doing(k, o)
        /\ ~Ended' /\ ~Acting(k)' /\ \A o : ~Doing(k, o)'
    BY <1>4 DEF Own, Acting, Doing, Ended
  <2> QED BY <1>4, <2>1 DEF AdbInv, CmdInv, JobInv
<1> QED BY <1>5, <1>6

\* The panel carries a command out, whoever still waits for the answer.
LEMMA PanelKeeps ==
    ASSUME AdbInv, NEW i \in Jobs, PanelActs(i)
    PROVE  /\ CallInv' /\ ProvenInv' /\ ModeInv'
           /\ \A k \in Jobs : CmdInv(k)' /\ JobInv(k)'
<1>1. /\ AdbTypeOK /\ CallInv /\ ProvenInv /\ ModeInv /\ CmdInv(i) /\ JobInv(i)
      /\ panel \in Panel /\ cmd[i] \in Command /\ cmd[i].state = "sent"
      /\ UNCHANGED <<call, phase, mode, host, link>>
  BY DEF AdbInv, AdbTypeOK, PanelActs, Push, PmInstall, AmStart, Rm, Performed, custody,
     Still
<1>2. \A k \in Jobs : /\ Acting(k)' <=> Acting(k)
                      /\ \A op : (Own(k, op)' <=> Own(k, op)) /\ (Doing(k, op)' <=> Doing(k, op))
  BY <1>1 DEF Acting, Own, Doing, Ended
<1>3. phase[i] = "unknown" \/ (Acting(i) /\ cmd[i].op = call.op /\ Own(i, call.op))
  BY <1>1 DEF CmdInv, Acting, Own
<1>4. Ended' <=> Ended
  BY <1>1 DEF Ended
<1>5. ASSUME NEW state \in {"done", "refused", "failed"},
             cmd' = [cmd EXCEPT ![i].state = state]
      PROVE  /\ cmd'[i] # None /\ cmd'[i].op = cmd[i].op /\ cmd'[i].state = state
             /\ \A k \in Jobs \ {i} : cmd'[k] = cmd[k]
             /\ CallInv' /\ ModeInv'
  <2>1. /\ cmd'[i] # None /\ cmd'[i].op = cmd[i].op /\ cmd'[i].state = state
        /\ \A k \in Jobs \ {i} : cmd'[k] = cmd[k]
    BY <1>1, <1>5 DEF AdbTypeOK, Command
  <2>2. call # None /\ call.pc = "check" => call.job # i
    BY <1>1 DEF CallInv
  <2>3. CallInv'
    BY <1>1, <2>1, <2>2, WantedFacts DEF CallInv, Wanted, Ended
  <2>4. ModeInv'
    BY <1>1 DEF ModeInv, Ended
  <2> QED BY <2>1, <2>3, <2>4
<1>6. ASSUME NEW k \in Jobs, k # i, cmd'[k] = cmd[k],
             \/ panel'.slot = panel.slot
             \/ /\ {panel.slot, panel'.slot} \subseteq {None} \cup Pair(i)
                /\ ~Own(k, "stage"),
             panel'.app = k => panel.app = k
      PROVE  CmdInv(k)' /\ JobInv(k)'
  <2>1. /\ phase'[k] = phase[k]
        /\ \A op : Own(k, op) => call'.pc = call.pc /\ call'.out = call.out
                                 /\ call'.op = call.op
    BY <1>1
  <2> HIDE DEF Pair
  <2> QED BY <1>2, <1>6, <2>1, OthersKeep
<1>7. CASE Push(i)
  <2>1. /\ cmd[i].op = "stage" /\ panel.slot = None /\ Own(i, "stage")
        /\ call.pc \in {"answer", "close"}
    BY <1>1, <1>7 DEF Push, CmdInv
  <2>2. /\ panel'.slot \in {None} \cup Pair(i)
        /\ panel'.app = panel.app /\ panel'.root = panel.root
    BY <1>1, <1>7, <2>1 DEF Push, Performed, Panel, Pair
  <2>3. PICK state \in {"done", "failed"} : cmd' = [cmd EXCEPT ![i].state = state]
    BY <1>7 DEF Push, Performed
  <2>4. /\ cmd'[i] # None /\ cmd'[i].op = "stage" /\ cmd'[i].state = state
        /\ \A k \in Jobs \ {i} : cmd'[k] = cmd[k]
        /\ CallInv' /\ ModeInv'
    BY <1>5, <2>1, <2>3
  <2>5. ProvenInv'
    BY <1>1, <2>1, <2>2 DEF ProvenInv, At, Own
  <2>6. \A k \in Jobs \ {i} : CmdInv(k)' /\ JobInv(k)'
    BY <1>6, <2>1, <2>2, <2>4 DEF Own, Pair
  <2>7. CmdInv(i)'
    BY <1>1, <1>2, <1>3, <2>1, <2>2, <2>3, <2>4 DEF CmdInv
  <2>8. phase[i] = "ready" /\ Doing(i, "stage") /\ (call.out # "ok" \/ call.pc = "answer")
    BY <1>1, <1>3, <2>1, WantedFacts DEF Own, Doing, Acting, Ended
  <2>9. phase[i] = "ready" /\ Doing(i, "stage")
        /\ ~(Own(i, "stage") /\ Ended /\ call.out = "ok") /\ ~Own(i, "clean")
    BY <1>1, <1>3, <2>1, <2>8, WantedFacts DEF Own, Doing, Acting, Ended
  <2>10. JobInv(i)'
    BY <1>1, <1>2, <1>4, <2>2, <2>9 DEF JobInv
  <2> QED BY <2>4, <2>5, <2>6, <2>7, <2>10
<1>8. CASE Rm(i)
  <2>1. /\ cmd[i].op = "clean" /\ panel.slot = <<i, "whole">>
    BY <1>1, <1>8 DEF Rm, CmdInv
  <2>2. /\ panel'.slot \in {panel.slot, None}
        /\ panel'.app = panel.app /\ panel'.root = panel.root
    BY <1>1, <1>8 DEF Rm, Performed, Panel
  <2>3. PICK state \in {"done", "failed"} :
          /\ cmd' = [cmd EXCEPT ![i].state = state]
          /\ (state = "done" => panel'.slot = None)
    BY <1>1, <1>8 DEF Rm, Performed, Panel
  <2>4. /\ cmd'[i] # None /\ cmd'[i].op = "clean" /\ cmd'[i].state = state
        /\ \A k \in Jobs \ {i} : cmd'[k] = cmd[k]
        /\ CallInv' /\ ModeInv'
    BY <1>5, <2>1, <2>3
  <2>5. ProvenInv'
    BY <1>1, <2>2, <2>4 DEF ProvenInv, At
  <2>6. ASSUME NEW k \in Jobs, k # i, Own(k, "stage"), panel'.slot # panel.slot
        PROVE  CmdInv(k)' /\ JobInv(k)'
    <3>1. CmdInv(k) /\ JobInv(k) /\ call.job = k
      BY <2>6 DEF AdbInv, Own
    <3>2. /\ panel.slot \notin Pair(k) /\ panel'.slot = None /\ None \notin Pair(k)
          /\ panel.slot # <<k, "whole">>
      BY <2>1, <2>2, <2>4, <2>6 DEF Pair
    <3>3. ~Doing(k, "clean") /\ ~Own(k, "clean")
      BY <2>6 DEF Doing, Own
    <3>4. JobInv(k)'
      BY <1>1, <1>2, <1>4, <2>2, <2>6, <3>1, <3>2, <3>3 DEF JobInv
    <3>5. CmdInv(k)'
      BY <1>1, <1>2, <2>1, <2>2, <2>4, <2>6, <3>1, <3>2 DEF CmdInv
    <3> QED BY <3>4, <3>5
  <2>7. \A k \in Jobs \ {i} : CmdInv(k)' /\ JobInv(k)'
    BY <1>6, <2>1, <2>2, <2>4, <2>6 DEF Pair
  <2>8. CmdInv(i)'
    BY <1>1, <1>2, <1>3, <2>1, <2>2, <2>3, <2>4 DEF CmdInv, Pair
  <2>9. phase[i] # "unknown" => Doing(i, "clean") /\ Own(i, "clean")
    BY <1>3, <2>1 DEF Doing
  <2>10. JobInv(i)'
    <3>1. Own(i, "stage") => phase[i] # "unknown" /\ ~Own(i, "clean")
      BY <1>1, WantedFacts DEF Own
    <3>2. panel'.slot \in {None, panel.slot} /\ None \notin Pair(i)
      BY <2>2, <2>4 DEF Pair
    <3>3. /\ Own(i, "clean") => phase[i] \in {"staged", "installed", "refused"}
      BY <1>1, WantedFacts DEF Own
    <3> QED BY <1>1, <1>2, <1>4, <2>2, <2>9, <3>1, <3>2, <3>3 DEF JobInv
  <2> QED BY <2>4, <2>5, <2>7, <2>8, <2>10
<1>9. CASE PmInstall(i)
  <2>1. /\ cmd[i].op = "install" /\ panel.slot = <<i, "whole">>
    BY <1>1, <1>9 DEF PmInstall, CmdInv
  <2>2. /\ panel'.slot = panel.slot /\ panel'.root = panel.root
        /\ panel'.app \in {panel.app, i}
    BY <1>1, <1>9, <2>1 DEF PmInstall, Performed, Panel
  <2>3. PICK state \in {"done", "refused"} :
          /\ cmd' = [cmd EXCEPT ![i].state = state]
          /\ (state = "refused" => panel'.app = panel.app)
    BY <1>1, <1>9, <2>1 DEF PmInstall, Performed, Panel
  <2>4. /\ cmd'[i] # None /\ cmd'[i].op = "install" /\ cmd'[i].state = state
        /\ \A k \in Jobs \ {i} : cmd'[k] = cmd[k]
        /\ CallInv' /\ ModeInv'
    BY <1>5, <2>1, <2>3
  <2>5. ProvenInv'
    BY <1>1, <2>2 DEF ProvenInv, At
  <2>6. \A k \in Jobs \ {i} : CmdInv(k)' /\ JobInv(k)'
    BY <1>6, <2>2, <2>4
  <2>7. CmdInv(i)'
    BY <1>1, <1>2, <1>3, <2>1, <2>2, <2>3, <2>4 DEF CmdInv
  <2>8. phase[i] # "unknown" => Doing(i, "install") /\ phase[i] = "staged"
    BY <1>1, <1>3, <2>1, WantedFacts DEF Doing, Own
  <2>9. JobInv(i)'
    BY <1>1, <1>2, <1>4, <2>2, <2>8 DEF JobInv
  <2> QED BY <2>4, <2>5, <2>6, <2>7, <2>9
<1>10. CASE AmStart(i)
  <2>1. PICK state \in {"done", "refused"} :
          panel' = panel /\ cmd' = [cmd EXCEPT ![i].state = state]
    BY <1>10 DEF AmStart, Performed
  <2>2. cmd[i].op = "launch"
    BY <1>10 DEF AmStart
  <2>3. /\ cmd'[i] # None /\ cmd'[i].op = "launch" /\ cmd'[i].state = state
        /\ \A k \in Jobs \ {i} : cmd'[k] = cmd[k]
        /\ CallInv' /\ ModeInv'
    BY <1>5, <2>1, <2>2
  <2>4. ProvenInv'
    BY <1>1, <2>1 DEF ProvenInv, At
  <2>5. \A k \in Jobs \ {i} : CmdInv(k)' /\ JobInv(k)'
    BY <1>6, <2>1, <2>3
  <2>6. CmdInv(i)'
    BY <1>1, <1>2, <1>3, <2>2, <2>3 DEF CmdInv
  <2>7. JobInv(i)'
    BY <1>1, <1>2, <1>4, <2>1 DEF JobInv
  <2> QED BY <2>3, <2>4, <2>5, <2>6, <2>7
<1> QED BY <1>7, <1>8, <1>9, <1>10 DEF PanelActs

\* A restart: no call is under way, and a job whose call may have changed the
\* panel is quarantined.
LEMMA CrashKeeps ==
    ASSUME AdbInv, Crash
    PROVE  /\ CallInv' /\ ProvenInv' /\ ModeInv'
           /\ \A j \in Jobs : CmdInv(j)' /\ JobInv(j)'
<1>1. /\ AdbTypeOK /\ CallInv /\ ModeInv /\ call' = None /\ link' = "none"
      /\ mode' = mode /\ phase' = [j \in Jobs |-> Restarted(j)]
  BY DEF AdbInv, Crash
<1>2. CallInv' /\ ProvenInv'
  BY <1>1 DEF CallInv, ProvenInv, At
<1>3. \A k \in Jobs : \A op : ~Own(k, op)' /\ ~Acting(k)' /\ ~Doing(k, op)'
  BY <1>1 DEF Own, Acting, Doing
\* A job without a call.
<1>4. ASSUME NEW j \in Jobs, ~(call # None /\ call.job = j)
      PROVE  /\ phase'[j] = IF phase[j] \in {"staged", "refused", "clean"}
                            THEN "unknown" ELSE phase[j]
             /\ ~Acting(j) /\ \A op : ~Own(j, op) /\ ~Doing(j, op)
             /\ cmd'[j] = cmd[j] /\ panel'.app = panel.app
             /\ \/ panel'.slot = panel.slot
                \/ {panel.slot, panel'.slot} \cap Pair(j) = {}
  <2>1. phase'[j] = IF phase[j] \in {"staged", "refused", "clean"}
                    THEN "unknown" ELSE phase[j]
    BY <1>1, <1>4 DEF Restarted
  <2>2. ~Acting(j) /\ \A op : ~Own(j, op) /\ ~Doing(j, op)
    BY <1>4 DEF Acting, Own, Doing
  <2>3. CASE call = None
    BY <2>1, <2>2, <2>3 DEF Crash
  <2>4. CASE call # None
    <3>1. PICK i \in Jobs : i = call.job
      BY <2>4 DEF AdbInv, AdbTypeOK, Call
    <3>2. BrokenOff(i) /\ i # j
      BY <1>4, <2>4, <3>1 DEF Crash
    <3>3. /\ panel'.app = panel.app /\ cmd'[j] = cmd[j]
          /\ \/ panel' = panel
             \/ panel.slot = None /\ panel'.slot \in Pair(i) \cup {None}
      BY <3>2, CutOff
    <3>4. None \notin Pair(j) /\ Pair(i) \cap Pair(j) = {}
      BY <3>2 DEF Pair
    <3> QED BY <2>1, <2>2, <3>3, <3>4
  <2> QED BY <2>3, <2>4
\* The job of the call.
<1>5. ASSUME NEW j \in Jobs, call # None, call.job = j
      PROVE  /\ phase'[j] = After(call.op, phase[j], "cancelled")
             /\ call.op \in {"stage", "install", "clean", "launch"} =>
                    phase'[j] = "unknown"
             /\ call.op \in {"preflight", "verify"} =>
                    /\ phase'[j] = phase[j] /\ phase[j] \in {"new", "launched"}
                    /\ ~Acting(j) /\ \A op : ~Doing(j, op) \/ op = call.op
             /\ panel'.app = panel.app
             /\ \/ cmd'[j] = cmd[j] /\ panel' = panel
                   /\ (cmd[j] # None => cmd[j].op # "stage" \/ cmd[j].state # "sent")
                \/ cmd'[j] = None /\ Acting(j)
  <2>1. phase'[j] = After(call.op, phase[j], "cancelled")
    BY <1>1, <1>5 DEF Restarted
  <2>2. BrokenOff(j)
    BY <1>5 DEF Crash
  <2>3. /\ panel'.app = panel.app
        /\ \/ cmd'[j] = cmd[j] /\ panel' = panel
              /\ (cmd[j] # None => cmd[j].op # "stage" \/ cmd[j].state # "sent")
           \/ cmd'[j] = None /\ Acting(j)
    BY <2>2, CutOff
  <2>4. call.op \in {"stage", "install", "clean", "launch"} => phase'[j] = "unknown"
    BY <2>1, AfterFacts DEF Ambiguous
  <2>5. call.op \in {"preflight", "verify"} =>
            /\ phase'[j] = phase[j] /\ phase[j] \in {"new", "launched"}
            /\ ~Acting(j) /\ \A op : ~Doing(j, op) \/ op = call.op
    <3>1. ASSUME call.op = "preflight"
          PROVE  /\ phase'[j] = phase[j] /\ phase[j] = "new"
                 /\ After("preflight", phase[j], call.out) # "unknown"
      BY <1>1, <1>5, <2>1, <3>1, WantedFacts DEF After
    <3>2. ASSUME call.op = "verify"
          PROVE  /\ phase'[j] = phase[j] /\ phase[j] = "launched"
                 /\ After("verify", phase[j], call.out) # "unknown"
      BY <1>1, <1>5, <2>1, <3>2, WantedFacts DEF After
    <3> QED BY <1>1, <1>5, <3>1, <3>2, WantedFacts DEF Acting, Doing, Own
  <2> QED BY <2>1, <2>3, <2>4, <2>5
<1>6. ModeInv'
  <2> SUFFICES ASSUME NEW j \in Jobs, phase'[j] \in Admitted PROVE mode[j] # None
    BY <1>1 DEF ModeInv
  <2>1. phase[j] \in Admitted
    <3>1. CASE call # None /\ call.job = j
      BY <1>1, <1>5, <3>1, WantedFacts DEF Admitted, Ops
    <3>2. CASE ~(call # None /\ call.job = j)
      BY <1>4, <3>2 DEF Admitted
    <3> QED BY <3>1, <3>2
  <2> QED BY <1>1, <2>1 DEF ModeInv
<1>7. ASSUME NEW j \in Jobs PROVE CmdInv(j)' /\ JobInv(j)'
  <2>1. CmdInv(j) /\ JobInv(j)
    BY DEF AdbInv
  <2>2. CASE ~(call # None /\ call.job = j)
    <3>1. CmdInv(j)'
      BY <1>3, <1>4, <2>1, <2>2 DEF CmdInv, Pair
    <3>2. JobInv(j)'
      BY <1>3, <1>4, <2>1, <2>2 DEF JobInv, Pair
    <3> QED BY <3>1, <3>2
  <2>3. CASE call # None /\ call.job = j
    <3>1. CASE call.op \in {"preflight", "verify"}
      BY <1>3, <1>5, <2>1, <2>3, <3>1 DEF CmdInv, JobInv, Acting
    <3>2. CASE call.op \in {"stage", "install", "clean", "launch"}
      BY <1>3, <1>5, <2>1, <2>3, <3>2 DEF CmdInv, JobInv, Acting
    <3> QED BY <1>1, <2>3, <3>1, <3>2, WantedFacts DEF Ops
  <2> QED BY <2>2, <2>3
<1> QED BY <1>2, <1>6, <1>7

----------------------------------------------------------------------------
(* The invariant, and what follows from it. *)

LEMMA SafeStep == AdbInv /\ [AdbNext]_adbVars => AdbInv'
<1> SUFFICES ASSUME AdbInv, [AdbNext]_adbVars PROVE AdbInv'
  OBVIOUS
<1>1. AdbTypeOK' /\ CustodyInv'
  BY TypeStep DEF AdbInv
<1> DEFINE Rest == /\ CallInv' /\ ProvenInv' /\ ModeInv'
                   /\ \A j \in Jobs : CmdInv(j)' /\ JobInv(j)'
<1> SUFFICES Rest
  BY <1>1 DEF AdbInv
<1>2. CASE Admit \/ ProvePosture \/ Vacant \/ Artifact \/ Check \/ Package \/ Connect
  BY <1>2, ProofsKeep
<1>3. CASE OpenApk \/ TakeApk \/ OwnerActs \/ PanelMoves
  BY <1>3, ApkKeeps
<1>4. CASE Garble \/ Break \/ Expire \/ Cancel
  BY <1>4, Interrupting, ApkKeeps DEF AdbInv
<1>5. CASE Send \/ Answer \/ Close \/ Return \/ Crash
  BY <1>5, SendKeeps, AnswerKeeps, CloseKeeps, ReturnKeeps, CrashKeeps
<1>6. ASSUME NEW j \in Jobs, Start(j) \/ PanelActs(j) PROVE Rest
  BY <1>6, StartKeeps, PanelKeeps
<1>7. CASE UNCHANGED adbVars
  <2>1. UNCHANGED <<phase, cmd, mode, panel, call, link, host>>
    BY <1>7 DEF adbVars, outside, custody
  <2> QED BY <2>1, AsideKeeps
<1> QED BY <1>2, <1>3, <1>4, <1>5, <1>6, <1>7 DEF AdbNext, CallStep

\* AdbInv holds in every state, whatever the panel and its owner do, and
\* wherever a call is interrupted.
THEOREM AdbSafe == AdbSpec => []AdbInv
<1>1. AdbInit => AdbInv
  BY SafeInit
<1>2. AdbInv /\ [AdbNext]_adbVars => AdbInv'
  BY SafeStep
<1> QED BY <1>1, <1>2, PTL DEF AdbSpec

\* The variables keep their shape, and nothing is open that no step uses.
THEOREM AdbTypeCorrect == AdbSpec => []AdbTypeOK
<1>1. AdbInv => AdbTypeOK
  BY DEF AdbInv
<1> QED BY <1>1, AdbSafe, PTL

\* A job that ended with a definite answer has left nothing behind, and what
\* may still be carried out belongs to a call or to a quarantined job.
THEOREM OverIsCleanAlways == AdbSpec => []OverIsClean
<1>1. AdbInv => OverIsClean
  <2> SUFFICES ASSUME AdbInv, NEW j \in Jobs
               PROVE  /\ phase[j] \in {"over", "unlaunched"} =>
                            /\ panel.slot \notin {j} \X {"part", "whole"}
                            /\ panel.app = j => phase[j] = "unlaunched"
                      /\ cmd[j] # None /\ cmd[j].state = "sent" =>
                            phase[j] = "unknown" \/ (call # None /\ call.job = j)
    BY DEF OverIsClean
  <2>1. CmdInv(j) /\ JobInv(j)
    BY DEF AdbInv
  <2>2. cmd[j] # None => phase[j] = "unknown" \/ (call # None /\ call.job = j)
    BY <2>1 DEF CmdInv, Acting
  <2> QED BY <2>1, <2>2 DEF JobInv, Pair
<1> QED BY <1>1, AdbSafe, PTL

\* Only somebody else replaces an application that is installed.
THEOREM NotReplacedAlways == AdbSpec => NotReplaced
<1> DEFINE A == Installed(panel.app) /\ moves' = moves => panel'.app = panel.app
<1>1. ASSUME AdbInv, [AdbNext]_adbVars PROVE [A]_adbVars
  <2> SUFFICES ASSUME AdbNext, Installed(panel.app), moves' = moves
               PROVE  panel'.app = panel.app
    BY <1>1 DEF adbVars
  <2>1. AdbTypeOK /\ panel \in Panel
    BY <1>1 DEF AdbInv, AdbTypeOK
  <2>2. ASSUME NEW j \in Jobs, BrokenOff(j) PROVE panel'.app = panel.app
    BY <1>1, <2>2, CutOff
  <2>3. CASE Close \/ Crash
    <3>1. CASE call = None
      BY <2>3, <3>1 DEF Close, Crash, At
    <3>2. CASE call # None
      BY <2>1, <2>2, <2>3, <3>2 DEF Close, Crash, AdbTypeOK, Call
    <3> QED BY <3>1, <3>2
  <2>4. ASSUME NEW j \in Jobs, PanelActs(j) PROVE panel'.app = panel.app
    BY <2>1, <2>4 DEF PanelActs, Push, PmInstall, AmStart, Rm, Performed, Panel,
       Replaces, NoReplace
  <2>5. CASE OwnerActs \/ PanelMoves
    BY <2>1, <2>5 DEF OwnerActs, PanelMoves, Move, AdbTypeOK
  <2>6. CASE OpenApk \/ TakeApk \/ Connect \/ Admit \/ Send \/ Answer \/ Return
    BY <2>6 DEF OpenApk, TakeApk, Connect, Admit, Send, Answer, Return, outside
  <2>7. CASE ProvePosture \/ Vacant \/ Artifact \/ Check \/ Package
             \/ Garble \/ Break \/ Expire \/ Cancel
    BY <2>7 DEF ProvePosture, Vacant, Artifact, Check, Package, Garble, Break, Expire,
       Cancel, Quiet, outside
  <2>8. ASSUME NEW j \in Jobs, Start(j) PROVE panel'.app = panel.app
    BY <2>8 DEF Start, outside
  <2> QED BY <2>3, <2>4, <2>5, <2>6, <2>7, <2>8 DEF AdbNext, CallStep
<1> QED BY <1>1, AdbSafe, PTL DEF AdbSpec, NotReplaced

\* A command goes to the panel and in the root mode that were proved on its
\* connection, and a transfer into an empty slot.
THEOREM SentToTheRightPanelAlways == AdbSpec => SentToTheRightPanel
<1> DEFINE A == \A j \in Jobs :
                  cmd'[j] # cmd[j] /\ cmd'[j] # None /\ cmd'[j].state = "sent" =>
                      /\ host = "ours" /\ panel.root = mode[j]
                      /\ cmd'[j].op = "stage" => panel.slot = None
<1>1. ASSUME AdbInv, [AdbNext]_adbVars PROVE [A]_adbVars
  <2> SUFFICES ASSUME AdbNext, NEW j \in Jobs, cmd'[j] # cmd[j], cmd'[j] # None,
                      cmd'[j].state = "sent"
               PROVE  /\ host = "ours" /\ panel.root = mode[j]
                      /\ cmd'[j].op = "stage" => panel.slot = None
    BY <1>1 DEF adbVars
  <2>1. /\ AdbTypeOK /\ ProvenInv /\ cmd \in [Jobs -> Command \cup {None}]
    BY <1>1 DEF AdbInv, AdbTypeOK
  <2>2. CASE Send
    <3>1. call # None /\ call.pc = "send" /\ call.job \in Jobs
      BY <2>1, <2>2 DEF Send, At, AdbTypeOK, Call
    <3>2. link = "up" /\ cmd' = [cmd EXCEPT ![call.job] = [op |-> call.op, state |-> "sent"]]
      BY <2>2 DEF Send
    <3>3. call.job = j /\ cmd'[j].op = call.op
      BY <2>1, <3>1, <3>2
    <3> QED BY <2>1, <3>1, <3>2, <3>3 DEF ProvenInv, At
  <2>3. CASE Answer
    BY <2>1, <2>3 DEF Answer
  <2>4. ASSUME NEW i \in Jobs, BrokenOff(i) PROVE FALSE
    BY <2>1, <2>4 DEF BrokenOff
  <2>5. CASE Close \/ Crash
    <3>1. CASE call = None
      BY <2>5, <3>1 DEF Close, Crash, At
    <3>2. CASE call # None
      BY <2>1, <2>4, <2>5, <3>2 DEF Close, Crash, AdbTypeOK, Call
    <3> QED BY <3>1, <3>2
  <2>6. ASSUME NEW i \in Jobs, PanelActs(i) PROVE FALSE
    <3>1. PICK state \in {"done", "refused", "failed"} : cmd' = [cmd EXCEPT ![i].state = state]
      BY <2>6 DEF PanelActs, Push, PmInstall, AmStart, Rm, Performed
    <3> QED BY <2>1, <2>6, <3>1 DEF PanelActs, Command
  <2>7. CASE OpenApk \/ TakeApk \/ Connect \/ Admit \/ Return \/ OwnerActs \/ PanelMoves
    BY <2>7 DEF OpenApk, TakeApk, Connect, Admit, Return, OwnerActs, PanelMoves, Move
  <2>8. CASE ProvePosture \/ Vacant \/ Artifact \/ Check \/ Package
             \/ Garble \/ Break \/ Expire \/ Cancel
    BY <2>8 DEF ProvePosture, Vacant, Artifact, Check, Package, Garble, Break, Expire,
       Cancel, Quiet
  <2>9. ASSUME NEW i \in Jobs, Start(i) PROVE FALSE
    BY <2>9 DEF Start
  <2> QED BY <2>2, <2>3, <2>5, <2>6, <2>7, <2>8, <2>9 DEF AdbNext, CallStep
<1> QED BY <1>1, AdbSafe, PTL DEF AdbSpec, SentToTheRightPanel

=============================================================================
