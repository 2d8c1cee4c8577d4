--------------------------- MODULE InstallCustody ---------------------------
(***************************************************************************)
(* What the custody of the APKs promises to those who call it, and nothing *)
(* about how: no files, threads or descriptors.  A job holds nothing, a    *)
(* partial or the whole signed APK; only a call for the job, or a          *)
(* reconciliation that was not told to keep it, changes that, and only     *)
(* between its start and its answer; a job is never given an APK but by a  *)
(* download that held a partial; and an answer says what is held: exactly, *)
(* if no other call came in between (alone).                               *)
(***************************************************************************)
CONSTANTS Jobs, Callers, None, Faults

VARIABLES
    held,     \* job -> "none", "part" or "whole"
    stale,    \* jobs whose partial a crash or a failing disk left
    deed      \* caller -> what it asked for and, once it is out, the answer

vars == <<held, stale, deed>>

Outcomes == {"ok", "busy", "failed", "cancelled"}

Init ==
    /\ held = [j \in Jobs |-> "none"]
    /\ stale = {}
    /\ deed = [c \in Callers |-> None]

Underway(c) == deed[c] # None /\ deed[c].out = None

For(c, j) == deed[c] # None /\ deed[c].job = j

\* One download for a job at a time; reconciling is for those who are alone.
Ask(c, kind, job, keep) ==
    /\ deed[c] = None
    /\ kind = "download" => \A d \in Callers : For(d, job) => deed[d].kind # "download"
    /\ kind = "reconcile" => \A d \in Callers : deed[d] = None
    /\ deed' = [d \in Callers |->
          CASE d = c -> [kind |-> kind, job |-> job, keep |-> keep,
                         alone |-> \A e \in Callers : ~For(e, job), out |-> None]
            [] d # c /\ For(d, job) -> [deed[d] EXCEPT !.alone = FALSE]
            [] OTHER -> deed[d]]
    /\ UNCHANGED <<held, stale>>

Reaches(c, j) ==
    IF deed[c].kind = "reconcile" THEN j \notin deed[c].keep ELSE deed[c].job = j

\* A download loses a whole APK only to a failing disk.
Moves(kind) ==
    IF kind = "download"
    THEN {<<"none", "part">>, <<"part", "none">>, <<"part", "whole">>}
         \cup (IF Faults THEN {<<"whole", "none">>} ELSE {})
    ELSE {<<"part", "none">>, <<"whole", "none">>}

Touch(c, j) ==
    /\ Underway(c) /\ Reaches(c, j)
    /\ \E h \in {"none", "part", "whole"} :
          /\ h = held[j] \/ <<held[j], h>> \in Moves(deed[c].kind)
          /\ held' = [held EXCEPT ![j] = h]
    /\ \E left \in SUBSET {j} :
          /\ left # {} => Faults
          /\ stale' = {k \in stale \cup left : held'[k] = "part"}
    /\ UNCHANGED deed

\* What the answer out to c says.
Truthful(c, out) ==
    LET w == deed[c]
    IN CASE w.kind = "download" ->
              /\ held[w.job] = "part" => w.job \in stale
              /\ w.alone /\ out = "ok" => held[w.job] = "whole"
              /\ w.alone /\ out = "busy" => held[w.job] = "part"
              /\ w.alone /\ out = "failed" /\ ~Faults => held[w.job] = "none"
         [] w.kind = "remove" ->
              /\ out # "busy"
              /\ w.alone /\ out = "ok" => held[w.job] = "none"
              /\ w.alone /\ out = "failed" => Faults
         [] OTHER ->
              /\ out # "busy"
              /\ out = "ok" => \A j \in Jobs \ w.keep : held[j] = "none"
              /\ out = "failed" => Faults

Answer(c) ==
    /\ Underway(c)
    /\ \E out \in Outcomes :
          /\ Truthful(c, out)
          /\ deed' = [deed EXCEPT ![c] = [@ EXCEPT !.out = out, !.keep = {}]]
    /\ UNCHANGED <<held, stale>>

Leave(c) ==
    /\ deed[c] # None /\ ~Underway(c)
    /\ deed' = [deed EXCEPT ![c] = None]
    /\ UNCHANGED <<held, stale>>

\* The process dies; the directory is what it was.
Crash ==
    /\ deed' = [c \in Callers |-> None]
    /\ stale' = {j \in Jobs : held[j] = "part"}
    /\ UNCHANGED held

Next ==
    \/ \E c \in Callers :
          \/ \E kind \in {"download", "remove"}, j \in Jobs : Ask(c, kind, j, {})
          \/ \E keep \in SUBSET Jobs : Ask(c, "reconcile", None, keep)
          \/ \E j \in Jobs : Touch(c, j)
          \/ Answer(c) \/ Leave(c)
    \/ Crash

Spec == Init /\ [][Next]_vars

=============================================================================
