--------------------------- MODULE InstallPromise ---------------------------
(***************************************************************************)
(* What the receipt of a first install promises to the person who asked    *)
(* for it, and nothing about how: a request is open until it is committed  *)
(* to the panel, can be cancelled only before that, ends in exactly one    *)
(* outcome, succeeds only after the panel was seen healthy, never succeeds *)
(* once a cancellation was accepted, and is at last forgotten for good.    *)
(***************************************************************************)
CONSTANT JobIds
VARIABLE stage

Outcomes == {"consumed", "cancelled", "failed", "recovery_required"}
Stages ==
    {"unknown", "open", "cancelling", "committed", "healthy", "forgotten"}
        \cup Outcomes

Moves ==
    {<<"unknown", "open">>, <<"unknown", "forgotten">>,
     <<"open", "cancelling">>, <<"open", "committed">>,
     <<"cancelling", "cancelled">>,
     <<"committed", "healthy">>, <<"healthy", "consumed">>}
    \cup ({"open", "cancelling", "committed"} \X {"failed"})
    \cup ({"open", "cancelling", "committed", "healthy"}
              \X {"recovery_required"})
    \cup (Outcomes \X {"forgotten"})

Init == stage = [j \in JobIds |-> "unknown"]

\* Jobs move independently; one write may move several.
Next ==
    /\ stage' \in [JobIds -> Stages]
    /\ \A j \in JobIds :
           stage'[j] = stage[j] \/ <<stage[j], stage'[j]>> \in Moves

Spec == Init /\ [][Next]_stage

=============================================================================
