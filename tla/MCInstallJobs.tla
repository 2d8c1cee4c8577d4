--------------------------- MODULE MCInstallJobs ---------------------------
(* TLC instances of InstallJobs: the plans.                                 *)
EXTENDS InstallJobs, TLC

Plan(a, p, s) == [address |-> a, pinned |-> p, serial |-> s]

\* One panel only.
OnePlan == {Plan("a1", "p1", "s1")}

============================================================================
