------------------------- MODULE MCInstallExecutor -------------------------
(* TLC instances of InstallExecutor.                                        *)
EXTENDS InstallExecutor, TLC

\* One plan, so that two jobs follow one another on one panel.
OnePlan == {[address |-> "a1", pinned |-> "p1", serial |-> "s1"]}

\* The same panel under two addresses: the plans share the serial only.
TwoNames == {[address |-> "a1", pinned |-> "p1", serial |-> "s1"],
             [address |-> "a2", pinned |-> "p2", serial |-> "s1"]}

JobSymmetry == Permutations(JobIds)

\* States that differ only in how a finished job ended, in a command that was
\* acted upon and nobody waits for, in the ghost asked, or in which of the
\* names of the one panel a plan uses, have the same futures; the two-jobs run
\* counts them once.
Outline(jobs) ==
    [j \in JobIds |->
        CASE jobs[j] = None -> None
          [] Terminal(jobs[j]) -> <<jobs[j].revision, jobs[j].generation>>
          [] OTHER -> [jobs[j] EXCEPT !.plan = None]]

Pending ==
    [j \in JobIds |->
        IF cmd[j] # None /\ (cmd[j].state = "sent" \/ At(j, "answer"))
        THEN cmd[j] ELSE None]

Outlines ==
    <<Outline(disk), IF cache[Ha] = None THEN None ELSE Outline(cache[Ha]),
      claimed, used, up, task, poisoned, custody, panel, Pending>>

============================================================================
