---------------------------- MODULE MCFinalizer ----------------------------
(* TLC instances of Finalizer.                                              *)
EXTENDS Finalizer, TLC

Symmetry == Permutations(Jobs) \cup Permutations(Flows) \cup Permutations(Submits)
            \cup Permutations(Entries)

============================================================================
