------------------------- MODULE MCInstallArtifacts -------------------------
(* TLC instances of InstallArtifacts.                                       *)
EXTENDS InstallArtifacts, TLC

\* Calls differ only in what they do.
CallerSymmetry == Permutations(Callers)

============================================================================
