--------------------------- MODULE MCUpdateEntity ---------------------------
(* TLC instance of UpdateEntity.                                             *)
EXTENDS UpdateEntity, TLC

=============================================================================
