---------------------------- MODULE MCInstallAdb ----------------------------
(* TLC instances of InstallAdb.                                             *)
EXTENDS InstallAdb

============================================================================
