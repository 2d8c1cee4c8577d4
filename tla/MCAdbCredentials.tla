-------------------------- MODULE MCAdbCredentials --------------------------
(* TLC instance of AdbCredentials.                                           *)
EXTENDS AdbCredentials, TLC

=============================================================================
