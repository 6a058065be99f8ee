---------------------------- MODULE MCCredential ----------------------------
(* Model values for the runs of Credential. *)
EXTENDS Credential

CONSTANTS daemon, command1, command2
=============================================================================
