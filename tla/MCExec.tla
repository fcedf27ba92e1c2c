------------------------------- MODULE MCExec -------------------------------
(* The exec command with two versions of each certificate. *)
EXTENDS Exec
=============================================================================
