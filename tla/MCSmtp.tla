------------------------------- MODULE MCSmtp -------------------------------
(* Instances of Smtp for TLC. *)
EXTENDS Smtp
=============================================================================
