----------------------------- MODULE MCRecovery -----------------------------
(* The instance of Recovery for TLC: a first run and one resume. *)
EXTENDS Recovery
=============================================================================
