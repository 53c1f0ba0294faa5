------------------------------ MODULE MCPlayer ------------------------------
(* Player on a small instance: every command and every report. *)
EXTENDS Player
=============================================================================
