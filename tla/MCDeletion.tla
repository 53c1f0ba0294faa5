----------------------------- MODULE MCDeletion -----------------------------
(* A small instance of Deletion for TLC. *)
EXTENDS Deletion
=============================================================================
