----------------------------- MODULE MCSharing ------------------------------
(* A small instance of Sharing for TLC. *)
EXTENDS Sharing
=============================================================================
