------------------------------ MODULE MCJukebox ------------------------------
(* Jukebox on a small instance: one or two controllers and one satellite. *)
EXTENDS Jukebox
=============================================================================
