----------------------------- MODULE MCStateFeed -----------------------------
(* StateFeed on a small instance: one or two clients and one other writer. *)
EXTENDS StateFeed
=============================================================================
