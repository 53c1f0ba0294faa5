----------------------------- MODULE MCAccounts -----------------------------
(* A small instance of Accounts for TLC.  Users, attempts and threads are   *)
(* interchangeable, and no liveness is checked.                             *)
EXTENDS Accounts, TLC

Interchangeable ==
  Permutations(User) \cup Permutations(Attempt) \cup Permutations(Thread)
=============================================================================
