----------------------------- MODULE MCTransfers -----------------------------
(***************************************************************************)
(* Small instances of Library and MediaStream for TLC.  The two have no    *)
(* state in common: a behaviour exercises the one or the other.  In one    *)
(* that exercises the library, either somebody removes files, or those of  *)
(* a failed import may stay, and scans leave the audiobooks out or go on   *)
(* to fetch covers.                                                        *)
(***************************************************************************)
EXTENDS Library, MediaStream, TLC

CONSTANTS x, y,              \* contents
          g                  \* a folder

(* An album's song with its cover, and another song of the same name. *)
MCManifest == {[n \in Names |-> IF n = "song" THEN x ELSE y],
               [n \in Names |-> IF n = "song" THEN y ELSE None]}

MCFound == [p \in Path |-> IF p = Song(g) THEN y ELSE None]

(* Imports differ in what they do only, and so do streams. *)
Interchangeable == Permutations(Transfer) \cup Permutations(Stream)

VARIABLE used

MCInit == used \in {"disk", "books", "covers", "media"} /\ Init /\ StreamInit

Exercised ==
  /\ IF used = "disk" THEN left' = {} ELSE removals' = 0
  /\ used # "books" => scan'.excluded = {}
  /\ used # "covers" => scan'.pc # "art"

MCNext == \/ used # "media" /\ Next /\ Exercised /\ UNCHANGED <<used, streamVars>>
          \/ used = "media" /\ StreamNext /\ UNCHANGED <<used, vars>>

MCSpec == MCInit /\ [][MCNext]_<<used, vars, streamVars>>
=============================================================================
