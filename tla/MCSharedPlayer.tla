--------------------------- MODULE MCSharedPlayer ---------------------------
(***************************************************************************)
(* A shared player on small instances: with its satellite, reconnecting or *)
(* with decoders that report late, and alone for longer and with late      *)
(* reports of every playback and item.                                     *)
(***************************************************************************)
EXTENDS SharedPlayer

CONSTANT MaxAlone   \* bound: transactions of a player without a satellite

VARIABLE used

MCInit == used \in {"satellite", "decoders", "alone"} /\ SharedInit

\* The one satellite has prompt decoders, the other a single session.
Exercised ==
    \/ used = "satellite" /\ node'.late = {}
    \/ used = "decoders" /\ \A s \in Box!Sessions \ {1} : session'[s] = "unused"

MCNext ==
    /\ UNCHANGED used
    /\ \/ SharedNext /\ Exercised
       \/ /\ used = "alone" /\ state.rev < MaxAlone
          /\ Next
          /\ UNCHANGED <<hubVars, linkVars, node, disturbed, named>>

MCSpec == MCInit /\ [][MCNext]_<<used, sharedVars>>
=============================================================================
