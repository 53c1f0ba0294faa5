----------------------------- MODULE MCOutputs -----------------------------
(***************************************************************************)
(* The two kinds of output that a shared player has, on small instances:   *)
(* the satellite of Jukebox and the browser tab of WebPlayback.  Either    *)
(* follows the row of its player.  A behaviour exercises the satellite,    *)
(* reconnecting or with decoders that report late, or the tab, or more of  *)
(* the tab's own queue without either.                                     *)
(***************************************************************************)
EXTENDS Jukebox, WebPlayback

CONSTANTS
    a, b,           \* tracks
    MaxVisits       \* bound: MaxActs of a tab that does not stay with its queue

MCAlbums == {<<a, b>>}

VARIABLE used

satVars == <<hubVars, linkVars, node, disturbed>>

MCInit ==
    /\ used \in {"satellite", "decoders", "browser", "queue"}
    /\ Init /\ PageInit
    /\ used # "browser" => ~page.owned

\* The one satellite has prompt decoders, the other a single session.
Exercised ==
    \/ used = "satellite" /\ node'.late = {}
    \/ used = "decoders" /\ \A s \in Sessions \ {1} : session'[s] = "unused"

MCNext ==
    /\ UNCHANGED used
    /\ \/ Next /\ Exercised /\ UNCHANGED pageVars
       \/ /\ used = "browser" /\ (Course \/ (acts < MaxVisits /\ Acts))
          /\ UNCHANGED <<rowVars, satVars>>
       \/ /\ used = "queue" /\ (LocalOp \/ Event \/ MediaEnd)
          /\ UNCHANGED <<rowVars, satVars>>

\* In a tab's behaviour none of the satellite's actions is enabled.
MCSpec == MCInit /\ [][MCNext]_<<used, vars, pageVars>> /\ Fairness
=============================================================================
