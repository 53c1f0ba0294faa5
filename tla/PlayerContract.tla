--------------------------- MODULE PlayerContract ---------------------------
(***************************************************************************)
(* What a player of the core promises to its controllers and its output,   *)
(* without queue, items, positions or undo: the protocol of the playback   *)
(* token and of the directives sent with it.                               *)
(*                                                                         *)
(*  - Each committed change takes the next revision.                       *)
(*  - Playing starts under a new token, and the output is told to load it. *)
(*  - A command that silences the player tells the output so.              *)
(*  - Only a report about the current token may change what the player     *)
(*    says without the output being told.                                  *)
(***************************************************************************)
EXTENDS Naturals

VARIABLES
    status,     \* stopped, playing or paused
    token,      \* the playback id the player goes by, 0 when it has none
    tokens,     \* how many playback ids have been handed out
    rev,        \* the revision of the last committed change
    sent        \* the directive that went out with it

contractVars == <<status, token, tokens, rev, sent>>

Init ==
    /\ status = "stopped"
    /\ token = 0
    /\ tokens = 0
    /\ rev = 0
    /\ sent = "none"

Commit == rev' = rev + 1

\* A command, or the natural end of the previous item, starts a playback.
StartPlayback ==
    /\ Commit
    /\ tokens' = tokens + 1
    /\ token' = tokens + 1
    /\ status' = "playing"
    /\ sent' = "load"

\* Pausing keeps the token for a later completion or drops it (undo).
PausePlayback ==
    /\ Commit
    /\ status' = "paused"
    /\ token' \in {token, 0}
    /\ sent' = "pause"
    /\ UNCHANGED tokens

StopPlayback ==
    /\ Commit
    /\ status' = "stopped"
    /\ token' = 0
    /\ sent' = "stop"
    /\ UNCHANGED tokens

\* The output reports that the current playback is over.
EndPlayback ==
    /\ token # 0
    /\ Commit
    /\ status' = "stopped"
    /\ token' = 0
    /\ sent' = "none"
    /\ UNCHANGED tokens

\* The output reports what it does with the current playback.
Observe ==
    /\ token # 0
    /\ Commit
    /\ status' \in {"stopped", "playing", "paused"}
    /\ sent' = "none"
    /\ UNCHANGED <<token, tokens>>

\* A queue edit or a setting; a silent player may lose its token to it.
Adjust ==
    /\ Commit
    /\ sent' \in {"none", "volume"}
    /\ token' = token \/ (status # "playing" /\ token' = 0)
    /\ UNCHANGED <<status, tokens>>

Next ==
    \/ StartPlayback
    \/ PausePlayback
    \/ StopPlayback
    \/ EndPlayback
    \/ Observe
    \/ Adjust

Spec == Init /\ [][Next]_contractVars
=============================================================================
