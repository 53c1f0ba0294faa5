--------------------------- MODULE PlaylistStore ---------------------------
(***************************************************************************)
(* What the server promises about saved playlists, whatever happens to it: *)
(* a playlist is saved at once, deleted at once, and goes away together    *)
(* with its owner's other playlists when the account is deleted.  Nothing  *)
(* else changes it: not a deletion that fails half way, not a stop of the  *)
(* process at any point, not the clean-up of the next start.               *)
(*                                                                         *)
(* A name that a save takes while its earlier playlist is still being      *)
(* saved or removed is Mixed from then on: of that name nothing is         *)
(* promised.  Deletion implements this module.                             *)
(***************************************************************************)

CONSTANTS Account,   \* the accounts
          Name,      \* the file names of playlists, which are their ids too
          Text,      \* the contents a playlist may have
          None,      \* no playlist
          Mixed      \* a name that was reused too early

Playlist == [owner: Account, text: Text]

VARIABLES account,   \* the accounts that exist
          stored     \* [Name -> Playlist \cup {None, Mixed}]

Init == /\ account = Account
        /\ stored \in [Name -> Playlist \cup {None}]

(* A save fills a free name. *)
Save(n, a, t) ==
  /\ stored[n] = None
  /\ a \in account
  /\ stored' = [stored EXCEPT ![n] = [owner |-> a, text |-> t]]
  /\ UNCHANGED account

(* One playlist is deleted. *)
DeletePlaylist(n) ==
  /\ stored[n] \in Playlist
  /\ stored' = [stored EXCEPT ![n] = None]
  /\ UNCHANGED account

(* An account goes with all of its playlists, and with no other one. *)
DeleteAccount(a) ==
  /\ account' = account \ {a}
  /\ stored' = [n \in Name |->
                  IF stored[n] \in Playlist /\ stored[n].owner = a
                    THEN None ELSE stored[n]]

(* A save takes the name of a playlist that is on its way in or out. *)
Mix(n) ==
  /\ stored' = [stored EXCEPT ![n] = Mixed]
  /\ UNCHANGED account

Next == \/ \E n \in Name, a \in Account, t \in Text : Save(n, a, t)
        \/ \E n \in Name : DeletePlaylist(n) \/ Mix(n)
        \/ \E a \in Account : DeleteAccount(a)

Spec == Init /\ [][Next]_<<account, stored>>
=============================================================================
