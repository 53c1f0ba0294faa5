------------------------------ MODULE Deletion ------------------------------
(***************************************************************************)
(* Playlists are rows of the database and files of the music directory.    *)
(* A save writes the file and then the row.  The deletion of a playlist or *)
(* of an account moves the files into a staging directory, deletes the     *)
(* rows in one transaction, and then removes the staged files or, when the *)
(* transaction failed, moves them back (deletion.rs).  Next to each staged *)
(* file lies a metadata file with the playlist's id and its old path; at   *)
(* the next start the server settles every entry it finds there, and does  *)
(* not serve when it cannot.                                               *)
(*                                                                         *)
(* Each file operation, each query and each transaction is a step of its   *)
(* own: requests run on threads of their own and the process may stop      *)
(* between any two of them.                                                *)
(***************************************************************************)
EXTENDS Naturals, FiniteSets

CONSTANTS Account,      \* accounts that exist at first
          Name,         \* file names, "playlists/<name>" being path and row id
          Request,      \* deletions, each asked for at most once
          Writer,       \* saves, each asked for at most once
          Old,          \* the content of the playlists there were at first
          None,         \* no row, no file, nobody
          Mixed,        \* see PlaylistStore
          MaxCrashes    \* bound: how often the process stops

Text == Writer \cup {Old}
Row == [owner: Account, text: Text]

ASSUME DistinctAssumption ==
  /\ Old \notin Writer
  /\ None \notin Account \cup Name \cup Text \cup Row
  /\ Mixed \notin Row \cup {None}
ASSUME CrashesAssumption == MaxCrashes \in Nat

Item == Request \X Name         \* a staged playlist: its request and its name

VARIABLES
  phase,     \* "up", "down", "starting" while the staging is settled, or
             \* "failed" after an operation did at the start
  account,   \* rows of accounts
  row,       \* [Name -> Row \cup {None}]: rows of playlists
  file,      \* [Name -> Text \cup {None}]: the playlist files
  meta,      \* the items with a metadata file in the staging directory
  torn,      \* those of them whose metadata is not written to its end
  staged,    \* [Item -> Text \cup {None}]: the staged files
  settling,  \* at a start: the item whose metadata file is removed next
  del,       \* [Request -> ...]: where each deletion is
  save,      \* [Writer -> ...]: where each save is
  crashes,   \* how often the process has stopped
  reused     \* history: names a save took too early

disk == <<file, meta, torn, staged>>
server == <<phase, settling, crashes>>
vars == <<server, account, row, disk, del, save, reused>>

Busy == {"stage", "rename", "finish", "forget", "restore", "unnote"}
DelPc == Busy \cup {"idle", "done"}
SavePc == {"idle", "write", "insert", "done"}

NoDel == [pc |-> "idle", who |-> None, list |-> {}, todo |-> {}, own |-> {}, cur |-> None]
NoSave == [pc |-> "idle", owner |-> None, name |-> None]
DelDone == [NoDel EXCEPT !.pc = "done"]      \* answered, or cut off by a stop
SaveDone == [NoSave EXCEPT !.pc = "done"]

TypeOK ==
  /\ phase \in {"up", "down", "starting", "failed"}
  /\ account \subseteq Account
  /\ row \in [Name -> Row \cup {None}]
  /\ file \in [Name -> Text \cup {None}]
  /\ meta \subseteq Item /\ torn \subseteq meta
  /\ staged \in [Item -> Text \cup {None}]
  /\ settling \in (meta \ torn) \cup {None}
  /\ del \in [Request -> [pc: DelPc, who: Account \cup {None}, list: SUBSET Name,
                          todo: SUBSET Name, own: SUBSET Name, cur: Name \cup {None}]]
  /\ save \in [Writer -> [pc: SavePc, owner: Account \cup {None}, name: Name \cup {None}]]
  /\ crashes \in 0..MaxCrashes
  /\ reused \subseteq Name

Init ==
  /\ phase = "up" /\ account = Account
  /\ row \in [Name -> [owner: Account, text: {Old}] \cup {None}]
  /\ file = [n \in Name |-> IF row[n] = None THEN None ELSE Old]
  /\ meta = {} /\ torn = {} /\ staged = [i \in Item |-> None] /\ settling = None
  /\ del = [d \in Request |-> NoDel] /\ save = [w \in Writer |-> NoSave]
  /\ crashes = 0 /\ reused = {}

-----------------------------------------------------------------------------
(* Saving the queue as a playlist *)

(* Something of an earlier playlist of this name is still under way: a save *)
(* that has chosen it, a deletion that lists it, a file left in staging.    *)
Claimed(n) ==
  \/ \E w \in Writer : save[w].pc \in {"write", "insert"} /\ save[w].name = n
  \/ \E d \in Request : del[d].pc \in Busy /\ n \in del[d].list
  \/ \E d \in Request : staged[<<d, n>>] # None

(* The request is admitted and unique_playlist_filename finds a name under  *)
(* which there is no file.  Nothing reserves the name.                      *)
ChooseName(w, a, n) ==
  /\ phase = "up" /\ save[w].pc = "idle"
  /\ a \in account /\ file[n] = None
  /\ save' = [save EXCEPT ![w] = [pc |-> "write", owner |-> a, name |-> n]]
  /\ reused' = IF Claimed(n) THEN reused \cup {n} ELSE reused
  /\ UNCHANGED <<server, account, row, disk, del>>

(* The file is written, over one that has appeared meanwhile. *)
WriteFile(w) ==
  /\ save[w].pc = "write"
  /\ file' = [file EXCEPT ![save[w].name] = w]
  /\ save' = [save EXCEPT ![w].pc = "insert"]
  /\ UNCHANGED <<server, account, row, meta, torn, staged, del, reused>>

(* Writing fails, before it began or half way: there will be no row.        *)
WriteFails(w) ==
  /\ save[w].pc = "write"
  /\ file' \in {file, [file EXCEPT ![save[w].name] = w]}
  /\ save' = [save EXCEPT ![w] = SaveDone]
  /\ UNCHANGED <<server, account, row, meta, torn, staged, del, reused>>

(* upsert_playlist.  The owner column refers to a row of accounts.          *)
InsertRow(w) ==
  /\ save[w].pc = "insert" /\ save[w].owner \in account
  /\ row' = [row EXCEPT ![save[w].name] = [owner |-> save[w].owner, text |-> w]]
  /\ save' = [save EXCEPT ![w] = SaveDone]
  /\ UNCHANGED <<server, account, disk, del, reused>>

(* The statement fails, always when the account is gone: the file stays.    *)
InsertFails(w) ==
  /\ save[w].pc = "insert"
  /\ save' = [save EXCEPT ![w] = SaveDone]
  /\ UNCHANGED <<server, account, row, disk, del, reused>>

-----------------------------------------------------------------------------
(* Deleting a playlist or an account *)

OwnedBy(a) == {n \in Name : row[n] # None /\ row[n].owner = a}

Begin(d, who, list) ==
  /\ phase = "up" /\ del[d].pc = "idle"
  /\ del' = [del EXCEPT ![d] = [NoDel EXCEPT !.pc = "stage", !.who = who,
                                             !.list = list, !.todo = list]]
  /\ UNCHANGED <<server, account, row, disk, save, reused>>

AskPlaylist(d, n) == row[n] # None /\ Begin(d, None, {n})

AskAccount(d, a) == a \in account /\ Begin(d, a, OwnedBy(a))

(* Staging is over: what is staged is removed or restored.                  *)
TurnsTo(d, pc) ==
  del' = [del EXCEPT ![d].pc = pc, ![d].who = None, ![d].todo = {}, ![d].cur = None]

(* stage_playlist_file: a playlist without a file needs no staging ...      *)
SkipMissing(d, n) ==
  /\ del[d].pc = "stage" /\ n \in del[d].todo
  /\ file[n] = None
  /\ del' = [del EXCEPT ![d].todo = @ \ {n}]
  /\ UNCHANGED <<server, account, row, disk, save, reused>>

(* ... and otherwise the metadata is written before the file moves.         *)
WriteMeta(d, n) ==
  /\ del[d].pc = "stage" /\ n \in del[d].todo
  /\ file[n] # None
  /\ meta' = meta \cup {<<d, n>>}
  /\ del' = [del EXCEPT ![d].pc = "rename", ![d].cur = n, ![d].todo = @ \ {n}]
  /\ UNCHANGED <<server, account, row, file, torn, staged, save, reused>>

(* A playlist cannot be looked up, or its metadata is not written to its    *)
(* end, for an error or because the process is about to stop: what was      *)
(* staged before goes back, and the metadata is left as it is.              *)
StageFails(d, n) ==
  /\ del[d].pc = "stage" /\ n \in del[d].todo
  /\ \/ UNCHANGED <<meta, torn>>
     \/ /\ file[n] # None
        /\ meta' = meta \cup {<<d, n>>} /\ torn' = torn \cup {<<d, n>>}
  /\ TurnsTo(d, "restore")
  /\ UNCHANGED <<server, account, row, file, staged, save, reused>>

MoveAway(d) ==
  LET n == del[d].cur IN
  /\ del[d].pc = "rename" /\ file[n] # None
  /\ staged' = [staged EXCEPT ![<<d, n>>] = file[n]]
  /\ file' = [file EXCEPT ![n] = None]
  /\ del' = [del EXCEPT ![d].pc = "stage", ![d].own = @ \cup {n}, ![d].cur = None]
  /\ UNCHANGED <<server, account, row, meta, torn, save, reused>>

(* The rename fails, always when another deletion moved the file first, and *)
(* the metadata is removed if that can be done.                             *)
MoveFails(d) ==
  /\ del[d].pc = "rename"
  /\ meta' \in {meta \ {<<d, del[d].cur>>}, meta}
  /\ TurnsTo(d, "restore")
  /\ UNCHANGED <<server, account, row, file, torn, staged, save, reused>>

Listed(d) == del[d].pc = "stage" /\ del[d].todo = {}

\* Mutant: playlists saved since are left to an owner that is gone.
CommitOverRows(d) ==
  /\ Listed(d)
  /\ row' = [n \in Name |-> IF n \in del[d].list THEN None ELSE row[n]]
  /\ account' = account \ {del[d].who}
  /\ TurnsTo(d, "finish")
  /\ UNCHANGED <<server, disk, save, reused>>

(* The transaction: every listed row, and the account.  A playlist that was *)
(* saved for the account since it was listed refers to it and fails it.     *)
Commit(d) ==
  LET left == [n \in Name |-> IF n \in del[d].list THEN None ELSE row[n]] IN
  /\ Listed(d)
  /\ \A n \in Name : left[n] # None => left[n].owner # del[d].who
  /\ row' = left
  /\ account' = account \ {del[d].who}
  /\ TurnsTo(d, "finish")
  /\ UNCHANGED <<server, disk, save, reused>>

\* Mutant: a failed transaction is finished like one that succeeded.
CommitFailsDone(d) ==
  /\ Listed(d)
  /\ TurnsTo(d, "finish")
  /\ UNCHANGED <<server, account, row, disk, save, reused>>

CommitFails(d) ==
  /\ Listed(d)
  /\ TurnsTo(d, "restore")
  /\ UNCHANGED <<server, account, row, disk, save, reused>>

\* Mutant: the metadata goes first.
DropMetaFirst(d, n) ==
  /\ del[d].pc = "finish" /\ n \in del[d].own
  /\ meta' = meta \ {<<d, n>>}
  /\ del' = [del EXCEPT ![d].own = @ \ {n}]
  /\ UNCHANGED <<server, account, row, file, torn, staged, save, reused>>

(* finish_staged, one item: the staged file and then its metadata.          *)
DropStaged(d, n) ==
  /\ del[d].pc = "finish" /\ n \in del[d].own
  /\ staged' = [staged EXCEPT ![<<d, n>>] = None]
  /\ del' = [del EXCEPT ![d].pc = "forget", ![d].cur = n, ![d].own = @ \ {n}]
  /\ UNCHANGED <<server, account, row, file, meta, torn, save, reused>>

(* The file cannot be removed: both stay for the next start.                *)
DropFails(d, n) ==
  /\ del[d].pc = "finish" /\ n \in del[d].own
  /\ del' = [del EXCEPT ![d].own = @ \ {n}]
  /\ UNCHANGED <<server, account, row, disk, save, reused>>

(* restore_staged, one item: the file goes back over whatever has its name. *)
PutBack(d, n) ==
  /\ del[d].pc = "restore" /\ n \in del[d].own
  /\ file' = [file EXCEPT ![n] = staged[<<d, n>>]]
  /\ staged' = [staged EXCEPT ![<<d, n>>] = None]
  /\ del' = [del EXCEPT ![d].pc = "unnote", ![d].cur = n, ![d].own = @ \ {n}]
  /\ UNCHANGED <<server, account, row, meta, torn, save, reused>>

(* A file cannot be moved back, or its metadata not be removed: those that  *)
(* are left to do stay in staging.                                          *)
PutBackFails(d) ==
  /\ del[d].pc = "unnote" \/ (del[d].pc = "restore" /\ del[d].own # {})
  /\ del' = [del EXCEPT ![d] = DelDone]
  /\ UNCHANGED <<server, account, row, disk, save, reused>>

DropMeta(d) ==
  /\ del[d].pc \in {"forget", "unnote"}
  /\ meta' = meta \ {<<d, del[d].cur>>}
  /\ del' = [del EXCEPT ![d].pc = IF @ = "forget" THEN "finish" ELSE "restore",
                        ![d].cur = None]
  /\ UNCHANGED <<server, account, row, file, torn, staged, save, reused>>

(* After a deletion that is only noted, and the next file has its turn.     *)
DropMetaFails(d) ==
  /\ del[d].pc = "forget"
  /\ del' = [del EXCEPT ![d].pc = "finish", ![d].cur = None]
  /\ UNCHANGED <<server, account, row, disk, save, reused>>

Answer(d) ==
  /\ del[d].pc \in {"finish", "restore"} /\ del[d].own = {}
  /\ del' = [del EXCEPT ![d] = DelDone]
  /\ UNCHANGED <<server, account, row, disk, save, reused>>

-----------------------------------------------------------------------------
(* The process stops, and starts again *)

Crash ==
  /\ phase \in {"up", "starting"} /\ crashes < MaxCrashes
  /\ phase' = "down" /\ crashes' = crashes + 1 /\ settling' = None
  /\ del' = [d \in Request |-> IF del[d].pc \in Busy THEN DelDone ELSE del[d]]
  /\ save' = [w \in Writer |-> IF save[w].pc \in {"write", "insert"}
                                 THEN SaveDone ELSE save[w]]
  /\ UNCHANGED <<account, row, disk, reused>>

Start ==
  /\ phase \in {"down", "failed"} /\ phase' = "starting"
  /\ UNCHANGED <<account, row, disk, settling, del, save, crashes, reused>>

(* reconcile_playlist_staging, one entry: with its row the file goes back,  *)
(* unless there is one again; without its row it is removed ...             *)
Settle(d, n) ==
  /\ phase = "starting" /\ settling = None /\ <<d, n>> \in meta \ torn
  /\ settling' = <<d, n>>
  /\ file' = IF row[n] # None /\ file[n] = None
               THEN [file EXCEPT ![n] = staged[<<d, n>>]] ELSE file
  /\ staged' = [staged EXCEPT ![<<d, n>>] = None]
  /\ UNCHANGED <<phase, account, row, meta, torn, del, save, crashes, reused>>

\* Mutant: the entry is still current when its metadata is gone.
SettleMetaStuck ==
  /\ phase = "starting" /\ settling # None
  /\ meta' = meta \ {settling}
  /\ UNCHANGED <<server, account, row, file, torn, staged, del, save, reused>>

(* ... and then its metadata.                                               *)
SettleMeta ==
  /\ phase = "starting" /\ settling # None
  /\ meta' = meta \ {settling} /\ settling' = None
  /\ UNCHANGED <<phase, account, row, file, torn, staged, del, save, crashes, reused>>

\* Mutant: the clean-up is left to a later start.
ServeAtOnce ==
  /\ phase = "starting"
  /\ phase' = "up" /\ settling' = None
  /\ UNCHANGED <<account, row, disk, del, save, crashes, reused>>

(* Metadata that is not whole cannot be read, which ends the start.         *)
Refuse ==
  /\ phase = "starting" /\ settling = None /\ torn # {}
  /\ phase' = "down"
  /\ UNCHANGED <<account, row, disk, settling, del, save, crashes, reused>>

(* So does any operation that fails.                                        *)
AbortStart ==
  /\ phase = "starting"
  /\ phase' = "failed" /\ settling' = None
  /\ UNCHANGED <<account, row, disk, del, save, crashes, reused>>

Serve ==
  /\ phase = "starting" /\ meta = {}
  /\ phase' = "up"
  /\ UNCHANGED <<account, row, disk, settling, del, save, crashes, reused>>

-----------------------------------------------------------------------------
SaveStep(w) == WriteFile(w) \/ WriteFails(w) \/ InsertRow(w) \/ InsertFails(w)

DeleteStep(d) ==
  \/ MoveAway(d) \/ MoveFails(d)
  \/ Commit(d) \/ CommitFails(d)
  \/ DropMeta(d) \/ DropMetaFails(d) \/ PutBackFails(d) \/ Answer(d)
  \/ \E n \in Name : \/ SkipMissing(d, n) \/ WriteMeta(d, n) \/ StageFails(d, n)
                     \/ DropStaged(d, n) \/ DropFails(d, n) \/ PutBack(d, n)

Restart == Start \/ SettleMeta \/ Refuse \/ Serve \/ \E d \in Request, n \in Name : Settle(d, n)

Next ==
  \/ \E w \in Writer, a \in Account, n \in Name : ChooseName(w, a, n)
  \/ \E w \in Writer : SaveStep(w)
  \/ \E d \in Request, n \in Name : AskPlaylist(d, n)
  \/ \E d \in Request, a \in Account : AskAccount(d, a)
  \/ \E d \in Request : DeleteStep(d)
  \/ Crash \/ AbortStart
  \/ Restart

(* A stopped server is started again, and a start goes on to its end.       *)
Fairness == WF_vars(Restart)

Spec == Init /\ [][Next]_vars /\ Fairness

-----------------------------------------------------------------------------
(* Properties *)

(* A staged file always has its metadata, and all of it: whatever fails and *)
(* wherever the process stops, a start can tell of every file that was      *)
(* moved away where it belongs.                                             *)
StagedIsNoted == \A i \in Item : staged[i] # None => i \in meta \ torn

(* Whatever saves, deletions and stops do at once: unless its name was      *)
(* reused, a playlist that is listed has the file that was saved with it,   *)
(* in its place or, while it is being deleted or after a deletion that      *)
(* could not move it back, in staging for the next start.                   *)
RowHasFile ==
  \A n \in Name \ reused : row[n] # None =>
     \/ file[n] = row[n].text
     \/ file[n] = None /\ \E d \in Request : staged[<<d, n>>] = row[n].text

(* What a start would make of the playlist n now. *)
Kept(n) ==
  LET away == {d \in Request : staged[<<d, n>>] # None}
  IN  IF n \in reused THEN Mixed
      ELSE IF row[n] = None THEN None
      ELSE [owner |-> row[n].owner,
            text |-> IF file[n] # None THEN file[n]
                     ELSE IF away # {} THEN staged[<<CHOOSE d \in away : TRUE, n>>] ELSE None]

Store == INSTANCE PlaylistStore WITH stored <- [n \in Name |-> Kept(n)]

(* The deletion is crash-safe (deletion.rs:1): saves and deletions are the  *)
(* only steps that change a playlist, each does it at once, and an account  *)
(* takes all of its playlists and no other with it.                         *)
StoreSpec == Store!Spec

(* After a stop, and after a start that failed, the server comes up again   *)
(* with an empty staging directory, unless operations go on failing at the  *)
(* start, or a deletion has left metadata that is not whole: that one ends  *)
(* every start.                                                             *)
RestartClears ==
  phase # "up" ~> ((phase = "up" /\ meta = {}) \/ phase = "failed" \/ torn # {})
=============================================================================
