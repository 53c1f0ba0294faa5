------------------------------- MODULE Player -------------------------------
(***************************************************************************)
(* One player of the core: its persisted row, its queue, its one-level     *)
(* undo snapshot, and every command and output report that changes them    *)
(* (server/crates/ichoi/src/handlers/mod.rs, apply_player_command and      *)
(* record_node_report; db/store.rs for the tables).                        *)
(*                                                                         *)
(* One action is one committed SQLite transaction.  A request that the     *)
(* code rejects rolls its transaction back and is a stuttering step, so it *)
(* has no action.  The directive the handler returns for the output is the *)
(* value of `directive' after the step.                                    *)
(*                                                                         *)
(* Encodings of absence: queue positions count from 1 and 0 stands for     *)
(* "no current index"; queue item ids and playback ids count from 1 and 0  *)
(* stands for NULL.  A playback id is a fresh UUID in the code and the     *)
(* next unused number here.  A NULL position is 0, which is how every      *)
(* reader of the column treats it.                                         *)
(***************************************************************************)
EXTENDS Naturals, Sequences

CONSTANTS
    Tracks,         \* track ids of the library
    Accounts,       \* accounts that may start playback
    NoListener,     \* playback that is attributed to nobody
    Positions,      \* playback positions that are told apart
    Volumes,        \* volume levels that are told apart
    Repeats,        \* repeat modes that clients set
    Shuffles,       \* shuffle settings that clients send
    MaxBatch,       \* bound: tracks named by one enqueue
    MaxQueue,       \* bound: items in the queue
    MaxItems,       \* bound: queue item ids handed out
    MaxPlaybacks,   \* bound: playback ids handed out
    MaxRevision     \* bound: committed transactions

ASSUME PlayerAssumption ==
    /\ NoListener \notin Accounts
    /\ Positions \subseteq Nat /\ 0 \in Positions
    /\ Volumes \subseteq 0..100
    /\ Repeats \subseteq {"off", "all", "one"} /\ Shuffles \subseteq BOOLEAN
    /\ {MaxBatch, MaxQueue, MaxItems, MaxPlaybacks, MaxRevision} \subseteq Nat

VARIABLES
    state,      \* the player_state row
    queue,      \* the player_queue_items rows, in position order
    undo,       \* the undo snapshot: at most one
    nextItem,   \* the AUTOINCREMENT sequence of player_queue_items
    issued,     \* issued[p]: the queue item that playback id p was issued for
    listens,    \* the playback ids whose completion was recorded as a listen
    directive   \* the directive returned by the last transaction

playerVars == <<state, queue, undo, nextItem, issued, listens, directive>>

Statuses == {"stopped", "playing", "paused"}
RepeatModes == {"off", "all", "one"}
Listeners == Accounts \cup {NoListener}
TrackLists == UNION {[1..n -> Tracks] : n \in 0..MaxBatch}
Ids(q) == {q[k].id : k \in DOMAIN q}

-----------------------------------------------------------------------------
(* The current item and the choice of the next one.                        *)

\* The position of an item in a queue, 0 when it is not there.
PositionOf(q, item) ==
    IF item \in Ids(q) THEN CHOOSE k \in DOMAIN q : q[k].id = item ELSE 0

SetCurrent(s, q, k) ==
    [s EXCEPT !.index = k, !.item = IF k \in DOMAIN q THEN q[k].id ELSE 0]

\* Mutant: the stored index wins over the item it pointed to.
NormalizeByIndex(s, q) ==
    SetCurrent(s, q, IF s.index \in DOMAIN q THEN s.index
                     ELSE PositionOf(q, s.item))

\* The row follows its item; only a row without one falls back to the index.
Normalize(s, q) ==
    SetCurrent(s, q,
        IF s.item \in Ids(q) THEN PositionOf(q, s.item)
        ELSE IF s.index \in DOMAIN q THEN s.index ELSE 0)

\* The position a skip or a natural completion may move to; empty: none left.
SelectNext(s, q, natural) ==
    LET known == IF s.item \in Ids(q) THEN PositionOf(q, s.item)
                 ELSE IF s.index = 0 THEN 1 ELSE s.index
        current == IF known > Len(q) THEN Len(q) ELSE known
        others == DOMAIN q \ {current}
    IN  IF q = <<>> THEN {}
        ELSE IF natural /\ s.repeat = "one" THEN {current}
        ELSE IF s.shuffle /\ others # {} THEN others
        ELSE IF current < Len(q) THEN {current + 1}
        ELSE IF s.repeat = "all" THEN {1} ELSE {}

-----------------------------------------------------------------------------
(* Directives to the output.                                               *)

NoDirective == [op |-> "none"]
PauseDirective == [op |-> "pause"]
StopDirective == [op |-> "stop"]
VolumeDirective(v) == [op |-> "volume", volume |-> v]

\* Nothing can be loaded without a current item and a playback id.
LoadDirective(s, q) ==
    IF s.item \in Ids(q) /\ s.pb # 0
    THEN [op |-> "load", item |-> s.item, pb |-> s.pb, pos |-> s.pos,
          track |-> q[PositionOf(q, s.item)].track]
    ELSE NoDirective

-----------------------------------------------------------------------------
(* How a transaction ends.  `row' is the row as every transaction reads it *)
(* at its start.                                                           *)

row == Normalize(state, queue)

\* The row is written with the next revision.
Save(s) ==
    /\ state.rev < MaxRevision
    /\ state' = [s EXCEPT !.rev = state.rev + 1]

\* A transaction that ends without starting a playback.
Settle(s, q, d) ==
    /\ Save(s)
    /\ queue' = q
    /\ directive' = d
    /\ UNCHANGED issued

BeginPlayback(s, pos) ==
    [s EXCEPT !.status = "playing", !.pos = pos, !.error = FALSE,
              !.pb = Len(issued) + 1]

\* Mutant: the directive is built before the new playback id is drawn.
StartLoadsOld(s, q, pos) ==
    /\ Len(issued) < MaxPlaybacks
    /\ Save(BeginPlayback(s, pos))
    /\ queue' = q
    /\ directive' = LoadDirective(s, q)
    /\ issued' = Append(issued, s.item)

\* A transaction that starts a playback of the row's current item.
Start(s, q, pos) ==
    /\ Len(issued) < MaxPlaybacks
    /\ Save(BeginPlayback(s, pos))
    /\ queue' = q
    /\ directive' = LoadDirective(BeginPlayback(s, pos), q)
    /\ issued' = Append(issued, s.item)

Snapshot ==
    [status |-> row.status, item |-> row.item, pos |-> row.pos, pb |-> row.pb,
     error |-> row.error, listener |-> row.listener, queue |-> queue]

\* Every queue edit first replaces the undo snapshot.
SaveUndo == undo' = {Snapshot}

-----------------------------------------------------------------------------
(* Queue edits.                                                            *)

\* Mutant: row ids count from 0.
NewItemsFromZero(tracks) ==
    [n \in 1..Len(tracks) |-> [id |-> nextItem + n - 2, track |-> tracks[n]]]

\* Mutant: without AUTOINCREMENT the largest id in use is continued.
NewItemsReuseIds(tracks) ==
    LET top == CHOOSE n \in {0} \cup Ids(queue) : \A m \in Ids(queue) : m <= n
    IN  [n \in 1..Len(tracks) |-> [id |-> top + n, track |-> tracks[n]]]

NewItems(tracks) ==
    [n \in 1..Len(tracks) |-> [id |-> nextItem + n - 1, track |-> tracks[n]]]

\* The first `at' items, the new ones, the rest.
Splice(q, at, new) ==
    [k \in 1..(Len(q) + Len(new)) |->
        IF k <= at THEN q[k]
        ELSE IF k <= at + Len(new) THEN new[k - at] ELSE q[k - Len(new)]]

RemoveAt(q, k) ==
    [j \in 1..(Len(q) - 1) |-> IF j < k THEN q[j] ELSE q[j + 1]]

\* Mutant: the moved item is put back but not taken out.
MoveToCopies(q, from, to) == Splice(q, to - 1, <<q[from]>>)

\* The item at position `from' is taken out and put back at position `to'.
MoveTo(q, from, to) == Splice(RemoveAt(q, from), to - 1, <<q[from]>>)

\* New rows take the next ids; deleted ids are never handed out again.
InsertRows(tracks) ==
    /\ Len(queue) + Len(tracks) <= MaxQueue
    /\ nextItem + Len(tracks) <= MaxItems + 1
    /\ nextItem' = nextItem + Len(tracks)

AtFirst(q) == [SetCurrent(row, q, 1) EXCEPT !.pos = 0]

Enqueue(tracks, at) ==
    /\ SaveUndo
    /\ InsertRows(tracks)
    /\ LET q == Splice(queue, at, NewItems(tracks))
       IN  Settle(IF queue = <<>> THEN AtFirst(q) ELSE Normalize(row, q),
                  q, NoDirective)
    /\ UNCHANGED listens

EnqueueNext(tracks) ==
    /\ SaveUndo
    /\ InsertRows(tracks)
    /\ LET q == Splice(queue, PositionOf(queue, row.item), NewItems(tracks))
       IN  Settle(IF row.item = 0 THEN AtFirst(q) ELSE Normalize(row, q),
                  q, NoDirective)
    /\ UNCHANGED listens

\* Mutant: a stopped player keeps its playback id.
HaltedKeepsId(s) == [s EXCEPT !.status = "stopped", !.pos = 0]

Halted(s) == [s EXCEPT !.status = "stopped", !.pos = 0, !.pb = 0]

\* Mutant: the successor of a removed silent item inherits the playback id.
RemoveKeepsId(k) ==
    LET q == RemoveAt(queue, k)
        s == [SetCurrent(row, q, IF k > Len(q) THEN Len(q) ELSE k)
                EXCEPT !.pos = 0]
    IN  \/ /\ q = <<>>
           /\ Settle(Halted(SetCurrent(row, q, 0)), q, StopDirective)
        \/ /\ q # <<>>
           /\ row.item # queue[k].id
           /\ Settle(Normalize(row, q), q, NoDirective)
        \/ /\ q # <<>>
           /\ row.item = queue[k].id
           /\ row.status # "playing"
           /\ Settle(s, q, NoDirective)
        \/ /\ q # <<>>
           /\ row.item = queue[k].id
           /\ row.status = "playing"
           /\ Start(s, q, 0)

\* Removing the playing item plays its successor; removing a silent current
\* item leaves the player without a playback.
RemoveQueueItem(k) ==
    LET q == RemoveAt(queue, k)
        s == [SetCurrent(row, q, IF k > Len(q) THEN Len(q) ELSE k)
                EXCEPT !.pos = 0, !.pb = 0]
    IN  \/ /\ q = <<>>
           /\ Settle(Halted(SetCurrent(row, q, 0)), q, StopDirective)
        \/ /\ q # <<>>
           /\ row.item # queue[k].id
           /\ Settle(Normalize(row, q), q, NoDirective)
        \/ /\ q # <<>>
           /\ row.item = queue[k].id
           /\ row.status # "playing"
           /\ Settle(s, q, NoDirective)
        \/ /\ q # <<>>
           /\ row.item = queue[k].id
           /\ row.status = "playing"
           /\ Start(s, q, 0)

\* By index or by item id: both arms resolve to a position of the queue.
Remove(k) ==
    /\ SaveUndo
    /\ RemoveQueueItem(k)
    /\ UNCHANGED <<nextItem, listens>>

\* Mutant: the row is not normalised against the new order.
RearrangeStale(q) ==
    /\ SaveUndo
    /\ Settle(row, q, NoDirective)
    /\ UNCHANGED <<nextItem, listens>>

Rearrange(q) ==
    /\ SaveUndo
    /\ Settle(Normalize(row, q), q, NoDirective)
    /\ UNCHANGED <<nextItem, listens>>

Reorder(from, to) == Rearrange(MoveTo(queue, from, to))

\* `before' is the position of another item of the queue, or the end.
MoveItem(from, before) ==
    /\ before # from
    /\ Rearrange(MoveTo(queue, from, IF before > from THEN before - 1 ELSE before))

Clear ==
    /\ SaveUndo
    /\ Settle([Halted(SetCurrent(row, <<>>, 0)) EXCEPT !.error = FALSE],
              <<>>, StopDirective)
    /\ UNCHANGED <<nextItem, listens>>

ReplaceAndPlay(tracks, k, pos, l) ==
    /\ SaveUndo
    /\ nextItem + Len(tracks) <= MaxItems + 1
    /\ nextItem' = nextItem + Len(tracks)
    /\ k \in DOMAIN tracks
    /\ LET q == NewItems(tracks)
       IN  Start([SetCurrent(row, q, k) EXCEPT !.listener = l], q, pos)
    /\ UNCHANGED listens

-----------------------------------------------------------------------------
(* Transport commands.  `l' is the listener the row holds afterwards: a    *)
(* signed-in account, nobody, or the one it already had.                   *)

Unedited == UNCHANGED <<undo, nextItem, listens>>

PlayAt(k, pos, l) ==
    /\ k \in DOMAIN queue
    /\ Start([SetCurrent(row, queue, k) EXCEPT !.listener = l], queue, pos)
    /\ Unedited

\* Without a requested item: resume a paused player, else start from 0.
Play(l) ==
    PlayAt(IF row.index = 0 THEN 1 ELSE row.index,
           IF row.status = "paused" THEN row.pos ELSE 0, l)

PlayRequested(k, l) == PlayAt(k, 0, l)

Pause ==
    /\ Settle([row EXCEPT !.status = "paused", !.error = FALSE],
              queue, PauseDirective)
    /\ Unedited

SkipNext(l) ==
    /\ \/ \E k \in SelectNext(row, queue, FALSE) :
             Start([SetCurrent(row, queue, k) EXCEPT !.listener = l], queue, 0)
       \/ /\ SelectNext(row, queue, FALSE) = {}
          /\ Settle(Halted(row), queue, StopDirective)
    /\ Unedited

Previous(l) == PlayAt(IF row.index <= 2 THEN 1 ELSE row.index - 1, 0, l)

\* Mutant: a seek keeps the playback id it finds.
SeekInPlace(pos) ==
    /\ row.item # 0
    /\ Settle([row EXCEPT !.status = "playing", !.pos = pos], queue,
              LoadDirective(row, queue))
    /\ Unedited

\* A seek always plays, even from a paused or stopped row.
Seek(pos) ==
    /\ row.item # 0
    /\ Start(row, queue, pos)
    /\ Unedited

SetVolume(v) ==
    /\ Settle([row EXCEPT !.volume = v], queue, VolumeDirective(v))
    /\ Unedited

SetRepeat(mode) ==
    /\ Settle([row EXCEPT !.repeat = mode], queue, NoDirective)
    /\ Unedited

SetShuffle(on) ==
    /\ Settle([row EXCEPT !.shuffle = on], queue, NoDirective)
    /\ Unedited

-----------------------------------------------------------------------------
(* Undo.                                                                   *)

\* The saved playback state, with the settings and revision of today.
Restored(saved) ==
    Normalize([row EXCEPT !.status = saved.status, !.index = 0,
                          !.item = saved.item, !.pos = saved.pos,
                          !.pb = saved.pb, !.error = saved.error,
                          !.listener = saved.listener],
              saved.queue)

\* Mutant: undoing to a stopped player tells the output nothing.
UndoDirectivePauseOnly(status) ==
    IF status = "paused" THEN PauseDirective ELSE NoDirective

UndoDirective(status) ==
    CASE status = "paused"  -> PauseDirective
      [] status = "stopped" -> StopDirective
      [] OTHER              -> NoDirective

\* Mutant: a silent player gets its saved playback id back.
UndoKeepsId ==
    \E saved \in undo :
        LET s == Restored(saved)
            plays == s.status = "playing" /\ s.item # 0
        IN  /\ undo' = {}
            /\ \/ plays /\ Start(s, saved.queue, s.pos)
               \/ ~plays /\ Settle(s, saved.queue, UndoDirective(s.status))
            /\ UNCHANGED <<nextItem, listens>>

\* The snapshot is used up.  A restored playback gets a new id: the saved one
\* may belong to a playback that has ended since.
Undo ==
    \E saved \in undo :
        LET s == Restored(saved)
            plays == s.status = "playing" /\ s.item # 0
        IN  /\ undo' = {}
            /\ \/ plays /\ Start(s, saved.queue, s.pos)
               \/ ~plays /\ Settle([s EXCEPT !.pb = 0], saved.queue,
                                   UndoDirective(s.status))
            /\ UNCHANGED <<nextItem, listens>>

-----------------------------------------------------------------------------
(* Reports of the output.  They may come from any playback that was ever   *)
(* started, any number of times; all but the current one are ignored.      *)

\* Mutant: a report is accepted for the item alone.
MatchesItem(pb, item) == row.item = item

Matches(pb, item) == pb # 0 /\ row.pb = pb /\ row.item = item

\* A listen is stored for the listener while the track is in the library;
\* the library may have lost it.
RecordListen(pb) ==
    \/ UNCHANGED listens
    \/ row.listener # NoListener /\ listens' = Append(listens, pb)

Completed(pb, item) ==
    /\ Matches(pb, item)
    /\ RecordListen(pb)
    /\ \/ \E k \in SelectNext(row, queue, TRUE) :
             Start(SetCurrent(row, queue, k), queue, 0)
       \/ /\ SelectNext(row, queue, TRUE) = {}
          /\ Settle(Halted(row), queue, NoDirective)
    /\ UNCHANGED <<undo, nextItem>>

Failed(pb, item) ==
    /\ Matches(pb, item)
    /\ Settle([row EXCEPT !.status = "stopped", !.pb = 0, !.error = TRUE],
              queue, NoDirective)
    /\ Unedited

\* A browser output's report keeps the playback id whatever its status.
Observed(pb, item, status, pos) ==
    /\ Matches(pb, item)
    /\ Settle([row EXCEPT !.status = status, !.pos = pos, !.error = FALSE],
              queue, NoDirective)
    /\ Unedited

\* A node's report gives the playback up when it says stopped.
NodeState(pb, item, status, pos) ==
    /\ Matches(pb, item)
    /\ Settle([row EXCEPT !.status = status, !.pos = pos,
                          !.pb = IF status = "stopped" THEN 0 ELSE @,
                          !.error = IF status = "playing" THEN FALSE ELSE @],
              queue, NoDirective)
    /\ Unedited

-----------------------------------------------------------------------------

Init ==
    /\ state = [status |-> "stopped", index |-> 0, item |-> 0, pos |-> 0,
                volume |-> 100, repeat |-> "off", shuffle |-> FALSE,
                rev |-> 0, pb |-> 0, error |-> FALSE, listener |-> NoListener]
    /\ queue = <<>>
    /\ undo = {}
    /\ nextItem = 1
    /\ issued = <<>>
    /\ listens = <<>>
    /\ directive = NoDirective

QueueEdit ==
    \/ \E tracks \in TrackLists, at \in 0..Len(queue) : Enqueue(tracks, at)
    \/ \E tracks \in TrackLists : EnqueueNext(tracks)
    \/ \E k \in DOMAIN queue : Remove(k)
    \/ \E from, to \in DOMAIN queue : Reorder(from, to)
    \/ \E from \in DOMAIN queue, before \in 1..(Len(queue) + 1) :
          MoveItem(from, before)
    \/ Clear

Replace ==
    \E tracks \in TrackLists, k \in 1..MaxBatch, pos \in Positions, l \in Listeners :
        ReplaceAndPlay(tracks, k, pos, l)

\* The listeners a play command may leave: the actor, nobody, or no change.
Transport ==
    \/ \E l \in Listeners : Play(l) \/ SkipNext(l) \/ Previous(l)
    \/ \E k \in DOMAIN queue, l \in Listeners : PlayRequested(k, l)
    \/ Pause
    \/ \E pos \in Positions : Seek(pos)

Setting ==
    \/ \E v \in Volumes : SetVolume(v)
    \/ \E mode \in Repeats : SetRepeat(mode)
    \/ \E on \in Shuffles : SetShuffle(on)

Report ==
    \E pb \in DOMAIN issued, item \in 1..(nextItem - 1) :
        \/ Completed(pb, item)
        \/ Failed(pb, item)
        \/ \E status \in Statuses, pos \in Positions :
              \/ Observed(pb, item, status, pos)
              \/ NodeState(pb, item, status, pos)

Next == QueueEdit \/ Replace \/ Transport \/ Setting \/ Undo \/ Report

Spec == Init /\ [][Next]_playerVars

-----------------------------------------------------------------------------
(* Properties.                                                             *)

Item == [id : Nat \ {0}, track : Tracks]

PlayerRow ==
    [status : Statuses, index : Nat, item : Nat, pos : Nat, volume : 0..100,
     repeat : RepeatModes, shuffle : BOOLEAN, rev : Nat, pb : Nat,
     error : BOOLEAN, listener : Listeners]

UndoSnapshot ==
    [status : Statuses, item : Nat, pos : Nat, pb : Nat, error : BOOLEAN,
     listener : Listeners, queue : Seq(Item)]

Directive ==
    [op : {"none", "pause", "stop"}]
        \cup [op : {"volume"}, volume : 0..100]
        \cup [op : {"load"}, item : Nat, pb : Nat, pos : Nat, track : Tracks]

\* Every variable keeps the shape of its table or message.
TypeOK ==
    /\ state \in PlayerRow
    /\ queue \in Seq(Item)
    /\ undo \in SUBSET UndoSnapshot
    /\ nextItem \in Nat \ {0}
    /\ issued \in Seq(Nat)
    /\ listens \in Seq(Nat)
    /\ directive \in Directive

\* A queue that holds anything has a current item, at the stored index, through
\* every edit, undo, skip and report (normalize_current_item); an empty queue
\* has neither a current item nor a playback.
CurrentItem ==
    IF queue = <<>>
    THEN state.item = 0 /\ state.pb = 0 /\ state.status # "playing"
    ELSE state.index \in DOMAIN queue /\ state.item = queue[state.index].id

\* What is playing has a playback id, and a playback id in the row was issued
\* for the item that is current now, so a report that matches the row
\* (matches_playback) speaks about the current item.
PlaybackOfCurrentItem ==
    /\ state.status = "playing" => state.pb # 0
    /\ state.pb # 0 => state.pb \in DOMAIN issued /\ issued[state.pb] = state.item

DistinctIds(q) == \A j, k \in DOMAIN q : q[j].id = q[k].id => j = k

\* Item ids are unique in the queue and in the undo snapshot (the primary keys
\* of both tables), and an id that is in both names the same track, so an undo
\* brings back what was removed.
ItemIdentity ==
    /\ DistinctIds(queue)
    /\ \A saved \in undo :
          /\ DistinctIds(saved.queue)
          /\ \A j \in DOMAIN queue, k \in DOMAIN saved.queue :
                queue[j].id = saved.queue[k].id => queue[j] = saved.queue[k]

\* A playback is listened to at most once, however often its completion is
\* reported and whatever is undone in between (record_completed_item).
ListenOnce == \A j, k \in DOMAIN listens : listens[j] = listens[k] => j = k

\* A playback id that has left the row never returns to it, not even by undo:
\* a delayed report of an old playback can never become current again.
PlaybackIdsFresh ==
    [][state'.pb \in {0, state.pb, Len(issued) + 1}]_playerVars

\* An item enters the queue with an id never used before or out of the undo
\* snapshot, so a client's "remove item 7" can only hit the item it has seen.
ItemIdsFresh ==
    [][\A item \in Ids(queue') :
          \/ item \in Ids(queue) \/ item >= nextItem
          \/ \E saved \in undo : item \in Ids(saved.queue)]_playerVars

\* Editing the queue around the current item does not touch the playback: any
\* change of the queue but an undo (the one that leaves no snapshot behind).
EditsDoNotInterrupt ==
    [][queue' # queue /\ undo' # {} /\ state.item \in Ids(queue') =>
          /\ state'.item = state.item /\ state'.pb = state.pb
          /\ state'.status = state.status /\ state'.pos = state.pos]_playerVars

\* Every playback the row starts is sent to the output as it is stored: a row
\* that says playing is never one the output was not asked to play.
StartsAreLoaded ==
    [][state'.pb \notin {0, state.pb} =>
          /\ directive'.op = "load"
          /\ directive'.pb = state'.pb /\ directive'.item = state'.item
          /\ directive'.pos = state'.pos
          /\ directive'.track = queue'[state'.index].track]_playerVars

\* Only the output's own report ends playing without the output being told.
StopsAreSent ==
    [][/\ state.status = "playing" /\ state'.status # "playing"
       /\ directive'.op \notin {"pause", "stop"}
       => Report]_playerVars

Contract == INSTANCE PlayerContract WITH
    status <- state.status, token <- state.pb, tokens <- Len(issued),
    rev <- state.rev, sent <- directive.op

\* The player keeps its contract: each transaction is one of the contract's
\* steps (PlayerContract is the abstract specification).
KeepsContract == Contract!Spec
=============================================================================
