----------------------------- MODULE StateFeed -----------------------------
(***************************************************************************)
(* How the state of one shared player reaches the clients that watch it:   *)
(*                                                                         *)
(*  - a writer commits a transition and publishes its frame afterwards; a  *)
(*    report that changes nothing reads the row, then the queue, outside   *)
(*    any transaction, and publishes what it read (handlers/mod.rs:        *)
(*    publish_player_transition, load_player_state);                       *)
(*  - the SubHub puts a frame in the mailbox of every subscribed           *)
(*    connection; a connection handles one request at a time, writes the   *)
(*    reply to the socket and drains its mailbox in between                *)
(*    (server/http.rs: ws_conn, server/tcp.rs: handle_binary_conn);        *)
(*  - the web client keeps the last frame and drops the ones with a lower  *)
(*    revision (stores/server-data.ts: PlayerStateStore).                  *)
(*                                                                         *)
(* A player can go away and come back: the owner of a browser share        *)
(* deletes it and shares again under the same id, an administrator         *)
(* disables a device and enables it again.  A frame is the revision of the *)
(* row and the version of the queue, numbered by the revision that wrote   *)
(* it.                                                                     *)
(***************************************************************************)
EXTENDS Naturals, Sequences

CONSTANTS
    Clients,        \* web clients, each with one connection at a time
    Writers,        \* other handlers: commands and reports of others
    MaxRevision,    \* bound: transitions commit below this revision
    MaxRequests,    \* bound: requests on their way from one client
    MaxFrames,      \* bound: a client with this many unread frames asks for no more
    MaxRemovals     \* bound: how often the player goes away

ASSUME StateFeedAssumption ==
    /\ Clients \cap Writers = {}
    /\ {MaxRevision, MaxRequests, MaxFrames, MaxRemovals} \subseteq Nat

VARIABLES
    player,     \* the player: what it is, whether it is there, how often it went
    row,        \* the row's revision and the version of the queue
    pending,    \* pending[h]: the frame handler h has yet to publish
    task,       \* task[h]: the request handler h is working on
    subs,       \* the connections in the SubHub's list for the player
    mailbox,    \* mailbox[c]: frames the connection has yet to write
    socket,     \* socket[c]: frames on the wire to client c
    requests,   \* requests[c]: requests on the wire from client c
    client,     \* client[c]: connected, watching, and the cached frame
    missed      \* who lost a subscription with the player, or was refused one

vars == <<player, row, pending, task, subs, mailbox, socket, requests, client, missed>>
wires == <<mailbox, socket, requests>>

Handlers == Clients \cup Writers
None == [rev |-> 0, queue |-> 0, known |-> FALSE]
Frame(rev, queue) == [rev |-> rev, queue |-> queue, known |-> TRUE]
Losses == {"removed", "refused"}
Idle == [op |-> "idle", seen |-> None]

-----------------------------------------------------------------------------
(* The core: transitions and their publication.                            *)

\* A command or a report changes the row, and the queue with it or not.
Transition(h) ==
    /\ player.there /\ row.rev < MaxRevision
    /\ \E queue \in {row.queue, row.rev + 1} :
          row' = Frame(row.rev + 1, queue)
    /\ pending' = [pending EXCEPT ![h] = row']

Write(w) ==
    /\ task[w] = Idle /\ pending[w] = None
    /\ Transition(w)
    /\ UNCHANGED <<player, task, subs, wires, client, missed>>

\* Every subscribed connection gets the frame in its mailbox; a handler that
\* works for a client then answers with the same state.
Publish(h) ==
    /\ pending[h] # None
    /\ mailbox' = [c \in Clients |->
                     IF c \in subs /\ client[c].up
                     THEN Append(mailbox[c], pending[h]) ELSE mailbox[c]]
    /\ pending' = [pending EXCEPT ![h] = None]
    /\ socket' = IF h \in Clients /\ client[h].up
                 THEN [socket EXCEPT ![h] = Append(@, pending[h])] ELSE socket
    /\ UNCHANGED <<player, row, task, subs, requests, client, missed>>

\* A report that matches nothing is published all the same.
Look(w) ==
    /\ task[w] = Idle /\ pending[w] = None /\ player.there
    /\ \A c \in Clients : Len(mailbox[c]) + Len(socket[c]) < MaxFrames
    /\ task' = [task EXCEPT ![w] = [op |-> "row", seen |-> None]]
    /\ UNCHANGED <<player, row, pending, subs, wires, client, missed>>

-----------------------------------------------------------------------------
(* A connection works on one request at a time.                            *)

Take(c) ==
    /\ client[c].up /\ task[c] = Idle /\ pending[c] = None
    /\ requests[c] # <<>>
    /\ requests' = [requests EXCEPT ![c] = Tail(@)]

\* Access is checked and a first snapshot taken before the subscription.  Who
\* may not see the player is not told, and not asked again.
TakeSubscribe(c) ==
    /\ Take(c) /\ Head(requests[c]) = "subscribe"
    /\ \/ /\ player.there
          /\ task' = [task EXCEPT ![c] = [op |-> "attach", seen |-> row]]
          /\ UNCHANGED missed
       \/ /\ ~player.there
          /\ missed' = missed \cup {<<c, "refused">>}
          /\ UNCHANGED task
    /\ UNCHANGED <<player, row, pending, subs, mailbox, socket, client>>

\* Mutant: the snapshot that was read before the subscription is sent.
AttachAndReply(c) ==
    /\ task[c].op = "attach"
    /\ subs' = subs \cup {c}
    /\ task' = [task EXCEPT ![c] = Idle]
    /\ socket' = [socket EXCEPT ![c] = Append(@, task[c].seen)]
    /\ UNCHANGED <<player, row, pending, mailbox, requests, client, missed>>

Attach(c) ==
    /\ task[c].op = "attach"
    /\ subs' = subs \cup {c}
    /\ task' = [task EXCEPT ![c].op = "row"]
    /\ UNCHANGED <<player, row, pending, wires, client, missed>>

TakeUnsubscribe(c) ==
    /\ Take(c) /\ Head(requests[c]) = "unsubscribe"
    /\ subs' = subs \ {c}
    /\ UNCHANGED <<player, row, pending, task, mailbox, socket, client, missed>>

TakeControl(c) ==
    /\ Take(c) /\ Head(requests[c]) = "control"
    /\ \/ Transition(c)
       \/ ~player.there /\ UNCHANGED <<row, pending>>
    /\ UNCHANGED <<player, task, subs, mailbox, socket, client, missed>>

TakeFetch(c) ==
    /\ Take(c) /\ Head(requests[c]) = "fetch"
    /\ task' = IF player.there
               THEN [task EXCEPT ![c] = [op |-> "row", seen |-> None]] ELSE task
    /\ UNCHANGED <<player, row, pending, subs, mailbox, socket, client, missed>>

\* load_player_state reads the row first.  The player may go between the check
\* of access and the read; a subscription that fails the check is answered
\* with the first snapshot.
ReadRow(h) ==
    /\ task[h].op = "row"
    /\ \/ /\ task' = [task EXCEPT ![h] = [op |-> "queue", seen |-> row]]
          /\ UNCHANGED socket
       \/ /\ ~player.there /\ h \in Clients
          /\ task' = [task EXCEPT ![h] = Idle]
          /\ socket' = IF task[h].seen.known
                       THEN [socket EXCEPT ![h] = Append(@, task[h].seen)]
                       ELSE socket
    /\ UNCHANGED <<player, row, pending, subs, mailbox, requests, client, missed>>

\* The queue is read next.  What a writer read it publishes; what was read for
\* a client is the reply, written ahead of the frames in its mailbox.
ReadQueue(h) ==
    /\ task[h].op = "queue"
    /\ task' = [task EXCEPT ![h] = Idle]
    /\ LET frame == Frame(task[h].seen.rev, row.queue)
       IN  \/ /\ h \in Writers
              /\ pending' = [pending EXCEPT ![h] = frame]
              /\ UNCHANGED socket
           \/ /\ h \in Clients
              /\ socket' = [socket EXCEPT ![h] = Append(@, frame)]
              /\ UNCHANGED pending
    /\ UNCHANGED <<player, row, subs, mailbox, requests, client, missed>>

Drain(c) ==
    /\ task[c] = Idle /\ pending[c] = None /\ mailbox[c] # <<>>
    /\ mailbox' = [mailbox EXCEPT ![c] = Tail(@)]
    /\ socket' = [socket EXCEPT ![c] = Append(@, Head(mailbox[c]))]
    /\ UNCHANGED <<player, row, pending, task, subs, requests, client, missed>>

-----------------------------------------------------------------------------
(* The client.                                                             *)

Ask(c, op) == requests' = [requests EXCEPT ![c] = Append(@, op)]
MayAsk(c) ==
    /\ client[c].up
    /\ Len(requests[c]) < MaxRequests
    /\ Len(mailbox[c]) + Len(socket[c]) < MaxFrames

\* The first reference subscribes; without a connection that is left to the
\* next one.
Watch(c) ==
    /\ ~client[c].watching
    /\ client' = [client EXCEPT ![c].watching = TRUE]
    /\ \/ MayAsk(c) /\ Ask(c, "subscribe")
       \/ ~client[c].up /\ UNCHANGED requests
    /\ UNCHANGED <<player, row, pending, task, subs, mailbox, socket, missed>>

\* A device that a client stops watching will be subscribed to afresh; a share
\* has lost its revisions, and frames of the old one may still be under way.
Restored(c) == IF player.kind = "share" THEN missed ELSE missed \ ({c} \X Losses)

\* The last reference unsubscribes and forgets the state.
Release(c) ==
    /\ client[c].watching
    /\ client' = [client EXCEPT ![c].watching = FALSE, ![c].cache = None]
    /\ \/ MayAsk(c) /\ Ask(c, "unsubscribe")
       \/ ~client[c].up /\ UNCHANGED requests
    /\ missed' = Restored(c)
    /\ UNCHANGED <<player, row, pending, task, subs, mailbox, socket>>

Request(c) ==
    /\ MayAsk(c)
    /\ \E op \in {"control", "fetch"} : Ask(c, op)
    /\ UNCHANGED <<player, row, pending, task, subs, mailbox, socket, client, missed>>

\* Frames and replies go through the same filter, watched or not.
Accept(c) ==
    /\ socket[c] # <<>>
    /\ socket' = [socket EXCEPT ![c] = Tail(@)]
    /\ client' = IF Head(socket[c]).rev < client[c].cache.rev THEN client
                 ELSE [client EXCEPT ![c].cache = Head(socket[c])]
    /\ UNCHANGED <<player, row, pending, task, subs, mailbox, requests, missed>>

\* Mutant: frames in the mailbox survive the connection.
CutKeepingMailbox(c) ==
    /\ client[c].up
    /\ client' = [client EXCEPT ![c].up = FALSE]
    /\ subs' = subs \ {c}
    /\ socket' = [socket EXCEPT ![c] = <<>>]
    /\ requests' = [requests EXCEPT ![c] = <<>>]
    /\ task' = [task EXCEPT ![c] = Idle]
    /\ missed' = Restored(c)
    /\ UNCHANGED <<player, row, pending, mailbox>>

\* The connection ends with everything on it; a transition that was committed
\* for it is still published.
Cut(c) ==
    /\ client[c].up
    /\ client' = [client EXCEPT ![c].up = FALSE]
    /\ subs' = subs \ {c}
    /\ mailbox' = [mailbox EXCEPT ![c] = <<>>]
    /\ socket' = [socket EXCEPT ![c] = <<>>]
    /\ requests' = [requests EXCEPT ![c] = <<>>]
    /\ task' = [task EXCEPT ![c] = Idle]
    /\ missed' = Restored(c)
    /\ UNCHANGED <<player, row, pending>>

\* Mutant: a new connection trusts the old subscription.
ReconnectSilently(c) ==
    /\ ~client[c].up
    /\ pending[c] = None
    /\ client' = [client EXCEPT ![c].up = TRUE]
    /\ UNCHANGED <<player, row, pending, task, subs, wires, missed>>

\* Every watched player is subscribed to again; the cache was kept.
Reconnect(c) ==
    /\ ~client[c].up
    /\ pending[c] = None
    /\ client' = [client EXCEPT ![c].up = TRUE]
    /\ requests' = [requests EXCEPT ![c] =
                      IF client[c].watching THEN <<"subscribe">> ELSE <<>>]
    /\ UNCHANGED <<player, row, pending, task, subs, mailbox, socket, missed>>

-----------------------------------------------------------------------------
(* The player goes away and comes back.                                    *)

\* drop_player forgets every subscription.  A share takes its row along.
Remove ==
    /\ player.there /\ player.removals < MaxRemovals
    /\ player' = [player EXCEPT !.there = FALSE, !.removals = @ + 1]
    /\ subs' = {}
    /\ missed' = IF player.kind = "share" THEN missed \cup (Clients \X {"removed"})
                 ELSE missed \cup ({c \in Clients : client[c].watching} \X {"removed"})
    /\ row' = IF player.kind = "share" THEN Frame(0, 0) ELSE row
    /\ UNCHANGED <<pending, task, wires, client>>

ComeBack ==
    /\ ~player.there
    /\ player' = [player EXCEPT !.there = TRUE]
    /\ UNCHANGED <<row, pending, task, subs, wires, client, missed>>

-----------------------------------------------------------------------------

Init ==
    /\ player \in [kind : {"share", "device"}, there : {TRUE}, removals : {0}]
    /\ row = Frame(0, 0)
    /\ pending = [h \in Handlers |-> None]
    /\ task = [h \in Handlers |-> Idle]
    /\ subs = {}
    /\ mailbox = [c \in Clients |-> <<>>]
    /\ socket = [c \in Clients |-> <<>>]
    /\ requests = [c \in Clients |-> <<>>]
    /\ client = [c \in Clients |-> [up |-> TRUE, watching |-> FALSE, cache |-> None]]
    /\ missed = {}

Serve(c) ==
    \/ TakeSubscribe(c) \/ Attach(c) \/ TakeUnsubscribe(c)
    \/ TakeControl(c) \/ TakeFetch(c)
Read(h) == ReadRow(h) \/ ReadQueue(h)
Client(c) ==
    \/ Watch(c) \/ Release(c) \/ Request(c)
    \/ Accept(c) \/ Cut(c) \/ Reconnect(c)

Next ==
    \/ \E w \in Writers : Write(w) \/ Look(w)
    \/ \E h \in Handlers : Publish(h) \/ Read(h)
    \/ \E c \in Clients : Serve(c) \/ Drain(c) \/ Client(c)
    \/ Remove \/ ComeBack

\* The runtime polls its tasks, a connection that is idle writes what is in its
\* mailbox, and the browser delivers what arrives.  Nobody has to ask,
\* write, reconnect or bring a player back.
Fairness ==
    /\ \A h \in Handlers : WF_vars(Publish(h)) /\ WF_vars(Read(h))
    /\ \A c \in Clients :
          WF_vars(Serve(c)) /\ WF_vars(Drain(c)) /\ WF_vars(Accept(c))

Spec == Init /\ [][Next]_vars /\ Fairness

-----------------------------------------------------------------------------
(* Properties.                                                             *)

FrameType == [rev : 0..MaxRevision, queue : 0..MaxRevision, known : BOOLEAN]

\* Everything has its shape, and a client without a connection has nothing on
\* the wires and no subscription.
TypeOK ==
    /\ player \in [kind : {"share", "device"}, there : BOOLEAN, removals : 0..MaxRemovals]
    /\ row \in FrameType
    /\ \A h \in Handlers :
          /\ pending[h] \in FrameType
          /\ task[h] \in [op : {"idle", "attach", "row", "queue"}, seen : FrameType]
    /\ subs \subseteq Clients /\ missed \subseteq Clients \X Losses
    /\ \A c \in Clients :
          /\ mailbox[c] \in Seq(FrameType) /\ socket[c] \in Seq(FrameType)
          /\ requests[c] \in Seq({"subscribe", "unsubscribe", "control", "fetch"})
          /\ client[c] \in [up : BOOLEAN, watching : BOOLEAN, cache : FrameType]
          /\ ~client[c].up =>
                c \notin subs /\ mailbox[c] = <<>> /\ socket[c] = <<>> /\ requests[c] = <<>>

\* Nothing is under way to a client that watches the player.
Settled(c) ==
    /\ player.there /\ client[c].up /\ client[c].watching
    /\ mailbox[c] = <<>> /\ socket[c] = <<>> /\ requests[c] = <<>>
    /\ \A h \in Handlers : pending[h] = None /\ task[h] = Idle

Shows(c) == client[c].cache = row
Missed(c) == missed \cap ({c} \X Losses) # {}

\* Once nothing is under way, a client that watches shows the current revision
\* with the current queue: publications that changed places, torn reads,
\* replies that overtook frames and lost connections have all been repaired.
\* Only a player that went away and came back breaks this.
Converged == \A c \in Clients : Settled(c) /\ ~Missed(c) => Shows(c)

\* A watching client never stays behind for good.
CatchesUp ==
    \A c \in Clients :
        []<>(\/ ~player.there \/ ~client[c].up \/ ~client[c].watching
             \/ Missed(c) \/ Shows(c))

\* "connections subscribe to a player and get a pushed `PlayerState` frame
\* whenever anyone controls it" (SubHub): a client that watches, and was not
\* refused, has the current state once nothing is under way.
WatchersAreServed ==
    \A c \in Clients : Settled(c) /\ <<c, "refused">> \notin missed => Shows(c)
=============================================================================
