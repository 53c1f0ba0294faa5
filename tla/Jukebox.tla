------------------------------ MODULE Jukebox ------------------------------
(***************************************************************************)
(* One shared player of the core, the handlers that control it at the same *)
(* time, and the satellite that is its output:                             *)
(*                                                                         *)
(*  - a command or a report is a transaction on the player's row, followed *)
(*    by the publication of its directive, with nothing held in between    *)
(*    (handlers/mod.rs: control, record_node_report,                       *)
(*    publish_player_transition);                                          *)
(*  - the NodeHub keeps the sessions that listen to the player, and a      *)
(*    session that finds nobody listening is sent the persisted state      *)
(*    (server/tcp.rs: handle_binary_conn; reconcile_player_output);        *)
(*  - the satellite connects, plays what it is told, reports what it does, *)
(*    loses its connection and starts over (satellite.rs).                 *)
(*                                                                         *)
(* The row is a PlayerContract, which Player implements: its transactions  *)
(* are the contract's steps.  Volume, positions and media chunks are left  *)
(* out, and a satellite has one output.                                    *)
(***************************************************************************)
EXTENDS Naturals, Sequences

CONSTANTS
    Controllers,    \* connections that send commands, each with its handler
    MaxSessions,    \* bound: sessions the satellite opens
    MaxPlaybacks,   \* bound: playback ids handed out
    MaxRevision,    \* bound: commands are sent below this revision
    MaxReports      \* bound: progress reports are sent below this backlog

ASSUME JukeboxAssumption ==
    /\ {MaxSessions, MaxPlaybacks, MaxRevision, MaxReports} \subseteq Nat
    /\ Controllers \cap Nat = {}

VARIABLES
    status, token, tokens, rev, sent,   \* the player's row: PlayerContract
    pending,    \* pending[h]: the directive handler h has yet to publish
    published,  \* the highest revision that has been published
    loaded,     \* the last playback id sent to the present listeners
    listeners,  \* the sessions in the NodeHub's list for the player
    session,    \* session[s]: how far the connection of session s has got
    step,       \* step[s]: what the core does for session s
    down,       \* down[s]: directives on their way to the satellite
    up,         \* up[s]: reports on their way to the core
    node,       \* the satellite: its session, its playback id, its sound, and the
                \* playbacks it gave up whose decoder may yet report
    disturbed   \* what has gone wrong in the satellite's session

rowVars == <<status, token, tokens, rev, sent>>
hubVars == <<pending, published, loaded, listeners>>
linkVars == <<session, step, down, up>>
vars == <<rowVars, hubVars, linkVars, node, disturbed>>

Row == INSTANCE PlayerContract

Sessions == 1..MaxSessions
Handlers == Controllers \cup Sessions
Nothing == [op |-> "none"]
Disturbances == {"overtaken", "raced", "unreconciled", "dropped", "late"}

-----------------------------------------------------------------------------
(* Directives: committed with the row, published afterwards.               *)

\* What the transaction of this step leaves its handler to publish.
Committed ==
    IF sent' = "none" THEN Nothing
    ELSE [op |-> sent', pb |-> token', rev |-> rev', live |-> TRUE]

Command(h) ==
    /\ pending[h] = Nothing
    /\ rev < MaxRevision
    /\ \/ tokens < MaxPlaybacks /\ Row!StartPlayback
       \/ Row!PausePlayback
       \/ Row!StopPlayback
       \/ Row!Adjust
    /\ pending' = [pending EXCEPT ![h] = Committed]
    /\ UNCHANGED <<published, loaded, listeners, linkVars, node, disturbed>>

\* Every listener gets the directive, in the order of publication; a listener
\* whose connection is gone keeps its place in the list and receives nothing.
Publish(h) ==
    /\ pending[h] # Nothing
    /\ down' = [s \in Sessions |->
                  IF s \in listeners /\ session[s] = "open"
                  THEN Append(down[s], pending[h]) ELSE down[s]]
    /\ pending' = [pending EXCEPT ![h] = Nothing]
    /\ LET d == pending[h]
           load == d.op = "load" /\ listeners # {}
           heard == node.conn \in listeners
           late == d.rev < published
           again == load /\ d.pb = loaded
       IN  /\ published' = IF d.rev > published THEN d.rev ELSE published
           /\ loaded' = IF load /\ d.pb > loaded THEN d.pb ELSE loaded
           /\ disturbed' = disturbed
                 \cup (IF heard /\ late /\ d.live THEN {"overtaken"} ELSE {})
                 \cup (IF heard /\ (again \/ (late /\ ~d.live))
                       THEN {"raced"} ELSE {})
    /\ UNCHANGED <<rowVars, listeners, session, step, up, node>>

-----------------------------------------------------------------------------
(* The core's side of a session.  Its frames are handled one at a time:    *)
(* the report's transaction, its publication, the subscription, and for    *)
(* the first listener the reconciliation.                                  *)

\* The playback the report is about is the row's.
Matches(r) == r.pb # 0 /\ r.pb = token

\* What a report about the current playback does to the row.
Follow(r) ==
    \/ r.event = "completed" /\ tokens < MaxPlaybacks /\ Row!StartPlayback
    \/ r.event \in {"completed", "failed", "stopped"} /\ Row!EndPlayback
    \/ r.event \in {"ready", "playing", "paused"} /\ Row!Observe /\ status' = r.event

\* Another writer committed between the transaction's reads and its write:
\* SQLite refuses the write, the error is dropped, and so is the report.
Dropped(s, r) ==
    /\ disturbed' = IF r.event = "playing" \/ s # node.conn THEN disturbed
                    ELSE disturbed \cup {"dropped"}
    /\ UNCHANGED <<rowVars, pending, published>>

Receive(s) ==
    /\ step[s] = "ready" /\ pending[s] = Nothing
    /\ up[s] # <<>>
    /\ up' = [up EXCEPT ![s] = Tail(@)]
    /\ step' = [step EXCEPT ![s] = "attach"]
    /\ LET r == Head(up[s])
       IN  \/ /\ ~Matches(r)
              /\ UNCHANGED <<rowVars, pending, published, disturbed>>
           \/ /\ Matches(r)
              /\ Follow(r)
              /\ pending' = [pending EXCEPT ![s] = Committed]
              /\ published' = IF Committed = Nothing THEN rev' ELSE published
              /\ UNCHANGED disturbed
           \/ Matches(r) /\ Dropped(s, r)
    /\ UNCHANGED <<loaded, listeners, session, down, node>>

\* Mutant: a session only subscribes and leaves reconciling to later reports.
AttachOnly(s) ==
    /\ step[s] = "attach" /\ pending[s] = Nothing
    /\ listeners' = listeners \cup {s}
    /\ step' = [step EXCEPT ![s] = "ready"]
    /\ UNCHANGED <<rowVars, pending, published, loaded, session, down, up, node, disturbed>>

\* Only a session that finds the list empty goes on to reconcile.
Attach(s) ==
    /\ step[s] = "attach" /\ pending[s] = Nothing
    /\ listeners' = listeners \cup {s}
    /\ step' = [step EXCEPT ![s] = IF listeners = {} THEN "reconcile" ELSE "ready"]
    /\ disturbed' = IF s = node.conn /\ s \notin listeners /\ listeners # {}
                    THEN disturbed \cup {"unreconciled"} ELSE disturbed
    /\ UNCHANGED <<rowVars, pending, published, loaded, session, down, up, node>>

\* The row is read here and sent by a later Publish: the volume, and for a
\* playing row the load.
Reconcile(s) ==
    /\ step[s] = "reconcile"
    /\ step' = [step EXCEPT ![s] = "ready"]
    /\ pending' = [pending EXCEPT ![s] =
          [op |-> IF status = "playing" THEN "load" ELSE "volume",
           pb |-> token, rev |-> rev, live |-> FALSE]]
    /\ UNCHANGED <<rowVars, published, loaded, listeners, session, down, up, node, disturbed>>

Forget(s) ==
    /\ session[s] = "cut" /\ step[s] = "ready" /\ pending[s] = Nothing
    /\ session' = [session EXCEPT ![s] = "closed"]
    /\ up' = [up EXCEPT ![s] = <<>>]
    /\ UNCHANGED <<rowVars, pending, published, step, down, node, disturbed>>

\* The reader saw the end of the stream, after the last report.
Close(s) ==
    /\ up[s] = <<>>
    /\ listeners' = listeners \ {s}
    /\ loaded' = IF listeners' = {} THEN 0 ELSE loaded
    /\ Forget(s)

\* A read or a write failed: the `?' leaves the handler before it can
\* unsubscribe the connection.
CloseOnError(s) ==
    /\ Forget(s)
    /\ UNCHANGED <<loaded, listeners>>

-----------------------------------------------------------------------------
(* The satellite.                                                          *)

Offline == [conn |-> 0, media |-> 0, sounding |-> FALSE, late |-> {}]
Report(event, pb) == [event |-> event, pb |-> pb]
Send(r) == up' = [up EXCEPT ![node.conn] = Append(@, r)]

\* A registered satellite starts from nothing and reports itself ready.
Connect(s) ==
    /\ node.conn = 0
    /\ session[s] = "unused" /\ \A t \in 1..(s - 1) : session[t] # "unused"
    /\ node' = [Offline EXCEPT !.conn = s]
    /\ session' = [session EXCEPT ![s] = "open"]
    /\ up' = [up EXCEPT ![s] = <<Report("ready", 0)>>]
    /\ UNCHANGED <<rowVars, hubVars, step, down, disturbed>>

\* The decoder of a playback that is given up learns of it before its next
\* packet.  If it was waiting for the sound device, or had come to its end, one
\* report is still to come.
LateAfter == IF node.sounding THEN {node.late, node.late \cup {node.media}} ELSE {node.late}

\* Mutant: a load leaves the playback that is running alone.
ObeyLate ==
    /\ node.conn # 0 /\ down[node.conn] # <<>>
    /\ down' = [down EXCEPT ![node.conn] = Tail(@)]
    /\ LET d == Head(down[node.conn])
       IN  \/ /\ d.op = "load"
              /\ node' = IF node.sounding THEN node
                         ELSE [node EXCEPT !.media = d.pb, !.sounding = TRUE]
              /\ Send(Report("playing", d.pb))
           \/ /\ d.op = "volume"
              /\ UNCHANGED <<node, up>>
           \/ /\ d.op \in {"pause", "stop"}
              /\ node' = [node EXCEPT !.media = 0, !.sounding = FALSE]
              /\ Send(Report(IF d.op = "pause" THEN "paused" ELSE "stopped",
                             node.media))
    /\ UNCHANGED <<rowVars, hubVars, session, step, disturbed>>

\* A load replaces what is playing; a pause or a stop gives it up and names it.
Obey ==
    /\ node.conn # 0 /\ down[node.conn] # <<>>
    /\ down' = [down EXCEPT ![node.conn] = Tail(@)]
    /\ LET d == Head(down[node.conn])
       IN  \/ /\ d.op = "load"
              /\ \E late \in LateAfter :
                    node' = [node EXCEPT !.media = d.pb, !.sounding = TRUE, !.late = late]
              /\ Send(Report("playing", d.pb))
           \/ /\ d.op = "volume"
              /\ UNCHANGED <<node, up>>
           \/ /\ d.op \in {"pause", "stop"}
              /\ \E late \in LateAfter :
                    node' = [node EXCEPT !.media = 0, !.sounding = FALSE, !.late = late]
              /\ Send(Report(IF d.op = "pause" THEN "paused" ELSE "stopped",
                             node.media))
    /\ UNCHANGED <<rowVars, hubVars, session, step, disturbed>>

\* The decoder reports its position from time to time.
Progress ==
    /\ node.sounding /\ Len(up[node.conn]) < MaxReports
    /\ rev < MaxRevision
    /\ Send(Report("playing", node.media))
    /\ UNCHANGED <<rowVars, hubVars, session, step, down, node, disturbed>>

\* The decoder runs out of music.  The session still names the playback.
Finish ==
    /\ node.sounding
    /\ node' = [node EXCEPT !.sounding = FALSE]
    /\ Send(Report("completed", node.media))
    /\ UNCHANGED <<rowVars, hubVars, session, step, down, disturbed>>

\* The decoder gives up, or the media stream does and takes its entry along.
Fail ==
    /\ node.sounding
    /\ \/ node' = [node EXCEPT !.sounding = FALSE]
       \/ \E late \in LateAfter :
             node' = [node EXCEPT !.sounding = FALSE, !.media = 0, !.late = late]
    /\ Send(Report("failed", node.media))
    /\ UNCHANGED <<rowVars, hubVars, session, step, down, disturbed>>

\* The report of a decoder that was to stop follows the one that says so.  A
\* position that comes after a pause is taken for news.
LateReport(pb) ==
    /\ pb \in node.late
    /\ node' = [node EXCEPT !.late = @ \ {pb}]
    /\ \E event \in {"playing", "completed", "failed"} :
          /\ Send(Report(event, pb))
          /\ disturbed' = IF event = "playing" /\ pb = token
                          THEN disturbed \cup {"late"} ELSE disturbed
    /\ UNCHANGED <<rowVars, hubVars, session, step, down>>

\* Mutant: the decoder outlives the connection.
CutPlaysOn ==
    /\ node.conn # 0
    /\ node' = [node EXCEPT !.conn = 0]
    /\ session' = [session EXCEPT ![node.conn] = "cut"]
    /\ \E n \in 0..Len(up[node.conn]) :
          up' = [up EXCEPT ![node.conn] = SubSeq(@, 1, n)]
    /\ down' = [down EXCEPT ![node.conn] = <<>>]
    /\ disturbed' = {}
    /\ UNCHANGED <<rowVars, hubVars, step>>

\* The connection breaks: the satellite drops its playback, and what the other
\* side has not received yet is lost.  The core learns of it later.
Cut ==
    /\ node.conn # 0
    /\ node' = Offline
    /\ session' = [session EXCEPT ![node.conn] = "cut"]
    /\ \E n \in 0..Len(up[node.conn]) :
          up' = [up EXCEPT ![node.conn] = SubSeq(@, 1, n)]
    /\ down' = [down EXCEPT ![node.conn] = <<>>]
    /\ disturbed' = {}
    /\ UNCHANGED <<rowVars, hubVars, step>>

\* The core stops and starts: the rows survive, every connection is gone.
Restart ==
    /\ \E s \in Sessions : session[s] \in {"open", "cut"}
    /\ node' = Offline
    /\ session' = [s \in Sessions |->
                     IF session[s] = "unused" THEN "unused" ELSE "closed"]
    /\ step' = [s \in Sessions |-> "ready"]
    /\ down' = [s \in Sessions |-> <<>>]
    /\ up' = [s \in Sessions |-> <<>>]
    /\ pending' = [h \in Handlers |-> Nothing]
    /\ listeners' = {}
    /\ published' = 0 /\ loaded' = 0
    /\ disturbed' = {}
    /\ UNCHANGED rowVars

-----------------------------------------------------------------------------

Init ==
    /\ Row!Init
    /\ pending = [h \in Handlers |-> Nothing]
    /\ published = 0
    /\ loaded = 0
    /\ listeners = {}
    /\ session = [s \in Sessions |-> "unused"]
    /\ step = [s \in Sessions |-> "ready"]
    /\ down = [s \in Sessions |-> <<>>]
    /\ up = [s \in Sessions |-> <<>>]
    /\ node = Offline
    /\ disturbed = {}

Core(s) == Receive(s) \/ Attach(s) \/ Reconcile(s)
Satellite ==
    \/ Obey \/ Progress \/ Finish \/ Fail \/ Cut
    \/ \E pb \in node.late : LateReport(pb)
    \/ \E s \in Sessions : Connect(s)

Next ==
    \/ \E h \in Controllers : Command(h)
    \/ \E h \in Handlers : Publish(h)
    \/ \E s \in Sessions : Core(s) \/ Close(s) \/ CloseOnError(s)
    \/ Satellite
    \/ Restart

\* The runtime keeps polling its tasks: a committed transition is published, a
\* received frame handled, a directive obeyed.  Nobody has to send a command,
\* finish a track or reconnect.
Fairness ==
    /\ \A h \in Handlers : WF_vars(Publish(h))
    /\ \A s \in Sessions : WF_vars(Core(s))
    /\ WF_vars(Obey)

Spec == Init /\ [][Next]_vars /\ Fairness

-----------------------------------------------------------------------------
(* Properties.                                                             *)

Op == {"load", "pause", "stop", "volume"}
DirectiveType == [op : Op, pb : 0..MaxPlaybacks, rev : Nat, live : BOOLEAN]
ReportType ==
    [event : {"ready", "playing", "paused", "stopped", "completed", "failed"},
     pb : 0..MaxPlaybacks]

\* Every table, list and message has its shape, and a satellite without a
\* connection is silent.
TypeOK ==
    /\ status \in {"stopped", "playing", "paused"}
    /\ tokens \in 0..MaxPlaybacks /\ token \in 0..tokens /\ rev \in Nat
    /\ \A h \in Handlers : pending[h] \in DirectiveType \cup {Nothing}
    /\ published \in 0..rev /\ loaded \in 0..tokens
    /\ listeners \subseteq Sessions
    /\ \A s \in Sessions :
          /\ session[s] \in {"unused", "open", "cut", "closed"}
          /\ step[s] \in {"ready", "attach", "reconcile"}
          /\ down[s] \in Seq(DirectiveType) /\ up[s] \in Seq(ReportType)
    /\ node \in [conn : 0..MaxSessions, media : 0..MaxPlaybacks, sounding : BOOLEAN,
                late : SUBSET (0..MaxPlaybacks)]
    /\ node.conn = 0 => node = Offline
    /\ disturbed \subseteq Disturbances

\* Nothing is on its way between the row and the satellite.
Quiet ==
    /\ node.conn # 0 /\ node.conn \in listeners
    /\ step[node.conn] = "ready"
    /\ down[node.conn] = <<>> /\ up[node.conn] = <<>>
    /\ \A h \in Handlers : pending[h] = Nothing

\* The satellite plays exactly what the row says is playing.
Agree ==
    IF status = "playing" THEN node.sounding /\ node.media = token
    ELSE ~node.sounding

\* Once nothing is on its way, the satellite does what the row says, through
\* stale reports, lost connections, restarts and reconciliation, unless two
\* publications changed places, the session was never reconciled, a report was
\* dropped, or a decoder reported its position after it was told to pause:
\* these, and nothing else, part the row from the output.
OutputFollowsRow == Quiet /\ disturbed = {} => Agree

\* The row and its connected satellite never stay apart for good: a committed
\* transition is published, obeyed and reported, whatever else goes on.
OutputCatchesUp ==
    []<>(node.conn = 0 \/ disturbed # {} \/ Agree)

\* "Live packets are reliable and ordered" (reconcile_player_output): with no
\* missed reconciliation and no dropped report, a quiet satellite follows.
OrderedPacketsSuffice ==
    Quiet /\ disturbed \subseteq {"overtaken"} => Agree

\* "Send the persisted desired state when an output session connects"
\* (reconcile_player_output): a session that saw every packet in order follows.
ReconciledOnConnect ==
    Quiet /\ disturbed \subseteq {"unreconciled"} => Agree
=============================================================================
