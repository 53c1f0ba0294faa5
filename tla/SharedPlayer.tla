---------------------------- MODULE SharedPlayer ----------------------------
(***************************************************************************)
(* A shared player and the satellite that is its output, as one system:    *)
(* the row, queue and undo snapshot of Player behind the handlers, the     *)
(* NodeHub and the sessions of Jukebox.  Jukebox leaves open which of the  *)
(* contract's steps a command or a report takes; here each is a            *)
(* transaction of Player, and what a load names is what Player put there.  *)
(***************************************************************************)
EXTENDS Player

CONSTANTS
    Controllers,    \* connections that send commands, each with its handler
    MaxSessions,    \* bound: sessions the satellite opens
    MaxReports,     \* bound: progress reports are sent below this backlog
    MaxCommands     \* bound: commands are sent below this revision

ASSUME SharedAssumption ==
    /\ {MaxSessions, MaxReports, MaxCommands} \subseteq Nat
    /\ Controllers \cap Nat = {}

VARIABLES
    pending, published, loaded, listeners,  \* handlers and NodeHub: Jukebox
    session, step, down, up,                \* sessions: Jukebox
    node, disturbed,                        \* the satellite: Jukebox
    named       \* history: what the loads of each playback named

hubVars == <<pending, published, loaded, listeners>>
linkVars == <<session, step, down, up>>
sharedVars == <<playerVars, hubVars, linkVars, node, disturbed, named>>

Box == INSTANCE Jukebox
         WITH status <- state.status, token <- state.pb, tokens <- Len(issued),
              rev <- state.rev, sent <- directive.op, MaxRevision <- MaxCommands

\* A directive leaves the core.  Only a load names a playback.
Name(d) ==
    named' = IF d.op = "load"
             THEN named \cup {[pb |-> d.pb, item |-> d.item, track |-> d.track]}
             ELSE named

-----------------------------------------------------------------------------

Commanded == QueueEdit \/ Replace \/ Transport \/ Setting \/ Undo

\* control, up to its commit.
Control(h) ==
    /\ pending[h] = Box!Nothing
    /\ state.rev < MaxCommands
    /\ Commanded
    /\ pending' = [pending EXCEPT ![h] = Box!Committed]
    /\ Name(directive')
    /\ UNCHANGED <<published, loaded, listeners, linkVars, node, disturbed>>

\* A satellite's report names the item that its playback was loaded with.
ReportMatches(r) == Matches(r.pb, issued[r.pb])

Reported(r) ==
    \/ r.event = "completed" /\ Completed(r.pb, issued[r.pb])
    \/ r.event = "failed" /\ Failed(r.pb, issued[r.pb])
    \/ /\ r.event \in Statuses
       /\ \E pos \in Positions : NodeState(r.pb, issued[r.pb], r.event, pos)

\* record_node_report, up to its commit.
Receive(s) ==
    /\ step[s] = "ready" /\ pending[s] = Box!Nothing
    /\ up[s] # <<>>
    /\ up' = [up EXCEPT ![s] = Tail(@)]
    /\ step' = [step EXCEPT ![s] = "attach"]
    /\ LET r == Head(up[s])
       IN  \/ /\ ~ReportMatches(r)
              /\ UNCHANGED <<playerVars, pending, published, disturbed, named>>
           \/ /\ Reported(r)
              /\ pending' = [pending EXCEPT ![s] = Box!Committed]
              /\ published' = IF directive'.op = "none" THEN state'.rev ELSE published
              /\ Name(directive')
              /\ UNCHANGED disturbed
           \/ /\ ReportMatches(r)
              /\ UNCHANGED <<playerVars, named>>
              /\ Box!Dropped(s, r)
    /\ UNCHANGED <<loaded, listeners, session, down, node>>

\* reconcile_player_output reads the row and the queue and builds the load
\* from them.
Reconcile(s) ==
    /\ step[s] = "reconcile"
    /\ step' = [step EXCEPT ![s] = "ready"]
    /\ LET load == IF state.status = "playing" THEN LoadDirective(state, queue)
                   ELSE NoDirective
       IN  /\ pending' = [pending EXCEPT ![s] =
                 [op |-> IF load = NoDirective THEN "volume" ELSE "load",
                  pb |-> state.pb, rev |-> state.rev, live |-> FALSE]]
           /\ Name(load)
    /\ UNCHANGED <<playerVars, published, loaded, listeners, session, down, up,
                   node, disturbed>>

\* The rest of the core and the satellite know nothing of the queue.
Elsewhere ==
    /\ UNCHANGED <<playerVars, named>>
    /\ \/ \E h \in Box!Handlers : Box!Publish(h)
       \/ \E s \in Box!Sessions :
             Box!Attach(s) \/ Box!Close(s) \/ Box!CloseOnError(s)
       \/ Box!Satellite
       \/ Box!Restart

SharedInit ==
    /\ Init
    /\ Box!Init
    /\ named = {}

SharedNext ==
    \/ \E h \in Controllers : Control(h)
    \/ \E s \in Box!Sessions : Receive(s) \/ Reconcile(s)
    \/ Elsewhere

SharedSpec == SharedInit /\ [][SharedNext]_sharedVars

-----------------------------------------------------------------------------
(* Properties.                                                             *)

\* Every table, session and message of the player, the NodeHub and the
\* satellite has its shape, and a load names an item and a track.
SharedTypeOK ==
    /\ TypeOK
    /\ Box!TypeOK
    /\ named \subseteq [pb : Nat, item : Nat, track : Tracks]

\* The row, its queue and its undo (apply_player_command) behave as Jukebox
\* takes a row to behave, with each command, report and reconciliation.
KeepsProtocol == Box!Init /\ [][Box!Next]_(Box!vars)

\* Once nothing is on its way, and nothing went wrong that Jukebox names, what
\* sounds is the current item of the queue: the satellite plays when the row
\* says so, and whatever loads named the playback that it has, they named this
\* item and its track (load_directive, reconcile_player_output), however the
\* queue was edited or undone since; and a silent row has a silent satellite.
SatellitePlaysCurrent ==
    Box!Quiet /\ disturbed = {} =>
        IF state.status = "playing"
        THEN /\ node.sounding
             /\ {n \in named : n.pb = node.media} =
                   {[pb |-> node.media, item |-> queue[state.index].id,
                     track |-> queue[state.index].track]}
        ELSE ~node.sounding
=============================================================================
