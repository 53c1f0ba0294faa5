---------------------------- MODULE JukeboxProofs ----------------------------
(***************************************************************************)
(* Theorems about Jukebox, for any number of controllers, sessions,        *)
(* playbacks, revisions and reports.                                       *)
(***************************************************************************)
EXTENDS Jukebox, TLAPS

USE JukeboxAssumption DEF Handlers, Sessions

-----------------------------------------------------------------------------
(* The inductive invariant *)

Step == {"ready", "attach", "reconcile"}
Phase == {"unused", "open", "cut", "closed"}

(* The tables are functions.                                                *)
TypeInv ==
  /\ TypeOK
  /\ pending \in [Handlers -> DirectiveType \cup {Nothing}]
  /\ session \in [Sessions -> Phase] /\ step \in [Sessions -> Step]
  /\ down \in [Sessions -> Seq(DirectiveType)] /\ up \in [Sessions -> Seq(ReportType)]

(* What changes the sound of an output.                                     *)
Tells(d) == d.op \in {"load", "pause", "stop"}
Newest(h) == \A g \in Handlers : Tells(pending[g]) => pending[g].rev <= pending[h].rev

(* The row has the playback id that was handed out last, or none.           *)
TokenIsLast ==
  /\ token \in {0, tokens}
  /\ status = "playing" => token # 0
  /\ listeners = {} => loaded = 0

LoadsKnown ==
  \A h \in Handlers : pending[h] # Nothing =>
    /\ pending[h].rev <= rev
    /\ pending[h].op = "load" => pending[h].pb \in 1..tokens

(* Loads to be published come in the order of their revisions ...           *)
LoadsInOrder ==
  \A g, h \in Handlers :
    /\ pending[g].op = "load" /\ pending[h].op = "load"
    /\ pending[g].rev <= pending[h].rev
    => pending[g].pb <= pending[h].pb

(* ... and the newest one that nothing was published after is what the row  *)
(* says: a report that changed the row would have been published.           *)
NewestIsMeant ==
  \A h \in Handlers : pending[h].op = "load" /\ pending[h].rev >= published =>
    /\ pending[h].pb >= loaded
    /\ Newest(h) => status = "playing" /\ token = pending[h].pb

RowInv == TokenIsLast /\ LoadsKnown /\ LoadsInOrder /\ NewestIsMeant

(* Session s has heard of no playback.                                      *)
Silent(s) == \A i \in 1..Len(up[s]) : up[s][i].pb = 0
Idle(s) == Silent(s) /\ pending[s] = Nothing /\ step[s] # "reconcile"

(* Only the satellite's session is open, and only it is sent anything.      *)
OneIsOpen ==
  /\ node.conn # 0 => session[node.conn] = "open"
  /\ \A s \in Sessions : s # node.conn => session[s] # "open" /\ down[s] = <<>>
UnusedIsFresh ==
  \A s \in Sessions : session[s] = "unused" =>
    s \notin listeners /\ up[s] = <<>> /\ step[s] = "ready"
ReconcilingIsFree == \A s \in Sessions : step[s] = "reconcile" => pending[s] = Nothing

(* Who is not a listener has heard of nothing.  Once the satellite's        *)
(* session was reconciled, nobody else has anything to say.                 *)
StrangersIdle == \A s \in Sessions : s \notin listeners => Idle(s)
StrangerSilent ==
  node.conn \notin listeners =>
    /\ node.media = 0 /\ ~node.sounding /\ node.late = {}
    /\ node.conn # 0 => down[node.conn] = <<>>
OthersIdle ==
  node.conn \in listeners /\ "unreconciled" \notin disturbed =>
    \A s \in Sessions : s # node.conn => Idle(s)

LinkInv ==
  OneIsOpen /\ UnusedIsFresh /\ ReconcilingIsFree /\ StrangersIdle /\ StrangerSilent /\ OthersIdle

(* Nothing has gone wrong, and nothing is under way that must.              *)
InOrder ==
  /\ node.conn \in listeners /\ disturbed = {}
  /\ \A h \in Handlers : pending[h] # Nothing =>
       /\ pending[h].rev >= published
       /\ pending[h].op = "load" => pending[h].pb > loaded

(* The row plays what was never published to the satellite, and its session *)
(* is about to read the row.                                                *)
Unread == step[node.conn] = "reconcile" /\ status = "playing" /\ token > loaded

(* The satellite has heard of what was published to it, and of each load    *)
(* before it is told to play it.  It gave up what came before what it plays.*)
Heard ==
  LET down_ == down[node.conn]  up_ == up[node.conn] IN
  /\ node.media <= loaded
  /\ \A pb \in node.late : pb <= loaded /\ (node.sounding => pb < node.media)
  /\ \A i \in 1..Len(up_) : up_[i].pb <= loaded
  /\ \A i \in 1..Len(down_) : down_[i].op = "load" =>
       /\ down_[i].pb <= loaded /\ node.media < down_[i].pb
       /\ \A pb \in node.late : pb < down_[i].pb
       /\ \A j \in 1..Len(up_) : up_[j].pb < down_[i].pb
       /\ \A j \in 1..Len(down_) : j < i /\ down_[j].op = "load" => down_[j].pb < down_[i].pb

Sounds == node.sounding /\ node.media = token
(* A report after the first i ends the playback in the row.                 *)
Ends(i) ==
  \E j \in 1..Len(up[node.conn]) :
    j > i /\ up[node.conn][j].pb = token /\ up[node.conn][j].event # "playing"

(* What is reported as playing is playing, or its end is reported later.    *)
ReportsEnd ==
  token # 0 => \A i \in 1..Len(up[node.conn]) :
    up[node.conn][i].pb = token /\ up[node.conn][i].event = "playing" => Sounds \/ Ends(i)

(* What the row plays is playing, has ended, or will be loaded.             *)
RowIsHeard ==
  status = "playing" =>
    \/ Sounds \/ Ends(0) \/ Unread
    \/ \E i \in 1..Len(down[node.conn]) :
         down[node.conn][i].op = "load" /\ down[node.conn][i].pb = token
    \/ \E h \in Handlers : pending[h].op = "load" /\ pending[h].pb = token

Coming ==
  \/ \E i \in 1..Len(down[node.conn]) : Tells(down[node.conn][i])
  \/ \E h \in Handlers : Tells(pending[h])

(* What sounds is what the row plays, or the satellite will be told.        *)
SoundIsMeant ==
  node.sounding =>
    \/ Unread \/ Coming
    \/ /\ status = "playing" /\ node.media = token
       /\ \A i \in 1..Len(up[node.conn]) :
            up[node.conn][i].pb = token => up[node.conn][i].event = "playing"

(* The last that the satellite will be told, if it is a load, is meant.     *)
LoadIsMeant ==
  \A i \in 1..Len(down[node.conn]) :
    /\ down[node.conn][i].op = "load"
    /\ \A j \in 1..Len(down[node.conn]) : j > i => ~Tells(down[node.conn][j])
    /\ \A h \in Handlers : ~Tells(pending[h])
    => Unread \/ (status = "playing" /\ token = down[node.conn][i].pb)

FollowInv == InOrder => Heard /\ ReportsEnd /\ RowIsHeard /\ SoundIsMeant /\ LoadIsMeant

-----------------------------------------------------------------------------
(* Sequences, messages and the row *)

LEMMA AppendFact ==
  ASSUME NEW S, NEW s \in Seq(S), NEW e \in S
  PROVE  /\ Append(s, e) \in Seq(S) /\ Len(s) \in Nat /\ Len(Append(s, e)) = Len(s) + 1
         /\ \A i \in 1..Len(s) : Append(s, e)[i] = s[i] /\ i \in 1..Len(Append(s, e))
         /\ Append(s, e)[Len(s) + 1] = e /\ Len(s) + 1 \in 1..Len(Append(s, e))
         /\ \A i \in 1..Len(Append(s, e)) : i \in 1..Len(s) \/ i = Len(s) + 1
OBVIOUS

LEMMA TailFact ==
  ASSUME NEW S, NEW s \in Seq(S), s # <<>>
  PROVE  /\ Tail(s) \in Seq(S) /\ Len(Tail(s)) = Len(s) - 1 /\ Len(s) \in Nat
         /\ \A i \in 1..Len(Tail(s)) : Tail(s)[i] = s[i + 1] /\ i + 1 \in 1..Len(s)
         /\ \A i \in 1..Len(s) : i = 1 \/ (i - 1 \in 1..Len(Tail(s)) /\ Tail(s)[i - 1] = s[i])
         /\ Head(s) = s[1] /\ Head(s) \in S /\ 1 \in 1..Len(s)
OBVIOUS

LEMMA SubSeqFact ==
  ASSUME NEW S, NEW s \in Seq(S), NEW n \in 0..Len(s)
  PROVE  /\ SubSeq(s, 1, n) \in Seq(S)
         /\ \A i \in 1..Len(SubSeq(s, 1, n)) : SubSeq(s, 1, n)[i] = s[i] /\ i \in 1..Len(s)
OBVIOUS

LEMMA Elements ==
  ASSUME NEW S, NEW s \in Seq(S)
  PROVE  Len(s) \in Nat /\ \A i \in 1..Len(s) : s[i] \in S
OBVIOUS

LEMMA Empty == ASSUME NEW S PROVE <<>> \in Seq(S) /\ Len(<<>>) = 0
OBVIOUS

LEMMA Numbers ==
  /\ MaxPlaybacks \in Nat /\ MaxSessions \in Nat /\ MaxRevision \in Nat /\ MaxReports \in Nat
  /\ \A s \in Sessions : s \in Nat /\ s # 0 /\ s \notin Controllers
  /\ Sessions \subseteq 0..MaxSessions
OBVIOUS

LEMMA NothingFact == Nothing.op = "none" /\ Nothing \notin DirectiveType /\ ~Tells(Nothing)
BY DEF Nothing, DirectiveType, Op, Tells

LEMMA DirectiveFact ==
  ASSUME NEW d \in DirectiveType
  PROVE  d.op \in Op /\ d.pb \in 0..MaxPlaybacks /\ d.rev \in Nat /\ d.live \in BOOLEAN /\ d # Nothing
         /\ d.pb \in Nat /\ d.op # "none"
BY NothingFact DEF DirectiveType, Op

LEMMA ReportFact ==
  ASSUME NEW r \in ReportType
  PROVE  /\ r.event \in {"ready", "playing", "paused", "stopped", "completed", "failed"}
         /\ r.pb \in 0..MaxPlaybacks /\ r.pb \in Nat
BY DEF ReportType

LEMMA ReportIs ==
  ASSUME NEW pb \in 0..MaxPlaybacks,
         NEW e \in {"ready", "playing", "paused", "stopped", "completed", "failed"}
  PROVE  Report(e, pb) \in ReportType /\ Report(e, pb).event = e /\ Report(e, pb).pb = pb
BY DEF ReportType, Report

(* What the types say of a state.                                           *)
LEMMA Types ==
  ASSUME TypeInv
  PROVE  /\ tokens \in Nat /\ token \in Nat /\ token <= tokens /\ tokens <= MaxPlaybacks
         /\ rev \in Nat /\ published \in Nat /\ published <= rev
         /\ loaded \in Nat /\ loaded <= tokens
         /\ \A h \in Handlers : /\ pending[h] \in DirectiveType \/ pending[h] = Nothing
                                /\ pending[h].op # "none" => pending[h] \in DirectiveType
                                /\ pending[h] # Nothing => pending[h] \in DirectiveType
         /\ \A s \in Sessions : /\ down[s] \in Seq(DirectiveType) /\ up[s] \in Seq(ReportType)
                                /\ step[s] \in Step /\ session[s] \in Phase
         /\ node.conn \in 0..MaxSessions /\ (node.conn # 0 => node.conn \in Sessions)
         /\ node.media \in 0..MaxPlaybacks /\ node.media \in Nat /\ node.sounding \in BOOLEAN
         /\ node.late \in SUBSET (0..MaxPlaybacks) /\ node.late \subseteq Nat
         /\ node.conn = 0 => ~node.sounding /\ node.media = 0
<1>1. /\ tokens \in Nat /\ token \in Nat /\ token <= tokens /\ tokens <= MaxPlaybacks
      /\ rev \in Nat /\ published \in Nat /\ published <= rev
      /\ loaded \in Nat /\ loaded <= tokens
  BY Numbers DEF TypeInv, TypeOK
<1>2. ASSUME NEW h \in Handlers
      PROVE  /\ pending[h] \in DirectiveType \/ pending[h] = Nothing
             /\ pending[h].op # "none" => pending[h] \in DirectiveType
             /\ pending[h] # Nothing => pending[h] \in DirectiveType
  BY NothingFact DEF TypeInv
<1>3. ASSUME NEW s \in Sessions
      PROVE  /\ down[s] \in Seq(DirectiveType) /\ up[s] \in Seq(ReportType)
             /\ step[s] \in Step /\ session[s] \in Phase
  BY DEF TypeInv
<1>4. /\ node.conn \in 0..MaxSessions /\ (node.conn # 0 => node.conn \in Sessions)
      /\ node.media \in 0..MaxPlaybacks /\ node.media \in Nat /\ node.sounding \in BOOLEAN
  BY Numbers DEF TypeInv, TypeOK
<1>5. node.conn = 0 => ~node.sounding /\ node.media = 0
  BY DEF TypeInv, TypeOK, Offline
<1>6. node.late \in SUBSET (0..MaxPlaybacks) /\ node.late \subseteq Nat
  BY Numbers DEF TypeInv, TypeOK
<1>7. QED
  BY <1>1, <1>2, <1>3, <1>4, <1>5, <1>6

(* What a command or a report does to the row, and what its handler is to   *)
(* publish of it.                                                           *)
Starts(h) ==
  /\ tokens < MaxPlaybacks
  /\ rev' = rev + 1 /\ tokens' = tokens + 1 /\ token' = tokens + 1 /\ status' = "playing"
  /\ pending' = [pending EXCEPT ![h] = [op |-> "load", pb |-> tokens + 1, rev |-> rev + 1,
                                        live |-> TRUE]]

Silences(h) ==
  /\ rev' = rev + 1 /\ tokens' = tokens /\ token' \in {token, 0}
  /\ status' \in {"paused", "stopped"}
  /\ \E op \in {"pause", "stop"} :
       pending' = [pending EXCEPT ![h] = [op |-> op, pb |-> token', rev |-> rev + 1, live |-> TRUE]]

Adjusts(h) ==
  /\ rev' = rev + 1 /\ tokens' = tokens /\ status' = status
  /\ token' = token \/ (status # "playing" /\ token' = 0)
  /\ \/ pending' = [pending EXCEPT ![h] = Nothing]
     \/ pending' = [pending EXCEPT ![h] = [op |-> "volume", pb |-> token', rev |-> rev + 1,
                                           live |-> TRUE]]

(* A report ends the playback of the row or says what it does.              *)
Follows(h, r) ==
  /\ rev' = rev + 1 /\ tokens' = tokens /\ published' = rev + 1
  /\ pending' = [pending EXCEPT ![h] = Nothing]
  /\ \/ /\ r.event # "playing" /\ token' = 0 /\ status' = "stopped"
     \/ /\ r.event \in {"playing", "paused"} /\ token' = token /\ status' = r.event

LEMMA CommandIs ==
  ASSUME NEW h \in Controllers, TypeInv, Command(h)
  PROVE  /\ pending[h] = Nothing
         /\ UNCHANGED <<published, loaded, listeners, session, step, down, up, node, disturbed>>
         /\ Starts(h) \/ Silences(h) \/ Adjusts(h)
<1>1. /\ pending[h] = Nothing
      /\ UNCHANGED <<published, loaded, listeners, session, step, down, up, node, disturbed>>
  BY DEF Command, linkVars
<1>2. CASE tokens < MaxPlaybacks /\ Row!StartPlayback
  BY <1>1, <1>2 DEF Command, Starts, Committed, Row!StartPlayback, Row!Commit
<1>3. CASE Row!PausePlayback
  BY <1>1, <1>3 DEF Command, Silences, Committed, Row!PausePlayback, Row!Commit
<1>4. CASE Row!StopPlayback
  BY <1>1, <1>4 DEF Command, Silences, Committed, Row!StopPlayback, Row!Commit
<1>5. CASE Row!Adjust
  BY <1>1, <1>5 DEF Command, Adjusts, Committed, Row!Adjust, Row!Commit
<1>6. QED
  BY <1>1, <1>2, <1>3, <1>4, <1>5 DEF Command

LEMMA ReceiveIs ==
  ASSUME NEW s \in Sessions, TypeInv, Receive(s)
  PROVE  LET r == Head(up[s]) IN
         /\ step[s] = "ready" /\ pending[s] = Nothing /\ up[s] # <<>> /\ r \in ReportType
         /\ up' = [up EXCEPT ![s] = Tail(up[s])] /\ step' = [step EXCEPT ![s] = "attach"]
         /\ UNCHANGED <<loaded, listeners, session, down, node>>
         /\ \/ /\ ~Matches(r) /\ UNCHANGED <<rowVars, pending, published, disturbed>>
            \/ /\ Matches(r) /\ Starts(s) /\ r.event = "completed"
               /\ UNCHANGED <<published, disturbed>>
            \/ /\ Matches(r) /\ Follows(s, r) /\ UNCHANGED disturbed
            \/ /\ Matches(r) /\ Dropped(s, r)
<1> DEFINE r == Head(up[s])
<1>1. /\ step[s] = "ready" /\ pending[s] = Nothing /\ up[s] # <<>>
      /\ up' = [up EXCEPT ![s] = Tail(up[s])] /\ step' = [step EXCEPT ![s] = "attach"]
      /\ UNCHANGED <<loaded, listeners, session, down, node>>
  BY DEF Receive
<1>2. r \in ReportType
  BY <1>1, TailFact, Types
<1>3. CASE ~Matches(r) /\ UNCHANGED <<rowVars, pending, published, disturbed>>
  BY <1>1, <1>2, <1>3
<1>4. CASE Matches(r) /\ Dropped(s, r)
  BY <1>1, <1>2, <1>4
<1>5. CASE /\ Matches(r) /\ Follow(r) /\ UNCHANGED disturbed
           /\ pending' = [pending EXCEPT ![s] = Committed]
           /\ published' = IF Committed = Nothing THEN rev' ELSE published
  <2> HIDE DEF r
  <2>1. CASE r.event = "completed" /\ tokens < MaxPlaybacks /\ Row!StartPlayback
    <3>1. Committed = [op |-> "load", pb |-> tokens + 1, rev |-> rev + 1, live |-> TRUE]
      BY <2>1 DEF Committed, Row!StartPlayback, Row!Commit
    <3>2. Committed # Nothing
      BY <3>1, NothingFact
    <3>3. Starts(s) /\ published' = published
      BY <1>5, <2>1, <3>1, <3>2 DEF Starts, Row!StartPlayback, Row!Commit
    <3>4. QED
      BY <1>1, <1>2, <1>5, <2>1, <3>3 DEF r
  <2>2. CASE r.event \in {"completed", "failed", "stopped"} /\ Row!EndPlayback
    <3>1. Committed = Nothing
      BY <2>2 DEF Committed, Row!EndPlayback
    <3>2. Follows(s, r)
      BY <1>5, <2>2, <3>1 DEF Follows, Row!EndPlayback, Row!Commit
    <3>3. QED
      BY <1>1, <1>2, <1>5, <3>2 DEF r
  <2>3. CASE r.event \in {"ready", "playing", "paused"} /\ Row!Observe /\ status' = r.event
    <3>1. Committed = Nothing
      BY <2>3 DEF Committed, Row!Observe
    <3>2. r.event \in {"playing", "paused"}
      BY <2>3 DEF Row!Observe
    <3>3. Follows(s, r)
      BY <1>5, <2>3, <3>1, <3>2 DEF Follows, Row!Observe, Row!Commit
    <3>4. QED
      BY <1>1, <1>2, <1>5, <3>3 DEF r
  <2>4. QED
    BY <1>5, <2>1, <2>2, <2>3 DEF Follow
<1>6. QED
  BY <1>3, <1>4, <1>5 DEF Receive

-----------------------------------------------------------------------------
(* Type correctness *)

Directives == DirectiveType \cup {Nothing}

RowTypes ==
  /\ status \in {"stopped", "playing", "paused"}
  /\ tokens \in 0..MaxPlaybacks /\ token \in 0..tokens /\ rev \in Nat
HubTypes ==
  /\ pending \in [Handlers -> Directives] /\ listeners \subseteq Sessions
  /\ published \in 0..rev /\ loaded \in 0..tokens
LinkTypes ==
  /\ session \in [Sessions -> Phase] /\ step \in [Sessions -> Step]
  /\ down \in [Sessions -> Seq(DirectiveType)] /\ up \in [Sessions -> Seq(ReportType)]
NodeType ==
  [conn : 0..MaxSessions, media : 0..MaxPlaybacks, sounding : BOOLEAN, late : SUBSET (0..MaxPlaybacks)]
NodeTypes ==
  /\ node \in NodeType
  /\ node.conn = 0 => node = Offline
  /\ disturbed \subseteq Disturbances

LEMMA TypeParts == TypeInv <=> RowTypes /\ HubTypes /\ LinkTypes /\ NodeTypes
<1>1. TypeInv => RowTypes /\ HubTypes /\ LinkTypes /\ NodeTypes
  BY DEF TypeInv, TypeOK, RowTypes, HubTypes, LinkTypes, NodeTypes, NodeType, Directives
<1>2. ASSUME RowTypes, HubTypes, LinkTypes, NodeTypes PROVE TypeInv
  <2>1. \A h \in Handlers : pending[h] \in Directives
    BY <1>2 DEF HubTypes
  <2>2. \A s \in Sessions : /\ session[s] \in Phase /\ step[s] \in Step
                            /\ down[s] \in Seq(DirectiveType) /\ up[s] \in Seq(ReportType)
    BY <1>2 DEF LinkTypes
  <2>3. TypeOK
    BY <1>2, <2>1, <2>2 DEF TypeOK, RowTypes, HubTypes, NodeTypes, NodeType, Directives, Phase, Step
  <2>4. QED
    BY <1>2, <2>3 DEF TypeInv, HubTypes, LinkTypes, Directives
<1>3. QED
  BY <1>1, <1>2

LEMMA TypeWhole == ASSUME RowTypes', HubTypes', LinkTypes', NodeTypes' PROVE TypeInv'
<1>1. \A h \in Handlers : pending'[h] \in Directives
  BY DEF HubTypes
<1>2. \A s \in Sessions : /\ session'[s] \in Phase /\ step'[s] \in Step
                          /\ down'[s] \in Seq(DirectiveType) /\ up'[s] \in Seq(ReportType)
  BY DEF LinkTypes
<1>3. TypeOK'
  BY <1>1, <1>2 DEF TypeOK, RowTypes, HubTypes, NodeTypes, NodeType, Directives, Phase, Step
<1>4. QED
  BY <1>3 DEF TypeInv, HubTypes, LinkTypes, Directives

LEMMA Posts ==
  ASSUME TypeInv, NEW h \in Handlers, NEW d \in Directives, pending' = [pending EXCEPT ![h] = d]
  PROVE  /\ pending' \in [Handlers -> Directives] /\ pending'[h] = d
         /\ \A g \in Handlers : g # h => pending'[g] = pending[g]
<1>1. pending \in [Handlers -> Directives]
  BY DEF TypeInv, Directives
<1>2. QED
  BY <1>1

LEMMA DirectiveIs ==
  ASSUME NEW op \in Op, NEW pb \in 0..MaxPlaybacks, NEW r \in Nat, NEW l \in BOOLEAN
  PROVE  [op |-> op, pb |-> pb, rev |-> r, live |-> l] \in DirectiveType
BY DEF DirectiveType

(* Each change of the row leaves a directive of its type.                   *)
LEMMA StartsIs ==
  ASSUME TypeInv, NEW h \in Handlers, Starts(h)
  PROVE  /\ pending' \in [Handlers -> Directives]
         /\ pending'[h] \in DirectiveType /\ pending'[h].op = "load" /\ Tells(pending'[h])
         /\ pending'[h].pb = tokens + 1 /\ pending'[h].rev = rev + 1
         /\ \A g \in Handlers : g # h => pending'[g] = pending[g]
         /\ token' = tokens + 1 /\ tokens' = tokens + 1 /\ rev' = rev + 1 /\ status' = "playing"
         /\ tokens + 1 <= MaxPlaybacks
<1> DEFINE d == [op |-> "load", pb |-> tokens + 1, rev |-> rev + 1, live |-> TRUE]
<1>0. tokens + 1 \in 0..MaxPlaybacks /\ rev + 1 \in Nat /\ tokens + 1 <= MaxPlaybacks
  BY Types, Numbers DEF Starts
<1>1. d \in DirectiveType /\ tokens + 1 <= MaxPlaybacks
  BY <1>0, DirectiveIs DEF Op
<1>2. d.op = "load" /\ Tells(d) /\ d.pb = tokens + 1 /\ d.rev = rev + 1 /\ d \in Directives
  BY <1>1 DEF Tells, Directives
<1>3. pending' = [pending EXCEPT ![h] = d]
  BY DEF Starts
<1> HIDE DEF d
<1>4. QED
  BY <1>1, <1>2, <1>3, Posts DEF Starts

LEMMA SilencesIs ==
  ASSUME TypeInv, NEW h \in Handlers, Silences(h)
  PROVE  /\ pending' \in [Handlers -> Directives]
         /\ pending'[h] \in DirectiveType /\ pending'[h].op # "load" /\ Tells(pending'[h])
         /\ pending'[h].rev = rev + 1
         /\ \A g \in Handlers : g # h => pending'[g] = pending[g]
         /\ token' \in {token, 0} /\ tokens' = tokens /\ rev' = rev + 1
         /\ status' \in {"paused", "stopped"}
<1>1. PICK op \in {"pause", "stop"} :
        pending' = [pending EXCEPT ![h] = [op |-> op, pb |-> token', rev |-> rev + 1, live |-> TRUE]]
  BY DEF Silences
<1> DEFINE d == [op |-> op, pb |-> token', rev |-> rev + 1, live |-> TRUE]
<1>2. token' \in 0..MaxPlaybacks /\ rev + 1 \in Nat
  BY Types, Numbers DEF Silences
<1>3. d \in DirectiveType
  BY <1>2, DirectiveIs DEF Op
<1>4. d.op # "load" /\ Tells(d) /\ d.rev = rev + 1 /\ d \in Directives
  BY <1>3 DEF Tells, Directives
<1>5. pending' = [pending EXCEPT ![h] = d]
  BY <1>1
<1> HIDE DEF d
<1>6. QED
  BY <1>3, <1>4, <1>5, Posts DEF Silences

LEMMA AdjustsIs ==
  ASSUME TypeInv, NEW h \in Handlers, Adjusts(h)
  PROVE  /\ pending' \in [Handlers -> Directives] /\ ~Tells(pending'[h])
         /\ pending'[h] \in DirectiveType \/ pending'[h] = Nothing
         /\ pending'[h] # Nothing => pending'[h].rev = rev + 1
         /\ \A g \in Handlers : g # h => pending'[g] = pending[g]
         /\ token' = token \/ (status # "playing" /\ token' = 0)
         /\ tokens' = tokens /\ rev' = rev + 1 /\ status' = status
<1> DEFINE d == [op |-> "volume", pb |-> token', rev |-> rev + 1, live |-> TRUE]
<1>1. token' \in 0..MaxPlaybacks /\ rev + 1 \in Nat
  BY Types, Numbers DEF Adjusts
<1>2. d \in DirectiveType
  BY <1>1, DirectiveIs DEF Op
<1>3. ~Tells(d) /\ d.rev = rev + 1 /\ d \in Directives /\ Nothing \in Directives
  BY <1>2 DEF Tells, Directives
<1>4. pending' = [pending EXCEPT ![h] = Nothing] \/ pending' = [pending EXCEPT ![h] = d]
  BY DEF Adjusts
<1> HIDE DEF d
<1>5. QED
  BY <1>2, <1>3, <1>4, Posts, NothingFact DEF Adjusts

LEMMA FollowsIs ==
  ASSUME TypeInv, NEW h \in Handlers, NEW r, Follows(h, r), pending[h] = Nothing
  PROVE  /\ pending' = pending /\ rev' = rev + 1 /\ tokens' = tokens /\ published' = rev + 1
         /\ \/ /\ r.event # "playing" /\ token' = 0 /\ status' = "stopped"
            \/ /\ r.event \in {"playing", "paused"} /\ token' = token /\ status' = r.event
<1>1. Nothing \in Directives /\ pending \in [Handlers -> Directives]
  BY DEF Directives, TypeInv
<1>2. pending' = pending
  BY <1>1 DEF Follows
<1>3. QED
  BY <1>2 DEF Follows

(* A directive that is published goes to the session that is open.          *)
LEMMA PublishIs ==
  ASSUME TypeInv, NEW h \in Handlers, Publish(h)
  PROVE  LET d == pending[h] IN
         /\ d \in DirectiveType
         /\ pending' \in [Handlers -> Directives] /\ pending'[h] = Nothing
         /\ \A g \in Handlers : g # h => pending'[g] = pending[g]
         /\ down' \in [Sessions -> Seq(DirectiveType)]
         /\ \A s \in Sessions :
              down'[s] = IF s \in listeners /\ session[s] = "open" THEN Append(down[s], d) ELSE down[s]
         /\ published' = IF d.rev > published THEN d.rev ELSE published
         /\ loaded' = IF d.op = "load" /\ listeners # {} /\ d.pb > loaded THEN d.pb ELSE loaded
         /\ disturbed \subseteq disturbed' /\ disturbed' \subseteq Disturbances
         /\ node.conn \in listeners /\ disturbed' = {} =>
              d.rev >= published /\ (d.op = "load" => d.pb # loaded)
         /\ UNCHANGED <<rowVars, listeners, session, step, up, node>>
<1> DEFINE d == pending[h]
<1>1. d \in DirectiveType
  BY Types DEF Publish
<1>2. pending' = [pending EXCEPT ![h] = Nothing] /\ Nothing \in Directives
  BY DEF Publish, Directives
<1>3. \A s \in Sessions : Append(down[s], d) \in Seq(DirectiveType) /\ down[s] \in Seq(DirectiveType)
  BY <1>1, Types, AppendFact
<1>4. /\ published' = IF d.rev > published THEN d.rev ELSE published
      /\ loaded' = IF d.op = "load" /\ listeners # {} /\ d.pb > loaded THEN d.pb ELSE loaded
      /\ UNCHANGED <<rowVars, listeners, session, step, up, node>>
  BY DEF Publish
<1>5. down' = [s \in Sessions |-> IF s \in listeners /\ session[s] = "open"
                                    THEN Append(down[s], d) ELSE down[s]]
  BY DEF Publish
<1>6. /\ disturbed \subseteq disturbed' /\ disturbed' \subseteq Disturbances
      /\ node.conn \in listeners /\ disturbed' = {} =>
           d.rev >= published /\ (d.op = "load" => d.pb # loaded)
  <2> DEFINE heard == node.conn \in listeners
             late == d.rev < published
             again == d.op = "load" /\ listeners # {} /\ d.pb = loaded
             A == IF heard /\ late /\ d.live THEN {"overtaken"} ELSE {}
             B == IF heard /\ (again \/ (late /\ ~d.live)) THEN {"raced"} ELSE {}
  <2>1. disturbed' = disturbed \cup A \cup B
    BY DEF Publish
  <2>2. A \subseteq Disturbances /\ B \subseteq Disturbances /\ disturbed \subseteq Disturbances
    BY DEF Disturbances, TypeInv, TypeOK
  <2>3. ASSUME heard, disturbed' = {} PROVE ~late /\ ~again
    <3>1. A = {} /\ B = {}
      BY <2>1, <2>3
    <3>2. QED
      BY <2>3, <3>1, <1>1, DirectiveFact
  <2>4. ~late => d.rev >= published
    BY <1>1, DirectiveFact, Types
  <2>5. heard => listeners # {}
    OBVIOUS
  <2> HIDE DEF A, B
  <2>6. QED
    BY <2>1, <2>2, <2>3, <2>4, <2>5
<1> HIDE DEF d
<1>7. down' \in [Sessions -> Seq(DirectiveType)]
  BY <1>3, <1>5
<1>8. \A s \in Sessions :
        down'[s] = IF s \in listeners /\ session[s] = "open" THEN Append(down[s], d) ELSE down[s]
  BY <1>5
<1>9. QED
  BY <1>1, <1>2, <1>4, <1>6, <1>7, <1>8, Posts DEF d

LEMMA ReceiveTypes ==
  ASSUME TypeInv, NEW s \in Sessions, up[s] # <<>>,
         up' = [up EXCEPT ![s] = Tail(up[s])], step' = [step EXCEPT ![s] = "attach"]
  PROVE  /\ up' \in [Sessions -> Seq(ReportType)] /\ step' \in [Sessions -> Step]
         /\ up'[s] = Tail(up[s]) /\ step'[s] = "attach"
         /\ \A t \in Sessions : t # s => up'[t] = up[t] /\ step'[t] = step[t]
<1>1. Tail(up[s]) \in Seq(ReportType)
  BY TailFact, Types
<1>2. up \in [Sessions -> Seq(ReportType)] /\ step \in [Sessions -> Step] /\ "attach" \in Step
  BY DEF TypeInv, Step
<1>3. QED
  BY <1>1, <1>2

LEMMA AttachIs ==
  ASSUME TypeInv, NEW s \in Sessions, Attach(s)
  PROVE  /\ step[s] = "attach" /\ pending[s] = Nothing /\ listeners' = listeners \cup {s}
         /\ step' \in [Sessions -> Step]
         /\ step'[s] = IF listeners = {} THEN "reconcile" ELSE "ready"
         /\ \A t \in Sessions : t # s => step'[t] = step[t]
         /\ disturbed' \subseteq Disturbances /\ disturbed \subseteq disturbed'
         /\ s = node.conn /\ s \notin listeners /\ listeners # {} => "unreconciled" \in disturbed'
         /\ UNCHANGED <<rowVars, pending, published, loaded, session, down, up, node>>
<1>1. step \in [Sessions -> Step] /\ {"ready", "reconcile"} \subseteq Step
  BY DEF TypeInv, Step
<1>2. /\ step[s] = "attach" /\ pending[s] = Nothing /\ listeners' = listeners \cup {s}
      /\ step' = [step EXCEPT ![s] = IF listeners = {} THEN "reconcile" ELSE "ready"]
      /\ UNCHANGED <<rowVars, pending, published, loaded, session, down, up, node>>
  BY DEF Attach
<1>3. /\ step' \in [Sessions -> Step]
      /\ step'[s] = IF listeners = {} THEN "reconcile" ELSE "ready"
      /\ \A t \in Sessions : t # s => step'[t] = step[t]
  BY <1>1, <1>2
<1>4. /\ disturbed' \subseteq Disturbances /\ disturbed \subseteq disturbed'
      /\ s = node.conn /\ s \notin listeners /\ listeners # {} => "unreconciled" \in disturbed'
  BY DEF Attach, Disturbances, TypeInv, TypeOK
<1>5. QED
  BY <1>2, <1>3, <1>4

LEMMA ReconcileIs ==
  ASSUME TypeInv, NEW s \in Sessions, Reconcile(s)
  PROVE  /\ step[s] = "reconcile" /\ step' \in [Sessions -> Step] /\ step'[s] = "ready"
         /\ \A t \in Sessions : t # s => step'[t] = step[t]
         /\ pending' \in [Handlers -> Directives] /\ pending'[s] \in DirectiveType
         /\ pending'[s].pb = token /\ pending'[s].rev = rev
         /\ status = "playing" => pending'[s].op = "load"
         /\ status # "playing" => pending'[s].op = "volume"
         /\ \A h \in Handlers : h # s => pending'[h] = pending[h]
         /\ UNCHANGED <<rowVars, published, loaded, listeners, session, down, up, node, disturbed>>
<1> DEFINE op == IF status = "playing" THEN "load" ELSE "volume"
           d == [op |-> op, pb |-> token, rev |-> rev, live |-> FALSE]
<1>1. token \in 0..MaxPlaybacks /\ rev \in Nat
  BY Types, Numbers
<1>2. op \in Op
  BY DEF Op
<1>3. d \in DirectiveType
  <2> HIDE DEF op
  <2>1. QED
    BY <1>1, <1>2, DirectiveIs
<1>4. d.op = op /\ d.pb = token /\ d.rev = rev /\ d \in Directives
  <2> HIDE DEF op
  <2>1. QED
    BY <1>3 DEF Directives
<1>5. /\ step[s] = "reconcile" /\ step' = [step EXCEPT ![s] = "ready"]
      /\ pending' = [pending EXCEPT ![s] = d]
      /\ UNCHANGED <<rowVars, published, loaded, listeners, session, down, up, node, disturbed>>
  BY DEF Reconcile
<1>6. step \in [Sessions -> Step] /\ "ready" \in Step
  BY DEF TypeInv, Step
<1>7. step' \in [Sessions -> Step] /\ step'[s] = "ready"
      /\ \A t \in Sessions : t # s => step'[t] = step[t]
  BY <1>5, <1>6
<1> HIDE DEF d
<1>8. QED
  BY <1>3, <1>4, <1>5, <1>7, Posts

(* A session ends, and its listener may be left behind.                     *)
LEMMA ForgetIs ==
  ASSUME TypeInv, NEW s \in Sessions, Close(s) \/ CloseOnError(s)
  PROVE  /\ session[s] = "cut" /\ step[s] = "ready" /\ pending[s] = Nothing
         /\ session' \in [Sessions -> Phase] /\ session'[s] = "closed"
         /\ up' \in [Sessions -> Seq(ReportType)] /\ up'[s] = <<>>
         /\ \A t \in Sessions : t # s => session'[t] = session[t] /\ up'[t] = up[t]
         /\ UNCHANGED <<rowVars, pending, published, step, down, node, disturbed>>
         /\ \/ listeners' = listeners /\ loaded' = loaded
            \/ listeners' = listeners \ {s} /\ loaded' = IF listeners' = {} THEN 0 ELSE loaded
<1>1. session \in [Sessions -> Phase] /\ up \in [Sessions -> Seq(ReportType)]
      /\ "closed" \in Phase /\ <<>> \in Seq(ReportType)
  BY Empty DEF TypeInv, Phase
<1>2. Forget(s)
  BY DEF Close, CloseOnError
<1>3. /\ session' \in [Sessions -> Phase] /\ session'[s] = "closed"
      /\ up' \in [Sessions -> Seq(ReportType)] /\ up'[s] = <<>>
      /\ \A t \in Sessions : t # s => session'[t] = session[t] /\ up'[t] = up[t]
  BY <1>1, <1>2 DEF Forget
<1>4. QED
  BY <1>2, <1>3 DEF Forget, Close, CloseOnError

LEMMA ConnectIs ==
  ASSUME TypeInv, NEW s \in Sessions, Connect(s)
  PROVE  /\ node.conn = 0 /\ session[s] = "unused"
         /\ node' = [conn |-> s, media |-> 0, sounding |-> FALSE, late |-> {}]
         /\ session' \in [Sessions -> Phase] /\ session'[s] = "open"
         /\ up' \in [Sessions -> Seq(ReportType)] /\ up'[s] = <<Report("ready", 0)>>
         /\ \A t \in Sessions : t # s => session'[t] = session[t] /\ up'[t] = up[t]
         /\ UNCHANGED <<rowVars, hubVars, step, down, disturbed>>
<1>1. Report("ready", 0) \in ReportType
  BY Numbers, ReportIs
<1>2. session \in [Sessions -> Phase] /\ up \in [Sessions -> Seq(ReportType)]
      /\ "open" \in Phase /\ <<Report("ready", 0)>> \in Seq(ReportType)
  BY <1>1 DEF TypeInv, Phase
<1>3. /\ session' \in [Sessions -> Phase] /\ session'[s] = "open"
      /\ up' \in [Sessions -> Seq(ReportType)] /\ up'[s] = <<Report("ready", 0)>>
      /\ \A t \in Sessions : t # s => session'[t] = session[t] /\ up'[t] = up[t]
  BY <1>2 DEF Connect
<1>4. node' = [conn |-> s, media |-> 0, sounding |-> FALSE, late |-> {}]
  BY DEF Connect, Offline
<1>5. QED
  BY <1>3, <1>4 DEF Connect

(* What the satellite says, and what it is then.                            *)
Says(event, pb, media, sounding) ==
  /\ node' = [conn |-> node.conn, media |-> media, sounding |-> sounding, late |-> node'.late]
  /\ node'.late \subseteq node.late \cup {node.media}
  /\ up' \in [Sessions -> Seq(ReportType)]
  /\ up'[node.conn] = Append(up[node.conn], Report(event, pb))
  /\ \A t \in Sessions : t # node.conn => up'[t] = up[t]

LEMMA SentUp ==
  ASSUME TypeInv, node.conn # 0, NEW pb \in 0..MaxPlaybacks,
         NEW e \in {"ready", "playing", "paused", "stopped", "completed", "failed"},
         Send(Report(e, pb))
  PROVE  /\ up' \in [Sessions -> Seq(ReportType)]
         /\ up'[node.conn] = Append(up[node.conn], Report(e, pb))
         /\ \A t \in Sessions : t # node.conn => up'[t] = up[t]
<1>1. up \in [Sessions -> Seq(ReportType)] /\ node.conn \in Sessions
  BY Types DEF TypeInv
<1>2. Append(up[node.conn], Report(e, pb)) \in Seq(ReportType)
  BY <1>1, ReportIs, AppendFact
<1>3. up' = [up EXCEPT ![node.conn] = Append(up[node.conn], Report(e, pb))]
  BY DEF Send
<1>4. QED
  BY <1>1, <1>2, <1>3

LEMMA NodeIs ==
  ASSUME TypeInv, NEW media, NEW sounding, NEW late,
         node' = [node EXCEPT !.media = media, !.sounding = sounding, !.late = late]
  PROVE  /\ node' = [conn |-> node.conn, media |-> media, sounding |-> sounding, late |-> late]
         /\ node'.late = late
<1>1. node \in NodeType
  BY DEF TypeInv, TypeOK, NodeType
<1>2. QED
  BY <1>1 DEF NodeType

LEMMA Sent ==
  ASSUME TypeInv, node.conn # 0, NEW pb \in 0..MaxPlaybacks, NEW media, NEW sounding,
         NEW e \in {"ready", "playing", "paused", "stopped", "completed", "failed"},
         NEW late, late \subseteq node.late \cup {node.media}, Send(Report(e, pb)),
         node' = [node EXCEPT !.media = media, !.sounding = sounding, !.late = late]
  PROVE  Says(e, pb, media, sounding) /\ node'.late = late
<1>1. /\ node' = [conn |-> node.conn, media |-> media, sounding |-> sounding, late |-> node'.late]
      /\ node'.late = late
  BY NodeIs
<1>2. /\ up' \in [Sessions -> Seq(ReportType)]
      /\ up'[node.conn] = Append(up[node.conn], Report(e, pb))
      /\ \A t \in Sessions : t # node.conn => up'[t] = up[t]
  BY SentUp
<1>3. QED
  BY <1>1, <1>2 DEF Says

LEMMA GivenUp ==
  ASSUME NEW late \in LateAfter PROVE late \subseteq node.late \cup {node.media}
BY DEF LateAfter

LEMMA ObeyIs ==
  ASSUME TypeInv, Obey
  PROVE  LET d == Head(down[node.conn]) IN
         /\ node.conn \in Sessions /\ down[node.conn] # <<>> /\ d \in DirectiveType
         /\ down' \in [Sessions -> Seq(DirectiveType)]
         /\ down'[node.conn] = Tail(down[node.conn])
         /\ \A t \in Sessions : t # node.conn => down'[t] = down[t]
         /\ \/ d.op = "load" /\ Says("playing", d.pb, d.pb, TRUE)
            \/ d.op = "volume" /\ UNCHANGED <<node, up>>
            \/ /\ d.op \in {"pause", "stop"}
               /\ \E e \in {"paused", "stopped"} : Says(e, node.media, 0, FALSE)
         /\ UNCHANGED <<rowVars, hubVars, session, step, disturbed>>
<1> DEFINE d == Head(down[node.conn])
<1>1. /\ node.conn # 0 /\ node.conn \in Sessions /\ down[node.conn] # <<>>
      /\ UNCHANGED <<rowVars, hubVars, session, step, disturbed>>
      /\ down' = [down EXCEPT ![node.conn] = Tail(down[node.conn])]
  BY Types DEF Obey
<1>2. d \in DirectiveType /\ Tail(down[node.conn]) \in Seq(DirectiveType)
  BY <1>1, TailFact, Types
<1>3. down \in [Sessions -> Seq(DirectiveType)]
  BY DEF TypeInv
<1>4. /\ down' \in [Sessions -> Seq(DirectiveType)]
      /\ down'[node.conn] = Tail(down[node.conn])
      /\ \A t \in Sessions : t # node.conn => down'[t] = down[t]
  BY <1>1, <1>2, <1>3
<1>5. \/ /\ d.op = "load" /\ Send(Report("playing", d.pb))
         /\ \E late \in LateAfter :
               node' = [node EXCEPT !.media = d.pb, !.sounding = TRUE, !.late = late]
      \/ d.op = "volume" /\ UNCHANGED <<node, up>>
      \/ /\ d.op \in {"pause", "stop"}
         /\ \E late \in LateAfter :
               node' = [node EXCEPT !.media = 0, !.sounding = FALSE, !.late = late]
         /\ \E e \in {"paused", "stopped"} : Send(Report(e, node.media))
  BY DEF Obey
<1> HIDE DEF d
<1>6. d.pb \in 0..MaxPlaybacks /\ node.media \in 0..MaxPlaybacks
  BY <1>2, DirectiveFact, Types
<1>7. ASSUME d.op = "load", Send(Report("playing", d.pb)), NEW late \in LateAfter,
             node' = [node EXCEPT !.media = d.pb, !.sounding = TRUE, !.late = late]
      PROVE  Says("playing", d.pb, d.pb, TRUE)
  BY <1>1, <1>6, <1>7, GivenUp, Sent
<1>8. ASSUME d.op \in {"pause", "stop"}, NEW late \in LateAfter,
             node' = [node EXCEPT !.media = 0, !.sounding = FALSE, !.late = late],
             NEW e \in {"paused", "stopped"}, Send(Report(e, node.media))
      PROVE  Says(e, node.media, 0, FALSE)
  <2>1. late \subseteq node.late \cup {node.media}
    BY <1>8, GivenUp
  <2>2. e \in {"ready", "playing", "paused", "stopped", "completed", "failed"}
    OBVIOUS
  <2>3. node' = [conn |-> node.conn, media |-> 0, sounding |-> FALSE, late |-> node'.late]
        /\ node'.late = late
    BY <1>8, NodeIs
  <2>4. /\ up' \in [Sessions -> Seq(ReportType)]
        /\ up'[node.conn] = Append(up[node.conn], Report(e, node.media))
        /\ \A t \in Sessions : t # node.conn => up'[t] = up[t]
    BY <1>1, <1>6, <1>8, <2>2, SentUp
  <2>5. QED
    BY <2>1, <2>3, <2>4 DEF Says
<1>9. \/ d.op = "load" /\ Says("playing", d.pb, d.pb, TRUE)
      \/ d.op = "volume" /\ UNCHANGED <<node, up>>
      \/ /\ d.op \in {"pause", "stop"}
         /\ \E e \in {"paused", "stopped"} : Says(e, node.media, 0, FALSE)
  BY <1>5, <1>7, <1>8
<1>10. QED
  BY <1>1, <1>2, <1>4, <1>9 DEF d

LEMMA DecoderIs ==
  ASSUME TypeInv, Progress \/ Finish \/ Fail
  PROVE  /\ node.conn \in Sessions /\ node.sounding
         /\ UNCHANGED <<rowVars, hubVars, session, step, down, disturbed>>
         /\ \/ Says("playing", node.media, node.media, TRUE) /\ node'.late = node.late
            \/ \E e \in {"completed", "failed"}, media \in {0, node.media} :
                 Says(e, node.media, media, FALSE)
<1>1. /\ node.sounding /\ node.conn # 0 /\ node.conn \in Sessions /\ node.media \in 0..MaxPlaybacks
      /\ UNCHANGED <<rowVars, hubVars, session, step, down, disturbed>>
  BY Types DEF Progress, Finish, Fail
<1>2. node \in NodeType /\ node.late \subseteq node.late \cup {node.media}
  BY DEF TypeInv, TypeOK, NodeType
<1>3. CASE Progress
  <2>1. node' = [node EXCEPT !.media = node.media, !.sounding = TRUE, !.late = node.late]
    BY <1>1, <1>2, <1>3 DEF Progress, NodeType
  <2>2. Says("playing", node.media, node.media, TRUE) /\ node'.late = node.late
    BY <1>1, <1>2, <1>3, <2>1, Sent DEF Progress
  <2>3. QED
    BY <1>1, <2>2
<1>4. CASE Finish
  <2>1. node' = [node EXCEPT !.media = node.media, !.sounding = FALSE, !.late = node.late]
    BY <1>1, <1>2, <1>4 DEF Finish, NodeType
  <2>2. Says("completed", node.media, node.media, FALSE)
    BY <1>1, <1>2, <1>4, <2>1, Sent DEF Finish
  <2>3. QED
    BY <1>1, <2>2
<1>5. CASE Fail
  <2>1. CASE node' = [node EXCEPT !.sounding = FALSE]
    <3>1. node' = [node EXCEPT !.media = node.media, !.sounding = FALSE, !.late = node.late]
      BY <1>2, <2>1 DEF NodeType
    <3>2. Says("failed", node.media, node.media, FALSE)
      BY <1>1, <1>2, <1>5, <3>1, Sent DEF Fail
    <3>3. QED
      BY <1>1, <3>2
  <2>2. ASSUME NEW late \in LateAfter,
               node' = [node EXCEPT !.sounding = FALSE, !.media = 0, !.late = late]
        PROVE  Says("failed", node.media, 0, FALSE)
    <3>1. node' = [node EXCEPT !.media = 0, !.sounding = FALSE, !.late = late]
      BY <1>2, <2>2 DEF NodeType
    <3>2. QED
      BY <1>1, <1>5, <2>2, <3>1, GivenUp, Sent DEF Fail
  <2>3. QED
    BY <1>1, <1>5, <2>1, <2>2 DEF Fail
<1>6. QED
  BY <1>3, <1>4, <1>5

(* A decoder that was given up says its last.                               *)
LEMMA LateIs ==
  ASSUME TypeInv, NEW pb \in node.late, LateReport(pb)
  PROVE  /\ node.conn \in Sessions /\ pb \in 0..MaxPlaybacks /\ pb \in Nat
         /\ UNCHANGED <<rowVars, hubVars, session, step, down>>
         /\ disturbed \subseteq disturbed' /\ disturbed' \subseteq disturbed \cup {"late"}
         /\ disturbed' \subseteq Disturbances
         /\ node'.late \subseteq node.late
         /\ \E e \in {"playing", "completed", "failed"} :
              /\ Says(e, pb, node.media, node.sounding)
              /\ e = "playing" /\ pb = token => disturbed' # {}
<1>1. pb \in 0..MaxPlaybacks /\ pb \in Nat
  BY Types
<1>2. node.conn # 0 /\ node.conn \in Sessions
  <2>1. node.conn = 0 => node.late = {}
    BY DEF TypeInv, TypeOK, Offline
  <2>2. QED
    BY <2>1, Types
<1>3. UNCHANGED <<rowVars, hubVars, session, step, down>> /\ node' = [node EXCEPT !.late = @ \ {pb}]
  BY DEF LateReport
<1>4. PICK e \in {"playing", "completed", "failed"} :
        /\ Send(Report(e, pb))
        /\ disturbed' = IF e = "playing" /\ pb = token THEN disturbed \cup {"late"} ELSE disturbed
  BY DEF LateReport
<1>5. node' = [node EXCEPT !.media = node.media, !.sounding = node.sounding,
                           !.late = node.late \ {pb}]
  <2>1. node \in NodeType
    BY DEF TypeInv, TypeOK, NodeType
  <2>2. QED
    BY <1>3, <2>1 DEF NodeType
<1>6. Says(e, pb, node.media, node.sounding) /\ node'.late = node.late \ {pb}
  <2>1. node.late \ {pb} \subseteq node.late \cup {node.media}
    OBVIOUS
  <2>2. e \in {"ready", "playing", "paused", "stopped", "completed", "failed"}
    OBVIOUS
  <2>3. node' = [conn |-> node.conn, media |-> node.media, sounding |-> node.sounding,
                 late |-> node'.late]
        /\ node'.late = node.late \ {pb}
    BY <1>5, NodeIs
  <2>4. /\ up' \in [Sessions -> Seq(ReportType)]
        /\ up'[node.conn] = Append(up[node.conn], Report(e, pb))
        /\ \A t \in Sessions : t # node.conn => up'[t] = up[t]
    BY <1>1, <1>2, <1>4, <2>2, SentUp
  <2>5. QED
    BY <2>1, <2>3, <2>4 DEF Says
<1>7. /\ disturbed \subseteq disturbed' /\ disturbed' \subseteq disturbed \cup {"late"}
      /\ disturbed' \subseteq Disturbances
      /\ e = "playing" /\ pb = token => disturbed' # {}
  BY <1>4 DEF Disturbances, TypeInv, TypeOK
<1>8. QED
  BY <1>1, <1>2, <1>3, <1>6, <1>7

LEMMA CutIs ==
  ASSUME TypeInv, Cut
  PROVE  /\ node.conn \in Sessions /\ node' = Offline
         /\ session' \in [Sessions -> Phase] /\ session'[node.conn] = "cut"
         /\ down' \in [Sessions -> Seq(DirectiveType)] /\ down'[node.conn] = <<>>
         /\ up' \in [Sessions -> Seq(ReportType)]
         /\ \E n \in 0..Len(up[node.conn]) : up'[node.conn] = SubSeq(up[node.conn], 1, n)
         /\ \A t \in Sessions : t # node.conn =>
              session'[t] = session[t] /\ down'[t] = down[t] /\ up'[t] = up[t]
         /\ disturbed' = {} /\ UNCHANGED <<rowVars, hubVars, step>>
<1>1. /\ node.conn \in Sessions /\ node' = Offline
      /\ session' = [session EXCEPT ![node.conn] = "cut"]
      /\ down' = [down EXCEPT ![node.conn] = <<>>]
      /\ disturbed' = {} /\ UNCHANGED <<rowVars, hubVars, step>>
  BY Types DEF Cut
<1>2. /\ session \in [Sessions -> Phase] /\ "cut" \in Phase
      /\ down \in [Sessions -> Seq(DirectiveType)] /\ <<>> \in Seq(DirectiveType)
      /\ up \in [Sessions -> Seq(ReportType)]
  BY Empty DEF TypeInv, Phase
<1>3. PICK n \in 0..Len(up[node.conn]) : up' = [up EXCEPT ![node.conn] = SubSeq(up[node.conn], 1, n)]
  BY DEF Cut
<1>4. SubSeq(up[node.conn], 1, n) \in Seq(ReportType)
  BY <1>1, <1>3, Types, SubSeqFact
<1>5. /\ up' \in [Sessions -> Seq(ReportType)]
      /\ up'[node.conn] = SubSeq(up[node.conn], 1, n)
      /\ \A t \in Sessions : t # node.conn => up'[t] = up[t]
  BY <1>1, <1>2, <1>3, <1>4
<1>6. /\ session' \in [Sessions -> Phase] /\ session'[node.conn] = "cut"
      /\ down' \in [Sessions -> Seq(DirectiveType)] /\ down'[node.conn] = <<>>
      /\ \A t \in Sessions : t # node.conn => session'[t] = session[t] /\ down'[t] = down[t]
  BY <1>1, <1>2
<1>7. QED
  BY <1>1, <1>3, <1>5, <1>6

LEMMA RestartIs ==
  ASSUME TypeInv, Restart
  PROVE  /\ node' = Offline /\ disturbed' = {} /\ listeners' = {} /\ published' = 0 /\ loaded' = 0
         /\ session' \in [Sessions -> Phase] /\ step' \in [Sessions -> Step]
         /\ down' \in [Sessions -> Seq(DirectiveType)] /\ up' \in [Sessions -> Seq(ReportType)]
         /\ pending' \in [Handlers -> Directives]
         /\ \A s \in Sessions : /\ session'[s] \in {"unused", "closed"} /\ step'[s] = "ready"
                                /\ down'[s] = <<>> /\ up'[s] = <<>>
         /\ \A h \in Handlers : pending'[h] = Nothing
         /\ UNCHANGED rowVars
<1>1. <<>> \in Seq(DirectiveType) /\ <<>> \in Seq(ReportType) /\ Nothing \in Directives
      /\ "ready" \in Step /\ {"unused", "closed"} \subseteq Phase
  BY Empty DEF Directives, Step, Phase
<1>2. session' \in [Sessions -> Phase] /\ \A s \in Sessions : session'[s] \in {"unused", "closed"}
  BY <1>1 DEF Restart
<1>3. /\ step' \in [Sessions -> Step] /\ \A s \in Sessions : step'[s] = "ready"
      /\ down' \in [Sessions -> Seq(DirectiveType)] /\ \A s \in Sessions : down'[s] = <<>>
      /\ up' \in [Sessions -> Seq(ReportType)] /\ \A s \in Sessions : up'[s] = <<>>
      /\ pending' \in [Handlers -> Directives] /\ \A h \in Handlers : pending'[h] = Nothing
  BY <1>1 DEF Restart
<1>4. QED
  BY <1>2, <1>3 DEF Restart

LEMMA TypeInit == Init => TypeInv
<1> SUFFICES ASSUME Init PROVE TypeInv
  OBVIOUS
<1>1. RowTypes
  BY Numbers DEF Init, Row!Init, RowTypes
<1>2. HubTypes
  BY DEF Init, Row!Init, HubTypes, Directives
<1>3. LinkTypes
  <2>1. "unused" \in Phase /\ "ready" \in Step /\ <<>> \in Seq(DirectiveType) /\ <<>> \in Seq(ReportType)
    BY Empty DEF Phase, Step
  <2>2. QED
    BY <2>1 DEF Init, LinkTypes
<1>4. NodeTypes
  BY Numbers DEF Init, NodeTypes, NodeType, Offline
<1>5. QED
  BY <1>1, <1>2, <1>3, <1>4, TypeParts

LEMMA RowTypesStep ==
  ASSUME TypeInv, NEW h \in Handlers, Starts(h) \/ Silences(h) \/ Adjusts(h)
  PROVE  RowTypes' /\ tokens <= tokens' /\ rev <= rev'
<1>1. status \in {"stopped", "playing", "paused"}
  BY DEF TypeInv, TypeOK
<1>2. CASE Starts(h)
  BY <1>1, <1>2, Types, Numbers DEF Starts, RowTypes
<1>3. CASE Silences(h)
  BY <1>1, <1>3, Types, Numbers DEF Silences, RowTypes
<1>4. CASE Adjusts(h)
  BY <1>1, <1>4, Types, Numbers DEF Adjusts, RowTypes
<1>5. QED
  BY <1>2, <1>3, <1>4

LEMMA CommandTypes ==
  ASSUME TypeInv, NEW h \in Controllers, Command(h) PROVE TypeInv'
<1>1. /\ UNCHANGED <<published, loaded, listeners, session, step, down, up, node, disturbed>>
      /\ Starts(h) \/ Silences(h) \/ Adjusts(h)
  BY CommandIs
<1>2. h \in Handlers /\ pending' \in [Handlers -> Directives]
  BY <1>1, StartsIs, SilencesIs, AdjustsIs
<1>3. RowTypes' /\ tokens <= tokens' /\ rev <= rev'
  BY <1>1, RowTypesStep
<1>4. RowTypes /\ HubTypes /\ LinkTypes /\ NodeTypes
  BY TypeParts
<1>5. published \in 0..rev' /\ loaded \in 0..tokens'
  BY <1>3, Types DEF RowTypes
<1>6. HubTypes'
  BY <1>1, <1>2, <1>4, <1>5 DEF HubTypes
<1>7. LinkTypes' /\ NodeTypes'
  BY <1>1, <1>4 DEF LinkTypes, NodeTypes
<1>8. QED
  BY <1>3, <1>6, <1>7, TypeWhole

LEMMA PublishTypes ==
  ASSUME TypeInv, RowInv, NEW h \in Handlers, Publish(h) PROVE TypeInv'
<1> DEFINE d == pending[h]
<1>1. RowTypes /\ HubTypes /\ LinkTypes /\ NodeTypes
  BY TypeParts
<1>2. /\ d \in DirectiveType /\ d.rev <= rev /\ (d.op = "load" => d.pb \in 1..tokens)
      /\ d.rev \in Nat /\ d.pb \in Nat
  BY PublishIs, DirectiveFact DEF RowInv, LoadsKnown
<1>3. published' \in 0..rev /\ loaded' \in 0..tokens
  <2>1. published' = IF d.rev > published THEN d.rev ELSE published
    BY PublishIs
  <2>2. loaded' = IF d.op = "load" /\ listeners # {} /\ d.pb > loaded THEN d.pb ELSE loaded
    BY PublishIs
  <2> HIDE DEF d
  <2>3. QED
    BY <1>2, <2>1, <2>2, Types
<1>4. RowTypes' /\ HubTypes'
  BY <1>1, <1>3, PublishIs DEF RowTypes, HubTypes, rowVars
<1>5. LinkTypes' /\ NodeTypes'
  BY <1>1, PublishIs DEF LinkTypes, NodeTypes
<1>6. QED
  BY <1>4, <1>5, TypeWhole

LEMMA ReceiveTyped ==
  ASSUME TypeInv, NEW s \in Sessions, Receive(s) PROVE TypeInv'
<1> DEFINE r == Head(up[s])
<1>1. RowTypes /\ HubTypes /\ LinkTypes /\ NodeTypes
  BY TypeParts
<1>2. /\ pending[s] = Nothing /\ UNCHANGED <<loaded, listeners, session, down, node>>
      /\ up' \in [Sessions -> Seq(ReportType)] /\ step' \in [Sessions -> Step]
  BY ReceiveIs, ReceiveTypes
<1>3. LinkTypes'
  BY <1>1, <1>2 DEF LinkTypes
<1>4. CASE ~Matches(r) /\ UNCHANGED <<rowVars, pending, published, disturbed>>
  <2>1. RowTypes' /\ HubTypes' /\ NodeTypes'
    BY <1>1, <1>2, <1>4 DEF RowTypes, HubTypes, NodeTypes, rowVars
  <2>2. QED
    BY <1>3, <2>1, TypeWhole
<1>5. CASE Starts(s) /\ UNCHANGED <<published, disturbed>>
  <2>1. RowTypes' /\ tokens <= tokens' /\ rev <= rev' /\ pending' \in [Handlers -> Directives]
    BY <1>5, RowTypesStep, StartsIs
  <2>2. published \in 0..rev' /\ loaded \in 0..tokens'
    BY <2>1, Types DEF RowTypes
  <2>3. HubTypes' /\ NodeTypes'
    BY <1>1, <1>2, <1>5, <2>1, <2>2 DEF HubTypes, NodeTypes
  <2>4. QED
    BY <1>3, <2>1, <2>3, TypeWhole
<1>6. CASE Follows(s, r) /\ UNCHANGED disturbed
  <2>1. /\ pending' = pending /\ rev' = rev + 1 /\ tokens' = tokens /\ published' = rev + 1
        /\ token' \in {0, token} /\ status' \in {"stopped", "playing", "paused"}
    BY <1>2, <1>6, FollowsIs
  <2>2. RowTypes' /\ published' \in 0..rev'
    BY <2>1, Types DEF RowTypes
  <2>3. HubTypes' /\ NodeTypes'
    BY <1>1, <1>2, <1>6, <2>1, <2>2 DEF HubTypes, NodeTypes
  <2>4. QED
    BY <1>3, <2>2, <2>3, TypeWhole
<1>7. CASE Dropped(s, r)
  <2>1. RowTypes' /\ HubTypes'
    BY <1>1, <1>2, <1>7 DEF RowTypes, HubTypes, rowVars, Dropped
  <2>2. disturbed' \subseteq disturbed \cup {"dropped"}
    BY <1>7 DEF Dropped
  <2>3. NodeTypes'
    BY <1>1, <1>2, <2>2 DEF NodeTypes, Disturbances
  <2>4. QED
    BY <1>3, <2>1, <2>3, TypeWhole
<1>8. QED
  BY <1>4, <1>5, <1>6, <1>7, ReceiveIs

LEMMA SaysTypes ==
  ASSUME TypeInv, node.conn # 0, NEW e, NEW pb, NEW media \in 0..MaxPlaybacks, NEW sounding \in BOOLEAN,
         Says(e, pb, media, sounding), disturbed' \subseteq Disturbances
  PROVE  NodeTypes'
<1>1. node'.conn = node.conn /\ node'.conn \in 0..MaxSessions /\ node'.late \in SUBSET (0..MaxPlaybacks)
  BY Types DEF Says
<1>2. node' \in NodeType
  BY <1>1 DEF Says, NodeType
<1>3. QED
  BY <1>1, <1>2 DEF NodeTypes

LEMMA SilentTypes == ASSUME node' = Offline, disturbed' = {} PROVE NodeTypes'
<1>1. Offline \in NodeType
  BY Numbers DEF Offline, NodeType
<1>2. QED
  BY <1>1 DEF NodeTypes

LEMMA SatelliteTypes ==
  ASSUME TypeInv, Satellite PROVE TypeInv'
<1>1. RowTypes /\ HubTypes /\ LinkTypes /\ NodeTypes
  BY TypeParts
<1>2. CASE Obey
  <2> DEFINE d == Head(down[node.conn])
  <2>0. disturbed \subseteq Disturbances
    BY <1>1 DEF NodeTypes
  <2>1. /\ node.conn # 0 /\ d \in DirectiveType /\ UNCHANGED <<rowVars, hubVars, session, step, disturbed>>
        /\ down' \in [Sessions -> Seq(DirectiveType)]
        /\ \/ d.op = "load" /\ Says("playing", d.pb, d.pb, TRUE)
           \/ d.op = "volume" /\ UNCHANGED <<node, up>>
           \/ \E e \in {"paused", "stopped"} : Says(e, node.media, 0, FALSE)
    BY <1>2, ObeyIs, Numbers
  <2> HIDE DEF d
  <2>2. NodeTypes' /\ up' \in [Sessions -> Seq(ReportType)]
    <3>1. CASE d.op = "load" /\ Says("playing", d.pb, d.pb, TRUE)
      <4>1. d.pb \in 0..MaxPlaybacks
        BY <2>1, DirectiveFact
      <4>2. NodeTypes'
        BY <2>0, <2>1, <3>1, <4>1, SaysTypes
      <4>3. QED
        BY <3>1, <4>2 DEF Says
    <3>2. CASE d.op = "volume" /\ UNCHANGED <<node, up>>
      BY <1>1, <2>1, <3>2 DEF NodeTypes, LinkTypes
    <3>3. CASE \E e \in {"paused", "stopped"} : Says(e, node.media, 0, FALSE)
      <4>1. PICK e \in {"paused", "stopped"} : Says(e, node.media, 0, FALSE)
        BY <3>3
      <4>2. 0 \in 0..MaxPlaybacks
        BY Numbers
      <4>3. NodeTypes'
        BY <2>0, <2>1, <4>1, <4>2, SaysTypes
      <4>4. QED
        BY <4>1, <4>3 DEF Says
    <3>4. QED
      BY <2>1, <3>1, <3>2, <3>3
  <2>3. RowTypes' /\ HubTypes' /\ LinkTypes'
    BY <1>1, <2>1, <2>2 DEF RowTypes, HubTypes, LinkTypes, rowVars, hubVars
  <2>4. QED
    BY <2>2, <2>3, TypeWhole
<1>3. CASE Progress \/ Finish \/ Fail
  <2>1. /\ node.conn # 0 /\ UNCHANGED <<rowVars, hubVars, session, step, down, disturbed>>
        /\ \/ Says("playing", node.media, node.media, TRUE)
           \/ \E e \in {"completed", "failed"}, media \in {0, node.media} :
                Says(e, node.media, media, FALSE)
    BY <1>3, DecoderIs, Numbers
  <2>2. PICK e \in {"playing", "completed", "failed"}, media \in {0, node.media},
             sounding \in BOOLEAN : Says(e, node.media, media, sounding)
    BY <2>1
  <2>3. media \in 0..MaxPlaybacks
    BY <2>2, Types, Numbers
  <2>4. NodeTypes'
    BY <1>1, <2>1, <2>2, <2>3, SaysTypes DEF NodeTypes
  <2>5. up' \in [Sessions -> Seq(ReportType)]
    BY <2>2 DEF Says
  <2>6. RowTypes' /\ HubTypes' /\ LinkTypes'
    BY <1>1, <2>1, <2>5 DEF RowTypes, HubTypes, LinkTypes, rowVars, hubVars
  <2>7. QED
    BY <2>4, <2>6, TypeWhole
<1>4. CASE Cut
  <2>1. RowTypes' /\ HubTypes' /\ LinkTypes'
    BY <1>1, <1>4, CutIs DEF RowTypes, HubTypes, LinkTypes, rowVars, hubVars
  <2>2. NodeTypes'
    BY <1>4, CutIs, SilentTypes
  <2>3. QED
    BY <2>1, <2>2, TypeWhole
<1>5. ASSUME NEW s \in Sessions, Connect(s) PROVE TypeInv'
  <2>1. RowTypes' /\ HubTypes' /\ LinkTypes'
    BY <1>1, <1>5, ConnectIs DEF RowTypes, HubTypes, LinkTypes, rowVars, hubVars
  <2>2. node' = [conn |-> s, media |-> 0, sounding |-> FALSE, late |-> {}] /\ UNCHANGED disturbed
    BY <1>5, ConnectIs
  <2>3. NodeTypes'
    BY <1>1, <2>2, Numbers DEF NodeTypes, NodeType
  <2>4. QED
    BY <2>1, <2>3, TypeWhole
<1>6. ASSUME NEW pb \in node.late, LateReport(pb) PROVE TypeInv'
  <2>1. /\ node.conn # 0 /\ UNCHANGED <<rowVars, hubVars, session, step, down>>
        /\ disturbed' \subseteq Disturbances
    BY <1>6, LateIs, Numbers
  <2>2. PICK e \in {"playing", "completed", "failed"} : Says(e, pb, node.media, node.sounding)
    BY <1>6, LateIs
  <2>3. NodeTypes'
    BY <2>1, <2>2, Types, SaysTypes
  <2>4. up' \in [Sessions -> Seq(ReportType)]
    BY <2>2 DEF Says
  <2>5. RowTypes' /\ HubTypes' /\ LinkTypes'
    BY <1>1, <2>1, <2>4 DEF RowTypes, HubTypes, LinkTypes, rowVars, hubVars
  <2>6. QED
    BY <2>3, <2>5, TypeWhole
<1>7. QED
  BY <1>2, <1>3, <1>4, <1>5, <1>6 DEF Satellite

LEMMA TypeStep ==
  ASSUME TypeInv, RowInv, [Next]_vars PROVE TypeInv'
<1>1. RowTypes /\ HubTypes /\ LinkTypes /\ NodeTypes
  BY TypeParts
<1>2. ASSUME NEW s \in Sessions, Attach(s) PROVE TypeInv'
  <2>1. RowTypes' /\ HubTypes' /\ LinkTypes' /\ NodeTypes'
    BY <1>1, <1>2, AttachIs DEF RowTypes, HubTypes, LinkTypes, NodeTypes, rowVars
  <2>2. QED
    BY <2>1, TypeWhole
<1>3. ASSUME NEW s \in Sessions, Reconcile(s) PROVE TypeInv'
  <2>1. RowTypes' /\ HubTypes' /\ LinkTypes' /\ NodeTypes'
    BY <1>1, <1>3, ReconcileIs DEF RowTypes, HubTypes, LinkTypes, NodeTypes, rowVars
  <2>2. QED
    BY <2>1, TypeWhole
<1>4. ASSUME NEW s \in Sessions, Close(s) \/ CloseOnError(s) PROVE TypeInv'
  <2>1. loaded' \in 0..tokens /\ listeners' \subseteq Sessions
    <3>1. loaded \in 0..tokens /\ 0 \in 0..tokens /\ listeners \subseteq Sessions
      BY <1>1, Types DEF HubTypes
    <3>2. /\ listeners' = listeners \/ listeners' = listeners \ {s}
          /\ loaded' = loaded \/ loaded' = 0
      BY <1>4, ForgetIs
    <3>3. QED
      BY <3>1, <3>2
  <2>2. RowTypes' /\ HubTypes' /\ LinkTypes' /\ NodeTypes'
    BY <1>1, <1>4, <2>1, ForgetIs DEF RowTypes, HubTypes, LinkTypes, NodeTypes, rowVars
  <2>3. QED
    BY <2>2, TypeWhole
<1>5. CASE Restart
  <2>1. RowTypes' /\ LinkTypes'
    BY <1>1, <1>5, RestartIs DEF RowTypes, LinkTypes, rowVars
  <2>2. NodeTypes'
    BY <1>5, RestartIs, SilentTypes
  <2>3. UNCHANGED <<tokens, rev>> /\ 0 \in 0..rev /\ 0 \in 0..tokens
    BY <1>5, RestartIs, Types DEF rowVars
  <2>4. HubTypes'
    BY <1>5, <2>3, RestartIs DEF HubTypes
  <2>5. QED
    BY <2>1, <2>2, <2>4, TypeWhole
<1>6. CASE UNCHANGED vars
  <2>1. RowTypes' /\ HubTypes' /\ LinkTypes' /\ NodeTypes'
    BY <1>1, <1>6 DEF RowTypes, HubTypes, LinkTypes, NodeTypes, vars, rowVars, hubVars, linkVars
  <2>2. QED
    BY <2>1, TypeWhole
<1>7. QED
  BY <1>2, <1>3, <1>4, <1>5, <1>6, CommandTypes, PublishTypes, ReceiveTyped, SatelliteTypes
  DEF Next, Core

-----------------------------------------------------------------------------
(* The row *)

LEMMA RowInit == Init => RowInv
<1> SUFFICES ASSUME Init PROVE RowInv
  OBVIOUS
<1>1. \A h \in Handlers : pending[h] = Nothing
  BY DEF Init
<1>2. QED
  BY <1>1, NothingFact
  DEF Init, Row!Init, RowInv, TokenIsLast, LoadsKnown, LoadsInOrder, NewestIsMeant

LEMMA LoadTells == \A d : d.op = "load" => Tells(d)
BY DEF Tells

LEMMA StartsRow ==
  ASSUME TypeInv, RowInv, NEW h \in Handlers, pending[h] = Nothing, Starts(h),
         UNCHANGED <<published, loaded, listeners>>
  PROVE  RowInv'
<1>1. /\ pending'[h].op = "load" /\ Tells(pending'[h]) /\ pending'[h] # Nothing
      /\ pending'[h].pb = tokens + 1 /\ pending'[h].rev = rev + 1
      /\ \A g \in Handlers : g # h => pending'[g] = pending[g]
      /\ token' = tokens + 1 /\ tokens' = tokens + 1 /\ rev' = rev + 1 /\ status' = "playing"
  BY StartsIs, DirectiveFact
<1>2. /\ tokens \in Nat /\ rev \in Nat /\ published <= rev /\ loaded <= tokens
      /\ published \in Nat /\ loaded \in Nat
  BY Types
<1>3. \A g \in Handlers : g # h /\ pending[g].op # "none" =>
        /\ pending[g].rev \in Nat /\ pending[g].pb \in Nat /\ pending[g].rev <= rev
        /\ pending[g].op = "load" => pending[g].pb \in 1..tokens
  BY Types, DirectiveFact, NothingFact DEF RowInv, LoadsKnown
<1>4. \A g \in Handlers : pending[g] # Nothing => pending[g].op # "none"
  BY Types, DirectiveFact
<1>5. TokenIsLast'
  BY <1>1, <1>2 DEF RowInv, TokenIsLast
<1>6. LoadsKnown'
  BY <1>1, <1>2, <1>3, <1>4 DEF LoadsKnown
<1>7. LoadsInOrder'
  BY <1>1, <1>2, <1>3 DEF RowInv, LoadsInOrder
<1>8. NewestIsMeant'
  <2> SUFFICES ASSUME NEW g \in Handlers, pending'[g].op = "load", pending'[g].rev >= published
               PROVE  /\ pending'[g].pb >= loaded
                      /\ Newest(g)' => status' = "playing" /\ token' = pending'[g].pb
    BY DEF NewestIsMeant
  <2>1. CASE g = h
    BY <1>1, <1>2, <2>1
  <2>2. CASE g # h
    <3>1. pending'[g] = pending[g] /\ pending[g].op = "load" /\ pending[g].rev >= published
      BY <1>1, <2>2
    <3>2. pending[g].pb >= loaded
      BY <3>1 DEF RowInv, NewestIsMeant
    <3>3. pending[g].rev \in Nat /\ pending[g].rev <= rev
      BY <1>3, <2>2, <3>1
    <3>4. ~(rev + 1 <= pending[g].rev)
      BY <1>2, <3>3
    <3>5. ~Newest(g)'
      BY <1>1, <3>1, <3>4 DEF Newest
    <3>6. QED
      BY <3>1, <3>2, <3>5
  <2>3. QED
    BY <2>1, <2>2
<1>9. QED
  BY <1>5, <1>6, <1>7, <1>8 DEF RowInv

LEMMA SilencesRow ==
  ASSUME TypeInv, RowInv, NEW h \in Handlers, pending[h] = Nothing, Silences(h),
         UNCHANGED <<published, loaded, listeners>>
  PROVE  RowInv'
<1>1. /\ pending'[h].op # "load" /\ Tells(pending'[h]) /\ pending'[h] # Nothing
      /\ pending'[h].rev = rev + 1
      /\ \A g \in Handlers : g # h => pending'[g] = pending[g]
      /\ token' \in {token, 0} /\ tokens' = tokens /\ rev' = rev + 1
      /\ status' \in {"paused", "stopped"}
  BY SilencesIs, DirectiveFact
<1>2. tokens \in Nat /\ rev \in Nat /\ published \in Nat /\ loaded \in Nat
  BY Types
<1>3. \A g \in Handlers : g # h /\ pending[g].op # "none" =>
        /\ pending[g].rev \in Nat /\ pending[g].pb \in Nat /\ pending[g].rev <= rev
        /\ pending[g].op = "load" => pending[g].pb \in 1..tokens
  BY Types, DirectiveFact, NothingFact DEF RowInv, LoadsKnown
<1>4. \A g \in Handlers : pending[g] # Nothing => pending[g].op # "none"
  BY Types, DirectiveFact
<1>5. TokenIsLast'
  BY <1>1, <1>2 DEF RowInv, TokenIsLast
<1>6. LoadsKnown'
  BY <1>1, <1>2, <1>3, <1>4 DEF LoadsKnown
<1>7. LoadsInOrder'
  BY <1>1 DEF RowInv, LoadsInOrder
<1>8. NewestIsMeant'
  BY <1>1, <1>2, <1>3 DEF RowInv, NewestIsMeant, Newest
<1>9. QED
  BY <1>5, <1>6, <1>7, <1>8 DEF RowInv

LEMMA AdjustsRow ==
  ASSUME TypeInv, RowInv, NEW h \in Handlers, pending[h] = Nothing, Adjusts(h),
         UNCHANGED <<published, loaded, listeners>>
  PROVE  RowInv'
<1>1. /\ ~Tells(pending'[h]) /\ (pending'[h] # Nothing => pending'[h].rev = rev + 1)
      /\ \A g \in Handlers : g # h => pending'[g] = pending[g]
      /\ token' = token \/ (status # "playing" /\ token' = 0)
      /\ tokens' = tokens /\ rev' = rev + 1 /\ status' = status
  BY AdjustsIs
<1>2. tokens \in Nat /\ rev \in Nat /\ published \in Nat /\ loaded \in Nat /\ pending'[h].op # "load"
  BY <1>1, Types, LoadTells
<1>3. \A g \in Handlers : g # h /\ pending[g].op # "none" =>
        /\ pending[g].rev \in Nat /\ pending[g].rev <= rev
        /\ pending[g].op = "load" => pending[g].pb \in 1..tokens
  BY Types, DirectiveFact, NothingFact DEF RowInv, LoadsKnown
<1>4. \A g \in Handlers : pending[g] # Nothing => pending[g].op # "none"
  BY Types, DirectiveFact
<1>5. TokenIsLast'
  BY <1>1, <1>2 DEF RowInv, TokenIsLast
<1>6. LoadsKnown'
  BY <1>1, <1>2, <1>3, <1>4 DEF LoadsKnown
<1>7. LoadsInOrder'
  BY <1>1, <1>2 DEF RowInv, LoadsInOrder
<1>8. NewestIsMeant'
  BY <1>1, <1>2, NothingFact DEF RowInv, NewestIsMeant, Newest
<1>9. QED
  BY <1>5, <1>6, <1>7, <1>8 DEF RowInv

LEMMA PublishRow ==
  ASSUME TypeInv, RowInv, NEW h \in Handlers, Publish(h) PROVE RowInv'
<1> DEFINE d == pending[h]
<1>1. /\ d \in DirectiveType /\ pending'[h] = Nothing
      /\ \A g \in Handlers : g # h => pending'[g] = pending[g]
      /\ published' = IF d.rev > published THEN d.rev ELSE published
      /\ loaded' = IF d.op = "load" /\ listeners # {} /\ d.pb > loaded THEN d.pb ELSE loaded
      /\ UNCHANGED <<status, token, tokens, rev, listeners>>
  BY PublishIs DEF rowVars
<1>2. d.rev \in Nat /\ d.pb \in Nat /\ published \in Nat /\ loaded \in Nat
  BY <1>1, DirectiveFact, Types
<1>3. published <= published' /\ d.rev <= published' /\ published' \in Nat
  BY <1>1, <1>2
<1>4. pending'[h].op = "none" /\ ~Tells(pending'[h])
  BY <1>1, NothingFact
<1>5. TokenIsLast'
  BY <1>1 DEF RowInv, TokenIsLast
<1>6. LoadsKnown'
  BY <1>1 DEF RowInv, LoadsKnown
<1>7. LoadsInOrder'
  BY <1>1, <1>4 DEF RowInv, LoadsInOrder
<1>8. NewestIsMeant'
  <2> SUFFICES ASSUME NEW g \in Handlers, pending'[g].op = "load", pending'[g].rev >= published'
               PROVE  /\ pending'[g].pb >= loaded'
                      /\ Newest(g)' => status = "playing" /\ token = pending'[g].pb
    BY <1>1 DEF NewestIsMeant
  <2>1. g # h /\ pending'[g] = pending[g] /\ pending[g].op = "load"
    BY <1>1, <1>4
  <2>2. pending[g].rev \in Nat /\ pending[g].pb \in Nat
    BY <2>1, Types, DirectiveFact
  <2>3. pending[g].rev >= published /\ d.rev <= pending[g].rev
    BY <1>2, <1>3, <2>1, <2>2
  <2>4. pending[g].pb >= loaded
    BY <2>1, <2>3 DEF RowInv, NewestIsMeant
  <2>5. d.op = "load" => d.pb <= pending[g].pb
    BY <2>1, <2>3 DEF RowInv, LoadsInOrder
  <2>6. pending'[g].pb >= loaded'
    BY <1>1, <1>2, <2>1, <2>2, <2>4, <2>5
  <2>7. ASSUME Newest(g)' PROVE Newest(g)
    <3>1. \A k \in Handlers : k # h /\ Tells(pending[k]) => pending[k].rev <= pending[g].rev
      BY <1>1, <2>1, <2>7 DEF Newest
    <3>2. QED
      BY <2>3, <3>1 DEF Newest
  <2>8. QED
    BY <2>1, <2>3, <2>6, <2>7 DEF RowInv, NewestIsMeant
<1>9. QED
  BY <1>5, <1>6, <1>7, <1>8 DEF RowInv

LEMMA ReceiveRow ==
  ASSUME TypeInv, RowInv, NEW s \in Sessions, Receive(s) PROVE RowInv'
<1> DEFINE r == Head(up[s])
<1>1. pending[s] = Nothing /\ UNCHANGED <<loaded, listeners>>
  BY ReceiveIs
<1>2. CASE UNCHANGED <<rowVars, pending, published>>
  BY <1>1, <1>2
  DEF rowVars, RowInv, TokenIsLast, LoadsKnown, LoadsInOrder, NewestIsMeant, Newest
<1>3. CASE Starts(s) /\ UNCHANGED published
  BY <1>1, <1>3, StartsRow
<1>4. CASE Matches(r) /\ Follows(s, r)
  <2>1. /\ pending' = pending /\ rev' = rev + 1 /\ tokens' = tokens /\ published' = rev + 1
        /\ \/ token' = 0 /\ status' = "stopped"
           \/ token' = token
    BY <1>1, <1>4, FollowsIs
  <2>2. Matches(r) => token # 0
    BY DEF Matches
  <2>3. \A g \in Handlers : pending[g] # Nothing => pending[g].rev \in Nat /\ pending[g].rev <= rev
    BY Types, DirectiveFact DEF RowInv, LoadsKnown
  <2>4. rev \in Nat
    BY Types
  <2>5. LoadsKnown' /\ LoadsInOrder'
    BY <2>1, <2>3, <2>4 DEF RowInv, LoadsKnown, LoadsInOrder
  <2>6. NewestIsMeant'
    BY <2>1, <2>3, <2>4, NothingFact DEF NewestIsMeant
  <2>8. TokenIsLast'
    BY <1>1, <1>4, <2>1, <2>2 DEF RowInv, TokenIsLast
  <2>9. QED
    BY <2>5, <2>6, <2>8 DEF RowInv
<1>5. QED
  BY <1>2, <1>3, <1>4, ReceiveIs DEF Dropped

LEMMA ReconcileRow ==
  ASSUME TypeInv, RowInv, NEW s \in Sessions, pending[s] = Nothing, Reconcile(s) PROVE RowInv'
<1>1. /\ pending'[s] \in DirectiveType
      /\ pending'[s].pb = token /\ pending'[s].rev = rev
      /\ pending'[s].op = "load" => status = "playing"
      /\ status # "playing" => pending'[s].op = "volume"
      /\ \A h \in Handlers : h # s => pending'[h] = pending[h]
      /\ UNCHANGED <<status, token, tokens, rev, published, loaded, listeners>>
  <2>1. pending'[s].op = "load" => status = "playing"
    BY ReconcileIs
  <2>2. QED
    BY <2>1, ReconcileIs DEF rowVars
<1>2. tokens \in Nat /\ rev \in Nat /\ published <= rev /\ loaded <= tokens
      /\ published \in Nat /\ loaded \in Nat
  BY Types
<1>3. \A g \in Handlers : pending[g].op # "none" =>
        /\ pending[g] # Nothing /\ pending[g].rev \in Nat /\ pending[g].pb \in Nat
        /\ pending[g].rev <= rev
        /\ pending[g].op = "load" => pending[g].pb \in 1..tokens
  BY Types, DirectiveFact, NothingFact DEF RowInv, LoadsKnown
<1>4. \A g \in Handlers : pending[g] # Nothing => pending[g].op # "none"
  BY Types, DirectiveFact
<1>5. status = "playing" => token = tokens /\ token # 0
  BY DEF RowInv, TokenIsLast
<1>6. TokenIsLast'
  BY <1>1 DEF RowInv, TokenIsLast
<1>7. LoadsKnown'
  BY <1>1, <1>2, <1>3, <1>4, <1>5 DEF LoadsKnown
<1>8. LoadsInOrder'
  <2> SUFFICES ASSUME NEW g \in Handlers, NEW h \in Handlers,
                      pending'[g].op = "load", pending'[h].op = "load",
                      pending'[g].rev <= pending'[h].rev
               PROVE  pending'[g].pb <= pending'[h].pb
    BY DEF LoadsInOrder
  <2>1. CASE g # s /\ h # s
    BY <1>1, <2>1 DEF RowInv, LoadsInOrder
  <2>2. CASE h = s
    BY <1>1, <1>2, <1>3, <1>5, <2>2
  <2>3. CASE g = s /\ h # s
    <3>0. pending[h].op = "load" /\ rev <= pending[h].rev
      BY <1>1, <2>3
    <3>1. pending[h].op = "load" /\ pending[h].rev = rev /\ pending[h].rev >= published
      <4>1. pending[h].rev \in Nat /\ pending[h].rev <= rev
        BY <1>3, <3>0
      <4>2. QED
        BY <1>2, <3>0, <4>1
    <3>2. Newest(h)
      <4>1. \A k \in Handlers : Tells(pending[k]) => pending[k].op # "none"
        BY DEF Tells
      <4>2. QED
        BY <1>3, <3>1, <4>1 DEF Newest
    <3>3. token = pending[h].pb
      BY <3>1, <3>2 DEF RowInv, NewestIsMeant
    <3>4. QED
      BY <1>1, <1>2, <1>3, <1>5, <2>3, <3>1, <3>3
  <2>4. QED
    BY <2>1, <2>2, <2>3
<1>9. NewestIsMeant'
  <2> SUFFICES ASSUME NEW g \in Handlers, pending'[g].op = "load", pending'[g].rev >= published
               PROVE  /\ pending'[g].pb >= loaded
                      /\ Newest(g)' => status = "playing" /\ token = pending'[g].pb
    BY <1>1 DEF NewestIsMeant
  <2>1. CASE g = s
    BY <1>1, <1>2, <1>5, <2>1
  <2>2. CASE g # s
    <3>1. pending'[g] = pending[g] /\ pending[g].op = "load" /\ pending[g].rev >= published
      BY <1>1, <2>2
    <3>2. ASSUME Newest(g)' PROVE Newest(g)
      <4>1. \A k \in Handlers : k # s /\ Tells(pending[k]) => pending[k].rev <= pending[g].rev
        BY <1>1, <3>1, <3>2 DEF Newest
      <4>2. QED
        BY <4>1, NothingFact DEF Newest
    <3>3. QED
      BY <3>1, <3>2 DEF RowInv, NewestIsMeant
  <2>3. QED
    BY <2>1, <2>2
<1>10. QED
  BY <1>6, <1>7, <1>8, <1>9 DEF RowInv

LEMMA RowFrame ==
  ASSUME RowInv, UNCHANGED <<status, token, tokens, rev, pending, published>>,
         \/ loaded' = loaded /\ (listeners' = {} => listeners = {})
         \/ loaded' = IF listeners' = {} THEN 0 ELSE loaded, TypeInv
  PROVE  RowInv'
<1>1. loaded \in Nat /\ loaded' \in Nat /\ loaded' <= loaded
  BY Types
<1>2. TokenIsLast'
  BY DEF RowInv, TokenIsLast
<1>3. LoadsKnown' /\ LoadsInOrder'
  BY DEF RowInv, LoadsKnown, LoadsInOrder
<1>4. \A h \in Handlers : pending[h].op = "load" => pending[h].pb \in Nat
  BY Types, DirectiveFact
<1>5. NewestIsMeant'
  BY <1>1, <1>4 DEF RowInv, NewestIsMeant, Newest
<1>6. QED
  BY <1>2, <1>3, <1>5 DEF RowInv

LEMMA RowStep ==
  ASSUME TypeInv, RowInv, LinkInv, [Next]_vars PROVE RowInv'
<1>1. ASSUME NEW h \in Controllers, Command(h) PROVE RowInv'
  <2>1. /\ h \in Handlers /\ pending[h] = Nothing /\ UNCHANGED <<published, loaded, listeners>>
        /\ Starts(h) \/ Silences(h) \/ Adjusts(h)
    BY <1>1, CommandIs
  <2>2. QED
    BY <2>1, StartsRow, SilencesRow, AdjustsRow
<1>2. ASSUME NEW s \in Sessions, Attach(s) PROVE RowInv'
  <2>1. /\ UNCHANGED <<status, token, tokens, rev, pending, published, loaded>>
        /\ listeners' # {}
    BY <1>2, AttachIs DEF rowVars
  <2>2. QED
    BY <2>1, RowFrame
<1>3. ASSUME NEW s \in Sessions, Reconcile(s) PROVE RowInv'
  <2>1. pending[s] = Nothing
    BY <1>3, ReconcileIs DEF LinkInv, ReconcilingIsFree
  <2>2. QED
    BY <1>3, <2>1, ReconcileRow
<1>4. ASSUME NEW s \in Sessions, Close(s) \/ CloseOnError(s) PROVE RowInv'
  <2>1. /\ UNCHANGED <<status, token, tokens, rev, pending, published>>
        /\ \/ loaded' = loaded /\ listeners' = listeners
           \/ loaded' = IF listeners' = {} THEN 0 ELSE loaded
    BY <1>4, ForgetIs DEF rowVars
  <2>2. QED
    BY <2>1, RowFrame
<1>5. CASE Satellite
  <2>1. UNCHANGED <<rowVars, hubVars>>
    BY <1>5, ObeyIs, DecoderIs, LateIs, CutIs, ConnectIs DEF Satellite
  <2>2. UNCHANGED <<status, token, tokens, rev, pending, published, loaded, listeners>>
    BY <2>1 DEF rowVars, hubVars
  <2>3. QED
    BY <2>2, RowFrame
<1>6. CASE Restart
  <2>1. /\ UNCHANGED <<status, token, tokens, rev>> /\ loaded' = 0
        /\ \A h \in Handlers : pending'[h] = Nothing
    BY <1>6, RestartIs DEF rowVars
  <2>2. QED
    BY <2>1, NothingFact
    DEF RowInv, TokenIsLast, LoadsKnown, LoadsInOrder, NewestIsMeant
<1>7. CASE UNCHANGED vars
  <2>1. UNCHANGED <<status, token, tokens, rev, pending, published, loaded, listeners>>
    BY <1>7 DEF vars, rowVars, hubVars
  <2>2. QED
    BY <2>1, RowFrame
<1>8. QED
  BY <1>1, <1>2, <1>3, <1>4, <1>5, <1>6, <1>7, PublishRow, ReceiveRow DEF Next, Core

-----------------------------------------------------------------------------
(* The sessions *)

LEMMA LinkInit == Init => LinkInv
<1> SUFFICES ASSUME Init PROVE LinkInv
  OBVIOUS
<1>1. /\ \A s \in Sessions : /\ up[s] = <<>> /\ down[s] = <<>> /\ step[s] = "ready"
                             /\ session[s] = "unused" /\ pending[s] = Nothing
      /\ listeners = {} /\ node.conn = 0 /\ node.media = 0 /\ ~node.sounding /\ node.late = {}
  BY DEF Init, Offline
<1>2. \A s \in Sessions : Idle(s)
  BY <1>1, Empty DEF Idle, Silent
<1>3. QED
  BY <1>1, <1>2
  DEF LinkInv, OneIsOpen, UnusedIsFresh, ReconcilingIsFree, StrangersIdle, StrangerSilent, OthersIdle

LEMMA IdleFrame ==
  ASSUME NEW s \in Sessions, Idle(s), up'[s] = up[s], pending'[s] = pending[s],
         step'[s] = step[s] \/ step'[s] # "reconcile"
  PROVE  Idle(s)'
BY DEF Idle, Silent

(* A step that leaves the sessions' tables alone, but for the directives of *)
(* controllers.                                                             *)
LEMMA LinkFrame ==
  ASSUME LinkInv, UNCHANGED <<listeners, session, step, down, up, node, disturbed>>,
         \A s \in Sessions : pending'[s] = pending[s]
  PROVE  LinkInv'
<1>1. \A s \in Sessions : Idle(s) => Idle(s)'
  BY IdleFrame
<1>2. OneIsOpen' /\ UnusedIsFresh' /\ ReconcilingIsFree'
  BY DEF LinkInv, OneIsOpen, UnusedIsFresh, ReconcilingIsFree
<1>3. StrangersIdle' /\ StrangerSilent' /\ OthersIdle'
  BY <1>1 DEF LinkInv, StrangersIdle, StrangerSilent, OthersIdle
<1>4. QED
  BY <1>2, <1>3 DEF LinkInv

LEMMA CommandLink ==
  ASSUME TypeInv, LinkInv, NEW h \in Controllers, Command(h) PROVE LinkInv'
<1>1. /\ UNCHANGED <<listeners, session, step, down, up, node, disturbed>>
      /\ h \in Handlers
      /\ Starts(h) \/ Silences(h) \/ Adjusts(h)
  BY CommandIs
<1>2. \A g \in Handlers : g # h => pending'[g] = pending[g]
  BY <1>1, StartsIs, SilencesIs, AdjustsIs
<1>3. \A s \in Sessions : pending'[s] = pending[s]
  BY <1>2, Numbers
<1>4. QED
  BY <1>1, <1>3, LinkFrame

LEMMA PublishLink ==
  ASSUME TypeInv, LinkInv, NEW h \in Handlers, Publish(h) PROVE LinkInv'
<1> DEFINE d == pending[h]
<1>1. /\ pending'[h] = Nothing
      /\ \A g \in Handlers : g # h => pending'[g] = pending[g]
      /\ \A s \in Sessions :
           down'[s] = IF s \in listeners /\ session[s] = "open" THEN Append(down[s], d) ELSE down[s]
      /\ disturbed \subseteq disturbed'
      /\ UNCHANGED <<listeners, session, step, up, node>>
  BY PublishIs
<1>2. \A s \in Sessions : Idle(s) => Idle(s)'
  BY <1>1 DEF Idle, Silent
<1>3. OneIsOpen' /\ UnusedIsFresh' /\ ReconcilingIsFree'
  BY <1>1 DEF LinkInv, OneIsOpen, UnusedIsFresh, ReconcilingIsFree
<1>4. StrangersIdle' /\ OthersIdle'
  BY <1>1, <1>2 DEF LinkInv, StrangersIdle, OthersIdle
<1>5. node.conn \notin listeners /\ node.conn # 0 => down'[node.conn] = down[node.conn]
  BY <1>1, Types
<1>6. StrangerSilent'
  BY <1>1, <1>5 DEF LinkInv, StrangerSilent
<1>7. QED
  BY <1>3, <1>4, <1>6 DEF LinkInv

(* The first report of a session that has heard of nothing is about nothing.*)
LEMMA SilentHead ==
  ASSUME TypeInv, NEW s \in Sessions, Idle(s), up[s] # <<>>
  PROVE  ~Matches(Head(up[s])) /\ \A i \in 1..Len(Tail(up[s])) : Tail(up[s])[i].pb = 0
<1>1. up[s] \in Seq(ReportType)
  BY Types
<1>2. Head(up[s]) = up[s][1] /\ 1 \in 1..Len(up[s])
      /\ \A i \in 1..Len(Tail(up[s])) : Tail(up[s])[i] = up[s][i + 1] /\ i + 1 \in 1..Len(up[s])
  BY <1>1, TailFact
<1>3. QED
  BY <1>2 DEF Idle, Silent, Matches

LEMMA ReceiveLink ==
  ASSUME TypeInv, LinkInv, NEW s \in Sessions, Receive(s) PROVE LinkInv'
<1> DEFINE r == Head(up[s])
<1>1. /\ step[s] = "ready" /\ up[s] # <<>> /\ pending[s] = Nothing
      /\ up'[s] = Tail(up[s]) /\ step'[s] = "attach"
      /\ \A t \in Sessions : t # s => up'[t] = up[t] /\ step'[t] = step[t]
      /\ UNCHANGED <<loaded, listeners, session, down, node>>
  BY ReceiveIs, ReceiveTypes
<1>2. \A g \in Handlers : g # s => pending'[g] = pending[g]
  BY <1>1, ReceiveIs, StartsIs, FollowsIs DEF Dropped
<1>3. disturbed \subseteq disturbed'
  BY ReceiveIs DEF Dropped
<1>4. ~Matches(r) => pending' = pending
  BY ReceiveIs
<1>5. \A t \in Sessions : Idle(t) => Idle(t)'
  <2>1. ASSUME Idle(s) PROVE Idle(s)'
    BY <1>1, <1>4, <2>1, SilentHead DEF Idle, Silent
  <2>2. ASSUME NEW t \in Sessions, t # s, Idle(t) PROVE Idle(t)'
    BY <1>1, <1>2, <2>2 DEF Idle, Silent
  <2>3. QED
    BY <2>1, <2>2
<1>6. OneIsOpen' /\ UnusedIsFresh'
  BY <1>1 DEF LinkInv, OneIsOpen, UnusedIsFresh
<1>7. ReconcilingIsFree'
  BY <1>1, <1>2 DEF LinkInv, ReconcilingIsFree
<1>8. StrangersIdle' /\ OthersIdle' /\ StrangerSilent'
  BY <1>1, <1>3, <1>5 DEF LinkInv, StrangersIdle, StrangerSilent, OthersIdle
<1>9. QED
  BY <1>6, <1>7, <1>8 DEF LinkInv

LEMMA AttachLink ==
  ASSUME TypeInv, LinkInv, NEW s \in Sessions, Attach(s) PROVE LinkInv'
<1>1. /\ step[s] = "attach" /\ pending[s] = Nothing /\ listeners' = listeners \cup {s}
      /\ step'[s] = IF listeners = {} THEN "reconcile" ELSE "ready"
      /\ \A t \in Sessions : t # s => step'[t] = step[t]
      /\ disturbed \subseteq disturbed'
      /\ s = node.conn /\ s \notin listeners /\ listeners # {} => "unreconciled" \in disturbed'
      /\ UNCHANGED <<pending, session, down, up, node>>
  BY AttachIs
<1>2. \A t \in Sessions : Idle(t) /\ (t # s \/ listeners # {}) => Idle(t)'
  BY <1>1 DEF Idle, Silent
<1>3. OneIsOpen' /\ UnusedIsFresh' /\ ReconcilingIsFree'
  BY <1>1 DEF LinkInv, OneIsOpen, UnusedIsFresh, ReconcilingIsFree
<1>4. StrangersIdle' /\ StrangerSilent'
  BY <1>1, <1>2 DEF LinkInv, StrangersIdle, StrangerSilent
<1>5. OthersIdle'
  <2> SUFFICES ASSUME node.conn \in listeners', "unreconciled" \notin disturbed',
                      NEW t \in Sessions, t # node.conn
               PROVE  Idle(t)'
    BY <1>1 DEF OthersIdle
  <2>1. CASE node.conn \in listeners
    BY <1>1, <1>2, <2>1 DEF LinkInv, OthersIdle
  <2>2. CASE node.conn \notin listeners
    <3>1. s = node.conn /\ listeners = {}
      BY <1>1, <2>2
    <3>2. QED
      BY <1>2, <3>1 DEF LinkInv, StrangersIdle
  <2>3. QED
    BY <2>1, <2>2
<1>6. QED
  BY <1>3, <1>4, <1>5 DEF LinkInv

LEMMA ReconcileLink ==
  ASSUME TypeInv, LinkInv, NEW s \in Sessions, Reconcile(s) PROVE LinkInv'
<1>1. /\ step[s] = "reconcile" /\ step'[s] = "ready"
      /\ \A t \in Sessions : t # s => step'[t] = step[t]
      /\ \A h \in Handlers : h # s => pending'[h] = pending[h]
      /\ UNCHANGED <<listeners, session, down, up, node, disturbed>>
  BY ReconcileIs
<1>2. ~Idle(s)
  BY <1>1 DEF Idle
<1>3. \A t \in Sessions : Idle(t) => Idle(t)'
  BY <1>1, <1>2 DEF Idle, Silent
<1>4. OneIsOpen' /\ UnusedIsFresh' /\ ReconcilingIsFree'
  BY <1>1 DEF LinkInv, OneIsOpen, UnusedIsFresh, ReconcilingIsFree
<1>5. StrangersIdle' /\ StrangerSilent' /\ OthersIdle'
  BY <1>1, <1>3 DEF LinkInv, StrangersIdle, StrangerSilent, OthersIdle
<1>6. QED
  BY <1>4, <1>5 DEF LinkInv

LEMMA ForgetLink ==
  ASSUME TypeInv, LinkInv, NEW s \in Sessions, Close(s) \/ CloseOnError(s) PROVE LinkInv'
<1>1. /\ session[s] = "cut" /\ step[s] = "ready" /\ pending[s] = Nothing
      /\ session'[s] = "closed" /\ up'[s] = <<>>
      /\ \A t \in Sessions : t # s => session'[t] = session[t] /\ up'[t] = up[t]
      /\ UNCHANGED <<pending, step, down, node, disturbed>>
      /\ listeners' = listeners \/ listeners' = listeners \ {s}
  BY ForgetIs
<1>2. s # node.conn /\ node.conn # s
  BY <1>1, Numbers DEF LinkInv, OneIsOpen
<1>3. Idle(s)'
  BY <1>1, Empty DEF Idle, Silent
<1>4. \A t \in Sessions : Idle(t) => Idle(t)'
  BY <1>1, <1>3 DEF Idle, Silent
<1>5. OneIsOpen' /\ UnusedIsFresh' /\ ReconcilingIsFree'
  <2>1. node.conn # 0 => session'[node.conn] = session[node.conn]
    BY <1>1, <1>2, Types
  <2>2. QED
    BY <1>1, <1>2, <2>1 DEF LinkInv, OneIsOpen, UnusedIsFresh, ReconcilingIsFree
<1>6. StrangersIdle'
  BY <1>1, <1>3, <1>4 DEF LinkInv, StrangersIdle
<1>7. StrangerSilent' /\ OthersIdle'
  BY <1>1, <1>2, <1>4 DEF LinkInv, StrangerSilent, OthersIdle
<1>8. QED
  BY <1>5, <1>6, <1>7 DEF LinkInv

LEMMA ConnectLink ==
  ASSUME TypeInv, LinkInv, NEW s \in Sessions, Connect(s) PROVE LinkInv'
<1>1. /\ node.conn = 0 /\ session[s] = "unused"
      /\ node'.conn = s /\ node'.media = 0 /\ ~node'.sounding /\ node'.late = {}
      /\ session'[s] = "open" /\ up'[s] = <<Report("ready", 0)>>
      /\ \A t \in Sessions : t # s => session'[t] = session[t] /\ up'[t] = up[t]
      /\ UNCHANGED <<listeners, pending, step, down, disturbed>>
  BY ConnectIs DEF hubVars
<1>2. s \notin listeners /\ \A t \in Sessions : t # 0 /\ down[t] = <<>> /\ session[t] # "open"
  BY <1>1, Numbers DEF LinkInv, OneIsOpen, UnusedIsFresh
<1>3. \A i \in 1..Len(<<Report("ready", 0)>>) : <<Report("ready", 0)>>[i].pb = 0
  BY DEF Report
<1>4. \A t \in Sessions : Idle(t) => Idle(t)'
  BY <1>1, <1>3 DEF Idle, Silent
<1>5. OneIsOpen' /\ UnusedIsFresh' /\ ReconcilingIsFree'
  BY <1>1, <1>2 DEF LinkInv, OneIsOpen, UnusedIsFresh, ReconcilingIsFree
<1>6. StrangersIdle' /\ StrangerSilent' /\ OthersIdle'
  BY <1>1, <1>2, <1>4 DEF LinkInv, StrangersIdle, StrangerSilent, OthersIdle
<1>7. QED
  BY <1>5, <1>6 DEF LinkInv

(* What the satellite says it says on its own session.                      *)
LEMMA SaysLink ==
  ASSUME TypeInv, LinkInv, node.conn \in listeners, node'.conn = node.conn,
         \A t \in Sessions : t # node.conn => up'[t] = up[t] /\ down'[t] = down[t],
         disturbed \subseteq disturbed', UNCHANGED <<pending, listeners, session, step>>
  PROVE  LinkInv'
<1>1. node.conn \in Sessions
  BY DEF TypeInv, TypeOK
<1>2. \A t \in Sessions : t # node.conn /\ Idle(t) => Idle(t)'
  BY DEF Idle, Silent
<1>3. OneIsOpen' /\ ReconcilingIsFree'
  BY <1>1 DEF LinkInv, OneIsOpen, ReconcilingIsFree
<1>4. UnusedIsFresh'
  BY <1>1, Numbers DEF LinkInv, OneIsOpen, UnusedIsFresh
<1>5. StrangersIdle' /\ StrangerSilent' /\ OthersIdle'
  BY <1>1, <1>2 DEF LinkInv, StrangersIdle, StrangerSilent, OthersIdle
<1>6. QED
  BY <1>3, <1>4, <1>5 DEF LinkInv

LEMMA SatelliteLink ==
  ASSUME TypeInv, LinkInv,
         Obey \/ Progress \/ Finish \/ Fail \/ \E pb \in node.late : LateReport(pb)
  PROVE  LinkInv'
<1>1. CASE Obey
  <2>1. node.conn \in Sessions /\ down[node.conn] # <<>>
    BY <1>1, ObeyIs
  <2>2. node.conn \in listeners
    BY <2>1, Numbers DEF LinkInv, StrangerSilent
  <2>3. /\ \A t \in Sessions : t # node.conn => up'[t] = up[t] /\ down'[t] = down[t]
        /\ node'.conn = node.conn
    BY <1>1, ObeyIs DEF Says
  <2>4. UNCHANGED <<pending, listeners, session, step, disturbed>>
    BY <1>1, ObeyIs DEF hubVars
  <2>5. QED
    BY <2>2, <2>3, <2>4, SaysLink
<1>2. CASE Progress \/ Finish \/ Fail
  <2>1. node.conn \in Sessions /\ node.sounding
    BY <1>2, DecoderIs
  <2>2. node.conn \in listeners
    BY <2>1 DEF LinkInv, StrangerSilent
  <2>3. /\ \A t \in Sessions : t # node.conn => up'[t] = up[t] /\ down'[t] = down[t]
        /\ node'.conn = node.conn
    BY <1>2, DecoderIs DEF Says
  <2>4. UNCHANGED <<pending, listeners, session, step, disturbed>>
    BY <1>2, DecoderIs DEF hubVars
  <2>5. QED
    BY <2>2, <2>3, <2>4, SaysLink
<1>3. ASSUME NEW pb \in node.late, LateReport(pb) PROVE LinkInv'
  <2>1. node.conn \in listeners
    BY <1>3 DEF LinkInv, StrangerSilent
  <2>2. PICK e \in {"playing", "completed", "failed"} : Says(e, pb, node.media, node.sounding)
    BY <1>3, LateIs
  <2>3. /\ \A t \in Sessions : t # node.conn => up'[t] = up[t] /\ down'[t] = down[t]
        /\ node'.conn = node.conn
    BY <1>3, <2>2, LateIs DEF Says
  <2>4. UNCHANGED <<pending, listeners, session, step>> /\ disturbed \subseteq disturbed'
    BY <1>3, LateIs DEF hubVars
  <2>5. QED
    BY <2>1, <2>3, <2>4, SaysLink
<1>4. QED
  BY <1>1, <1>2, <1>3

LEMMA CutLink ==
  ASSUME TypeInv, LinkInv, Cut PROVE LinkInv'
<1>1. /\ node.conn \in Sessions
      /\ node'.conn = 0 /\ node'.media = 0 /\ ~node'.sounding /\ node'.late = {}
      /\ session'[node.conn] = "cut" /\ down'[node.conn] = <<>>
      /\ \A t \in Sessions : t # node.conn =>
           session'[t] = session[t] /\ down'[t] = down[t] /\ up'[t] = up[t]
      /\ UNCHANGED <<pending, listeners, step>>
  BY CutIs DEF Offline, hubVars
<1>2. PICK n \in 0..Len(up[node.conn]) : up'[node.conn] = SubSeq(up[node.conn], 1, n)
  BY CutIs
<1>3. \A i \in 1..Len(up'[node.conn]) : up'[node.conn][i] = up[node.conn][i] /\ i \in 1..Len(up[node.conn])
  BY <1>1, <1>2, SubSeqFact, Types
<1>4. \A t \in Sessions : Idle(t) => Idle(t)'
  BY <1>1, <1>3 DEF Idle, Silent
<1>5. 0 \notin Sessions /\ 0 \notin listeners
  BY Numbers DEF TypeInv, TypeOK
<1>6. OneIsOpen' /\ ReconcilingIsFree'
  BY <1>1 DEF LinkInv, OneIsOpen, ReconcilingIsFree
<1>7. UnusedIsFresh'
  BY <1>1 DEF LinkInv, UnusedIsFresh
<1>8. StrangersIdle' /\ StrangerSilent' /\ OthersIdle'
  BY <1>1, <1>4, <1>5 DEF LinkInv, StrangersIdle, StrangerSilent, OthersIdle
<1>9. QED
  BY <1>6, <1>7, <1>8 DEF LinkInv

LEMMA LinkStep ==
  ASSUME TypeInv, LinkInv, [Next]_vars PROVE LinkInv'
<1>1. CASE Restart
  <2>1. /\ node'.conn = 0 /\ node'.media = 0 /\ ~node'.sounding /\ node'.late = {} /\ listeners' = {}
        /\ \A s \in Sessions : /\ session'[s] \in {"unused", "closed"} /\ step'[s] = "ready"
                               /\ down'[s] = <<>> /\ up'[s] = <<>> /\ pending'[s] = Nothing
    <3>1. \A s \in Sessions : pending'[s] = Nothing
      BY <1>1, RestartIs
    <3>2. QED
      BY <1>1, <3>1, RestartIs DEF Offline
  <2>2. \A s \in Sessions : Idle(s)'
    BY <2>1, Empty DEF Idle, Silent
  <2>3. QED
    BY <2>1, <2>2
    DEF LinkInv, OneIsOpen, UnusedIsFresh, ReconcilingIsFree, StrangersIdle, StrangerSilent, OthersIdle
<1>2. CASE UNCHANGED vars
  BY <1>2, LinkFrame DEF vars, hubVars, linkVars
<1>3. QED
  BY <1>1, <1>2, CommandLink, PublishLink, ReceiveLink, AttachLink, ReconcileLink, ForgetLink,
     ConnectLink, SatelliteLink, CutLink
  DEF Next, Core, Satellite

-----------------------------------------------------------------------------
(* The row and its output *)

(* What is on its way between the core and a session that listens.          *)
LEMMA View ==
  ASSUME TypeInv, RowInv, node.conn \in listeners
  PROVE  /\ node.conn \in Sessions /\ node.conn \in Handlers
         /\ Len(down[node.conn]) \in Nat /\ Len(up[node.conn]) \in Nat
         /\ down[node.conn] \in Seq(DirectiveType) /\ up[node.conn] \in Seq(ReportType)
         /\ \A i \in 1..Len(down[node.conn]) : down[node.conn][i].pb \in Nat
         /\ \A i \in 1..Len(up[node.conn]) : up[node.conn][i].pb \in Nat
         /\ node.media \in Nat /\ node.late \subseteq Nat
         /\ loaded \in Nat /\ token \in Nat /\ tokens \in Nat
         /\ loaded <= tokens /\ (token # 0 => token = tokens) /\ (status = "playing" => token # 0)
<1>1. node.conn \in Sessions /\ node.conn \in Handlers
  BY DEF TypeInv, TypeOK
<1>2. down[node.conn] \in Seq(DirectiveType) /\ up[node.conn] \in Seq(ReportType)
  BY <1>1, Types
<1>3. /\ Len(down[node.conn]) \in Nat /\ Len(up[node.conn]) \in Nat
      /\ \A i \in 1..Len(down[node.conn]) : down[node.conn][i] \in DirectiveType
      /\ \A i \in 1..Len(up[node.conn]) : up[node.conn][i] \in ReportType
  BY <1>2, Elements
<1>4. /\ \A i \in 1..Len(down[node.conn]) : down[node.conn][i].pb \in Nat
      /\ \A i \in 1..Len(up[node.conn]) : up[node.conn][i].pb \in Nat
  BY <1>3, DirectiveFact, ReportFact
<1>5. /\ node.media \in Nat /\ node.late \subseteq Nat
      /\ loaded \in Nat /\ token \in Nat /\ tokens \in Nat
      /\ loaded <= tokens /\ (token # 0 => token = tokens) /\ (status = "playing" => token # 0)
  BY Types DEF RowInv, TokenIsLast
<1>6. QED
  BY <1>1, <1>2, <1>3, <1>4, <1>5

LEMMA FollowParts ==
  /\ FollowInv /\ InOrder => Heard /\ ReportsEnd /\ RowIsHeard /\ SoundIsMeant /\ LoadIsMeant
  /\ (InOrder' => Heard' /\ ReportsEnd' /\ RowIsHeard' /\ SoundIsMeant' /\ LoadIsMeant') => FollowInv'
BY DEF FollowInv

(* A step that the satellite's session has no part in.                      *)
LEMMA FollowFrame ==
  ASSUME FollowInv, InOrder' => InOrder,
         InOrder' => /\ UNCHANGED <<status, token, loaded, node, pending>>
                     /\ down'[node.conn] = down[node.conn] /\ up'[node.conn] = up[node.conn]
                     /\ Unread => Unread'
  PROVE  FollowInv'
<1> SUFFICES ASSUME InOrder'
             PROVE  Heard' /\ ReportsEnd' /\ RowIsHeard' /\ SoundIsMeant' /\ LoadIsMeant'
  BY FollowParts
<1>1. Heard /\ ReportsEnd /\ RowIsHeard /\ SoundIsMeant /\ LoadIsMeant
  BY FollowParts
<1>2. /\ UNCHANGED <<status, token, loaded, node, pending>>
      /\ down'[node.conn] = down[node.conn] /\ up'[node.conn] = up[node.conn]
      /\ Unread => Unread'
  OBVIOUS
<1>3. Heard'
  BY <1>1, <1>2 DEF Heard
<1>4. ReportsEnd'
  BY <1>1, <1>2 DEF ReportsEnd, Sounds, Ends
<1>5. RowIsHeard'
  <2>1. (Sounds => Sounds') /\ (Ends(0) => Ends(0)')
    BY <1>2 DEF Sounds, Ends
  <2>2. QED
    BY <1>1, <1>2, <2>1 DEF RowIsHeard
<1>6. SoundIsMeant'
  <2>1. Coming => Coming'
    BY <1>2 DEF Coming
  <2>2. QED
    BY <1>1, <1>2, <2>1 DEF SoundIsMeant
<1>7. LoadIsMeant'
  BY <1>1, <1>2 DEF LoadIsMeant
<1>8. QED
  BY <1>3, <1>4, <1>5, <1>6, <1>7

LEMMA HeardLess ==
  ASSUME Heard, UNCHANGED <<loaded, node>>, down'[node.conn] = down[node.conn],
         \A i \in 1..Len(up'[node.conn]) :
           \E j \in 1..Len(up[node.conn]) : up'[node.conn][i] = up[node.conn][j]
  PROVE  Heard'
BY DEF Heard

LEMMA SoundLess ==
  ASSUME SoundIsMeant, ~Unread, Coming => Coming', UNCHANGED <<token, node>>,
         status = "playing" => status' = "playing",
         \A i \in 1..Len(up'[node.conn]) :
           \E j \in 1..Len(up[node.conn]) : up'[node.conn][i] = up[node.conn][j]
  PROVE  SoundIsMeant'
BY DEF SoundIsMeant

(* A playback begins: its load is yet to be published.                      *)
LEMMA StartsFollow ==
  ASSUME TypeInv, RowInv, FollowInv, NEW h \in Handlers, Starts(h), InOrder' => InOrder,
         UNCHANGED <<loaded, node, listeners>>, down'[node.conn] = down[node.conn],
         \A i \in 1..Len(up'[node.conn]) :
           \E j \in 1..Len(up[node.conn]) : up'[node.conn][i] = up[node.conn][j]
  PROVE  FollowInv'
<1> SUFFICES ASSUME InOrder'
             PROVE  Heard' /\ ReportsEnd' /\ RowIsHeard' /\ SoundIsMeant' /\ LoadIsMeant'
  BY FollowParts
<1>1. Heard /\ node.conn \in listeners
  BY FollowParts DEF InOrder
<1>2. /\ pending'[h].op = "load" /\ Tells(pending'[h]) /\ pending'[h].pb = token'
      /\ token' = tokens + 1
  BY StartsIs
<1>3. Heard'
  BY <1>1, HeardLess
<1>4. ReportsEnd'
  <2>1. ASSUME NEW j \in 1..Len(up[node.conn]) PROVE up[node.conn][j].pb # token'
    <3>1. up[node.conn][j].pb <= loaded
      BY <1>1 DEF Heard
    <3>2. QED
      BY <1>1, <1>2, <3>1, View
  <2>2. \A i \in 1..Len(up'[node.conn]) : up'[node.conn][i].pb # token'
    BY <2>1
  <2>3. QED
    BY <2>2 DEF ReportsEnd
<1>5. RowIsHeard'
  BY <1>2 DEF RowIsHeard
<1>6. SoundIsMeant'
  BY <1>2 DEF SoundIsMeant, Coming
<1>7. LoadIsMeant'
  BY <1>2 DEF LoadIsMeant
<1>8. QED
  BY <1>3, <1>4, <1>5, <1>6, <1>7

LEMMA CommandFollow ==
  ASSUME TypeInv, RowInv, FollowInv, NEW h \in Controllers, Command(h) PROVE FollowInv'
<1>1. /\ pending[h] = Nothing /\ h \in Handlers
      /\ UNCHANGED <<published, loaded, listeners, session, step, down, up, node, disturbed>>
      /\ Starts(h) \/ Silences(h) \/ Adjusts(h)
  BY CommandIs
<1>2. \A g \in Handlers : g # h => pending'[g] = pending[g]
  BY <1>1, StartsIs, SilencesIs, AdjustsIs
<1>3. InOrder' => InOrder
  BY <1>1, <1>2 DEF InOrder
<1>4. CASE Starts(h)
  BY <1>1, <1>3, <1>4, StartsFollow
<1>5. CASE Silences(h)
  <2> SUFFICES ASSUME InOrder'
               PROVE  Heard' /\ ReportsEnd' /\ RowIsHeard' /\ SoundIsMeant' /\ LoadIsMeant'
    BY FollowParts
  <2>1. Heard /\ ReportsEnd
    BY <1>3, FollowParts
  <2>2. Tells(pending'[h]) /\ token' \in {token, 0} /\ status' # "playing"
    BY <1>1, <1>5, SilencesIs
  <2>3. Heard'
    BY <1>1, <2>1 DEF Heard
  <2>4. ReportsEnd'
    <3>1. CASE token' = token
      BY <1>1, <2>1, <3>1 DEF ReportsEnd, Sounds, Ends
    <3>2. CASE token' = 0
      BY <3>2 DEF ReportsEnd
    <3>3. QED
      BY <2>2, <3>1, <3>2
  <2>5. RowIsHeard' /\ SoundIsMeant' /\ LoadIsMeant'
    BY <1>1, <2>2 DEF RowIsHeard, SoundIsMeant, Coming, LoadIsMeant
  <2>6. QED
    BY <2>3, <2>4, <2>5
<1>6. CASE Adjusts(h)
  <2> SUFFICES ASSUME InOrder'
               PROVE  Heard' /\ ReportsEnd' /\ RowIsHeard' /\ SoundIsMeant' /\ LoadIsMeant'
    BY FollowParts
  <2>1. Heard /\ ReportsEnd /\ RowIsHeard /\ SoundIsMeant /\ LoadIsMeant
    BY <1>3, FollowParts
  <2>2. /\ ~Tells(pending'[h]) /\ ~Tells(pending[h]) /\ pending[h].op # "load"
        /\ token' = token \/ (status # "playing" /\ token' = 0)
        /\ status' = status
    BY <1>1, <1>6, AdjustsIs, NothingFact
  <2>3. Heard'
    BY <1>1, <2>1 DEF Heard
  <2>4. Unread => Unread'
    BY <1>1, <2>2 DEF Unread
  <2>5. ReportsEnd'
    BY <1>1, <2>1, <2>2 DEF ReportsEnd, Sounds, Ends
  <2>6. RowIsHeard'
    <3> SUFFICES ASSUME status' = "playing"
                 PROVE  \/ Sounds' \/ Ends(0)' \/ Unread'
                        \/ \E i \in 1..Len(down'[node'.conn]) :
                             down'[node'.conn][i].op = "load" /\ down'[node'.conn][i].pb = token'
                        \/ \E g \in Handlers : pending'[g].op = "load" /\ pending'[g].pb = token'
      BY DEF RowIsHeard
    <3>1. token' = token
      BY <2>2
    <3>2. (Sounds => Sounds') /\ (Ends(0) => Ends(0)')
      BY <1>1, <3>1 DEF Sounds, Ends
    <3>3. QED
      BY <1>1, <1>2, <2>1, <2>2, <2>4, <3>1, <3>2 DEF RowIsHeard
  <2>7. SoundIsMeant'
    <3>1. Coming => Coming'
      BY <1>1, <1>2, <2>2 DEF Coming
    <3>2. QED
      BY <1>1, <2>1, <2>2, <2>4, <3>1 DEF SoundIsMeant
  <2>8. LoadIsMeant'
    BY <1>1, <1>2, <2>1, <2>2, <2>4 DEF LoadIsMeant
  <2>9. QED
    BY <2>3, <2>5, <2>6, <2>7, <2>8
<1>7. QED
  BY <1>1, <1>4, <1>5, <1>6

(* A directive joins what is on its way to the session.                     *)
LEMMA PublishFollow ==
  ASSUME TypeInv, RowInv, LinkInv, FollowInv, NEW h \in Handlers, Publish(h) PROVE FollowInv'
<1> DEFINE d == pending[h]
           n == Len(down[node.conn])
<1> SUFFICES ASSUME InOrder'
             PROVE  Heard' /\ ReportsEnd' /\ RowIsHeard' /\ SoundIsMeant' /\ LoadIsMeant'
  BY FollowParts
<1>1. /\ d \in DirectiveType /\ pending'[h] = Nothing
      /\ \A g \in Handlers : g # h => pending'[g] = pending[g]
      /\ UNCHANGED <<status, token, tokens, listeners, session, step, up, node>>
  BY PublishIs DEF rowVars
<1>2. node.conn \in listeners /\ node.conn \in Sessions /\ listeners # {}
  BY <1>1, Types DEF InOrder, TypeInv, TypeOK
<1>3. disturbed = {} /\ d.rev >= published /\ (d.op = "load" => d.pb # loaded)
  BY <1>2, PublishIs DEF InOrder
<1>4. /\ d.pb \in Nat /\ d.rev \in Nat /\ loaded \in Nat /\ published \in Nat
      /\ d # Nothing
  BY <1>1, DirectiveFact, Types
<1>5. d.op = "load" => d.pb > loaded /\ d.pb <= tokens
  <2>1. d.op = "load" => d.pb >= loaded
    BY <1>3 DEF RowInv, NewestIsMeant
  <2>2. d.op = "load" => d.pb \in 1..tokens
    BY <1>4 DEF RowInv, LoadsKnown
  <2> HIDE DEF d
  <2>3. QED
    BY <1>3, <1>4, <2>1, <2>2, Types
<1>6. loaded' = IF d.op = "load" THEN d.pb ELSE loaded
  <2>1. loaded' = IF d.op = "load" /\ listeners # {} /\ d.pb > loaded THEN d.pb ELSE loaded
    BY PublishIs
  <2>2. QED
    BY <1>2, <1>5, <2>1
<1>7. published' = IF d.rev > published THEN d.rev ELSE published
  BY PublishIs
<1>8. loaded <= loaded' /\ published <= published' /\ loaded' \in Nat /\ published' \in Nat
  <2> HIDE DEF d
  <2>1. QED
    BY <1>4, <1>5, <1>6, <1>7
<1>9. InOrder
  <2>1. ASSUME NEW g \in Handlers, pending[g] # Nothing
        PROVE  pending[g].rev >= published /\ (pending[g].op = "load" => pending[g].pb > loaded)
    <3>1. CASE g = h
      BY <1>3, <1>5, <3>1
    <3>2. CASE g # h
      <4>1. pending[g].rev >= published' /\ (pending[g].op = "load" => pending[g].pb > loaded')
        BY <1>1, <2>1, <3>2 DEF InOrder
      <4>2. pending[g].rev \in Nat /\ pending[g].pb \in Nat
        BY <2>1, Types, DirectiveFact
      <4>3. QED
        BY <1>4, <1>8, <4>1, <4>2
    <3>3. QED
      BY <3>1, <3>2
  <2>2. QED
    BY <1>2, <1>3, <2>1 DEF InOrder
<1>10. Heard /\ ReportsEnd /\ RowIsHeard /\ SoundIsMeant /\ LoadIsMeant
  BY <1>9, FollowParts
<1>11. down'[node.conn] = Append(down[node.conn], d)
  BY <1>2, PublishIs, Numbers DEF LinkInv, OneIsOpen
<1>12. /\ n \in Nat /\ Len(down'[node.conn]) = n + 1
       /\ \A i \in 1..n : down'[node.conn][i] = down[node.conn][i] /\ i \in 1..Len(down'[node.conn])
       /\ down'[node.conn][n + 1] = d /\ n + 1 \in 1..Len(down'[node.conn])
       /\ \A i \in 1..Len(down'[node.conn]) : i \in 1..n \/ i = n + 1
  <2>1. down[node.conn] \in Seq(DirectiveType)
    BY <1>2, Types
  <2>2. QED
    BY <1>1, <1>11, <2>1, AppendFact
<1>13. node'.conn = node.conn /\ node' = node /\ up' = up
  BY <1>1
<1>14. d.op = "load" => Tells(d)
  BY LoadTells
<1> HIDE DEF d
<1>15. Heard'
  <2>1. /\ node.media <= loaded' /\ \A i \in 1..Len(up[node.conn]) : up[node.conn][i].pb <= loaded'
        /\ \A pb \in node.late : pb <= loaded' /\ (node.sounding => pb < node.media)
    <3>1. /\ node.media \in Nat /\ node.late \subseteq Nat
          /\ \A i \in 1..Len(up[node.conn]) : up[node.conn][i].pb \in Nat
      BY <1>2, View
    <3>2. /\ node.media <= loaded /\ \A i \in 1..Len(up[node.conn]) : up[node.conn][i].pb <= loaded
          /\ \A pb \in node.late : pb <= loaded /\ (node.sounding => pb < node.media)
      BY <1>10 DEF Heard
    <3>3. QED
      BY <1>4, <1>8, <3>1, <3>2
  <2>2. ASSUME NEW i \in 1..Len(down'[node.conn]), down'[node.conn][i].op = "load"
        PROVE  /\ down'[node.conn][i].pb <= loaded' /\ node.media < down'[node.conn][i].pb
               /\ \A pb \in node.late : pb < down'[node.conn][i].pb
               /\ \A j \in 1..Len(up[node.conn]) : up[node.conn][j].pb < down'[node.conn][i].pb
               /\ \A j \in 1..Len(down'[node.conn]) : j < i /\ down'[node.conn][j].op = "load" =>
                    down'[node.conn][j].pb < down'[node.conn][i].pb
    <3>1. CASE i \in 1..n
      <4>1. down'[node.conn][i] = down[node.conn][i] /\ down[node.conn][i].pb \in Nat
        BY <1>2, <1>12, <3>1, View
      <4>2. /\ down[node.conn][i].pb <= loaded /\ node.media < down[node.conn][i].pb
            /\ \A pb \in node.late : pb < down[node.conn][i].pb
            /\ \A j \in 1..Len(up[node.conn]) : up[node.conn][j].pb < down[node.conn][i].pb
            /\ \A j \in 1..n : j < i /\ down[node.conn][j].op = "load" =>
                 down[node.conn][j].pb < down[node.conn][i].pb
        BY <1>10, <2>2, <3>1, <4>1 DEF Heard
      <4>3. ASSUME NEW j \in 1..Len(down'[node.conn]), j < i
            PROVE  j \in 1..n /\ down'[node.conn][j] = down[node.conn][j]
        <5>1. j \in 1..n
          <6> HIDE DEF n
          <6>1. QED
            BY <1>12, <3>1, <4>3
        <5>2. QED
          BY <1>12, <5>1
      <4>4. down[node.conn][i].pb <= loaded'
        BY <1>4, <1>8, <4>1, <4>2
      <4>5. QED
        BY <4>1, <4>2, <4>3, <4>4
    <3>2. CASE i = n + 1
      <4>1. down'[node.conn][i] = d /\ d.op = "load" /\ d.pb = loaded' /\ d.pb > loaded
        BY <1>5, <1>6, <1>12, <2>2, <3>2
      <4>2. node.media < d.pb
        BY <1>2, <1>4, <1>10, <4>1, View DEF Heard
      <4>3. ASSUME NEW j \in 1..Len(up[node.conn]) PROVE up[node.conn][j].pb < d.pb
        <5>1. up[node.conn][j].pb \in Nat /\ up[node.conn][j].pb <= loaded
          BY <1>2, <1>10, View DEF Heard
        <5>2. QED
          BY <1>4, <4>1, <5>1
      <4>4. ASSUME NEW j \in 1..Len(down'[node.conn]), j < i, down'[node.conn][j].op = "load"
            PROVE  down'[node.conn][j].pb < d.pb
        <5>1. j \in 1..n /\ down'[node.conn][j] = down[node.conn][j]
          BY <1>12, <3>2, <4>4
        <5>2. down[node.conn][j].pb \in Nat /\ down[node.conn][j].pb <= loaded
          BY <1>2, <1>10, <4>4, <5>1, View DEF Heard
        <5>3. QED
          BY <1>4, <4>1, <5>1, <5>2
      <4>5. d.pb <= loaded'
        BY <1>4, <4>1
      <4>6. ASSUME NEW pb \in node.late PROVE pb < d.pb
        <5>1. pb \in Nat /\ pb <= loaded
          BY <1>2, <1>10, View DEF Heard
        <5>2. QED
          BY <1>4, <4>1, <5>1
      <4>7. QED
        BY <4>1, <4>2, <4>3, <4>4, <4>5, <4>6
    <3>3. QED
      BY <1>12, <3>1, <3>2
  <2>3. QED
    BY <1>13, <2>1, <2>2 DEF Heard
<1>16. ReportsEnd'
  BY <1>1, <1>10, <1>13 DEF ReportsEnd, Sounds, Ends
<1>17. Unread => Unread' \/ (d.op = "load" /\ d.pb = token)
  <2>1. Unread => token > loaded /\ token = tokens
    BY <1>2, View DEF Unread
  <2>2. Unread /\ ~(token > loaded') => d.op = "load" /\ d.pb = token
    BY <1>2, <1>4, <1>5, <1>6, <2>1, View
  <2>3. QED
    BY <1>1, <1>13, <2>2 DEF Unread
<1>18. RowIsHeard'
  <2> SUFFICES ASSUME status = "playing"
               PROVE  \/ Sounds' \/ Ends(0)' \/ Unread'
                      \/ \E i \in 1..Len(down'[node.conn]) :
                           down'[node.conn][i].op = "load" /\ down'[node.conn][i].pb = token
                      \/ \E g \in Handlers : pending'[g].op = "load" /\ pending'[g].pb = token
    BY <1>1, <1>13 DEF RowIsHeard
  <2>1. (Sounds => Sounds') /\ (Ends(0) => Ends(0)')
    BY <1>1, <1>13 DEF Sounds, Ends
  <2>2. CASE d.op = "load" /\ d.pb = token
    BY <1>12, <2>2
  <2>3. ASSUME NEW i \in 1..n, down[node.conn][i].op = "load" /\ down[node.conn][i].pb = token
        PROVE  \E k \in 1..Len(down'[node.conn]) :
                 down'[node.conn][k].op = "load" /\ down'[node.conn][k].pb = token
    BY <1>12, <2>3
  <2>4. ASSUME NEW g \in Handlers, pending[g].op = "load" /\ pending[g].pb = token
        PROVE  \/ d.op = "load" /\ d.pb = token
               \/ pending'[g].op = "load" /\ pending'[g].pb = token
    BY <1>1, <2>4 DEF d
  <2>5. QED
    BY <1>10, <1>17, <2>1, <2>2, <2>3, <2>4 DEF RowIsHeard
<1>19. Tells(d) => Coming'
  BY <1>12, <1>13 DEF Coming
<1>20. SoundIsMeant'
  <2>1. Coming => Coming'
    <3>1. ASSUME NEW i \in 1..n, Tells(down[node.conn][i]) PROVE Coming'
      BY <1>12, <1>13, <3>1 DEF Coming
    <3>2. ASSUME NEW g \in Handlers, Tells(pending[g]) PROVE Coming'
      <4>1. CASE g = h
        BY <1>19, <3>2, <4>1 DEF d
      <4>2. CASE g # h
        BY <1>1, <3>2, <4>2 DEF Coming
      <4>3. QED
        BY <4>1, <4>2
    <3>3. QED
      BY <3>1, <3>2 DEF Coming
  <2>2. QED
    BY <1>1, <1>10, <1>13, <1>14, <1>17, <1>19, <2>1 DEF SoundIsMeant
<1>21. LoadIsMeant'
  <2> SUFFICES ASSUME NEW i \in 1..Len(down'[node.conn]), down'[node.conn][i].op = "load",
                      \A j \in 1..Len(down'[node.conn]) : j > i => ~Tells(down'[node.conn][j]),
                      \A g \in Handlers : ~Tells(pending'[g])
               PROVE  Unread' \/ (status = "playing" /\ token = down'[node.conn][i].pb)
    BY <1>1, <1>13 DEF LoadIsMeant
  <2>1. CASE i \in 1..n
    <3>1. ~Tells(d)
      <4>1. n + 1 > i
        <5> HIDE DEF n
        <5>1. QED
          BY <1>12, <2>1
      <4>2. QED
        BY <1>12, <4>1
    <3>2. \A g \in Handlers : ~Tells(pending[g])
      BY <1>1, <3>1 DEF d
    <3>3. \A j \in 1..n : j > i => ~Tells(down[node.conn][j])
      BY <1>12
    <3>4. down[node.conn][i] = down'[node.conn][i]
      BY <1>12, <2>1
    <3>5. Unread \/ (status = "playing" /\ token = down[node.conn][i].pb)
      BY <1>10, <2>1, <3>2, <3>3, <3>4 DEF LoadIsMeant
    <3>6. QED
      BY <1>14, <1>17, <3>1, <3>4, <3>5
  <2>2. CASE i = n + 1
    <3>1. down'[node.conn][i] = d /\ d.op = "load"
      BY <1>12, <2>2
    <3>2. Newest(h)
      <4>1. d.rev <= d.rev
        BY <1>4
      <4>2. \A g \in Handlers : g # h => ~Tells(pending[g])
        BY <1>1
      <4>3. QED
        BY <4>1, <4>2 DEF Newest, d
    <3>3. QED
      BY <1>3, <3>1, <3>2 DEF RowInv, NewestIsMeant, d
  <2>3. QED
    BY <1>12, <2>1, <2>2
<1>22. QED
  BY <1>15, <1>16, <1>18, <1>20, <1>21

(* The first report is taken off what is on its way to the core.            *)
LEMMA Taken ==
  ASSUME TypeInv, RowInv, node.conn \in listeners, up[node.conn] # <<>>,
         up'[node.conn] = Tail(up[node.conn]), node'.conn = node.conn
  PROVE  /\ Head(up[node.conn]) = up[node.conn][1] /\ 1 \in 1..Len(up[node.conn])
         /\ \A i \in 1..Len(up'[node.conn]) :
              /\ up'[node.conn][i] = up[node.conn][i + 1]
              /\ i + 1 \in 1..Len(up[node.conn])
         /\ \A k \in Nat : token' = token /\ Ends(k + 1) => Ends(k)'
         /\ Ends(0) =>
              \/ Ends(1)
              \/ Head(up[node.conn]).pb = token /\ Head(up[node.conn]).event # "playing"
<1>1. up[node.conn] \in Seq(ReportType)
  BY View
<1>2. /\ Head(up[node.conn]) = up[node.conn][1] /\ 1 \in 1..Len(up[node.conn])
      /\ \A i \in 1..Len(Tail(up[node.conn])) :
           Tail(up[node.conn])[i] = up[node.conn][i + 1] /\ i + 1 \in 1..Len(up[node.conn])
      /\ \A i \in 1..Len(up[node.conn]) :
           \/ i = 1
           \/ i - 1 \in 1..Len(Tail(up[node.conn])) /\ Tail(up[node.conn])[i - 1] = up[node.conn][i]
  BY <1>1, TailFact
<1>3. \A i \in 1..Len(up'[node.conn]) :
        up'[node.conn][i] = up[node.conn][i + 1] /\ i + 1 \in 1..Len(up[node.conn])
  BY <1>2
<1>4. ASSUME NEW k \in Nat, token' = token, Ends(k + 1) PROVE Ends(k)'
  <2>1. PICK j \in 1..Len(up[node.conn]) :
          /\ j > k + 1 /\ up[node.conn][j].pb = token /\ up[node.conn][j].event # "playing"
    BY <1>4 DEF Ends
  <2>2. j # 1 /\ j - 1 > k
    BY <2>1
  <2>3. j - 1 \in 1..Len(up'[node.conn]) /\ up'[node.conn][j - 1] = up[node.conn][j]
    BY <1>2, <2>2
  <2>4. QED
    BY <1>4, <2>1, <2>2, <2>3 DEF Ends
<1>5. ASSUME Ends(0), ~Ends(1)
      PROVE  Head(up[node.conn]).pb = token /\ Head(up[node.conn]).event # "playing"
  <2>1. PICK j \in 1..Len(up[node.conn]) :
          up[node.conn][j].pb = token /\ up[node.conn][j].event # "playing"
    BY <1>5 DEF Ends
  <2>2. ~(j > 1)
    BY <1>5, <2>1 DEF Ends
  <2>3. j = 1
    BY <2>2
  <2>4. QED
    BY <1>2, <2>1, <2>3
<1>6. QED
  BY <1>2, <1>3, <1>4, <1>5

LEMMA ReceiveOrder ==
  ASSUME TypeInv, RowInv, NEW s \in Sessions, Receive(s), InOrder'
  PROVE  InOrder /\ (published' = rev + 1 => \A h \in Handlers : pending[h] = Nothing)
<1>1. pending[s] = Nothing /\ UNCHANGED <<loaded, listeners, node>>
  BY ReceiveIs
<1>2. disturbed = {}
  <2>1. disturbed \subseteq disturbed'
    BY ReceiveIs DEF Dropped
  <2>2. QED
    BY <2>1 DEF InOrder
<1>3. \A g \in Handlers : g # s => pending'[g] = pending[g]
  BY <1>1, ReceiveIs, StartsIs, FollowsIs DEF Dropped
<1>4. published' = published \/ published' = rev + 1
  BY <1>1, ReceiveIs, FollowsIs DEF Dropped
<1>5. rev \in Nat /\ published \in Nat /\ published <= rev
  BY Types
<1>6. ASSUME NEW h \in Handlers, pending[h] # Nothing
      PROVE  /\ pending[h].rev >= published' /\ pending[h].rev \in Nat /\ pending[h].rev <= rev
             /\ pending[h].op = "load" => pending[h].pb > loaded
  <2>1. pending'[h] = pending[h]
    BY <1>1, <1>3, <1>6
  <2>2. pending[h].rev \in Nat /\ pending[h].rev <= rev
    BY <1>6, Types, DirectiveFact DEF RowInv, LoadsKnown
  <2>3. QED
    BY <1>1, <1>6, <2>1, <2>2 DEF InOrder
<1>7. published' = rev + 1 => \A h \in Handlers : pending[h] = Nothing
  BY <1>5, <1>6
<1>8. \A h \in Handlers : pending[h] # Nothing => pending[h].rev >= published
  BY <1>4, <1>5, <1>6
<1>9. InOrder
  BY <1>1, <1>2, <1>6, <1>8 DEF InOrder
<1>10. QED
  BY <1>7, <1>9

LEMMA ReceiveFollow ==
  ASSUME TypeInv, RowInv, LinkInv, FollowInv, NEW s \in Sessions, Receive(s) PROVE FollowInv'
<1> DEFINE r == Head(up[s])
<1> SUFFICES ASSUME InOrder' PROVE FollowInv'
  BY FollowParts
<1>1. /\ step[s] = "ready" /\ pending[s] = Nothing /\ up[s] # <<>> /\ r \in ReportType
      /\ up'[s] = Tail(up[s]) /\ step'[s] = "attach"
      /\ \A t \in Sessions : t # s => up'[t] = up[t] /\ step'[t] = step[t]
      /\ UNCHANGED <<loaded, listeners, session, down, node>>
  BY ReceiveIs, ReceiveTypes
<1>2. InOrder /\ (published' = rev + 1 => \A h \in Handlers : pending[h] = Nothing)
  BY ReceiveOrder
<1>3. node.conn \in listeners /\ node.conn \in Sessions
  BY <1>2, View DEF InOrder
<1>4. Heard /\ ReportsEnd /\ RowIsHeard /\ SoundIsMeant /\ LoadIsMeant
  BY <1>2, FollowParts
<1>5. CASE s # node.conn
  <2>1. Idle(s)
    BY <1>2, <1>5 DEF LinkInv, OthersIdle, InOrder
  <2>2. ~Matches(r)
    BY <1>1, <2>1, SilentHead
  <2>3. UNCHANGED <<rowVars, pending>>
    BY <2>2, ReceiveIs
  <2>4. Unread => Unread'
    BY <1>1, <1>3, <1>5, <2>3 DEF Unread, rowVars
  <2>5. /\ UNCHANGED <<status, token, loaded, node, pending>>
        /\ down'[node.conn] = down[node.conn] /\ up'[node.conn] = up[node.conn]
    BY <1>1, <1>3, <1>5, <2>3 DEF rowVars
  <2>6. QED
    BY <1>2, <2>4, <2>5, FollowFrame
<1>6. CASE s = node.conn
  <2>1. /\ up[node.conn] # <<>> /\ up'[node.conn] = Tail(up[node.conn]) /\ ~Unread
        /\ node' = node /\ down' = down /\ loaded' = loaded /\ r = Head(up[node.conn])
    BY <1>1, <1>6 DEF Unread
  <2>2. /\ r = up[node.conn][1] /\ 1 \in 1..Len(up[node.conn])
        /\ \A i \in 1..Len(up'[node.conn]) :
             up'[node.conn][i] = up[node.conn][i + 1] /\ i + 1 \in 1..Len(up[node.conn])
        /\ \A k \in Nat : token' = token /\ Ends(k + 1) => Ends(k)'
        /\ Ends(0) => Ends(1) \/ (r.pb = token /\ r.event # "playing")
    BY <1>3, <2>1, Taken
  <2> HIDE DEF r
  <2>3. \A i \in 1..Len(up'[node.conn]) :
          \E j \in 1..Len(up[node.conn]) : up'[node.conn][i] = up[node.conn][j]
    BY <2>2
  <2>4. Heard'
    BY <1>4, <2>1, <2>3, HeardLess
  <2>5. token' = token => ReportsEnd'
    <3> SUFFICES ASSUME token' = token, token # 0, NEW i \in 1..Len(up'[node.conn]),
                        up'[node.conn][i].pb = token, up'[node.conn][i].event = "playing"
                 PROVE  Sounds' \/ Ends(i)'
      BY <2>1 DEF ReportsEnd
    <3>1. Sounds \/ Ends(i + 1)
      BY <1>4, <2>2 DEF ReportsEnd
    <3>2. i \in Nat
      OBVIOUS
    <3>3. Ends(i + 1) => Ends(i)'
      BY <2>2, <3>2
    <3>4. Sounds => Sounds'
      BY <2>1 DEF Sounds
    <3>5. QED
      BY <3>1, <3>3, <3>4
  <2>6. Ends(1) /\ token' = token => Ends(0)'
    <3>1. 0 \in Nat /\ 0 + 1 = 1
      OBVIOUS
    <3>2. token' = token /\ Ends(0 + 1) => Ends(0)'
      BY <2>2, <3>1
    <3>3. QED
      BY <3>1, <3>2
  <2>7. ASSUME Matches(r)
        PROVE  \A i \in 1..Len(down[node.conn]) :
                 down[node.conn][i].op = "load" => down[node.conn][i].pb # token
    <3>1. r.pb = token
      BY <2>7 DEF Matches
    <3>2. \A i \in 1..Len(down[node.conn]) :
            down[node.conn][i].op = "load" => up[node.conn][1].pb < down[node.conn][i].pb
      BY <1>4, <2>2 DEF Heard
    <3>3. \A i \in 1..Len(down[node.conn]) : down[node.conn][i].pb \in Nat
      BY <1>3, View
    <3>4. up[node.conn][1].pb = token /\ token \in Nat
      BY <1>3, <2>2, <3>1, View
    <3>5. QED
      BY <3>2, <3>3, <3>4
  <2>8. CASE Matches(r) /\ Starts(s)
    BY <1>1, <1>2, <2>1, <2>3, <2>8, StartsFollow
  <2>9. CASE UNCHANGED <<rowVars, pending>> /\ (~Matches(r) \/ r.event = "playing")
    <3>1. UNCHANGED <<status, token, pending>>
      BY <2>9 DEF rowVars
    <3>2. RowIsHeard'
      <4> SUFFICES ASSUME status = "playing"
                   PROVE  \/ Sounds' \/ Ends(0)' \/ Unread'
                          \/ \E i \in 1..Len(down[node.conn]) :
                               down[node.conn][i].op = "load" /\ down[node.conn][i].pb = token
                          \/ \E h \in Handlers : pending[h].op = "load" /\ pending[h].pb = token
        BY <2>1, <3>1 DEF RowIsHeard
      <4>1. token # 0
        BY <1>3, View
      <4>2. Ends(0) => Ends(0)'
        BY <2>2, <2>6, <2>9, <3>1, <4>1 DEF Matches
      <4>3. Sounds => Sounds'
        BY <2>1, <3>1 DEF Sounds
      <4>4. QED
        BY <1>4, <2>1, <4>2, <4>3 DEF RowIsHeard
    <3>3. SoundIsMeant'
      <4>1. Coming => Coming'
        BY <2>1, <3>1 DEF Coming
      <4>2. QED
        BY <1>4, <2>1, <2>3, <3>1, <4>1, SoundLess
    <3>4. LoadIsMeant'
      BY <1>4, <2>1, <3>1 DEF LoadIsMeant
    <3>5. QED
      BY <2>4, <2>5, <3>1, <3>2, <3>3, <3>4, FollowParts
  <2>10. CASE Matches(r) /\ Follows(s, r)
    <3>1. /\ pending' = pending /\ published' = rev + 1
          /\ \/ r.event # "playing" /\ token' = 0 /\ status' = "stopped"
             \/ r.event \in {"playing", "paused"} /\ token' = token /\ status' = r.event
      BY <1>1, <2>10, FollowsIs
    <3>2. \A h \in Handlers : pending[h] = Nothing
      BY <1>2, <3>1
    <3>3. r.pb = token /\ token # 0
      BY <2>10 DEF Matches
    <3>4. ReportsEnd'
      BY <2>5, <3>1 DEF ReportsEnd
    <3>5. Coming => Coming'
      BY <2>1, <3>1 DEF Coming
    <3>6. LoadIsMeant'
      <4>1. \A i \in 1..Len(down[node.conn]) :
              /\ down[node.conn][i].op = "load"
              /\ \A j \in 1..Len(down[node.conn]) : j > i => ~Tells(down[node.conn][j])
              => FALSE
        BY <1>4, <2>1, <2>7, <2>10, <3>2, NothingFact DEF LoadIsMeant
      <4>2. QED
        BY <2>1, <4>1 DEF LoadIsMeant
    <3>7. CASE r.event # "playing"
      <4>1. RowIsHeard'
        BY <3>1, <3>7 DEF RowIsHeard
      <4>2. ~\A i \in 1..Len(up[node.conn]) :
               up[node.conn][i].pb = token => up[node.conn][i].event = "playing"
        BY <2>2, <3>3, <3>7
      <4>3. SoundIsMeant'
        BY <1>4, <2>1, <3>5, <4>2 DEF SoundIsMeant
      <4>4. QED
        BY <2>4, <3>4, <3>6, <4>1, <4>3, FollowParts
    <3>8. CASE r.event = "playing"
      <4>1. token' = token /\ status' = "playing"
        BY <3>1, <3>8
      <4>2. Sounds \/ Ends(1)
        BY <1>4, <2>2, <3>3, <3>8 DEF ReportsEnd
      <4>3. Sounds => Sounds'
        BY <2>1, <4>1 DEF Sounds
      <4>4. RowIsHeard'
        BY <2>6, <4>1, <4>2, <4>3 DEF RowIsHeard
      <4>5. SoundIsMeant'
        BY <1>4, <2>1, <2>3, <3>5, <4>1, SoundLess
      <4>6. QED
        BY <2>4, <3>4, <3>6, <4>4, <4>5, FollowParts
    <3>9. QED
      BY <3>7, <3>8
  <2>11. ASSUME Dropped(s, r) PROVE UNCHANGED <<rowVars, pending>> /\ r.event = "playing"
    <3>1. disturbed' = {}
      BY DEF InOrder
    <3>2. QED
      BY <1>6, <2>11, <3>1 DEF Dropped
  <2>12. QED
    BY <2>8, <2>9, <2>10, <2>11, ReceiveIs DEF r
<1>7. QED
  BY <1>5, <1>6

(* The first listener has been told nothing, and is about to read the row.  *)
LEMMA AttachFollow ==
  ASSUME TypeInv, RowInv, LinkInv, FollowInv, NEW s \in Sessions, Attach(s) PROVE FollowInv'
<1> SUFFICES ASSUME InOrder' PROVE FollowInv'
  BY FollowParts
<1>1. /\ step[s] = "attach" /\ listeners' = listeners \cup {s}
      /\ step'[s] = IF listeners = {} THEN "reconcile" ELSE "ready"
      /\ \A t \in Sessions : t # s => step'[t] = step[t]
      /\ disturbed \subseteq disturbed'
      /\ s = node.conn /\ s \notin listeners /\ listeners # {} => "unreconciled" \in disturbed'
      /\ UNCHANGED <<status, token, pending, published, loaded, session, down, up, node>>
  BY AttachIs DEF rowVars
<1>2. disturbed' = {} /\ disturbed = {}
  BY <1>1 DEF InOrder
<1>3. CASE node.conn \in listeners
  <2>1. InOrder
    BY <1>1, <1>2, <1>3 DEF InOrder
  <2>2. node.conn \in Sessions
    BY <1>3, View
  <2>3. Unread => Unread'
    BY <1>1, <2>2 DEF Unread
  <2>4. QED
    BY <1>1, <2>1, <2>3, FollowFrame
<1>4. CASE node.conn \notin listeners
  <2>1. s = node.conn /\ listeners = {}
    BY <1>1, <1>2, <1>4 DEF InOrder
  <2>2. loaded = 0 /\ node.media = 0 /\ ~node.sounding /\ node.late = {} /\ down[node.conn] = <<>>
    BY <1>4, <2>1, Numbers DEF LinkInv, StrangerSilent, RowInv, TokenIsLast
  <2>3. \A i \in 1..Len(up[node.conn]) : up[node.conn][i].pb = 0
    BY <1>4, <2>1 DEF LinkInv, StrangersIdle, Idle, Silent
  <2>4. Len(down[node.conn]) = 0 /\ \A i \in 1..Len(down[node.conn]) : FALSE
    BY <2>2, Empty
  <2>5. Heard'
    BY <1>1, <2>2, <2>3, <2>4 DEF Heard
  <2>6. ReportsEnd'
    BY <1>1, <2>3 DEF ReportsEnd
  <2>7. status = "playing" => token > 0
    BY Types DEF RowInv, TokenIsLast
  <2>8. RowIsHeard'
    BY <1>1, <2>1, <2>2, <2>7 DEF RowIsHeard, Unread
  <2>9. SoundIsMeant' /\ LoadIsMeant'
    BY <1>1, <2>2, <2>4 DEF SoundIsMeant, LoadIsMeant
  <2>10. QED
    BY <2>5, <2>6, <2>8, <2>9, FollowParts
<1>5. QED
  BY <1>3, <1>4

(* The row is read: what it plays is yet to be published.                   *)
LEMMA ReconcileFollow ==
  ASSUME TypeInv, RowInv, LinkInv, FollowInv, NEW s \in Sessions, Reconcile(s) PROVE FollowInv'
<1> SUFFICES ASSUME InOrder'
             PROVE  Heard' /\ ReportsEnd' /\ RowIsHeard' /\ SoundIsMeant' /\ LoadIsMeant'
  BY FollowParts
<1>1. /\ step[s] = "reconcile" /\ step'[s] = "ready"
      /\ pending'[s].pb = token /\ (status = "playing" => pending'[s].op = "load")
      /\ \A h \in Handlers : h # s => pending'[h] = pending[h]
      /\ UNCHANGED <<status, token, tokens, rev, published, loaded, listeners,
                   session, down, up, node, disturbed>>
  BY ReconcileIs DEF rowVars
<1>2. pending[s] = Nothing /\ s \in Handlers /\ ~Tells(pending[s]) /\ pending[s].op # "load"
  BY <1>1, NothingFact DEF LinkInv, ReconcilingIsFree
<1>3. InOrder
  BY <1>1, <1>2 DEF InOrder
<1>4. s = node.conn
  BY <1>1, <1>3 DEF LinkInv, OthersIdle, InOrder, Idle
<1>5. Heard /\ ReportsEnd /\ RowIsHeard /\ SoundIsMeant /\ LoadIsMeant
  BY <1>3, FollowParts
<1>6. status = "playing" => Tells(pending'[s])
  BY <1>1, LoadTells
<1>7. Unread => status = "playing"
  BY DEF Unread
<1>8. Heard'
  BY <1>1, <1>5 DEF Heard
<1>9. ReportsEnd'
  BY <1>1, <1>5 DEF ReportsEnd, Sounds, Ends
<1>10. RowIsHeard'
  BY <1>1, <1>2 DEF RowIsHeard
<1>11. SoundIsMeant'
  <2>1. Coming => Coming'
    BY <1>1, <1>2 DEF Coming
  <2>2. status = "playing" => Coming'
    BY <1>2, <1>6 DEF Coming
  <2>3. QED
    BY <1>1, <1>5, <1>7, <2>1, <2>2 DEF SoundIsMeant
<1>12. LoadIsMeant'
  BY <1>1, <1>2, <1>5, <1>6, <1>7 DEF LoadIsMeant
<1>13. QED
  BY <1>8, <1>9, <1>10, <1>11, <1>12

LEMMA ForgetFollow ==
  ASSUME TypeInv, RowInv, LinkInv, FollowInv, NEW s \in Sessions, Close(s) \/ CloseOnError(s)
  PROVE  FollowInv'
<1> SUFFICES ASSUME InOrder' PROVE FollowInv'
  BY FollowParts
<1>1. /\ session[s] = "cut" /\ up'[s] = <<>>
      /\ \A t \in Sessions : t # s => up'[t] = up[t]
      /\ UNCHANGED <<status, token, pending, published, step, down, node, disturbed>>
      /\ listeners' \subseteq listeners
      /\ loaded' = IF listeners' = {} THEN 0 ELSE loaded
  <2>1. /\ session[s] = "cut" /\ up'[s] = <<>>
        /\ \A t \in Sessions : t # s => up'[t] = up[t]
        /\ UNCHANGED <<status, token, pending, published, step, down, node, disturbed>>
    BY ForgetIs DEF rowVars
  <2>2. \/ listeners' = listeners /\ loaded' = loaded
        \/ listeners' = listeners \ {s} /\ loaded' = IF listeners' = {} THEN 0 ELSE loaded
    BY ForgetIs
  <2>3. listeners = {} => loaded = 0
    BY DEF RowInv, TokenIsLast
  <2>4. QED
    BY <2>1, <2>2, <2>3
<1>2. node.conn \in listeners' /\ node.conn \in listeners /\ loaded' = loaded
  BY <1>1 DEF InOrder
<1>3. InOrder
  BY <1>1, <1>2 DEF InOrder
<1>4. node.conn \in Sessions /\ node.conn # s
  BY <1>1, <1>2, View, Numbers DEF LinkInv, OneIsOpen
<1>5. Unread => Unread'
  BY <1>1, <1>2 DEF Unread
<1>6. QED
  BY <1>1, <1>2, <1>3, <1>4, <1>5, FollowFrame

(* A satellite that has just connected, or is gone, is nobody's listener.   *)
LEMMA AwayFollow ==
  ASSUME TypeInv, LinkInv, Restart \/ Cut \/ \E s \in Sessions : Connect(s) PROVE FollowInv'
<1>1. CASE Restart
  BY <1>1, RestartIs DEF FollowInv, InOrder
<1>2. CASE Cut
  <2>1. node'.conn = 0 /\ listeners' = listeners
    BY <1>2, CutIs DEF Offline, hubVars
  <2>2. 0 \notin listeners
    BY Numbers DEF TypeInv, TypeOK
  <2>3. QED
    BY <2>1, <2>2 DEF FollowInv, InOrder
<1>3. ASSUME NEW s \in Sessions, Connect(s) PROVE FollowInv'
  <2>1. node'.conn = s /\ session[s] = "unused" /\ listeners' = listeners
    BY <1>3, ConnectIs DEF hubVars
  <2>2. s \notin listeners
    BY <2>1 DEF LinkInv, UnusedIsFresh
  <2>3. QED
    BY <2>1, <2>2 DEF FollowInv, InOrder
<1>4. QED
  BY <1>1, <1>2, <1>3

(* A report joins what is on its way to the core.                           *)
LEMMA Said ==
  ASSUME TypeInv, RowInv, node.conn \in listeners, token' = token,
         NEW e \in {"ready", "playing", "paused", "stopped", "completed", "failed"},
         NEW pb \in 0..MaxPlaybacks, NEW media, NEW sounding, Says(e, pb, media, sounding)
  PROVE  /\ node'.conn = node.conn /\ node'.media = media /\ node'.sounding = sounding
         /\ \A i \in 1..Len(up[node.conn]) :
              up'[node.conn][i] = up[node.conn][i] /\ i \in 1..Len(up'[node.conn])
         /\ \A i \in 1..Len(up'[node.conn]) :
              \/ i \in 1..Len(up[node.conn]) /\ up'[node.conn][i] = up[node.conn][i]
              \/ up'[node.conn][i].event = e /\ up'[node.conn][i].pb = pb
         /\ \A k : Ends(k) => Ends(k)'
         /\ e # "playing" /\ pb = token => \A k \in 0..Len(up[node.conn]) : Ends(k)'
<1> DEFINE r == Report(e, pb)
           n == Len(up[node.conn])
<1>1. r \in ReportType /\ r.event = e /\ r.pb = pb
  BY ReportIs
<1>2. up[node.conn] \in Seq(ReportType) /\ up'[node.conn] = Append(up[node.conn], r)
  BY View DEF Says
<1>3. node'.conn = node.conn /\ node'.media = media /\ node'.sounding = sounding
  BY DEF Says
<1> HIDE DEF r
<1>4. /\ n \in Nat
      /\ \A i \in 1..n : up'[node.conn][i] = up[node.conn][i] /\ i \in 1..Len(up'[node.conn])
      /\ up'[node.conn][n + 1] = r /\ n + 1 \in 1..Len(up'[node.conn])
      /\ \A i \in 1..Len(up'[node.conn]) : i \in 1..n \/ i = n + 1
  BY <1>1, <1>2, AppendFact
<1>5. ASSUME NEW k, Ends(k) PROVE Ends(k)'
  BY <1>3, <1>4, <1>5 DEF Ends
<1>6. ASSUME e # "playing", pb = token, NEW k \in 0..n PROVE Ends(k)'
  <2>1. n + 1 > k
    <3> HIDE DEF n
    <3>1. QED
      BY <1>4, <1>6
  <2>2. QED
    BY <1>1, <1>3, <1>4, <1>6, <2>1 DEF Ends
<1>7. QED
  BY <1>1, <1>3, <1>4, <1>5, <1>6

(* What the satellite has been sent, once it has taken the first k of it.   *)
LEMMA HeardOn ==
  ASSUME Heard, TypeInv, RowInv, node.conn \in listeners, loaded' = loaded, node'.conn = node.conn,
         NEW k \in {0, 1},
         \A i \in 1..Len(down'[node.conn]) :
           down'[node.conn][i] = down[node.conn][i + k] /\ i + k \in 1..Len(down[node.conn]),
         node'.media \in Nat, node'.media <= loaded,
         \A p \in node'.late : p <= loaded /\ (node'.sounding => p < node'.media),
         \A i \in 1..Len(down'[node.conn]) : down'[node.conn][i].op = "load" =>
           node'.media < down'[node.conn][i].pb /\ \A p \in node'.late : p < down'[node.conn][i].pb,
         \A i \in 1..Len(up'[node.conn]) :
           \/ i \in 1..Len(up[node.conn]) /\ up'[node.conn][i] = up[node.conn][i]
           \/ /\ up'[node.conn][i].pb <= loaded
              /\ \A j \in 1..Len(down'[node.conn]) :
                   down'[node.conn][j].op = "load" => up'[node.conn][i].pb < down'[node.conn][j].pb
  PROVE  Heard'
<1>1. \A i \in 1..Len(up'[node.conn]) : up'[node.conn][i].pb <= loaded
  BY DEF Heard
<1>2. ASSUME NEW i \in 1..Len(down'[node.conn]), down'[node.conn][i].op = "load"
      PROVE  /\ down'[node.conn][i].pb <= loaded /\ node'.media < down'[node.conn][i].pb
             /\ \A p \in node'.late : p < down'[node.conn][i].pb
             /\ \A j \in 1..Len(up'[node.conn]) : up'[node.conn][j].pb < down'[node.conn][i].pb
             /\ \A j \in 1..Len(down'[node.conn]) : j < i /\ down'[node.conn][j].op = "load" =>
                  down'[node.conn][j].pb < down'[node.conn][i].pb
  <2>1. i + k \in 1..Len(down[node.conn]) /\ down'[node.conn][i] = down[node.conn][i + k]
    OBVIOUS
  <2>2. /\ down[node.conn][i + k].pb <= loaded
        /\ \A j \in 1..Len(up[node.conn]) : up[node.conn][j].pb < down[node.conn][i + k].pb
        /\ \A j \in 1..Len(down[node.conn]) : j < i + k /\ down[node.conn][j].op = "load" =>
             down[node.conn][j].pb < down[node.conn][i + k].pb
    BY <1>2, <2>1 DEF Heard
  <2>3. \A j \in 1..Len(up'[node.conn]) : up'[node.conn][j].pb < down'[node.conn][i].pb
    BY <1>2, <2>1, <2>2
  <2>4. ASSUME NEW j \in 1..Len(down'[node.conn]), j < i, down'[node.conn][j].op = "load"
        PROVE  down'[node.conn][j].pb < down'[node.conn][i].pb
    <3>1. j + k \in 1..Len(down[node.conn]) /\ down'[node.conn][j] = down[node.conn][j + k]
      OBVIOUS
    <3>2. j + k < i + k
      BY <2>4
    <3>3. QED
      BY <2>1, <2>2, <2>4, <3>1, <3>2
  <2>5. QED
    BY <1>2, <2>1, <2>2, <2>3, <2>4
<1>3. QED
  BY <1>1, <1>2 DEF Heard

LEMMA LoadOn ==
  ASSUME LoadIsMeant, node'.conn = node.conn, UNCHANGED <<status, token, pending>>,
         Unread => Unread', NEW k \in {0, 1},
         \A i \in 1..Len(down'[node.conn]) :
           down'[node.conn][i] = down[node.conn][i + k] /\ i + k \in 1..Len(down[node.conn]),
         \A i \in 1..Len(down[node.conn]) :
           i > k => i - k \in 1..Len(down'[node.conn]) /\ down'[node.conn][i - k] = down[node.conn][i]
  PROVE  LoadIsMeant'
<1> SUFFICES ASSUME NEW i \in 1..Len(down'[node.conn]), down'[node.conn][i].op = "load",
                    \A j \in 1..Len(down'[node.conn]) : j > i => ~Tells(down'[node.conn][j]),
                    \A h \in Handlers : ~Tells(pending[h])
             PROVE  Unread \/ (status = "playing" /\ token = down'[node.conn][i].pb)
  BY DEF LoadIsMeant
<1>1. i + k \in 1..Len(down[node.conn]) /\ down'[node.conn][i] = down[node.conn][i + k]
  OBVIOUS
<1>2. ASSUME NEW j \in 1..Len(down[node.conn]), j > i + k PROVE ~Tells(down[node.conn][j])
  <2>1. j > k /\ j - k > i
    BY <1>2
  <2>2. j - k \in 1..Len(down'[node.conn]) /\ down'[node.conn][j - k] = down[node.conn][j]
    BY <2>1
  <2>3. QED
    BY <2>1, <2>2
<1>3. QED
  BY <1>1, <1>2 DEF LoadIsMeant

(* The satellite changes neither the row nor the core's side.               *)
LEMMA CoreSame ==
  ASSUME UNCHANGED <<rowVars, hubVars, session, step>>, disturbed \subseteq disturbed',
         node'.conn = node.conn
  PROVE  /\ UNCHANGED <<status, token, pending, loaded, listeners>>
         /\ InOrder' => InOrder /\ disturbed' = {}
         /\ Unread => Unread'
<1>1. UNCHANGED <<status, token, pending, published, loaded, listeners, step>>
  BY DEF rowVars, hubVars
<1>2. QED
  BY <1>1 DEF InOrder, Unread

LEMMA FirstTaken ==
  ASSUME TypeInv, node.conn \in Sessions, down[node.conn] # <<>>,
         down'[node.conn] = Tail(down[node.conn])
  PROVE  /\ Head(down[node.conn]) = down[node.conn][1] /\ 1 \in 1..Len(down[node.conn])
         /\ \A i \in 1..Len(down'[node.conn]) :
              down'[node.conn][i] = down[node.conn][i + 1] /\ i + 1 \in 1..Len(down[node.conn])
         /\ \A i \in 1..Len(down[node.conn]) :
              i > 1 => i - 1 \in 1..Len(down'[node.conn]) /\ down'[node.conn][i - 1] = down[node.conn][i]
<1>1. down[node.conn] \in Seq(DirectiveType)
  BY Types
<1>2. /\ Head(down[node.conn]) = down[node.conn][1] /\ 1 \in 1..Len(down[node.conn])
      /\ \A i \in 1..Len(Tail(down[node.conn])) :
           Tail(down[node.conn])[i] = down[node.conn][i + 1] /\ i + 1 \in 1..Len(down[node.conn])
      /\ \A i \in 1..Len(down[node.conn]) :
           \/ i = 1
           \/ i - 1 \in 1..Len(Tail(down[node.conn])) /\ Tail(down[node.conn])[i - 1] = down[node.conn][i]
  BY <1>1, TailFact
<1>3. QED
  BY <1>2

(* The satellite gives its playback up, by itself or as it was told, and    *)
(* names it.                                                                *)
LEMMA SilencedFollow ==
  ASSUME TypeInv, RowInv, LinkInv, FollowInv, node.conn \in Sessions,
         UNCHANGED <<rowVars, hubVars, session, step, disturbed>>,
         NEW e \in {"paused", "stopped", "completed", "failed"}, NEW media \in {0, node.media},
         Says(e, node.media, media, FALSE), NEW k \in {0, 1},
         \A i \in 1..Len(down'[node.conn]) :
           down'[node.conn][i] = down[node.conn][i + k] /\ i + k \in 1..Len(down[node.conn]),
         \A i \in 1..Len(down[node.conn]) :
           /\ i > k => i - k \in 1..Len(down'[node.conn]) /\ down'[node.conn][i - k] = down[node.conn][i]
           /\ down[node.conn][i].op = "load" => i > k
  PROVE  FollowInv'
<1> SUFFICES ASSUME InOrder'
             PROVE  Heard' /\ ReportsEnd' /\ RowIsHeard' /\ SoundIsMeant' /\ LoadIsMeant'
  BY FollowParts
<1>1. node'.conn = node.conn /\ node'.media = media /\ node'.sounding = FALSE
  BY DEF Says
<1>2. /\ UNCHANGED <<status, token, pending, loaded, listeners>> /\ InOrder
      /\ Unread => Unread'
  BY <1>1, CoreSame
<1>3. node.conn \in listeners
  BY <1>2 DEF InOrder
<1>4. Heard /\ ReportsEnd /\ RowIsHeard /\ SoundIsMeant /\ LoadIsMeant
  BY <1>2, FollowParts
<1>5. node.media \in 0..MaxPlaybacks /\ node.media \in Nat /\ media \in Nat /\ media <= node.media
  BY Types
<1>6. /\ \A i \in 1..Len(up'[node.conn]) :
           \/ i \in 1..Len(up[node.conn]) /\ up'[node.conn][i] = up[node.conn][i]
           \/ up'[node.conn][i].event = e /\ up'[node.conn][i].pb = node.media
      /\ \A j : Ends(j) => Ends(j)'
      /\ node.media = token => \A j \in 0..Len(up[node.conn]) : Ends(j)'
  <2>1. e \in {"ready", "playing", "paused", "stopped", "completed", "failed"} /\ e # "playing"
    OBVIOUS
  <2>2. token' = token
    BY <1>2
  <2>3. PICK sounding \in BOOLEAN : Says(e, node.media, media, sounding)
    OBVIOUS
  <2>4. ASSUME NEW i \in 1..Len(up'[node.conn])
        PROVE  \/ i \in 1..Len(up[node.conn]) /\ up'[node.conn][i] = up[node.conn][i]
               \/ up'[node.conn][i].event = e /\ up'[node.conn][i].pb = node.media
    <3>1. up[node.conn] \in Seq(ReportType) /\ Report(e, node.media) \in ReportType
          /\ Report(e, node.media).event = e /\ Report(e, node.media).pb = node.media
      BY <1>3, <1>5, <2>1, View, ReportIs
    <3>2. up'[node.conn] = Append(up[node.conn], Report(e, node.media))
      BY <2>3 DEF Says
    <3>3. i \in 1..Len(up[node.conn]) \/ i = Len(up[node.conn]) + 1
      BY <2>4, <3>1, <3>2, AppendFact
    <3>4. QED
      BY <2>4, <3>1, <3>2, <3>3, AppendFact
  <2>6. ASSUME NEW j, Ends(j) PROVE Ends(j)'
    BY <1>3, <1>5, <2>1, <2>2, <2>3, <2>6, Said
  <2>5. ASSUME node.media = token, NEW j \in 0..Len(up[node.conn]) PROVE Ends(j)'
    BY <1>3, <1>5, <2>1, <2>2, <2>3, <2>5, Said
  <2>7. QED
    BY <2>4, <2>5, <2>6
<1>7. ASSUME NEW i \in 1..Len(down'[node.conn]), down'[node.conn][i].op = "load"
      PROVE  /\ node.media < down'[node.conn][i].pb /\ media < down'[node.conn][i].pb
             /\ \A p \in node'.late : p < down'[node.conn][i].pb
  <2>1. i + k \in 1..Len(down[node.conn]) /\ down'[node.conn][i] = down[node.conn][i + k]
    OBVIOUS
  <2>2. /\ node.media < down[node.conn][i + k].pb
        /\ \A p \in node.late : p < down[node.conn][i + k].pb
    BY <1>4, <1>7, <2>1 DEF Heard
  <2>3. down[node.conn][i + k].pb \in Nat
    BY <1>3, <2>1, View
  <2>4. \A p \in node'.late : p < down'[node.conn][i].pb
    BY <2>1, <2>2 DEF Says
  <2>5. QED
    BY <1>5, <2>1, <2>2, <2>3, <2>4
<1>8. /\ node.media <= loaded /\ media <= loaded /\ loaded \in Nat
      /\ \A p \in node'.late : p <= loaded
  <2>1. \A p \in node.late : p <= loaded
    BY <1>4 DEF Heard
  <2>2. node.media <= loaded
    BY <1>4 DEF Heard
  <2>3. QED
    BY <1>5, <2>1, <2>2, Types DEF Says
<1>9. Heard'
  BY <1>1, <1>2, <1>3, <1>4, <1>5, <1>6, <1>7, <1>8, HeardOn
<1>10. Sounds => \A j \in 0..Len(up[node.conn]) : Ends(j)'
  BY <1>6 DEF Sounds
<1>11. ReportsEnd'
  <2> SUFFICES ASSUME token # 0, NEW i \in 1..Len(up'[node.conn]),
                      up'[node.conn][i].pb = token, up'[node.conn][i].event = "playing"
               PROVE  Ends(i)'
    BY <1>1, <1>2 DEF ReportsEnd
  <2>1. i \in 1..Len(up[node.conn]) /\ up'[node.conn][i] = up[node.conn][i]
    BY <1>6
  <2>2. Sounds \/ Ends(i)
    BY <1>4, <2>1 DEF ReportsEnd
  <2>3. i \in 0..Len(up[node.conn])
    BY <2>1
  <2>4. QED
    BY <1>6, <1>10, <2>2, <2>3
<1>12. RowIsHeard'
  <2> SUFFICES ASSUME status = "playing"
               PROVE  \/ Ends(0)' \/ Unread'
                      \/ \E i \in 1..Len(down'[node.conn]) :
                           down'[node.conn][i].op = "load" /\ down'[node.conn][i].pb = token
                      \/ \E h \in Handlers : pending[h].op = "load" /\ pending[h].pb = token
    BY <1>1, <1>2 DEF RowIsHeard
  <2>1. 0 \in 0..Len(up[node.conn])
    BY <1>3, View
  <2>2. Sounds \/ Ends(0) => Ends(0)'
    BY <1>6, <1>10, <2>1
  <2>3. ASSUME NEW i \in 1..Len(down[node.conn]),
               down[node.conn][i].op = "load" /\ down[node.conn][i].pb = token
        PROVE  \E j \in 1..Len(down'[node.conn]) :
                 down'[node.conn][j].op = "load" /\ down'[node.conn][j].pb = token
    <3>1. i - k \in 1..Len(down'[node.conn]) /\ down'[node.conn][i - k] = down[node.conn][i]
      BY <2>3
    <3>2. QED
      BY <2>3, <3>1
  <2>4. QED
    BY <1>2, <1>4, <2>2, <2>3 DEF RowIsHeard
<1>13. SoundIsMeant'
  BY <1>1 DEF SoundIsMeant
<1>14. LoadIsMeant'
  BY <1>1, <1>2, <1>4, LoadOn
<1>15. QED
  BY <1>9, <1>11, <1>12, <1>13, <1>14

LEMMA DecoderFollow ==
  ASSUME TypeInv, RowInv, LinkInv, FollowInv, Progress \/ Finish \/ Fail PROVE FollowInv'
<1>1. /\ node.conn \in Sessions /\ node.sounding
      /\ UNCHANGED <<rowVars, hubVars, session, step, down, disturbed>>
  BY DecoderIs
<1>2. Len(down[node.conn]) \in Nat
  BY <1>1, Types, Elements
<1>3. CASE Says("playing", node.media, node.media, TRUE) /\ node'.late = node.late
  <2> SUFFICES ASSUME InOrder'
               PROVE  Heard' /\ ReportsEnd' /\ RowIsHeard' /\ SoundIsMeant' /\ LoadIsMeant'
    BY FollowParts
  <2>1. /\ node'.conn = node.conn /\ node'.media = node.media /\ node'.sounding = TRUE
        /\ node'.late = node.late
    BY <1>3 DEF Says
  <2>2. /\ UNCHANGED <<status, token, pending, loaded, listeners>> /\ InOrder
        /\ Unread => Unread'
    BY <1>1, <2>1, CoreSame
  <2>3. node.conn \in listeners /\ node.media \in 0..MaxPlaybacks /\ node.media \in Nat
    BY <2>2, Types DEF InOrder
  <2>4. Heard /\ ReportsEnd /\ RowIsHeard /\ SoundIsMeant /\ LoadIsMeant
    BY <2>2, FollowParts
  <2>5. /\ \A i \in 1..Len(up'[node.conn]) :
             \/ i \in 1..Len(up[node.conn]) /\ up'[node.conn][i] = up[node.conn][i]
             \/ up'[node.conn][i].event = "playing" /\ up'[node.conn][i].pb = node.media
        /\ \A j : Ends(j) => Ends(j)'
    BY <1>3, <2>2, <2>3, Said
  <2>6. /\ \A i \in 1..Len(down'[node.conn]) :
             down'[node.conn][i] = down[node.conn][i + 0] /\ i + 0 \in 1..Len(down[node.conn])
        /\ \A i \in 1..Len(down[node.conn]) : i > 0 =>
             i - 0 \in 1..Len(down'[node.conn]) /\ down'[node.conn][i - 0] = down[node.conn][i]
    BY <1>1, <1>2
  <2>7. /\ node.media <= loaded
        /\ \A p \in node.late : p <= loaded /\ p < node.media
        /\ \A i \in 1..Len(down'[node.conn]) : down'[node.conn][i].op = "load" =>
             node.media < down'[node.conn][i].pb /\ \A p \in node.late : p < down'[node.conn][i].pb
    BY <1>1, <2>4 DEF Heard
  <2>8. Heard'
    <3>1. \A i \in 1..Len(up'[node.conn]) :
            \/ i \in 1..Len(up[node.conn]) /\ up'[node.conn][i] = up[node.conn][i]
            \/ /\ up'[node.conn][i].pb <= loaded
               /\ \A j \in 1..Len(down'[node.conn]) :
                    down'[node.conn][j].op = "load" => up'[node.conn][i].pb < down'[node.conn][j].pb
      BY <2>5, <2>7
    <3>2. QED
      BY <2>1, <2>2, <2>3, <2>4, <2>6, <2>7, <3>1, HeardOn
  <2>9. (Sounds => Sounds') /\ (node.media = token => Sounds')
    BY <2>1, <2>2 DEF Sounds
  <2>10. ReportsEnd'
    <3> SUFFICES ASSUME token # 0, NEW i \in 1..Len(up'[node.conn]),
                        up'[node.conn][i].pb = token, up'[node.conn][i].event = "playing"
                 PROVE  Sounds' \/ Ends(i)'
      BY <2>1, <2>2 DEF ReportsEnd
    <3>1. CASE i \in 1..Len(up[node.conn]) /\ up'[node.conn][i] = up[node.conn][i]
      <4>1. Sounds \/ Ends(i)
        BY <2>4, <3>1 DEF ReportsEnd
      <4>2. QED
        BY <2>5, <2>9, <4>1
    <3>2. CASE up'[node.conn][i].pb = node.media
      BY <2>9, <3>2
    <3>3. QED
      BY <2>5, <3>1, <3>2
  <2>11. RowIsHeard'
    <3>1. Ends(0) => Ends(0)'
      BY <2>5
    <3>2. QED
      BY <1>1, <2>1, <2>2, <2>4, <2>9, <3>1 DEF RowIsHeard
  <2>12. SoundIsMeant'
    <3>1. Coming => Coming'
      BY <1>1, <2>1, <2>2 DEF Coming
    <3>2. ASSUME \A i \in 1..Len(up[node.conn]) :
                   up[node.conn][i].pb = token => up[node.conn][i].event = "playing"
          PROVE  \A i \in 1..Len(up'[node.conn]) :
                   up'[node.conn][i].pb = token => up'[node.conn][i].event = "playing"
      BY <2>5, <3>2
    <3>3. QED
      BY <1>1, <2>1, <2>2, <2>4, <3>1, <3>2 DEF SoundIsMeant
  <2>13. LoadIsMeant'
    BY <2>1, <2>2, <2>4, <2>6, LoadOn
  <2>14. QED
    BY <2>8, <2>10, <2>11, <2>12, <2>13
<1>4. CASE \E e \in {"completed", "failed"}, media \in {0, node.media} :
             Says(e, node.media, media, FALSE)
  <2>1. PICK e \in {"completed", "failed"}, media \in {0, node.media} :
               Says(e, node.media, media, FALSE)
    BY <1>4
  <2>2. /\ \A i \in 1..Len(down'[node.conn]) :
             down'[node.conn][i] = down[node.conn][i + 0] /\ i + 0 \in 1..Len(down[node.conn])
        /\ \A i \in 1..Len(down[node.conn]) :
             /\ i > 0 => i - 0 \in 1..Len(down'[node.conn]) /\ down'[node.conn][i - 0] = down[node.conn][i]
             /\ down[node.conn][i].op = "load" => i > 0
    BY <1>1, <1>2
  <2>3. QED
    BY <1>1, <2>1, <2>2, SilencedFollow
<1>5. QED
  BY <1>3, <1>4, DecoderIs

LEMMA ObeyFollow ==
  ASSUME TypeInv, RowInv, LinkInv, FollowInv, Obey PROVE FollowInv'
<1> DEFINE d == Head(down[node.conn])
<1>1. /\ node.conn \in Sessions /\ down[node.conn] # <<>> /\ d \in DirectiveType
      /\ down'[node.conn] = Tail(down[node.conn])
      /\ UNCHANGED <<rowVars, hubVars, session, step, disturbed>>
  BY ObeyIs
<1>2. /\ d = down[node.conn][1] /\ 1 \in 1..Len(down[node.conn])
      /\ \A i \in 1..Len(down'[node.conn]) :
           down'[node.conn][i] = down[node.conn][i + 1] /\ i + 1 \in 1..Len(down[node.conn])
      /\ \A i \in 1..Len(down[node.conn]) :
           i > 1 => i - 1 \in 1..Len(down'[node.conn]) /\ down'[node.conn][i - 1] = down[node.conn][i]
  BY <1>1, FirstTaken
<1>3. d.pb \in 0..MaxPlaybacks /\ d.pb \in Nat
  BY <1>1, DirectiveFact
<1> HIDE DEF d
<1>4. d.op # "load" =>
        \A i \in 1..Len(down[node.conn]) : down[node.conn][i].op = "load" => i > 1
  BY <1>2
<1>5. CASE d.op \in {"pause", "stop"} /\ \E e \in {"paused", "stopped"} : Says(e, node.media, 0, FALSE)
  <2>1. PICK e \in {"paused", "stopped"} : Says(e, node.media, 0, FALSE)
    BY <1>5
  <2>2. QED
    BY <1>1, <1>2, <1>4, <1>5, <2>1, SilencedFollow
<1>6. CASE d.op = "volume" /\ UNCHANGED <<node, up>>
  <2> SUFFICES ASSUME InOrder'
               PROVE  Heard' /\ ReportsEnd' /\ RowIsHeard' /\ SoundIsMeant' /\ LoadIsMeant'
    BY FollowParts
  <2>1. node' = node /\ up' = up /\ node'.conn = node.conn
    BY <1>6
  <2>2. /\ UNCHANGED <<status, token, pending, loaded, listeners>> /\ InOrder
        /\ Unread => Unread'
    BY <1>1, <2>1, CoreSame
  <2>3. node.conn \in listeners /\ node.media \in Nat
    BY <2>2, Types DEF InOrder
  <2>4. Heard /\ ReportsEnd /\ RowIsHeard /\ SoundIsMeant /\ LoadIsMeant
    BY <2>2, FollowParts
  <2>5. Heard'
    <3>1. /\ node.media <= loaded
          /\ \A p \in node.late : p <= loaded /\ (node.sounding => p < node.media)
          /\ \A i \in 1..Len(down[node.conn]) : down[node.conn][i].op = "load" =>
               node.media < down[node.conn][i].pb /\ \A p \in node.late : p < down[node.conn][i].pb
      BY <2>4 DEF Heard
    <3>2. \A i \in 1..Len(down'[node.conn]) : down'[node.conn][i].op = "load" =>
            node.media < down'[node.conn][i].pb /\ \A p \in node.late : p < down'[node.conn][i].pb
      BY <1>2, <3>1
    <3>3. QED
      BY <1>2, <2>1, <2>2, <2>3, <2>4, <3>1, <3>2, HeardOn
  <2>6. ReportsEnd'
    BY <2>1, <2>2, <2>4 DEF ReportsEnd, Sounds, Ends
  <2>7. RowIsHeard'
    <3>1. (Sounds => Sounds') /\ (Ends(0) => Ends(0)')
      BY <2>1, <2>2 DEF Sounds, Ends
    <3>2. ASSUME NEW i \in 1..Len(down[node.conn]),
                 down[node.conn][i].op = "load" /\ down[node.conn][i].pb = token
          PROVE  \E j \in 1..Len(down'[node.conn]) :
                   down'[node.conn][j].op = "load" /\ down'[node.conn][j].pb = token
      <4>1. i - 1 \in 1..Len(down'[node.conn]) /\ down'[node.conn][i - 1] = down[node.conn][i]
        BY <1>2, <1>4, <1>6, <3>2
      <4>2. QED
        BY <3>2, <4>1
    <3>3. QED
      BY <2>1, <2>2, <2>4, <3>1, <3>2 DEF RowIsHeard
  <2>8. SoundIsMeant'
    <3>1. ~Tells(d)
      BY <1>6 DEF Tells
    <3>2. ASSUME NEW i \in 1..Len(down[node.conn]), Tells(down[node.conn][i]) PROVE Coming'
      <4>1. i > 1
        BY <1>2, <3>1, <3>2
      <4>2. i - 1 \in 1..Len(down'[node.conn]) /\ down'[node.conn][i - 1] = down[node.conn][i]
        BY <1>2, <4>1
      <4>3. QED
        BY <2>1, <3>2, <4>2 DEF Coming
    <3>3. Coming => Coming'
      BY <2>2, <3>2 DEF Coming
    <3>4. QED
      BY <2>1, <2>2, <2>4, <3>3 DEF SoundIsMeant
  <2>9. LoadIsMeant'
    BY <1>2, <2>1, <2>2, <2>4, LoadOn
  <2>10. QED
    BY <2>5, <2>6, <2>7, <2>8, <2>9
<1>7. CASE d.op = "load" /\ Says("playing", d.pb, d.pb, TRUE)
  <2> SUFFICES ASSUME InOrder'
               PROVE  Heard' /\ ReportsEnd' /\ RowIsHeard' /\ SoundIsMeant' /\ LoadIsMeant'
    BY FollowParts
  <2>1. node'.conn = node.conn /\ node'.media = d.pb /\ node'.sounding = TRUE
    BY <1>7 DEF Says
  <2>2. /\ UNCHANGED <<status, token, pending, loaded, listeners>> /\ InOrder
        /\ Unread => Unread'
    BY <1>1, <2>1, CoreSame
  <2>3. node.conn \in listeners
    BY <2>2 DEF InOrder
  <2>4. Heard /\ ReportsEnd /\ RowIsHeard /\ SoundIsMeant /\ LoadIsMeant
    BY <2>2, FollowParts
  <2>5. /\ \A i \in 1..Len(up'[node.conn]) :
             \/ i \in 1..Len(up[node.conn]) /\ up'[node.conn][i] = up[node.conn][i]
             \/ up'[node.conn][i].event = "playing" /\ up'[node.conn][i].pb = d.pb
        /\ \A j : Ends(j) => Ends(j)'
    BY <1>3, <1>7, <2>2, <2>3, Said
  <2>6. /\ d.pb <= loaded /\ node.media < d.pb
        /\ \A j \in 1..Len(up[node.conn]) : up[node.conn][j].pb < d.pb
    BY <1>2, <1>7, <2>4 DEF Heard
  <2>7. \A i \in 1..Len(down'[node.conn]) : down'[node.conn][i].op = "load" =>
          d.pb < down'[node.conn][i].pb /\ \A p \in node'.late : p < down'[node.conn][i].pb
    <3> SUFFICES ASSUME NEW i \in 1..Len(down'[node.conn]), down'[node.conn][i].op = "load"
                 PROVE  /\ d.pb < down'[node.conn][i].pb
                        /\ \A p \in node'.late : p < down'[node.conn][i].pb
      OBVIOUS
    <3>1. down'[node.conn][i] = down[node.conn][i + 1] /\ i + 1 \in 1..Len(down[node.conn]) /\ 1 < i + 1
      BY <1>2
    <3>2. d.pb < down'[node.conn][i].pb
      BY <1>2, <1>7, <2>4, <3>1 DEF Heard
    <3>3. \A p \in node.late \cup {node.media} : p < down'[node.conn][i].pb
      BY <2>4, <3>1 DEF Heard
    <3>4. QED
      BY <1>7, <3>2, <3>3 DEF Says
  <2>8. Heard'
    <3>1. \A i \in 1..Len(up'[node.conn]) :
            \/ i \in 1..Len(up[node.conn]) /\ up'[node.conn][i] = up[node.conn][i]
            \/ /\ up'[node.conn][i].pb <= loaded
               /\ \A j \in 1..Len(down'[node.conn]) :
                    down'[node.conn][j].op = "load" => up'[node.conn][i].pb < down'[node.conn][j].pb
      BY <2>5, <2>6, <2>7
    <3>2. \A p \in node'.late : p <= loaded /\ (node'.sounding => p < node'.media)
      <4>1. \A p \in node.late \cup {node.media} : p <= loaded /\ p < d.pb
        BY <1>2, <1>7, <2>4 DEF Heard
      <4>2. QED
        BY <1>7, <2>1, <4>1 DEF Says
    <3>3. QED
      BY <1>2, <1>3, <2>1, <2>2, <2>3, <2>4, <2>6, <2>7, <3>1, <3>2, HeardOn
  <2>9. ~(Sounds /\ token # 0)
    <3>1. /\ token # 0 => token = tokens
          /\ loaded <= tokens /\ tokens \in Nat /\ loaded \in Nat /\ node.media \in Nat
      BY <2>3, View
    <3>2. QED
      BY <1>3, <2>6, <3>1 DEF Sounds
  <2>10. d.pb = token => Sounds'
    BY <2>1, <2>2 DEF Sounds
  <2>11. ReportsEnd'
    <3> SUFFICES ASSUME token # 0, NEW i \in 1..Len(up'[node.conn]),
                        up'[node.conn][i].pb = token, up'[node.conn][i].event = "playing"
                 PROVE  Sounds' \/ Ends(i)'
      BY <2>1, <2>2 DEF ReportsEnd
    <3>1. CASE i \in 1..Len(up[node.conn]) /\ up'[node.conn][i] = up[node.conn][i]
      <4>1. Sounds \/ Ends(i)
        BY <2>4, <3>1 DEF ReportsEnd
      <4>2. QED
        BY <2>5, <2>9, <4>1
    <3>2. CASE up'[node.conn][i].pb = d.pb
      BY <2>10, <3>2
    <3>3. QED
      BY <2>5, <3>1, <3>2
  <2>12. RowIsHeard'
    <3> SUFFICES ASSUME status = "playing"
                 PROVE  \/ Sounds' \/ Ends(0)' \/ Unread'
                        \/ \E i \in 1..Len(down'[node.conn]) :
                             down'[node.conn][i].op = "load" /\ down'[node.conn][i].pb = token
                        \/ \E h \in Handlers : pending[h].op = "load" /\ pending[h].pb = token
      BY <2>1, <2>2 DEF RowIsHeard
    <3>1. ~Sounds
      BY <2>3, <2>9, View
    <3>2. Ends(0) => Ends(0)'
      BY <2>5
    <3>3. ASSUME NEW i \in 1..Len(down[node.conn]),
                 down[node.conn][i].op = "load" /\ down[node.conn][i].pb = token
          PROVE  \/ Sounds'
                 \/ \E j \in 1..Len(down'[node.conn]) :
                      down'[node.conn][j].op = "load" /\ down'[node.conn][j].pb = token
      <4>1. CASE i = 1
        BY <1>2, <2>10, <3>3, <4>1
      <4>2. CASE i > 1
        <5>1. i - 1 \in 1..Len(down'[node.conn]) /\ down'[node.conn][i - 1] = down[node.conn][i]
          BY <1>2, <4>2
        <5>2. QED
          BY <3>3, <5>1
      <4>3. QED
        BY <4>1, <4>2
    <3>4. QED
      BY <2>2, <2>4, <3>1, <3>2, <3>3 DEF RowIsHeard
  <2>13. SoundIsMeant'
    <3> SUFFICES ASSUME ~Coming', ~Unread'
                 PROVE  /\ status = "playing" /\ d.pb = token
                        /\ \A i \in 1..Len(up'[node.conn]) :
                             up'[node.conn][i].pb = token => up'[node.conn][i].event = "playing"
      BY <2>1, <2>2 DEF SoundIsMeant
    <3>1. \A h \in Handlers : ~Tells(pending[h])
      BY <2>2 DEF Coming
    <3>2. ASSUME NEW j \in 1..Len(down[node.conn]), j > 1 PROVE ~Tells(down[node.conn][j])
      <4>1. j - 1 \in 1..Len(down'[node.conn]) /\ down'[node.conn][j - 1] = down[node.conn][j]
        BY <1>2, <3>2
      <4>2. QED
        BY <2>1, <4>1 DEF Coming
    <3>3. status = "playing" /\ token = d.pb
      BY <1>2, <1>7, <2>2, <2>4, <3>1, <3>2 DEF LoadIsMeant
    <3>4. \A i \in 1..Len(up[node.conn]) : up[node.conn][i].pb # token
      <4>1. \A i \in 1..Len(up[node.conn]) : up[node.conn][i].pb \in Nat
        BY <2>3, View
      <4>2. QED
        BY <1>3, <2>6, <3>3, <4>1
    <3>5. QED
      BY <2>5, <3>3, <3>4
  <2>14. LoadIsMeant'
    BY <1>2, <2>1, <2>2, <2>4, LoadOn
  <2>15. QED
    BY <2>8, <2>11, <2>12, <2>13, <2>14
<1>8. QED
  BY <1>5, <1>6, <1>7, ObeyIs DEF d

(* A playback that was given up is not the one that sounds, and the row does*)
(* not take its position for news unless that is named.                     *)
LEMMA LateFollow ==
  ASSUME TypeInv, RowInv, LinkInv, FollowInv, NEW pb \in node.late, LateReport(pb) PROVE FollowInv'
<1> SUFFICES ASSUME InOrder'
             PROVE  Heard' /\ ReportsEnd' /\ RowIsHeard' /\ SoundIsMeant' /\ LoadIsMeant'
  BY FollowParts
<1>1. /\ node.conn \in Sessions /\ pb \in 0..MaxPlaybacks /\ pb \in Nat
      /\ UNCHANGED <<rowVars, hubVars, session, step, down>>
      /\ disturbed \subseteq disturbed' /\ node'.late \subseteq node.late
  BY LateIs
<1>2. PICK e \in {"playing", "completed", "failed"} :
        /\ Says(e, pb, node.media, node.sounding)
        /\ e = "playing" /\ pb = token => disturbed' # {}
  BY LateIs
<1>3. node'.conn = node.conn /\ node'.media = node.media /\ node'.sounding = node.sounding
  BY <1>2 DEF Says
<1>4. /\ UNCHANGED <<status, token, pending, loaded, listeners>> /\ InOrder /\ disturbed' = {}
      /\ Unread => Unread'
  BY <1>1, <1>3, CoreSame
<1>5. node.conn \in listeners /\ Len(down[node.conn]) \in Nat
  BY <1>1, <1>4, Types, Elements DEF InOrder
<1>6. Heard /\ ReportsEnd /\ RowIsHeard /\ SoundIsMeant /\ LoadIsMeant
  BY <1>4, FollowParts
<1>7. e = "playing" => pb # token
  BY <1>2, <1>4
<1>8. /\ \A i \in 1..Len(up'[node.conn]) :
           \/ i \in 1..Len(up[node.conn]) /\ up'[node.conn][i] = up[node.conn][i]
           \/ up'[node.conn][i].event = e /\ up'[node.conn][i].pb = pb
      /\ \A j : Ends(j) => Ends(j)'
  BY <1>1, <1>2, <1>4, <1>5, Said
<1>9. /\ \A i \in 1..Len(down'[node.conn]) :
           down'[node.conn][i] = down[node.conn][i + 0] /\ i + 0 \in 1..Len(down[node.conn])
      /\ \A i \in 1..Len(down[node.conn]) : i > 0 =>
           i - 0 \in 1..Len(down'[node.conn]) /\ down'[node.conn][i - 0] = down[node.conn][i]
  BY <1>1, <1>5
<1>10. /\ node.media <= loaded /\ node.media \in Nat /\ pb <= loaded
       /\ \A p \in node.late : p <= loaded /\ (node.sounding => p < node.media)
       /\ \A i \in 1..Len(down[node.conn]) : down[node.conn][i].op = "load" =>
            node.media < down[node.conn][i].pb /\ \A p \in node.late : p < down[node.conn][i].pb
  BY <1>6, Types DEF Heard
<1>11. Heard'
  <2>1. \A i \in 1..Len(up'[node.conn]) :
          \/ i \in 1..Len(up[node.conn]) /\ up'[node.conn][i] = up[node.conn][i]
          \/ /\ up'[node.conn][i].pb <= loaded
             /\ \A j \in 1..Len(down'[node.conn]) :
                  down'[node.conn][j].op = "load" => up'[node.conn][i].pb < down'[node.conn][j].pb
    BY <1>1, <1>8, <1>10
  <2>2. /\ \A p \in node'.late : p <= loaded /\ (node'.sounding => p < node'.media)
        /\ \A i \in 1..Len(down'[node.conn]) : down'[node.conn][i].op = "load" =>
             node'.media < down'[node.conn][i].pb /\ \A p \in node'.late : p < down'[node.conn][i].pb
    BY <1>1, <1>3, <1>10
  <2>3. QED
    BY <1>3, <1>4, <1>5, <1>6, <1>9, <1>10, <2>1, <2>2, HeardOn
<1>12. Sounds <=> Sounds'
  BY <1>3, <1>4 DEF Sounds
<1>13. ReportsEnd'
  <2> SUFFICES ASSUME token # 0, NEW i \in 1..Len(up'[node.conn]),
                      up'[node.conn][i].pb = token, up'[node.conn][i].event = "playing"
               PROVE  Sounds' \/ Ends(i)'
    BY <1>3, <1>4 DEF ReportsEnd
  <2>1. i \in 1..Len(up[node.conn]) /\ up'[node.conn][i] = up[node.conn][i]
    BY <1>7, <1>8
  <2>2. Sounds \/ Ends(i)
    BY <1>6, <2>1 DEF ReportsEnd
  <2>3. QED
    BY <1>8, <1>12, <2>2
<1>14. RowIsHeard'
  <2>1. Ends(0) => Ends(0)'
    BY <1>8
  <2>2. QED
    BY <1>1, <1>3, <1>4, <1>6, <1>12, <2>1 DEF RowIsHeard
<1>15. SoundIsMeant'
  <2>1. Coming => Coming'
    BY <1>1, <1>3, <1>4 DEF Coming
  <2>2. node.sounding /\ node.media = token => pb # token
    BY <1>1, <1>10
  <2>3. ASSUME node.sounding, node.media = token,
               \A i \in 1..Len(up[node.conn]) :
                 up[node.conn][i].pb = token => up[node.conn][i].event = "playing"
        PROVE  \A i \in 1..Len(up'[node.conn]) :
                 up'[node.conn][i].pb = token => up'[node.conn][i].event = "playing"
    BY <1>8, <2>2, <2>3
  <2>4. QED
    BY <1>1, <1>3, <1>4, <1>6, <2>1, <2>3 DEF SoundIsMeant
<1>16. LoadIsMeant'
  BY <1>3, <1>4, <1>6, <1>9, LoadOn
<1>17. QED
  BY <1>11, <1>13, <1>14, <1>15, <1>16

LEMMA FollowInit == Init => FollowInv
BY DEF Init, FollowInv, InOrder

LEMMA FollowStep ==
  ASSUME TypeInv, RowInv, LinkInv, FollowInv, [Next]_vars PROVE FollowInv'
<1>1. CASE UNCHANGED vars
  <2>1. UNCHANGED <<status, token, loaded, listeners, published, pending, step, down, up, node, disturbed>>
    BY <1>1 DEF vars, rowVars, hubVars, linkVars
  <2>2. (InOrder' => InOrder) /\ (Unread => Unread')
    BY <2>1 DEF InOrder, Unread
  <2>3. QED
    BY <2>1, <2>2, FollowFrame
<1>2. QED
  BY <1>1, CommandFollow, PublishFollow, ReceiveFollow, AttachFollow, ReconcileFollow, ForgetFollow,
     AwayFollow, DecoderFollow, LateFollow, ObeyFollow
  DEF Next, Core, Satellite

-----------------------------------------------------------------------------
(* The theorems *)

JukeboxInv == TypeInv /\ RowInv /\ LinkInv /\ FollowInv

(* The inductive invariant: what the row and the hub hold, who may speak,   *)
(* and what is on its way between the row and its output agree.             *)
THEOREM Invariance == Init /\ [][Next]_vars => []JukeboxInv
<1>1. Init => JukeboxInv
  BY TypeInit, RowInit, LinkInit, FollowInit DEF JukeboxInv
<1>2. JukeboxInv /\ [Next]_vars => JukeboxInv'
  <2> SUFFICES ASSUME JukeboxInv, [Next]_vars PROVE JukeboxInv'
    OBVIOUS
  <2>1. TypeInv /\ RowInv /\ LinkInv /\ FollowInv
    BY DEF JukeboxInv
  <2>2. TypeInv'
    BY <2>1, TypeStep
  <2>3. RowInv'
    BY <2>1, RowStep
  <2>4. LinkInv'
    BY <2>1, LinkStep
  <2>5. FollowInv'
    BY <2>1, FollowStep
  <2>6. QED
    BY <2>2, <2>3, <2>4, <2>5 DEF JukeboxInv
<1>3. QED
  BY <1>1, <1>2, PTL

(* Every table, list and message of the row, the hub, the links and the     *)
(* satellite keeps its shape (handlers/mod.rs, server/tcp.rs, satellite.rs).*)
THEOREM TypeCorrect == Spec => []TypeOK
<1>1. JukeboxInv => TypeOK
  BY DEF JukeboxInv, TypeInv
<1>2. QED
  BY <1>1, Invariance, PTL DEF Spec

(* At rest nothing is left to be told: what sounds is what the row plays.   *)
LEMMA RestAgrees ==
    ASSUME JukeboxInv, Quiet, disturbed = {}
    PROVE  Agree
<1>1. TypeInv /\ RowInv /\ LinkInv /\ FollowInv
  BY DEF JukeboxInv
<1>2. /\ node.conn \in listeners /\ step[node.conn] = "ready"
      /\ Len(down[node.conn]) = 0 /\ Len(up[node.conn]) = 0
      /\ \A h \in Handlers : pending[h] = Nothing
  BY <1>1, Empty DEF Quiet
<1>3. InOrder
  BY <1>1, <1>2 DEF InOrder
<1>4. RowIsHeard /\ SoundIsMeant
  BY <1>1, <1>3, FollowParts
<1>5. /\ ~Unread /\ ~Ends(0) /\ ~Coming
      /\ ~\E h \in Handlers : pending[h].op = "load" /\ pending[h].pb = token
  BY <1>2, NothingFact DEF Unread, Ends, Coming
<1>6. status = "playing" => Sounds
  BY <1>2, <1>4, <1>5 DEF RowIsHeard
<1>7. node.sounding => status = "playing" /\ node.media = token
  BY <1>4, <1>5 DEF SoundIsMeant
<1>8. QED
  BY <1>6, <1>7 DEF Agree, Sounds

(* Once nothing is on its way, the satellite does what the row says, unless *)
(* two publications changed places, the session was never reconciled, a     *)
(* report was dropped, or a decoder told its position after the pause it    *)
(* missed (handlers/mod.rs: publish_player_transition,                      *)
(* reconcile_player_output, record_node_report; satellite.rs).              *)
THEOREM OutputFollows == Spec => []OutputFollowsRow
<1>1. JukeboxInv => OutputFollowsRow
  BY RestAgrees DEF OutputFollowsRow
<1>2. QED
  BY <1>1, Invariance, PTL DEF Spec
=============================================================================
