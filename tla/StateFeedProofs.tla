--------------------------- MODULE StateFeedProofs ---------------------------
(***************************************************************************)
(* Theorems about StateFeed, for every set of clients and of writers, and  *)
(* any number of transitions, requests and removals.                       *)
(***************************************************************************)
EXTENDS StateFeed, TLAPS

USE StateFeedAssumption

-----------------------------------------------------------------------------
(* The inductive invariant *)

(* What can be published: a frame, and not None.                            *)
Sent == {f \in FrameType : f.known}
PlayerType == [kind : {"share", "device"}, there : BOOLEAN, removals : 0..MaxRemovals]
TaskType == {t \in [op : {"idle", "attach", "row", "queue"}, seen : FrameType] :
               t.op \in {"attach", "queue"} => t.seen \in Sent}
Ops == {"subscribe", "unsubscribe", "control", "fetch"}
ClientType == [up : BOOLEAN, watching : BOOLEAN, cache : Sent \cup {None}]

(* A client without a connection has nothing on the wires, no subscription  *)
(* and no request being worked on; a handler that works on a request has    *)
(* nothing to publish.                                                      *)
Apart ==
    /\ \A c \in Clients : ~client[c].up =>
          /\ c \notin subs /\ task[c].op = "idle"
          /\ mailbox[c] = <<>> /\ socket[c] = <<>> /\ requests[c] = <<>>
    /\ \A h \in Handlers : task[h].op # "idle" => pending[h] = None

TypeInv ==
    /\ player \in PlayerType
    /\ row \in Sent
    /\ pending \in [Handlers -> Sent \cup {None}]
    /\ task \in [Handlers -> TaskType]
    /\ subs \subseteq Clients
    /\ missed \subseteq Clients \X Losses
    /\ mailbox \in [Clients -> Seq(Sent)]
    /\ socket \in [Clients -> Seq(Sent)]
    /\ requests \in [Clients -> Seq(Ops)]
    /\ client \in [Clients -> ClientType]
    /\ Apart

(* Unless a share was removed, revisions only grow, and a frame with the    *)
(* row's revision is the row.                                               *)
Fresh == player.kind = "device" \/ player.removals = 0
Past(f, r) == f.known => f.rev <= r.rev /\ (f.rev = r.rev => f.queue = r.queue)

AllPast(s, r) == \A i \in 1..Len(s) : Past(s[i], r)

FramesPast ==
    /\ \A h \in Handlers : Past(pending[h], row) /\ Past(task[h].seen, row)
    /\ \A c \in Clients :
          /\ AllPast(mailbox[c], row) /\ AllPast(socket[c], row)
          /\ Past(client[c].cache, row)

FrameInv == Fresh => FramesPast

(* The current state is shown, or on its way to a subscribed client.        *)
Current(f, r) == f.known /\ f.rev = r.rev
Carries(s, r) == \E i \in 1..Len(s) : Current(s[i], r)
Covered(c) ==
    \/ Current(client[c].cache, row)
    \/ Carries(socket[c], row) \/ Carries(mailbox[c], row)
    \/ \E h \in Handlers : Current(pending[h], row)
    \/ task[c].op = "row"
    \/ task[c].op = "queue" /\ Current(task[c].seen, row)

Subscribes(s) == \E i \in 1..Len(s) : s[i] = "subscribe"
EndsSubscribed(s) ==
    \A i \in 1..Len(s) : s[i] = "unsubscribe" =>
       \E j \in 1..Len(s) : j > i /\ s[j] = "subscribe"

(* A client that watches, and missed nothing, is subscribed or about to be. *)
Reached(c) ==
    \/ Missed(c) \/ Subscribes(requests[c])
    \/ player.there /\ (task[c].op = "attach" \/ (c \in subs /\ Covered(c)))

Served(c) ==
    client[c].up /\ client[c].watching => EndsSubscribed(requests[c]) /\ Reached(c)

ServeInv ==
    /\ ~Fresh => \A c \in Clients : Missed(c)
    /\ \A c \in Clients : Served(c)

-----------------------------------------------------------------------------
(* Sequences of frames and of requests *)

LEMMA AppendFact ==
    ASSUME NEW S, NEW s \in Seq(S), NEW x \in S
    PROVE  /\ Append(s, x) \in Seq(S) /\ Len(s) \in Nat
           /\ Len(Append(s, x)) = Len(s) + 1
           /\ \A i \in 1..Len(s) : Append(s, x)[i] = s[i]
           /\ Append(s, x)[Len(s) + 1] = x
OBVIOUS

LEMMA TailFact ==
    ASSUME NEW S, NEW s \in Seq(S), s # <<>>
    PROVE  /\ Tail(s) \in Seq(S) /\ Len(s) \in Nat \ {0}
           /\ Len(Tail(s)) = Len(s) - 1
           /\ \A i \in 1..Len(Tail(s)) : Tail(s)[i] = s[i + 1]
           /\ Head(s) = s[1] /\ Head(s) \in S
OBVIOUS

-----------------------------------------------------------------------------
(* Type correctness *)

LEMMA Bounds == {MaxRevision, MaxRequests, MaxFrames, MaxRemovals} \subseteq Nat
BY StateFeedAssumption

LEMMA Frames ==
    /\ None \in FrameType /\ None.known = FALSE /\ None \notin Sent
    /\ Sent \subseteq FrameType
    /\ \A r, q \in 0..MaxRevision :
          /\ Frame(r, q) \in Sent
          /\ Frame(r, q).rev = r /\ Frame(r, q).queue = q /\ Frame(r, q).known
    /\ Idle \in TaskType /\ Idle.op = "idle"
    /\ \A f \in FrameType : [op |-> "row", seen |-> f] \in TaskType
    /\ \A f \in Sent : /\ [op |-> "attach", seen |-> f] \in TaskType
                       /\ [op |-> "queue", seen |-> f] \in TaskType
BY Bounds DEF None, FrameType, Sent, Frame, Idle, TaskType

LEMMA TypeInit == Init => TypeInv
<1> SUFFICES ASSUME Init PROVE TypeInv
    OBVIOUS
<1>1. row \in Sent
    BY Frames DEF Init
<1>2. task \in [Handlers -> TaskType] /\ \A h \in Handlers : task[h].op = "idle"
    BY Frames DEF Init
<1>3. client \in [Clients -> ClientType] /\ \A c \in Clients : client[c].up
    BY Frames DEF Init, ClientType
<1>4. player \in PlayerType
    <2>1. 0 \in 0..MaxRemovals
        BY Bounds
    <2>2. QED
        BY <2>1 DEF Init, PlayerType
<1>5. pending \in [Handlers -> Sent \cup {None}] /\ subs \subseteq Clients
      /\ missed \subseteq Clients \X Losses
    BY DEF Init
<1>6. /\ mailbox \in [Clients -> Seq(Sent)] /\ socket \in [Clients -> Seq(Sent)]
      /\ requests \in [Clients -> Seq(Ops)]
    BY DEF Init
<1>7. Apart
    BY <1>2, <1>3 DEF Init, Apart
<1>8. QED
    BY <1>1, <1>2, <1>3, <1>4, <1>5, <1>6, <1>7 DEF TypeInv

LEMMA TransitionFact ==
    ASSUME TypeInv, NEW h \in Handlers, Transition(h)
    PROVE  /\ player.there /\ row' \in Sent /\ row'.rev = row.rev + 1
           /\ pending' = [pending EXCEPT ![h] = row']
           /\ row.rev \in Nat
<1>1. /\ row.rev \in 0..MaxRevision /\ row.queue \in 0..MaxRevision /\ row.rev < MaxRevision
    BY DEF TypeInv, Sent, FrameType, Transition
<1>2. PICK queue \in {row.queue, row.rev + 1} : row' = Frame(row.rev + 1, queue)
    BY DEF Transition
<1>3. row.rev + 1 \in 0..MaxRevision /\ queue \in 0..MaxRevision
    BY <1>1, <1>2
<1>4. QED
    BY <1>1, <1>2, <1>3, Frames DEF Transition

LEMMA TypeStep == TypeInv /\ [Next]_vars => TypeInv'
<1> SUFFICES ASSUME TypeInv, [Next]_vars PROVE TypeInv'
    OBVIOUS
<1>0. /\ Clients \subseteq Handlers /\ Writers \subseteq Handlers
      /\ Sent \subseteq FrameType /\ None \in FrameType
    BY Frames DEF Handlers
<1> USE DEF TypeInv, Apart
<1>1. ASSUME NEW w \in Writers, Write(w) PROVE TypeInv'
    <2>1. w \in Handlers /\ task[w].op = "idle" /\ Transition(w)
        BY <1>0, <1>1, Frames DEF Write
    <2>2. row' \in Sent /\ pending' = [pending EXCEPT ![w] = row']
        BY <2>1, TransitionFact
    <2>3. QED
        BY <1>0, <1>1, <2>1, <2>2 DEF Write, wires
<1>2. ASSUME NEW w \in Writers, Look(w) PROVE TypeInv'
    <2>1. task' \in [Handlers -> TaskType]
        BY <1>0, <1>2, Frames DEF Look
    <2>2. QED
        BY <1>0, <1>2, <2>1 DEF Look, wires
<1>3. ASSUME NEW h \in Handlers, Publish(h) PROVE TypeInv'
    <2>1. pending[h] \in Sent
        BY <1>3 DEF Publish
    <2>2. \A c \in Clients : Append(mailbox[c], pending[h]) \in Seq(Sent)
        BY <2>1, AppendFact
    <2>3. mailbox' \in [Clients -> Seq(Sent)]
        BY <1>3, <2>2 DEF Publish
    <2>4. socket' \in [Clients -> Seq(Sent)]
        BY <1>3, <2>1, AppendFact DEF Publish
    <2>5. /\ \A c \in Clients : ~client[c].up => mailbox'[c] = mailbox[c] /\ socket'[c] = socket[c]
        BY <1>3 DEF Publish
    <2>6. pending' \in [Handlers -> Sent \cup {None}]
        BY <1>3 DEF Publish
    <2>7. \A g \in Handlers : pending'[g] = None \/ pending'[g] = pending[g]
        BY <1>3 DEF Publish
    <2>8. QED
        BY <1>3, <2>3, <2>4, <2>5, <2>6, <2>7 DEF Publish
<1>4. ASSUME NEW h \in Handlers, ReadRow(h) PROVE TypeInv'
    <2>0. [op |-> "queue", seen |-> row] \in TaskType /\ Idle \in TaskType
        BY Frames
    <2>1. task' \in [Handlers -> TaskType]
        BY <1>4, <2>0 DEF ReadRow
    <2>2. \A g \in Handlers : task'[g].op # "idle" => task[g].op # "idle"
        BY <1>4, Frames DEF ReadRow
    <2>3. task[h].seen.known => task[h].seen \in Sent
        BY DEF TaskType, Sent
    <2>4. socket' \in [Clients -> Seq(Sent)]
        <3>1. task[h].seen \in Sent => \A c \in Clients : Append(socket[c], task[h].seen) \in Seq(Sent)
            BY AppendFact
        <3>2. QED
            BY <1>4, <2>3, <3>1 DEF ReadRow
    <2>5. \A c \in Clients : ~client[c].up => socket'[c] = socket[c]
        BY <1>4, <1>0 DEF ReadRow
    <2>6. QED
        BY <1>4, <1>0, <2>1, <2>2, <2>4, <2>5 DEF ReadRow
<1>5. ASSUME NEW h \in Handlers, ReadQueue(h) PROVE TypeInv'
    <2>1. task' \in [Handlers -> TaskType]
        BY <1>5, Frames DEF ReadQueue
    <2>2. \A g \in Handlers : task'[g].op # "idle" => task[g].op # "idle" /\ g # h
        BY <1>5, Frames DEF ReadQueue
    <2>3. task[h].seen.rev \in 0..MaxRevision /\ row.queue \in 0..MaxRevision
        BY <1>5 DEF ReadQueue, TaskType, Sent, FrameType
    <2>4. Frame(task[h].seen.rev, row.queue) \in Sent
        BY <2>3, Frames
    <2>5. socket' \in [Clients -> Seq(Sent)]
        <3>1. \A c \in Clients : Append(socket[c], Frame(task[h].seen.rev, row.queue)) \in Seq(Sent)
            BY <2>4, AppendFact
        <3>2. QED
            BY <1>5, <3>1 DEF ReadQueue
    <2>6. /\ \A c \in Clients : ~client[c].up => socket'[c] = socket[c]
          /\ \A g \in Handlers : g # h => pending'[g] = pending[g]
          /\ pending' \in [Handlers -> Sent \cup {None}]
        BY <1>5, <1>0, <2>4 DEF ReadQueue
    <2>7. QED
        BY <1>5, <1>0, <2>1, <2>2, <2>5, <2>6 DEF ReadQueue
<1>6. ASSUME NEW c \in Clients, TakeSubscribe(c) PROVE TypeInv'
    <2>0. [op |-> "attach", seen |-> row] \in TaskType
        BY Frames
    <2>1. task' \in [Handlers -> TaskType]
        BY <1>6, <1>0, <2>0 DEF TakeSubscribe
    <2>2. requests' \in [Clients -> Seq(Ops)]
        BY <1>6, TailFact DEF TakeSubscribe, Take
    <2>3. missed' \subseteq Clients \X Losses
        BY <1>6 DEF TakeSubscribe, Losses
    <2>4. QED
        BY <1>6, <1>0, <2>1, <2>2, <2>3 DEF TakeSubscribe, Take
<1>7. ASSUME NEW c \in Clients, Attach(c) PROVE TypeInv'
    <2>0. [task[c] EXCEPT !.op = "row"] \in TaskType
        BY <1>0 DEF TaskType
    <2>1. task' \in [Handlers -> TaskType]
        BY <1>7, <1>0, <2>0 DEF Attach
    <2>2. client[c].up
        BY <1>7 DEF Attach
    <2>3. \A h \in Handlers : task'[h].op # "idle" => task[h].op # "idle"
        BY <1>7 DEF Attach
    <2>4. QED
        BY <1>7, <1>0, <2>1, <2>2, <2>3 DEF Attach, wires
<1>8. ASSUME NEW c \in Clients, TakeUnsubscribe(c) PROVE TypeInv'
    <2>1. requests' \in [Clients -> Seq(Ops)]
        BY <1>8, TailFact DEF TakeUnsubscribe, Take
    <2>2. QED
        BY <1>8, <1>0, <2>1 DEF TakeUnsubscribe, Take
<1>9. ASSUME NEW c \in Clients, TakeControl(c) PROVE TypeInv'
    <2>1. requests' \in [Clients -> Seq(Ops)]
        BY <1>9, TailFact DEF TakeControl, Take
    <2>2. row' \in Sent /\ pending' \in [Handlers -> Sent \cup {None}]
        BY <1>9, <1>0, TransitionFact DEF TakeControl
    <2>3. \A h \in Handlers : h # c => pending'[h] = pending[h]
        BY <1>9, <1>0, TransitionFact DEF TakeControl
    <2>4. task[c].op = "idle"
        BY <1>9, Frames DEF TakeControl, Take
    <2>5. QED
        BY <1>9, <1>0, <2>1, <2>2, <2>3, <2>4 DEF TakeControl, Take
<1>10. ASSUME NEW c \in Clients, TakeFetch(c) PROVE TypeInv'
    <2>1. requests' \in [Clients -> Seq(Ops)]
        BY <1>10, TailFact DEF TakeFetch, Take
    <2>2. task' \in [Handlers -> TaskType]
        BY <1>10, <1>0, Frames DEF TakeFetch
    <2>3. QED
        BY <1>10, <1>0, <2>1, <2>2 DEF TakeFetch, Take
<1>11. ASSUME NEW c \in Clients, Drain(c) PROVE TypeInv'
    <2>1. mailbox' \in [Clients -> Seq(Sent)]
        BY <1>11, TailFact DEF Drain
    <2>2. Head(mailbox[c]) \in Sent
        BY <1>11, TailFact DEF Drain
    <2>3. socket' \in [Clients -> Seq(Sent)]
        BY <1>11, <2>2, AppendFact DEF Drain
    <2>4. QED
        BY <1>11, <1>0, <2>1, <2>3 DEF Drain
<1>12. ASSUME NEW c \in Clients, Watch(c) PROVE TypeInv'
    <2>1. client' \in [Clients -> ClientType]
        BY <1>12 DEF Watch, ClientType
    <2>2. requests' \in [Clients -> Seq(Ops)]
        <3>1. Append(requests[c], "subscribe") \in Seq(Ops)
            BY AppendFact DEF Ops
        <3>2. QED
            BY <1>12, <3>1 DEF Watch, Ask
    <2>3. \A d \in Clients : client'[d].up = client[d].up
        BY <1>12 DEF Watch, ClientType
    <2>4. \A d \in Clients : ~client[d].up => requests'[d] = requests[d]
        BY <1>12 DEF Watch, Ask, MayAsk
    <2>5. QED
        BY <1>12, <1>0, <2>1, <2>2, <2>3, <2>4 DEF Watch
<1>13. ASSUME NEW c \in Clients, Release(c) PROVE TypeInv'
    <2>1. client' \in [Clients -> ClientType]
        BY <1>13, <1>0 DEF Release, ClientType
    <2>2. requests' \in [Clients -> Seq(Ops)]
        <3>1. Append(requests[c], "unsubscribe") \in Seq(Ops)
            BY AppendFact DEF Ops
        <3>2. QED
            BY <1>13, <3>1 DEF Release, Ask
    <2>3. \A d \in Clients : client'[d].up = client[d].up
        BY <1>13 DEF Release, ClientType
    <2>4. \A d \in Clients : ~client[d].up => requests'[d] = requests[d]
        BY <1>13 DEF Release, Ask, MayAsk
    <2>5. QED
        BY <1>13, <1>0, <2>1, <2>2, <2>3, <2>4 DEF Release, Restored
<1>14. ASSUME NEW c \in Clients, Request(c) PROVE TypeInv'
    <2>1. requests' \in [Clients -> Seq(Ops)]
        BY <1>14, AppendFact DEF Request, Ask, Ops
    <2>2. \A d \in Clients : ~client[d].up => requests'[d] = requests[d]
        BY <1>14 DEF Request, Ask, MayAsk
    <2>3. QED
        BY <1>14, <1>0, <2>1, <2>2 DEF Request
<1>15. ASSUME NEW c \in Clients, Accept(c) PROVE TypeInv'
    <2>1. Head(socket[c]) \in Sent
        BY <1>15, <1>0, TailFact DEF Accept
    <2>2. client' \in [Clients -> ClientType] /\ \A d \in Clients : client'[d].up = client[d].up
        BY <1>15, <2>1 DEF Accept, ClientType
    <2>3. socket' \in [Clients -> Seq(Sent)]
        BY <1>15, TailFact DEF Accept
    <2>4. QED
        BY <1>15, <1>0, <2>2, <2>3 DEF Accept
<1>16. ASSUME NEW c \in Clients, Cut(c) PROVE TypeInv'
    <2>1. client' \in [Clients -> ClientType] /\ \A d \in Clients : d # c => client'[d].up = client[d].up
        BY <1>16 DEF Cut, ClientType
    <2>2. task' \in [Handlers -> TaskType] /\ \A h \in Handlers : task'[h].op # "idle" => task'[h] = task[h]
        BY <1>16, <1>0, Frames DEF Cut
    <2>3. /\ mailbox' \in [Clients -> Seq(Sent)] /\ socket' \in [Clients -> Seq(Sent)]
          /\ requests' \in [Clients -> Seq(Ops)]
        BY <1>16 DEF Cut
    <2>4. task'[c].op = "idle"
        BY <1>16, <1>0, Frames DEF Cut
    <2>5. QED
        BY <1>16, <1>0, <2>1, <2>2, <2>3, <2>4 DEF Cut, Restored
<1>17. ASSUME NEW c \in Clients, Reconnect(c) PROVE TypeInv'
    <2>1. client' \in [Clients -> ClientType] /\ \A d \in Clients : d # c => client'[d].up = client[d].up
        BY <1>17 DEF Reconnect, ClientType
    <2>2. client'[c].up
        BY <1>17 DEF Reconnect, ClientType
    <2>3. requests' \in [Clients -> Seq(Ops)]
        <3>1. <<"subscribe">> \in Seq(Ops) /\ <<>> \in Seq(Ops)
            BY DEF Ops
        <3>2. QED
            BY <1>17, <3>1 DEF Reconnect
    <2>4. QED
        BY <1>17, <1>0, <2>1, <2>2, <2>3 DEF Reconnect
<1>18. CASE Remove
    <2>1. player' \in PlayerType
        <3>1. player.removals + 1 \in 0..MaxRemovals
            BY <1>18, Bounds DEF Remove, PlayerType
        <3>2. QED
            BY <1>18, <3>1 DEF Remove, PlayerType
    <2>2. row' \in Sent
        <3>1. 0 \in 0..MaxRevision
            BY Bounds
        <3>2. Frame(0, 0) \in Sent
            BY <3>1, Frames
        <3>3. QED
            BY <1>18, <3>2 DEF Remove
    <2>3. missed' \subseteq Clients \X Losses
        BY <1>18 DEF Remove, Losses
    <2>4. QED
        BY <1>18, <2>1, <2>2, <2>3 DEF Remove, wires
<1>19. CASE ComeBack
    BY <1>19 DEF ComeBack, PlayerType, wires
<1>20. CASE UNCHANGED vars
    BY <1>20 DEF vars, wires
<1>21. QED
    BY <1>1, <1>2, <1>3, <1>4, <1>5, <1>6, <1>7, <1>8, <1>9,
       <1>10, <1>11, <1>12, <1>13, <1>14, <1>15, <1>16, <1>17, <1>18, <1>19, <1>20
    DEF Next, Read, Serve, Client

LEMMA TypeAlways == Spec => []TypeInv
BY TypeInit, TypeStep, PTL DEF Spec

(* Every variable of the feed has its shape.                                *)
THEOREM TypeCorrect == Spec => []TypeOK
<1>1. TypeInv => TypeOK
    <2> SUFFICES ASSUME TypeInv PROVE TypeOK
        OBVIOUS
    <2>1. Sent \subseteq FrameType /\ None \in FrameType /\ Seq(Sent) \subseteq Seq(FrameType)
        BY Frames
    <2>2. /\ \A h \in Handlers : /\ pending[h] \in FrameType
                                 /\ task[h] \in [op : {"idle", "attach", "row", "queue"}, seen : FrameType]
        BY <2>1 DEF TypeInv, TaskType
    <2>3. QED
        BY <2>1, <2>2 DEF TypeInv, Apart, TypeOK, PlayerType, Ops, ClientType
<1>2. QED
    BY <1>1, TypeAlways, PTL

-----------------------------------------------------------------------------
(* Frames *)

LEMMA PastGrows ==
    ASSUME NEW f \in FrameType, NEW r \in FrameType, NEW q \in FrameType,
           Past(f, r), q.rev > r.rev
    PROVE  Past(f, q)
BY Bounds DEF Past, FrameType

LEMMA PastSelf ==
    /\ Past(None, row)
    /\ TypeInv => /\ row.rev \in Nat /\ row.queue \in 0..MaxRevision /\ Past(row, row)
                  /\ \A f \in FrameType : Past(f, row) => Past(Frame(f.rev, row.queue), row) \/ ~f.known
BY DEF Past, None, TypeInv, Sent, FrameType, Frame

LEMMA AppendPast ==
    ASSUME NEW s \in Seq(Sent), NEW f \in Sent, NEW r, AllPast(s, r), Past(f, r)
    PROVE  AllPast(Append(s, f), r)
<1> DEFINE t == Append(s, f)
<1>1. Len(t) = Len(s) + 1 /\ Len(s) \in Nat /\ t[Len(s) + 1] = f
      /\ \A i \in 1..Len(s) : t[i] = s[i]
    BY AppendFact
<1>2. ASSUME NEW i \in 1..Len(t) PROVE Past(t[i], r)
    <2>1. CASE i = Len(s) + 1
        BY <1>1, <2>1
    <2>2. CASE i \in 1..Len(s)
        <3>1. t[i] = s[i]
            BY <1>1, <2>2
        <3>2. QED
            BY <3>1, <2>2 DEF AllPast
    <2>3. QED
        BY <1>1, <2>1, <2>2
<1>3. QED
    BY <1>2 DEF AllPast

LEMMA TailPast ==
    ASSUME NEW s \in Seq(Sent), s # <<>>, NEW r, AllPast(s, r)
    PROVE  AllPast(Tail(s), r) /\ Head(s) \in Sent /\ Past(Head(s), r)
<1>1. /\ Len(s) \in Nat \ {0} /\ Len(Tail(s)) = Len(s) - 1
      /\ \A i \in 1..Len(Tail(s)) : Tail(s)[i] = s[i + 1]
      /\ Head(s) = s[1] /\ Head(s) \in Sent
    BY TailFact
<1>2. ASSUME NEW i \in 1..Len(Tail(s)) PROVE Past(Tail(s)[i], r)
    <2>1. i + 1 \in 1..Len(s) /\ Tail(s)[i] = s[i + 1]
        BY <1>1
    <2>2. QED
        BY <2>1 DEF AllPast
<1>3. Past(s[1], r)
    BY <1>1 DEF AllPast
<1>4. QED
    BY <1>1, <1>2, <1>3 DEF AllPast

(* The row changes, and what is published next is the row.                  *)
LEMMA GrowStep ==
    ASSUME TypeInv, TypeInv', FramesPast, NEW h \in Handlers, Transition(h),
           UNCHANGED <<task, mailbox, socket, client>>
    PROVE  FramesPast'
<1>1. /\ row \in FrameType /\ row' \in FrameType /\ row'.rev > row.rev
      /\ pending' = [pending EXCEPT ![h] = row']
    BY TransitionFact, Frames DEF TypeInv
<1>2. ASSUME NEW f \in FrameType, Past(f, row) PROVE Past(f, row')
    BY <1>1, <1>2, PastGrows
<1>3. ASSUME NEW g \in Handlers PROVE Past(pending'[g], row') /\ Past(task[g].seen, row')
    <2>1. pending[g] \in FrameType /\ task[g].seen \in FrameType
        BY Frames DEF TypeInv, TaskType
    <2>2. Past(row', row')
        BY <1>1 DEF Past, FrameType
    <2>3. QED
        BY <1>1, <1>2, <2>1, <2>2 DEF FramesPast, TypeInv
<1>4. ASSUME NEW c \in Clients
      PROVE  /\ AllPast(mailbox[c], row') /\ AllPast(socket[c], row')
             /\ Past(client[c].cache, row')
    <2>1. /\ client[c].cache \in FrameType
          /\ \A i \in 1..Len(mailbox[c]) : mailbox[c][i] \in FrameType
          /\ \A i \in 1..Len(socket[c]) : socket[c][i] \in FrameType
        BY Frames DEF TypeInv, ClientType
    <2>2. QED
        BY <1>2, <2>1 DEF FramesPast, AllPast
<1>5. QED
    BY <1>3, <1>4 DEF FramesPast

LEMMA FramesStep ==
    ASSUME TypeInv, TypeInv', FramesPast, Next, row' = row PROVE FramesPast'
<1>0. /\ Clients \subseteq Handlers /\ Writers \subseteq Handlers
      /\ Past(None, row) /\ Past(row, row) /\ Past(Idle.seen, row)
    BY PastSelf DEF Handlers, Idle
<1>1. ASSUME NEW h \in Handlers, Publish(h) PROVE FramesPast'
    <2>1. pending[h] \in Sent /\ Past(pending[h], row)
        BY <1>1 DEF Publish, TypeInv, FramesPast
    <2>2. ASSUME NEW c \in Clients PROVE AllPast(mailbox'[c], row) /\ AllPast(socket'[c], row)
        <3>1. mailbox[c] \in Seq(Sent) /\ socket[c] \in Seq(Sent)
              /\ AllPast(mailbox[c], row) /\ AllPast(socket[c], row)
            BY DEF TypeInv, FramesPast
        <3>2. AllPast(Append(mailbox[c], pending[h]), row)
              /\ AllPast(Append(socket[c], pending[h]), row)
            BY <2>1, <3>1, AppendPast
        <3>3. /\ mailbox'[c] = mailbox[c] \/ mailbox'[c] = Append(mailbox[c], pending[h])
              /\ socket'[c] = socket[c] \/ socket'[c] = Append(socket[c], pending[h])
            BY <1>1 DEF Publish, TypeInv
        <3>4. QED
            BY <3>1, <3>2, <3>3
    <2>3. \A g \in Handlers : Past(pending'[g], row)
        BY <1>0, <1>1 DEF Publish, FramesPast, TypeInv
    <2>4. UNCHANGED <<task, client>>
        BY <1>1 DEF Publish
    <2>5. QED
        BY <2>2, <2>3, <2>4 DEF FramesPast
<1>2. ASSUME NEW h \in Handlers, Look(h) \/ ReadRow(h) PROVE FramesPast'
    <2>1. ASSUME NEW g \in Handlers PROVE Past(task'[g].seen, row)
        <3>1. \/ task'[g] = task[g] \/ task'[g] = Idle
              \/ task'[g] = [op |-> "row", seen |-> None]
              \/ task'[g] = [op |-> "queue", seen |-> row]
            BY <1>2 DEF Look, ReadRow, TypeInv
        <3>2. QED
            BY <1>0, <3>1 DEF FramesPast
    <2>2. ASSUME NEW c \in Clients PROVE AllPast(socket'[c], row)
        <3>1. task[h].seen.known => task[h].seen \in Sent
            BY DEF TypeInv, TaskType, Sent
        <3>2. socket[c] \in Seq(Sent) /\ AllPast(socket[c], row) /\ Past(task[h].seen, row)
            BY DEF TypeInv, FramesPast
        <3>3. \/ socket'[c] = socket[c]
              \/ task[h].seen.known /\ socket'[c] = Append(socket[c], task[h].seen)
            BY <1>2 DEF Look, ReadRow, wires, TypeInv
        <3>4. QED
            BY <3>1, <3>2, <3>3, AppendPast
    <2>3. UNCHANGED <<pending, mailbox, client>>
        BY <1>2 DEF Look, ReadRow, wires
    <2>4. QED
        BY <2>1, <2>2, <2>3 DEF FramesPast
<1>3. ASSUME NEW h \in Handlers, ReadQueue(h) PROVE FramesPast'
    <2> DEFINE frame == Frame(task[h].seen.rev, row.queue)
    <2>1. task[h].seen \in Sent
        BY <1>3 DEF ReadQueue, TypeInv, TaskType
    <2>2. Past(frame, row) /\ frame \in Sent
        BY <2>1, Frames, PastSelf DEF FramesPast, TypeInv, Sent, FrameType
    <2>3. /\ \A g \in Handlers : task'[g] = task[g] \/ task'[g] = Idle
          /\ \A g \in Handlers : pending'[g] = pending[g] \/ pending'[g] = frame
          /\ \A c \in Clients : socket'[c] = socket[c] \/ socket'[c] = Append(socket[c], frame)
          /\ UNCHANGED <<mailbox, client>>
        BY <1>3 DEF ReadQueue, TypeInv
    <2>4. \A g \in Handlers : Past(task'[g].seen, row) /\ Past(pending'[g], row)
        BY <1>0, <2>2, <2>3 DEF FramesPast
    <2>5. ASSUME NEW c \in Clients PROVE AllPast(socket'[c], row)
        <3>1. socket[c] \in Seq(Sent) /\ AllPast(socket[c], row)
            BY DEF TypeInv, FramesPast
        <3>2. AllPast(Append(socket[c], frame), row)
            BY <2>2, <3>1, AppendPast
        <3>3. QED
            BY <2>3, <3>1, <3>2
    <2>6. QED
        BY <2>3, <2>4, <2>5 DEF FramesPast
<1>4. ASSUME NEW c \in Clients, TakeSubscribe(c) \/ Attach(c) \/ TakeFetch(c) PROVE FramesPast'
    <2>1. ASSUME NEW g \in Handlers PROVE Past(task'[g].seen, row)
        <3>1. task[g] \in [op : {"idle", "attach", "row", "queue"}, seen : FrameType]
            BY DEF TypeInv, TaskType
        <3>2. CASE TakeSubscribe(c)
            <4>1. task'[g] = task[g] \/ task'[g].seen = row
                BY <3>2 DEF TakeSubscribe, TypeInv
            <4>2. QED
                BY <1>0, <4>1 DEF FramesPast
        <3>3. CASE TakeFetch(c)
            BY <1>0, <3>3 DEF TakeFetch, FramesPast, TypeInv
        <3>4. CASE Attach(c)
            BY <1>0, <3>1, <3>4 DEF Attach, FramesPast, TypeInv
        <3>5. QED
            BY <1>4, <3>2, <3>3, <3>4
    <2>2. UNCHANGED <<pending, mailbox, socket, client>>
        BY <1>4 DEF TakeSubscribe, Attach, TakeFetch, wires
    <2>3. QED
        BY <2>1, <2>2 DEF FramesPast
<1>5. ASSUME NEW c \in Clients, Drain(c) PROVE FramesPast'
    <2>1. /\ mailbox[c] # <<>> /\ mailbox[c] \in Seq(Sent) /\ socket[c] \in Seq(Sent)
          /\ AllPast(mailbox[c], row) /\ AllPast(socket[c], row)
        BY <1>5 DEF Drain, TypeInv, FramesPast
    <2>2. Head(mailbox[c]) \in Sent /\ Past(Head(mailbox[c]), row) /\ AllPast(Tail(mailbox[c]), row)
        BY <2>1, TailPast
    <2>3. AllPast(Append(socket[c], Head(mailbox[c])), row)
        BY <2>1, <2>2, AppendPast
    <2>4. \A d \in Clients : /\ AllPast(mailbox'[d], row) /\ AllPast(socket'[d], row)
        BY <1>5, <2>2, <2>3 DEF Drain, FramesPast, TypeInv
    <2>5. UNCHANGED <<pending, task, client>>
        BY <1>5 DEF Drain
    <2>6. QED
        BY <2>4, <2>5 DEF FramesPast
<1>6. ASSUME NEW c \in Clients, Accept(c) PROVE FramesPast'
    <2>1. socket[c] # <<>> /\ socket[c] \in Seq(Sent) /\ AllPast(socket[c], row)
        BY <1>6 DEF Accept, TypeInv, FramesPast
    <2>2. Past(Head(socket[c]), row) /\ AllPast(Tail(socket[c]), row)
        BY <2>1, TailPast
    <2>3. \A d \in Clients : AllPast(socket'[d], row)
        BY <1>6, <2>2 DEF Accept, FramesPast, TypeInv
    <2>4. \A d \in Clients : Past(client'[d].cache, row)
        BY <1>6, <2>2 DEF Accept, FramesPast, TypeInv, ClientType
    <2>5. UNCHANGED <<pending, task, mailbox>>
        BY <1>6 DEF Accept
    <2>6. QED
        BY <2>3, <2>4, <2>5 DEF FramesPast
<1>7. ASSUME NEW c \in Clients, Cut(c) PROVE FramesPast'
    <2>1. \A d \in Clients : client'[d].cache = client[d].cache
        BY <1>7 DEF Cut, TypeInv, ClientType
    <2>2. \A g \in Handlers : Past(task'[g].seen, row)
        BY <1>0, <1>7 DEF Cut, FramesPast, TypeInv
    <2>3. /\ \A d \in Clients \ {c} : mailbox'[d] = mailbox[d] /\ socket'[d] = socket[d]
          /\ Len(mailbox'[c]) = 0 /\ Len(socket'[c]) = 0
        BY <1>7 DEF Cut, TypeInv
    <2>4. \A d \in Clients : AllPast(mailbox'[d], row) /\ AllPast(socket'[d], row)
        BY <2>3 DEF FramesPast, AllPast
    <2>5. QED
        BY <1>7, <2>1, <2>2, <2>4 DEF Cut, FramesPast
<1>8. ASSUME NEW c \in Clients, Watch(c) \/ Release(c) \/ Reconnect(c) PROVE FramesPast'
    <2>0. \A d \in Clients : client[d] \in ClientType
        BY DEF TypeInv
    <2>1. CASE Watch(c)
        <3>1. \A d \in Clients : client'[d].cache = client[d].cache
            BY <2>0, <2>1 DEF Watch, ClientType, TypeInv
        <3>2. QED
            BY <2>1, <3>1 DEF Watch, FramesPast
    <2>2. CASE Release(c)
        <3>1. \A d \in Clients : client'[d].cache = client[d].cache \/ client'[d].cache = None
            BY <2>0, <2>2 DEF Release, ClientType, TypeInv
        <3>2. QED
            BY <1>0, <2>2, <3>1 DEF Release, FramesPast
    <2>3. CASE Reconnect(c)
        <3>1. \A d \in Clients : client'[d].cache = client[d].cache
            BY <2>0, <2>3 DEF Reconnect, ClientType, TypeInv
        <3>2. QED
            BY <2>3, <3>1 DEF Reconnect, FramesPast
    <2>4. QED
        BY <1>8, <2>1, <2>2, <2>3
<1>9. ASSUME NEW c \in Clients, TakeUnsubscribe(c) \/ Request(c) PROVE FramesPast'
    BY <1>9 DEF TakeUnsubscribe, Request, FramesPast
<1>10. CASE Remove \/ ComeBack
    BY <1>10 DEF Remove, ComeBack, wires, FramesPast
<1>11. ASSUME NEW c \in Clients, TakeControl(c) PROVE FramesPast'
    BY <1>0, <1>11, GrowStep DEF TakeControl, FramesPast
<1>12. ASSUME NEW w \in Writers, Write(w) PROVE FramesPast'
    BY <1>0, <1>12, GrowStep DEF Write, wires
<1>13. QED
    BY <1>0, <1>1, <1>2, <1>3, <1>4, <1>5, <1>6, <1>7, <1>8, <1>9, <1>10, <1>11, <1>12
    DEF Next, Read, Serve, Client

LEMMA FrameInit == Init => FrameInv
<1> SUFFICES ASSUME Init PROVE FramesPast
    BY DEF FrameInv
<1>1. /\ \A h \in Handlers : pending[h] = None /\ task[h].seen = None
      /\ \A c \in Clients : /\ Len(mailbox[c]) = 0 /\ Len(socket[c]) = 0
                            /\ client[c].cache = None
    BY DEF Init, Idle
<1>2. QED
    BY <1>1, PastSelf DEF FramesPast, AllPast

LEMMA FreshBack == ASSUME TypeInv, Next, Fresh' PROVE Fresh
<1>1. CASE Remove
    BY <1>1, Bounds DEF Remove, Fresh, TypeInv, PlayerType
<1>2. CASE ~Remove
    BY <1>2 DEF Next, Fresh, TypeInv, PlayerType, Read, Serve, Client, Write, Look, Publish, ReadRow,
              ReadQueue, TakeSubscribe, Attach, TakeUnsubscribe, TakeControl, TakeFetch, Drain,
              Watch, Release, Request, Accept, Cut, Reconnect, ComeBack
<1>3. QED
    BY <1>1, <1>2

LEMMA FrameStep == TypeInv /\ TypeInv' /\ FrameInv /\ [Next]_vars => FrameInv'
<1> SUFFICES ASSUME TypeInv, TypeInv', FrameInv, [Next]_vars, Fresh' PROVE FramesPast'
    BY DEF FrameInv
<1>1. CASE UNCHANGED vars
    BY <1>1 DEF vars, wires, FrameInv, FramesPast, Fresh
<1>2. CASE Remove
    <2>1. player.kind = "device" /\ row' = row
        BY <1>2, Bounds DEF Remove, Fresh, TypeInv, PlayerType
    <2>2. QED
        BY <1>2, <2>1, FramesStep DEF FrameInv, Fresh, Next
<1>3. CASE ~Remove /\ Next
    <2>1. Fresh
        BY <1>3, FreshBack
    <2>2. CASE \E w \in Writers : Write(w)
        BY <2>1, <2>2, GrowStep DEF Write, wires, FrameInv, Handlers
    <2>3. CASE \E c \in Clients : TakeControl(c) /\ row' # row
        BY <2>1, <2>3, GrowStep DEF TakeControl, FrameInv, Handlers
    <2>4. CASE row' = row
        BY <1>3, <2>1, <2>4, FramesStep DEF FrameInv
    <2>5. ASSUME row' # row
          PROVE  (\E w \in Writers : Write(w)) \/ (\E c \in Clients : TakeControl(c) /\ row' # row)
        BY <1>3, <2>5 DEF Next, Read, Serve, Client, Look, Publish, ReadRow, ReadQueue,
              TakeSubscribe, Attach, TakeUnsubscribe, TakeFetch, Drain, Watch, Release, Request,
              Accept, Cut, Reconnect, ComeBack
    <2>6. QED
        BY <2>2, <2>3, <2>4, <2>5
<1>4. QED
    BY <1>1, <1>2, <1>3

-----------------------------------------------------------------------------
(* What carries the current state *)

LEMMA AppendCarries ==
    ASSUME NEW s \in Seq(Sent), NEW f \in Sent, NEW r
    PROVE  /\ Carries(s, r) => Carries(Append(s, f), r)
           /\ Current(f, r) => Carries(Append(s, f), r)
<1> DEFINE t == Append(s, f)
<1>1. Len(t) = Len(s) + 1 /\ Len(s) \in Nat /\ t[Len(s) + 1] = f
      /\ \A i \in 1..Len(s) : t[i] = s[i]
    BY AppendFact
<1> HIDE DEF t
<1>2. Carries(s, r) => Carries(t, r)
    <2> SUFFICES ASSUME NEW i \in 1..Len(s), Current(s[i], r) PROVE Carries(t, r)
        BY DEF Carries
    <2>1. i \in 1..Len(t) /\ t[i] = s[i]
        BY <1>1
    <2>2. QED
        BY <2>1 DEF Carries
<1>3. Current(f, r) => Carries(t, r)
    <2>1. Len(s) + 1 \in 1..Len(t)
        BY <1>1
    <2>2. QED
        BY <1>1, <2>1 DEF Carries
<1>4. QED
    BY <1>2, <1>3 DEF t

LEMMA TailCarries ==
    ASSUME NEW s \in Seq(Sent), s # <<>>, NEW r, Carries(s, r)
    PROVE  Current(Head(s), r) \/ Carries(Tail(s), r)
<1>1. /\ Len(s) \in Nat \ {0} /\ Len(Tail(s)) = Len(s) - 1
      /\ \A i \in 1..Len(Tail(s)) : Tail(s)[i] = s[i + 1]
      /\ Head(s) = s[1]
    BY TailFact
<1>2. PICK i \in 1..Len(s) : Current(s[i], r)
    BY DEF Carries
<1>3. CASE i = 1
    BY <1>1, <1>2, <1>3
<1>4. CASE i # 1
    <2>1. i - 1 \in 1..Len(Tail(s)) /\ Tail(s)[i - 1] = s[i]
        BY <1>1, <1>4
    <2>2. QED
        BY <1>2, <2>1 DEF Carries
<1>5. QED
    BY <1>3, <1>4

-----------------------------------------------------------------------------
(* Requests that end in a subscription *)

LEMMA AppendAsks ==
    ASSUME NEW s \in Seq(Ops), NEW op \in Ops
    PROVE  /\ Subscribes(s) => Subscribes(Append(s, op))
           /\ op # "unsubscribe" /\ EndsSubscribed(s) => EndsSubscribed(Append(s, op))
           /\ op = "subscribe" => Subscribes(Append(s, op)) /\ EndsSubscribed(Append(s, op))
<1> DEFINE t == Append(s, op)
<1>1. Len(t) = Len(s) + 1 /\ Len(s) \in Nat /\ t[Len(s) + 1] = op
      /\ \A i \in 1..Len(s) : t[i] = s[i]
    BY AppendFact
<1> HIDE DEF t
<1>2. \A i \in 1..Len(t) : i = Len(s) + 1 \/ i \in 1..Len(s)
    BY <1>1
<1>3. \A i \in 1..Len(s) : i \in 1..Len(t)
    BY <1>1
<1>4. Len(s) + 1 \in 1..Len(t)
    BY <1>1
<1>5. Subscribes(s) => Subscribes(t)
    BY <1>1, <1>3 DEF Subscribes
<1>6. op # "unsubscribe" /\ EndsSubscribed(s) => EndsSubscribed(t)
    <2> SUFFICES ASSUME op # "unsubscribe", EndsSubscribed(s),
                        NEW i \in 1..Len(t), t[i] = "unsubscribe"
                 PROVE  \E j \in 1..Len(t) : j > i /\ t[j] = "subscribe"
        BY DEF EndsSubscribed
    <2>1. i \in 1..Len(s) /\ s[i] = "unsubscribe"
        BY <1>1, <1>2
    <2>2. PICK j \in 1..Len(s) : j > i /\ s[j] = "subscribe"
        BY <2>1 DEF EndsSubscribed
    <2>3. QED
        BY <1>1, <1>3, <2>2
<1>7. op = "subscribe" => Subscribes(t)
    BY <1>1, <1>4 DEF Subscribes
<1>8. op = "subscribe" => EndsSubscribed(t)
    <2> SUFFICES ASSUME op = "subscribe", NEW i \in 1..Len(t), t[i] = "unsubscribe"
                 PROVE  \E j \in 1..Len(t) : j > i /\ t[j] = "subscribe"
        BY DEF EndsSubscribed
    <2>1. Len(s) + 1 > i /\ t[Len(s) + 1] = "subscribe"
        BY <1>1, <1>2
    <2>2. QED
        BY <1>4, <2>1
<1>9. QED
    BY <1>5, <1>6, <1>7, <1>8 DEF t

LEMMA TailAsks ==
    ASSUME NEW s \in Seq(Ops), s # <<>>
    PROVE  /\ EndsSubscribed(s) => EndsSubscribed(Tail(s))
           /\ Head(s) # "subscribe" /\ Subscribes(s) => Subscribes(Tail(s))
           /\ Head(s) = "unsubscribe" /\ EndsSubscribed(s) => Subscribes(Tail(s))
<1> DEFINE t == Tail(s)
<1>1. /\ Len(s) \in Nat \ {0} /\ Len(t) = Len(s) - 1
      /\ \A i \in 1..Len(t) : t[i] = s[i + 1]
      /\ Head(s) = s[1]
    BY TailFact
<1> HIDE DEF t
<1>2. \A i \in 1..Len(s) : i > 1 => i - 1 \in 1..Len(t) /\ t[i - 1] = s[i]
    BY <1>1
<1>3. EndsSubscribed(s) => EndsSubscribed(t)
    <2> SUFFICES ASSUME EndsSubscribed(s), NEW i \in 1..Len(t), t[i] = "unsubscribe"
                 PROVE  \E j \in 1..Len(t) : j > i /\ t[j] = "subscribe"
        BY DEF EndsSubscribed
    <2>1. i + 1 \in 1..Len(s) /\ s[i + 1] = "unsubscribe"
        BY <1>1
    <2>2. PICK j \in 1..Len(s) : j > i + 1 /\ s[j] = "subscribe"
        BY <2>1 DEF EndsSubscribed
    <2>3. j - 1 \in 1..Len(t) /\ t[j - 1] = "subscribe" /\ j - 1 > i
        BY <1>1, <1>2, <2>2
    <2>4. QED
        BY <2>3
<1>4. Head(s) # "subscribe" /\ Subscribes(s) => Subscribes(t)
    <2> SUFFICES ASSUME Head(s) # "subscribe", Subscribes(s) PROVE Subscribes(t)
        OBVIOUS
    <2>1. PICK i \in 1..Len(s) : s[i] = "subscribe"
        BY DEF Subscribes
    <2>2. i > 1
        BY <1>1, <2>1
    <2>3. QED
        BY <1>2, <2>1, <2>2 DEF Subscribes
<1>5. Head(s) = "unsubscribe" /\ EndsSubscribed(s) => Subscribes(t)
    <2> SUFFICES ASSUME s[1] = "unsubscribe", EndsSubscribed(s) PROVE Subscribes(t)
        BY <1>1
    <2>1. PICK j \in 1..Len(s) : j > 1 /\ s[j] = "subscribe"
        BY <1>1 DEF EndsSubscribed
    <2>2. QED
        BY <1>2, <2>1 DEF Subscribes
<1>6. QED
    BY <1>3, <1>4, <1>5 DEF t

LEMMA OneSubscribe == Subscribes(<<"subscribe">>) /\ EndsSubscribed(<<"subscribe">>)
<1>1. Len(<<"subscribe">>) = 1 /\ <<"subscribe">>[1] = "subscribe"
    OBVIOUS
<1>2. QED
    BY <1>1 DEF Subscribes, EndsSubscribed

LEMMA Taken ==
    ASSUME TypeInv, NEW c \in Clients, Take(c)
    PROVE  /\ requests[c] \in Seq(Ops) /\ requests[c] # <<>>
           /\ requests'[c] = Tail(requests[c])
           /\ \A d \in Clients : d # c => requests'[d] = requests[d]
           /\ task[c] = Idle /\ pending[c] = None
BY DEF TypeInv, Take

-----------------------------------------------------------------------------
(* Who watches is served *)

(* The client as the proofs need it: what is up and watching after a step,  *)
(* but for Watch and Reconnect, was so before.                              *)
Wants(c) == client[c].up /\ client[c].watching

LEMMA WantsStep ==
    ASSUME TypeInv, Next, NEW d \in Clients, Wants(d)', ~Watch(d), ~Reconnect(d)
    PROVE  Wants(d)
<1>0. client \in [Clients -> ClientType]
    BY DEF TypeInv
<1>1. ASSUME NEW c \in Clients, Watch(c) PROVE Wants(d)
    BY <1>0, <1>1 DEF Watch, Wants, ClientType
<1>2. ASSUME NEW c \in Clients, Reconnect(c) PROVE Wants(d)
    BY <1>0, <1>2 DEF Reconnect, Wants, ClientType
<1>3. ASSUME NEW c \in Clients, Release(c) \/ Cut(c) PROVE Wants(d)
    BY <1>0, <1>3 DEF Release, Cut, Wants, ClientType
<1>4. ASSUME NEW c \in Clients, Accept(c) PROVE Wants(d)
    BY <1>0, <1>4 DEF Accept, Wants, ClientType
<1>5. CASE UNCHANGED client
    BY <1>5 DEF Wants
<1>6. QED
    BY <1>1, <1>2, <1>3, <1>4, <1>5
    DEF Next, Read, Serve, Client, Write, Look, Publish, ReadRow, ReadQueue, TakeSubscribe, Attach,
        TakeUnsubscribe, TakeControl, TakeFetch, Drain, Request, Remove, ComeBack

LEMMA EndsStep ==
    ASSUME TypeInv, Next, NEW d \in Clients, Wants(d)', Wants(d) => EndsSubscribed(requests[d])
    PROVE  EndsSubscribed(requests'[d])
<1>0. requests \in [Clients -> Seq(Ops)]
    BY DEF TypeInv
<1>1. CASE Watch(d)
    <2>1. client[d].up
        BY <1>1 DEF Watch, Wants, TypeInv, ClientType
    <2>2. requests'[d] = Append(requests[d], "subscribe")
        BY <1>0, <1>1, <2>1 DEF Watch, Ask
    <2>3. QED
        BY <1>0, <2>2, AppendAsks DEF Ops
<1>2. CASE Reconnect(d)
    <2>1. client[d].watching
        BY <1>2 DEF Reconnect, Wants, TypeInv, ClientType
    <2>2. requests'[d] = <<"subscribe">>
        BY <1>0, <1>2, <2>1 DEF Reconnect
    <2>3. QED
        BY <2>2, OneSubscribe
<1>3. CASE ~Watch(d) /\ ~Reconnect(d)
    <2>0. EndsSubscribed(requests[d])
        BY <1>3, WantsStep
    <2>1. ASSUME NEW c \in Clients, Take(c) PROVE EndsSubscribed(requests'[d])
        BY <2>0, <2>1, Taken, TailAsks
    <2>2. ASSUME NEW c \in Clients, Request(c) PROVE EndsSubscribed(requests'[d])
        <3>1. \E op \in {"control", "fetch"} :
                 requests'[d] = requests[d] \/ requests'[d] = Append(requests[d], op)
            BY <1>0, <2>2 DEF Request, Ask
        <3>2. QED
            BY <1>0, <2>0, <3>1, AppendAsks DEF Ops
    <2>3. ASSUME NEW c \in Clients, Watch(c) \/ Release(c) \/ Cut(c) \/ Reconnect(c)
          PROVE EndsSubscribed(requests'[d])
        <3>1. CASE c = d
            BY <1>3, <2>3, <3>1 DEF Release, Cut, Wants, TypeInv, ClientType
        <3>2. CASE c # d
            <4>1. requests'[d] = requests[d]
                BY <1>0, <2>3, <3>2 DEF Watch, Release, Cut, Reconnect, Ask
            <4>2. QED
                BY <2>0, <4>1
        <3>3. QED
            BY <3>1, <3>2
    <2>4. CASE UNCHANGED requests
        BY <2>0, <2>4
    <2>5. QED
        BY <2>1, <2>2, <2>3, <2>4
        DEF Next, Read, Serve, Client, Write, Look, Publish, ReadRow, ReadQueue, TakeSubscribe,
            Attach, TakeUnsubscribe, TakeControl, TakeFetch, Drain, Accept, Remove, ComeBack, wires
<1>4. QED
    BY <1>1, <1>2, <1>3

(* The share that was removed leaves nobody out.                            *)
LEMMA FreshStep ==
    ASSUME TypeInv, Next, ~Fresh => \A c \in Clients : Missed(c)
    PROVE  ~Fresh' => \A c \in Clients : Missed(c)'
<1>1. CASE Remove
    <2> SUFFICES ASSUME ~Fresh', NEW c \in Clients PROVE Missed(c)'
        OBVIOUS
    <2>1. player.kind = "share"
        BY <1>1 DEF Remove, Fresh, TypeInv, PlayerType
    <2>2. <<c, "removed">> \in missed'
        BY <1>1, <2>1 DEF Remove
    <2>3. <<c, "removed">> \in {c} \X Losses
        BY DEF Losses
    <2>4. QED
        BY <2>2, <2>3 DEF Missed
<1>2. ASSUME ~Remove, ~Fresh'
      PROVE  ~Fresh /\ missed \subseteq missed'
    <2>1. ~Fresh /\ player.kind # "device" /\ player.kind = "share"
        BY <1>2 DEF Next, Fresh, TypeInv, PlayerType, Read, Serve, Client, Write, Look, Publish, ReadRow,
              ReadQueue, TakeSubscribe, Attach, TakeUnsubscribe, TakeControl, TakeFetch, Drain,
              Watch, Release, Request, Accept, Cut, Reconnect, ComeBack
    <2>2. missed \subseteq missed'
        BY <1>2, <2>1 DEF Next, Read, Serve, Client, Write, Look, Publish, ReadRow, Restored,
              ReadQueue, TakeSubscribe, Attach, TakeUnsubscribe, TakeControl, TakeFetch, Drain,
              Watch, Release, Request, Accept, Cut, Reconnect, ComeBack
    <2>3. QED
        BY <2>1, <2>2
<1>3. QED
    BY <1>1, <1>2 DEF Missed

(* The step leaves the client what reaches it.                              *)
LEMMA KeptReach ==
    ASSUME NEW d \in Clients, Reached(d), ~Missed(d)', missed \subseteq missed' \/ ~Missed(d),
           Subscribes(requests[d]) => Subscribes(requests'[d]),
           player.there =>
              /\ player'.there
              /\ task[d].op = "attach" => task'[d].op = "attach"
              /\ d \in subs /\ Covered(d) => d \in subs' /\ Covered(d)'
    PROVE  Reached(d)'
<1>1. ~Missed(d)
    BY DEF Missed
<1>2. QED
    BY <1>1 DEF Reached

(* What the row's frame and its carriers say of a client.                   *)
LEMMA ReachedStep ==
    ASSUME TypeInv, TypeInv', Fresh, FramesPast, Next, NEW d \in Clients, Wants(d)', ~Missed(d)',
           Wants(d) => EndsSubscribed(requests[d]) /\ Reached(d)
    PROVE  Reached(d)'
<1>0. /\ Clients \subseteq Handlers /\ Writers \subseteq Handlers /\ d \notin Writers
      /\ mailbox \in [Clients -> Seq(Sent)] /\ socket \in [Clients -> Seq(Sent)]
      /\ requests \in [Clients -> Seq(Ops)] /\ client \in [Clients -> ClientType]
      /\ task \in [Handlers -> TaskType] /\ pending \in [Handlers -> Sent \cup {None}]
      /\ ~Current(None, row) /\ Idle.op = "idle"
      /\ mailbox[d] \in Seq(Sent) /\ socket[d] \in Seq(Sent)
    BY StateFeedAssumption, Frames DEF Handlers, TypeInv, Current
<1>1. CASE Watch(d)
    <2>1. client[d].up
        BY <1>0, <1>1 DEF Watch, Wants, ClientType
    <2>2. requests'[d] = Append(requests[d], "subscribe")
        BY <1>0, <1>1, <2>1 DEF Watch, Ask
    <2>3. Subscribes(requests'[d])
        BY <1>0, <2>2, AppendAsks DEF Ops
    <2>4. QED
        BY <2>3 DEF Reached
<1>2. CASE Reconnect(d)
    <2>1. client[d].watching
        BY <1>0, <1>2 DEF Reconnect, Wants, ClientType
    <2>2. requests'[d] = <<"subscribe">>
        BY <1>0, <1>2, <2>1 DEF Reconnect
    <2>3. QED
        BY <2>2, OneSubscribe DEF Reached
<1> SUFFICES ASSUME ~Watch(d), ~Reconnect(d) PROVE Reached(d)'
    BY <1>1, <1>2
<1>3. Wants(d) /\ EndsSubscribed(requests[d]) /\ Reached(d)
    BY WantsStep
<1>4. ASSUME NEW h \in Handlers, Transition(h), UNCHANGED <<player, task, subs, missed>>,
             Subscribes(requests[d]) => Subscribes(requests'[d])
      PROVE  Reached(d)'
    <2>1. Current(pending'[h], row')
        BY <1>0, <1>4, TransitionFact DEF Current, Sent, TypeInv
    <2>2. Covered(d)'
        BY <2>1 DEF Covered
    <2>3. QED
        BY <1>3, <1>4, <2>2, KeptReach
<1>5. ASSUME NEW w \in Writers, Write(w) PROVE Reached(d)'
    BY <1>0, <1>4, <1>5 DEF Write, wires
<1>6. ASSUME NEW w \in Writers, Look(w) PROVE Reached(d)'
    <2>1. task'[d] = task[d] /\ UNCHANGED <<player, row, pending, subs, wires, client, missed>>
        BY <1>0, <1>6 DEF Look
    <2>2. Covered(d) => Covered(d)'
        BY <2>1 DEF Covered, wires
    <2>3. QED
        BY <1>3, <2>1, <2>2, KeptReach DEF wires
<1>7. ASSUME NEW h \in Handlers, Publish(h) PROVE Reached(d)'
    <2>0. UNCHANGED <<player, row, task, subs, requests, client, missed>> /\ pending[h] \in Sent
        BY <1>0, <1>7 DEF Publish
    <2>1. ASSUME d \in subs, Covered(d) PROVE Covered(d)'
        <3>1. mailbox'[d] = Append(mailbox[d], pending[h])
            BY <1>3, <1>7, <2>1 DEF Publish, Wants
        <3>2. socket'[d] = socket[d] \/ socket'[d] = Append(socket[d], pending[h])
            BY <1>0, <1>7 DEF Publish
        <3>3. Carries(socket[d], row) => Carries(socket'[d], row)
            BY <1>0, <2>0, <3>2, AppendCarries
        <3>4. /\ Carries(mailbox[d], row) => Carries(mailbox'[d], row)
              /\ Current(pending[h], row) => Carries(mailbox'[d], row)
            BY <1>0, <2>0, <3>1, AppendCarries
        <3>5. \A g \in Handlers : g # h => pending'[g] = pending[g]
            BY <1>0, <1>7 DEF Publish
        <3>6. QED
            BY <2>0, <2>1, <3>3, <3>4, <3>5 DEF Covered
    <2>2. QED
        BY <1>3, <2>0, <2>1, KeptReach
<1>8. ASSUME NEW h \in Handlers, ReadRow(h) PROVE Reached(d)'
    <2>0. /\ UNCHANGED <<player, row, pending, subs, mailbox, requests, client, missed>>
          /\ task[h].op = "row"
        BY <1>8 DEF ReadRow
    <2>1. player.there /\ task[d].op = "attach" => task'[d].op = "attach"
        BY <1>0, <1>8 DEF ReadRow
    <2>2. ASSUME player.there, Covered(d) PROVE Covered(d)'
        <3>1. socket' = socket
            BY <1>8, <2>2 DEF ReadRow
        <3>2. task' = [task EXCEPT ![h] = [op |-> "queue", seen |-> row]]
            BY <1>8, <2>2 DEF ReadRow
        <3>3. CASE h = d
            <4>1. task'[d].op = "queue" /\ task'[d].seen = row
                BY <1>0, <3>2, <3>3
            <4>2. Current(row, row)
                BY DEF TypeInv, Sent, Current
            <4>3. QED
                BY <2>0, <4>1, <4>2 DEF Covered
        <3>4. CASE h # d
            <4>1. task'[d] = task[d]
                BY <1>0, <3>2, <3>4
            <4>2. QED
                BY <2>0, <2>2, <3>1, <4>1 DEF Covered
        <3>5. QED
            BY <3>3, <3>4
    <2>3. QED
        BY <1>3, <2>0, <2>1, <2>2, KeptReach
<1>9. ASSUME NEW h \in Handlers, ReadQueue(h) PROVE Reached(d)'
    <2> DEFINE frame == Frame(task[h].seen.rev, row.queue)
    <2>0. /\ UNCHANGED <<player, row, subs, mailbox, requests, client, missed>>
          /\ task[h].op = "queue" /\ task' = [task EXCEPT ![h] = Idle]
        BY <1>9 DEF ReadQueue
    <2>1. frame \in Sent /\ frame.rev = task[h].seen.rev /\ frame.known
        <3>1. task[h].seen \in Sent /\ row \in Sent
            BY <1>0, <2>0 DEF TaskType, TypeInv
        <3>2. task[h].seen.rev \in 0..MaxRevision /\ row.queue \in 0..MaxRevision
            BY <3>1 DEF Sent, FrameType
        <3>3. QED
            BY <3>2, Frames
    <2>2. pending[h] = None
        BY <2>0 DEF TypeInv, Apart
    <2>3. \A g \in Handlers : g # h => pending'[g] = pending[g]
        BY <1>0, <1>9 DEF ReadQueue
    <2>4. socket'[d] = socket[d] \/ socket'[d] = Append(socket[d], frame)
        BY <1>0, <1>9 DEF ReadQueue
    <2>5. ASSUME Covered(d) PROVE Covered(d)'
        <3>1. Carries(socket[d], row) => Carries(socket'[d], row)
            BY <1>0, <2>1, <2>4, AppendCarries
        <3>2. \A g \in Handlers : Current(pending[g], row) => Current(pending'[g], row)
            BY <1>0, <2>2, <2>3
        <3>3. CASE h = d
            <4>1. socket'[d] = Append(socket[d], frame)
                BY <1>0, <1>9, <3>3 DEF ReadQueue
            <4>2. Current(task[d].seen, row) => Carries(socket'[d], row)
                BY <1>0, <2>1, <3>3, <4>1, AppendCarries DEF Current
            <4>3. QED
                BY <2>0, <2>5, <3>1, <3>2, <3>3, <4>2 DEF Covered
        <3>4. CASE h # d
            <4>1. task'[d] = task[d]
                BY <1>0, <2>0, <3>4
            <4>2. QED
                BY <2>0, <2>5, <3>1, <3>2, <4>1 DEF Covered
        <3>5. QED
            BY <3>3, <3>4
    <2>6. task[d].op = "attach" => task'[d].op = "attach"
        BY <1>0, <2>0
    <2>7. QED
        BY <1>3, <2>0, <2>5, <2>6, KeptReach
<1>10. ASSUME NEW c \in Clients, TakeSubscribe(c) PROVE Reached(d)'
    <2>0. /\ Take(c) /\ Head(requests[c]) = "subscribe"
          /\ UNCHANGED <<player, row, pending, subs, mailbox, socket, client>>
          /\ missed \subseteq missed'
        BY <1>10 DEF TakeSubscribe
    <2>1. CASE c = d
        <3>1. ~player.there => Missed(d)'
            <4>1. <<d, "refused">> \in {d} \X Losses
                BY DEF Losses
            <4>2. QED
                BY <1>10, <2>1, <4>1 DEF TakeSubscribe, Missed
        <3>2. player.there /\ task' = [task EXCEPT ![d] = [op |-> "attach", seen |-> row]]
            BY <1>10, <2>1, <3>1 DEF TakeSubscribe
        <3>3. task'[d].op = "attach"
            BY <1>0, <3>2
        <3>4. QED
            BY <2>0, <3>2, <3>3 DEF Reached
    <2>2. CASE c # d
        <3>1. task'[d] = task[d] /\ requests'[d] = requests[d]
            BY <1>0, <1>10, <2>0, <2>2, Taken DEF TakeSubscribe
        <3>2. Covered(d) => Covered(d)'
            BY <2>0, <3>1 DEF Covered
        <3>3. QED
            BY <1>3, <2>0, <3>1, <3>2, KeptReach
    <2>3. QED
        BY <2>1, <2>2
<1>11. ASSUME NEW c \in Clients, Attach(c) PROVE Reached(d)'
    <2>0. /\ UNCHANGED <<player, row, pending, wires, client, missed>>
          /\ subs' = subs \cup {c} /\ task[c].op = "attach"
          /\ task' = [task EXCEPT ![c].op = "row"]
        BY <1>11 DEF Attach
    <2>1. CASE c = d
        <3>1. task[d] \in [op : {"idle", "attach", "row", "queue"}, seen : FrameType]
            BY <1>0 DEF TaskType
        <3>2. task'[d].op = "row"
            BY <1>0, <2>0, <2>1, <3>1
        <3>3. Covered(d)'
            BY <3>2 DEF Covered
        <3>4. ~Missed(d) /\ requests'[d] = requests[d]
            BY <2>0 DEF Missed, wires
        <3>5. QED
            BY <1>3, <2>0, <2>1, <3>3, <3>4 DEF Reached
    <2>2. CASE c # d
        <3>1. task'[d] = task[d]
            BY <1>0, <2>0, <2>2
        <3>2. Covered(d) => Covered(d)'
            BY <2>0, <3>1 DEF Covered, wires
        <3>3. QED
            BY <1>3, <2>0, <3>1, <3>2, KeptReach DEF wires
    <2>3. QED
        BY <2>1, <2>2
<1>12. ASSUME NEW c \in Clients, TakeUnsubscribe(c) PROVE Reached(d)'
    <2>0. /\ Take(c) /\ Head(requests[c]) = "unsubscribe" /\ subs' = subs \ {c}
          /\ UNCHANGED <<player, row, pending, task, mailbox, socket, client, missed>>
        BY <1>12 DEF TakeUnsubscribe
    <2>1. CASE c = d
        <3>1. Subscribes(requests'[d])
            BY <1>3, <2>0, <2>1, Taken, TailAsks
        <3>2. QED
            BY <3>1 DEF Reached
    <2>2. CASE c # d
        <3>1. requests'[d] = requests[d]
            BY <2>0, <2>2, Taken
        <3>2. Covered(d) => Covered(d)'
            BY <2>0 DEF Covered
        <3>3. QED
            BY <1>3, <2>0, <2>2, <3>1, <3>2, KeptReach
    <2>3. QED
        BY <2>1, <2>2
<1>13. ASSUME NEW c \in Clients, TakeControl(c) PROVE Reached(d)'
    <2>0. /\ Take(c) /\ Head(requests[c]) = "control"
          /\ UNCHANGED <<player, task, subs, mailbox, socket, client, missed>>
        BY <1>13 DEF TakeControl
    <2>1. Subscribes(requests[d]) => Subscribes(requests'[d])
        BY <2>0, Taken, TailAsks
    <2>2. CASE Transition(c)
        BY <1>0, <1>4, <2>0, <2>1, <2>2
    <2>3. CASE ~player.there
        BY <1>3, <2>0, <2>1, <2>3, KeptReach
    <2>4. QED
        BY <1>13, <2>2, <2>3 DEF TakeControl
<1>14. ASSUME NEW c \in Clients, TakeFetch(c) PROVE Reached(d)'
    <2>0. /\ Take(c) /\ Head(requests[c]) = "fetch"
          /\ UNCHANGED <<player, row, pending, subs, mailbox, socket, client, missed>>
        BY <1>14 DEF TakeFetch
    <2>1. Subscribes(requests[d]) => Subscribes(requests'[d])
        BY <2>0, Taken, TailAsks
    <2>2. task'[d] = task[d] \/ task[d].op = "idle"
        BY <1>0, <1>14, <2>0, Taken DEF TakeFetch
    <2>3. Covered(d) => Covered(d)'
        BY <2>0, <2>2 DEF Covered
    <2>4. QED
        BY <1>3, <2>0, <2>1, <2>2, <2>3, KeptReach
<1>15. ASSUME NEW c \in Clients, Drain(c) PROVE Reached(d)'
    <2>0. /\ mailbox[c] # <<>>
          /\ UNCHANGED <<player, row, pending, task, subs, requests, client, missed>>
        BY <1>15 DEF Drain
    <2>1. Covered(d) => Covered(d)'
        <3>1. CASE c = d
            <4>1. mailbox'[d] = Tail(mailbox[d]) /\ socket'[d] = Append(socket[d], Head(mailbox[d]))
                BY <1>0, <1>15, <3>1 DEF Drain
            <4>2. Head(mailbox[d]) \in Sent
                BY <1>0, <2>0, <3>1, TailFact
            <4>3. /\ Carries(socket[d], row) => Carries(socket'[d], row)
                  /\ Current(Head(mailbox[d]), row) => Carries(socket'[d], row)
                BY <1>0, <4>1, <4>2, AppendCarries
            <4>4. Carries(mailbox[d], row) => Carries(mailbox'[d], row) \/ Carries(socket'[d], row)
                BY <1>0, <2>0, <3>1, <4>1, <4>3, TailCarries
            <4>5. QED
                BY <2>0, <4>3, <4>4 DEF Covered
        <3>2. CASE c # d
            <4>1. mailbox'[d] = mailbox[d] /\ socket'[d] = socket[d]
                BY <1>0, <1>15, <3>2 DEF Drain
            <4>2. QED
                BY <2>0, <4>1 DEF Covered
        <3>3. QED
            BY <3>1, <3>2
    <2>2. QED
        BY <1>3, <2>0, <2>1, KeptReach
<1>16. ASSUME NEW c \in Clients, Accept(c) PROVE Reached(d)'
    <2>0. /\ socket[c] # <<>>
          /\ UNCHANGED <<player, row, pending, task, subs, mailbox, requests, missed>>
        BY <1>16 DEF Accept
    <2>1. Covered(d) => Covered(d)'
        <3>1. CASE c = d
            <4> DEFINE f == Head(socket[d])
            <4>1. /\ socket'[d] = Tail(socket[d])
                  /\ client'[d].cache = IF f.rev < client[d].cache.rev THEN client[d].cache ELSE f
                BY <1>0, <1>16, <3>1 DEF Accept, ClientType
            <4>2. f \in Sent /\ Past(f, row)
                BY <1>0, <2>0, <3>1, TailPast DEF FramesPast
            <4>3. client[d].cache \in FrameType /\ Past(client[d].cache, row)
                  /\ (client[d].cache.known \/ client[d].cache.rev = 0)
                <5>1. client[d].cache \in Sent \cup {None}
                    BY <1>0 DEF ClientType
                <5>2. client[d].cache.known \/ client[d].cache = None
                    BY <5>1 DEF Sent
                <5>3. None.rev = 0
                    BY DEF None
                <5>4. QED
                    BY <5>1, <5>2, <5>3, Frames DEF FramesPast
            <4>4. Carries(socket[d], row) => Current(f, row) \/ Carries(socket'[d], row)
                BY <1>0, <2>0, <3>1, <4>1, TailCarries
            <4>5. Current(f, row) => Current(client'[d].cache, row)
                BY <4>1, <4>2, <4>3 DEF Current, Past, Sent, FrameType
            <4>6. Current(client[d].cache, row) => Current(client'[d].cache, row)
                BY <4>1, <4>2, <4>3, Bounds DEF Current, Past, Sent, FrameType, TypeInv
            <4>7. QED
                BY <2>0, <4>4, <4>5, <4>6 DEF Covered
        <3>2. CASE c # d
            <4>1. socket'[d] = socket[d] /\ client'[d] = client[d]
                BY <1>0, <1>16, <3>2 DEF Accept
            <4>2. QED
                BY <2>0, <4>1 DEF Covered
        <3>3. QED
            BY <3>1, <3>2
    <2>2. QED
        BY <1>3, <2>0, <2>1, KeptReach
<1>17. ASSUME NEW c \in Clients, Cut(c) PROVE Reached(d)'
    <2>1. c # d
        BY <1>0, <1>17 DEF Cut, Wants, ClientType
    <2>2. /\ mailbox'[d] = mailbox[d] /\ socket'[d] = socket[d] /\ requests'[d] = requests[d]
          /\ task'[d] = task[d] /\ client'[d] = client[d] /\ (d \in subs => d \in subs')
          /\ UNCHANGED <<player, row, pending>>
        BY <1>0, <1>17, <2>1 DEF Cut
    <2>3. Missed(d) => Missed(d)'
        BY <1>17, <2>1 DEF Cut, Missed, Restored
    <2>4. Covered(d) => Covered(d)'
        BY <2>2 DEF Covered
    <2>5. QED
        BY <1>3, <2>2, <2>3, <2>4, KeptReach
<1>18. ASSUME NEW c \in Clients, Watch(c) \/ Release(c) \/ Reconnect(c) PROVE Reached(d)'
    <2>1. c # d
        BY <1>0, <1>18 DEF Release, Wants, ClientType
    <2>2. /\ UNCHANGED <<player, row, pending, task, subs, mailbox, socket>>
          /\ requests'[d] = requests[d] /\ client'[d] = client[d]
        BY <1>0, <1>18, <2>1 DEF Watch, Release, Reconnect, Ask
    <2>3. Missed(d) => Missed(d)'
        BY <1>18, <2>1 DEF Watch, Release, Reconnect, Missed, Restored
    <2>4. Covered(d) => Covered(d)'
        BY <2>2 DEF Covered
    <2>5. QED
        BY <1>3, <2>2, <2>3, <2>4, KeptReach
<1>19. ASSUME NEW c \in Clients, Request(c) PROVE Reached(d)'
    <2>0. UNCHANGED <<player, row, pending, task, subs, mailbox, socket, client, missed>>
        BY <1>19 DEF Request
    <2>1. \E op \in {"control", "fetch"} :
             requests'[d] = requests[d] \/ requests'[d] = Append(requests[d], op)
        BY <1>0, <1>19 DEF Request, Ask
    <2>2. Subscribes(requests[d]) => Subscribes(requests'[d])
        BY <1>0, <2>1, AppendAsks DEF Ops
    <2>3. Covered(d) => Covered(d)'
        BY <2>0 DEF Covered
    <2>4. QED
        BY <1>3, <2>0, <2>2, <2>3, KeptReach
<1>20. CASE Remove
    <2>1. client[d].watching
        BY <1>3 DEF Wants
    <2>2. <<d, "removed">> \in missed'
        BY <1>20, <2>1 DEF Remove
    <2>3. Missed(d)'
        BY <2>2 DEF Missed, Losses
    <2>4. QED
        BY <2>3
<1>21. CASE ComeBack
    <2>1. /\ UNCHANGED <<row, pending, task, subs, mailbox, socket, requests, client, missed>>
          /\ ~player.there
        BY <1>21 DEF ComeBack, wires
    <2>2. QED
        BY <1>3, <2>1, KeptReach
<1>22. QED
    BY <1>5, <1>6, <1>7, <1>8, <1>9, <1>10, <1>11, <1>12, <1>13, <1>14, <1>15, <1>16, <1>17, <1>18,
       <1>19, <1>20, <1>21
    DEF Next, Read, Serve, Client

LEMMA ServeInit == Init => ServeInv
<1> SUFFICES ASSUME Init PROVE ServeInv
    OBVIOUS
<1>1. Fresh /\ \A c \in Clients : ~client[c].watching
    BY DEF Init, Fresh
<1>2. QED
    BY <1>1 DEF ServeInv, Served

LEMMA ServeStep == TypeInv /\ TypeInv' /\ FrameInv /\ ServeInv /\ [Next]_vars => ServeInv'
<1> SUFFICES ASSUME TypeInv, TypeInv', FrameInv, ServeInv, [Next]_vars PROVE ServeInv'
    OBVIOUS
<1>1. CASE UNCHANGED vars
    BY <1>1 DEF vars, wires, ServeInv, Served, Reached, Covered, Missed, Fresh
<1>2. CASE Next
    <2>1. ~Fresh' => \A c \in Clients : Missed(c)'
        BY <1>2, FreshStep DEF ServeInv
    <2>2. ASSUME NEW d \in Clients, Wants(d)' PROVE EndsSubscribed(requests'[d]) /\ Reached(d)'
        <3>1. Wants(d) => EndsSubscribed(requests[d]) /\ Reached(d)
            BY DEF ServeInv, Served, Wants
        <3>2. EndsSubscribed(requests'[d])
            BY <1>2, <2>2, <3>1, EndsStep
        <3>3. CASE Missed(d)'
            BY <3>2, <3>3 DEF Reached
        <3>4. CASE ~Missed(d)'
            <4>1. Fresh'
                BY <2>1, <3>4
            <4>2. Fresh
                BY <1>2, <4>1, FreshBack
            <4>3. Reached(d)'
                BY <1>2, <2>2, <3>1, <3>4, <4>2, ReachedStep DEF FrameInv
            <4>4. QED
                BY <3>2, <4>3
        <3>5. QED
            BY <3>3, <3>4
    <2>3. QED
        BY <2>1, <2>2 DEF ServeInv, Served, Wants
<1>3. QED
    BY <1>1, <1>2

(* Whatever the clients, the writers and the order of what they do: a       *)
(* client that watches and missed nothing shows the row once nothing is     *)
(* under way.                                                               *)
THEOREM ConvergedHolds == Spec => []Converged
<1>1. TypeInv /\ FrameInv /\ ServeInv => Converged
    <2> SUFFICES ASSUME TypeInv, FrameInv, ServeInv,
                        NEW c \in Clients, Settled(c), ~Missed(c)
                 PROVE  Shows(c)
        BY DEF Converged
    <2>1. /\ Len(requests[c]) = 0 /\ Len(mailbox[c]) = 0 /\ Len(socket[c]) = 0
          /\ task[c].op = "idle" /\ \A h \in Handlers : ~pending[h].known
        BY Frames DEF Settled, Handlers
    <2>2. Reached(c) /\ Fresh
        BY DEF ServeInv, Served, Settled
    <2>3. Covered(c)
        BY <2>1, <2>2 DEF Reached, Subscribes
    <2>4. Current(client[c].cache, row)
        BY <2>1, <2>3 DEF Covered, Carries, Current
    <2>5. Past(client[c].cache, row)
        BY <2>2 DEF FrameInv, FramesPast
    <2>6. client[c].cache \in FrameType /\ row \in FrameType /\ row.known
        BY Frames DEF TypeInv, ClientType, Sent
    <2>7. QED
        BY <2>4, <2>5, <2>6 DEF Shows, Current, Past, FrameType
<1>2. QED
    BY <1>1, TypeInit, TypeStep, FrameInit, FrameStep, ServeInit, ServeStep, PTL DEF Spec
==============================================================================
