----------------------------- MODULE TransferProofs ----------------------------
(***************************************************************************)
(* Theorems about the two ways in which audio is moved: MediaStream, for   *)
(* every set of streams and any number of chunks and of opens, and         *)
(* Library, for every set of folders, contents and imports, every manifest *)
(* and any number of removals.                                             *)
(***************************************************************************)
EXTENDS MediaStream, Library, TLAPS

-----------------------------------------------------------------------------
(* The stream's inductive invariant                                       *)

Sent == {f \in Frame : /\ f.kind = "chunk" => f.seq < Chunks
                       /\ f.kind = "end" => f.seq = Chunks}
Of == [p \in Id |-> producer[p].stream]
ProducerType == {r \in [stream: Stream \cup {NoStream}, pc: Running \cup {"none", "done"},
                        seq: 0..Chunks, cancelled: BOOLEAN] :
                   /\ r.stream = NoStream <=> r.pc = "none"
                   /\ r.pc = "header" => r.seq = 0}

(* Without a connection nothing is on its way, played or noted.             *)
StreamTypeInv ==
  /\ connected \in BOOLEAN
  /\ media \in Stream \cup {NoStream}
  /\ decoder \in Decoder \cup {NoStream}
  /\ decoder # NoStream => decoder.stream = media
  /\ loads \in 0..MaxOpens
  /\ control \in Seq(Control)
  /\ entry \in [Stream -> 0..MaxOpens]
  /\ producer \in [Id -> ProducerType]
  /\ queue \in Seq(Sent) /\ wire \in Seq(Sent)
  /\ reopened \subseteq Stream
  /\ ~connected => /\ control = <<>> /\ queue = <<>> /\ wire = <<>>
                   /\ media = NoStream /\ decoder = NoStream
                   /\ \A s \in Stream : entry[s] = 0

(* Frames come from producers that were started, and the last message of a  *)
(* producer is the last.                                                    *)
Sources ==
  /\ \A i \in 1..Len(wire) : producer[wire[i].by].pc # "none"
  /\ \A i \in 1..Len(queue) :
       /\ producer[queue[i].by].pc # "none"
       /\ queue[i].kind = "closed" =>
            /\ producer[queue[i].by].pc = "done"
            /\ \A j \in 1..Len(queue) : j > i => queue[j].by # queue[i].by

Queued(p) == \E i \in 1..Len(queue) : queue[i].by = p

(* An entry is of its stream and alive; a stream that was never opened too  *)
(* early has the entry of the producer that is at work or has frames queued.*)
Entries ==
  /\ \A s \in Stream : entry[s] # 0 => producer[entry[s]].stream = s
  /\ EntryIsLive
  /\ connected => \A p \in Id :
       Of[p] # NoStream /\ Of[p] \notin reopened /\ (producer[p].pc \in Running \/ Queued(p))
         => entry[Of[p]] = p

(* Frame f is the one before chunk n of producer p, the end being chunk     *)
(* number Chunks.                                                           *)
Before(f, p, n) ==
  /\ f.by = p
  /\ \/ n = 0 /\ f.kind = "header"
     \/ n > 0 /\ f.kind = "chunk" /\ f.seq = n - 1

(* Of the first k frames of q, the last of p's stream is the one before     *)
(* chunk n; none is of p's stream.                                          *)
Hit(st, q, k, p, n) ==
  \E j \in 1..k : /\ Before(q[j], p, n)
                  /\ \A l \in 1..k : l > j => st[q[l].by] # st[p]
Clear(st, q, k, p) == \A l \in 1..k : st[q[l].by] # st[p]

(* ChunkFrame n of p is what comes next to decoder d; to d after k frames of w;  *)
(* to d after the frames of w and k frames of q.                            *)
Awaited(st, d, p, n) ==
  d # NoStream /\ d.stream = st[p] =>
    /\ Len(d.fed) = n
    /\ \A i \in 1..Len(d.fed) : d.fed[i].by = p
OnWire(st, d, w, k, p, n) ==
  Hit(st, w, k, p, n) \/ (Clear(st, w, k, p) /\ Awaited(st, d, p, n))
InQueue(st, d, w, q, k, p, n) ==
  Hit(st, q, k, p, n) \/ (Clear(st, q, k, p) /\ OnWire(st, d, w, Len(w), p, n))

InLine ==
  /\ \A i \in 1..Len(wire) :
       LET f == wire[i] IN
       f.kind \in {"chunk", "end"} /\ Of[f.by] \notin reopened
         => OnWire(Of, decoder, wire, i - 1, f.by, f.seq)
  /\ \A i \in 1..Len(queue) :
       LET f == queue[i] IN
       f.kind \in {"chunk", "end"} /\ Of[f.by] \notin reopened /\ ~producer[f.by].cancelled
         => InQueue(Of, decoder, wire, queue, i - 1, f.by, f.seq)
  /\ connected => \A p \in Id :
       producer[p].pc \in {"check", "read"} /\ Of[p] \notin reopened /\ ~producer[p].cancelled
         => InQueue(Of, decoder, wire, queue, Len(queue), p, producer[p].seq)

(* The last that the satellite asks of the server about stream s is to open *)
(* it; or nothing of s is on the way.                                       *)
Asked(s) ==
  \E i \in 1..Len(control) :
    /\ control[i].kind = "open" /\ control[i].stream = s
    /\ \A l \in 1..Len(control) : l > i => control[l].stream # s
Unasked(s) == \A l \in 1..Len(control) : control[l].stream # s

Serves(p, s) == entry[s] = p /\ ~producer[p].cancelled
HeaderCame(s) ==
  decoder # NoStream \/ \E j \in 1..Len(wire) : wire[j].kind = "header" /\ Of[wire[j].by] = s
Rest(s) ==
  /\ \A l \in 1..Len(queue) : Of[queue[l].by] = s => queue[l].kind = "closed"
  /\ \A q \in Id : Of[q] = s /\ producer[q].pc \in Running => producer[q].pc = "close"

(* How far the stream s, which the satellite plays, can have come.          *)
Failing(s) ==
  \/ \E j \in 1..Len(wire) : wire[j].kind = "fail" /\ Of[wire[j].by] = s
  \/ \E p \in Id : /\ Serves(p, s)
                   /\ \/ producer[p].pc = "failing"
                      \/ \E j \in 1..Len(queue) : queue[j].by = p /\ queue[j].kind = "fail"
Beginning(s) == \E p \in Id : Serves(p, s) /\ producer[p].pc = "header"
Playing(s) ==
  \E p \in Id :
    /\ Serves(p, s) /\ producer[p].pc \in {"check", "read"}
    /\ HeaderCame(s) \/ \E j \in 1..Len(queue) : queue[j].by = p /\ queue[j].kind = "header"
Ending(s) ==
  \E p \in Id, i \in 1..Len(queue) :
    /\ Serves(p, s) /\ producer[p].pc \in {"close", "done"}
    /\ queue[i].by = p /\ queue[i].kind = "end"
    /\ \A l \in 1..Len(queue) : l > i /\ Of[queue[l].by] = s => queue[l].kind = "closed"
    /\ HeaderCame(s) \/ \E j \in 1..Len(queue) : j < i /\ queue[j].by = p /\ queue[j].kind = "header"
Ended(s) ==
  /\ Rest(s)
  /\ \E i \in 1..Len(wire) :
       /\ wire[i].kind = "end" /\ Of[wire[i].by] = s
       /\ \A l \in 1..Len(wire) : l > i => Of[wire[l].by] # s
       /\ decoder # NoStream \/ \E j \in 1..Len(wire) :
                              j < i /\ wire[j].kind = "header" /\ Of[wire[j].by] = s
Played(s) ==
  /\ Rest(s) /\ decoder # NoStream /\ decoder.pc \in {"drain", "over"}
  /\ \A l \in 1..Len(wire) : Of[wire[l].by] # s

Underway ==
  \A s \in Stream : media = s /\ s \notin reopened =>
    \/ Asked(s)
    \/ /\ Unasked(s)
       /\ Failing(s) \/ Beginning(s) \/ Playing(s) \/ Ending(s) \/ Ended(s) \/ Played(s)

-----------------------------------------------------------------------------
(* Sequences *)

LEMMA AppendFact ==
  ASSUME NEW S, NEW s \in Seq(S), NEW x \in S
  PROVE  /\ Append(s, x) \in Seq(S) /\ Len(s) \in Nat
         /\ Len(Append(s, x)) = Len(s) + 1
         /\ \A i \in 1..Len(s) : Append(s, x)[i] = s[i] /\ i \in 1..Len(Append(s, x))
         /\ Append(s, x)[Len(s) + 1] = x
         /\ \A i \in 1..Len(Append(s, x)) : i \in 1..Len(s) \/ i = Len(s) + 1
OBVIOUS

LEMMA TailFact ==
  ASSUME NEW S, NEW s \in Seq(S), s # <<>>
  PROVE  /\ Tail(s) \in Seq(S) /\ Len(s) \in Nat \ {0}
         /\ Len(Tail(s)) = Len(s) - 1
         /\ \A i \in 1..Len(Tail(s)) : Tail(s)[i] = s[i + 1] /\ i + 1 \in 1..Len(s)
         /\ Head(s) = s[1] /\ Head(s) \in S
OBVIOUS

LEMMA Concat == ASSUME NEW S, NEW a \in Seq(S), NEW b \in Seq(S) PROVE a \o b \in Seq(S)
OBVIOUS

-----------------------------------------------------------------------------
(* Type correctness *)

LEMMA Constants ==
         /\ Chunks \in Nat /\ MaxOpens \in Nat /\ NoStream \notin Stream
         /\ 0 \in 0..MaxOpens /\ 0 \in 0..Chunks /\ Id \subseteq 0..MaxOpens
         /\ 0 \notin Id
         /\ NoProducer \in ProducerType
         /\ NoStream \notin Decoder
         /\ \A e \in 0..MaxOpens : e # 0 => e \in Id
BY MediaAssumption DEF NoProducer, ProducerType, Running, Id

LEMMA StreamTypeInit == StreamInit => StreamTypeInv
<1> SUFFICES ASSUME StreamInit PROVE StreamTypeInv
  OBVIOUS
<1>1. producer \in [Id -> ProducerType]
  BY Constants DEF StreamInit
<1>2. entry \in [Stream -> 0..MaxOpens] /\ loads \in 0..MaxOpens
  BY Constants DEF StreamInit
<1>3. QED
  BY <1>1, <1>2 DEF StreamInit, StreamTypeInv

-----------------------------------------------------------------------------
(* What the steps do, as the proofs use it *)

(* Producer p puts f into the queue of a connection that is up.             *)
Puts(p, f) ==
  /\ connected /\ queue' = Append(queue, f) /\ f \in Sent /\ f.by = p
  /\ \/ f.kind = "header" /\ producer[p].seq = 0 /\ producer'[p].seq = 0
        /\ producer[p].pc = "header" /\ producer'[p].pc = "check"
     \/ f.kind = "chunk" /\ f.seq = producer[p].seq /\ producer'[p].seq = f.seq + 1
        /\ producer[p].pc = "read" /\ producer'[p].pc = "check"
     \/ f.kind = "end" /\ f.seq = producer[p].seq
        /\ producer[p].pc = "read" /\ producer'[p].pc = "close"
     \/ f.kind = "fail" /\ producer[p].pc = "failing" /\ producer'[p].pc = "close"
     \/ f.kind = "closed" /\ producer[p].pc = "close" /\ producer'[p].pc = "done"

(* Or goes on without a message.                                            *)
GoesOn(p) ==
  /\ UNCHANGED queue
  /\ connected => /\ producer'[p].pc \in Running
                  /\ producer'[p].pc \in {"check", "read"} =>
                        producer[p].pc = "check" /\ producer'[p].seq = producer[p].seq
                  /\ \/ producer[p].pc = "check" /\ producer'[p].pc = "read"
                     \/ producer[p].pc \in {"header", "read"} /\ producer'[p].pc = "failing"
                     \/ producer[p].pc \in {"check", "failing"} /\ producer[p].cancelled

ProducerStep(p) ==
  /\ UNCHANGED <<connected, media, decoder, loads, control, entry, wire, reopened>>
  /\ producer' \in [Id -> ProducerType]
  /\ producer[p].pc \in Running /\ producer'[p].pc # "none"
  /\ producer'[p].stream = producer[p].stream /\ producer'[p].cancelled = producer[p].cancelled
  /\ \A q \in Id : q # p => producer'[q] = producer[q]
  /\ GoesOn(p) \/ \E f \in Sent : Puts(p, f)

(* A producer goes on to another place.                                     *)
LEMMA AdvancePc ==
  ASSUME StreamTypeInv, NEW p \in Id, producer[p].pc \in Running,
         NEW pc \in (Running \ {"header"}) \cup {"done"},
         producer' = [producer EXCEPT ![p].pc = pc]
  PROVE  /\ producer' \in [Id -> ProducerType]
         /\ producer'[p].pc = pc /\ pc # "none" /\ producer'[p].seq = producer[p].seq
         /\ producer'[p].stream = producer[p].stream
         /\ producer'[p].cancelled = producer[p].cancelled
         /\ \A q \in Id : q # p => producer'[q] = producer[q]
<1> DEFINE r == [producer[p] EXCEPT !.pc = pc]
<1>0. producer \in [Id -> ProducerType] /\ producer[p] \in ProducerType
  BY DEF StreamTypeInv
<1>1. r \in ProducerType /\ r.pc = pc /\ r.seq = producer[p].seq /\ r.stream = producer[p].stream
      /\ r.cancelled = producer[p].cancelled
  BY <1>0 DEF ProducerType, Running
<1>2. producer' = [producer EXCEPT ![p] = r]
  BY <1>0
<1>3. QED
  BY <1>0, <1>1, <1>2 DEF Running

LEMMA Messages ==
  ASSUME StreamTypeInv, NEW p \in Id
  PROVE  /\ producer[p].seq \in 0..Chunks
         /\ LET f(kind) == [by |-> p, kind |-> kind, seq |-> producer[p].seq] IN
            /\ \A kind \in {"header", "fail", "closed"} : f(kind) \in Sent
            /\ producer[p].seq < Chunks => f("chunk") \in Sent
            /\ producer[p].seq = Chunks => f("end") \in Sent
<1>1. producer[p].seq \in 0..Chunks
  BY DEF StreamTypeInv, ProducerType
<1>2. QED
  BY <1>1 DEF Sent, Frame

LEMMA ProducerSteps ==
  ASSUME StreamTypeInv, NEW p \in Id, Produce(p) \/ GiveUp(p)
  PROVE  ProducerStep(p)
<1>0. /\ producer \in [Id -> ProducerType] /\ producer[p] \in ProducerType
      /\ producer[p].seq \in 0..Chunks /\ connected \in BOOLEAN
  BY Messages DEF StreamTypeInv
<1>1. CASE SendHeader(p)
  <2> DEFINE f == [by |-> p, kind |-> "header", seq |-> producer[p].seq]
             pc == IF connected THEN "check" ELSE "failing"
  <2>1. producer[p].pc \in Running /\ pc \in (Running \ {"header"}) \cup {"done"}
        /\ producer' = [producer EXCEPT ![p].pc = pc]
    BY <1>1 DEF SendHeader, Go, Running
  <2>2. producer[p].seq = 0
    BY <1>0, <1>1 DEF SendHeader, ProducerType
  <2>3. connected => Puts(p, f) /\ f \in Sent
    BY <1>1, <2>1, <2>2, AdvancePc, Messages DEF SendHeader, Send, Puts
  <2>4. ~connected => GoesOn(p)
    BY <1>1 DEF SendHeader, Send, GoesOn
  <2>5. QED
    BY <1>1, <2>1, <2>3, <2>4, AdvancePc DEF SendHeader, Still, satellite, ProducerStep
<1>2. CASE Check(p)
  <2> DEFINE pc == IF producer[p].cancelled THEN "close" ELSE "read"
  <2>1. producer[p].pc \in Running /\ pc \in (Running \ {"header"}) \cup {"done"}
        /\ producer' = [producer EXCEPT ![p].pc = pc]
    BY <1>2 DEF Check, Running
  <2>2. GoesOn(p)
    BY <1>2, <2>1, AdvancePc DEF Check, GoesOn, Running
  <2>3. QED
    BY <1>2, <2>1, <2>2, AdvancePc DEF Check, Still, satellite, ProducerStep
<1>3. CASE SendChunk(p)
  <2> DEFINE f == [by |-> p, kind |-> "chunk", seq |-> producer[p].seq]
             pc == IF connected THEN "check" ELSE "failing"
             n == producer[p].seq + 1
  <2>1. producer[p].pc \in Running /\ pc \in (Running \ {"header"}) \cup {"done"}
        /\ n \in 0..Chunks
        /\ producer' = [producer EXCEPT ![p].pc = pc, ![p].seq = n]
    BY <1>0, <1>3, Constants DEF SendChunk, Running
  <2>2. /\ producer' \in [Id -> ProducerType] /\ producer'[p].pc = pc /\ pc # "none"
        /\ producer'[p].seq = n
        /\ producer'[p].stream = producer[p].stream
        /\ producer'[p].cancelled = producer[p].cancelled
        /\ \A q \in Id : q # p => producer'[q] = producer[q]
    <3> DEFINE r == [producer[p] EXCEPT !.pc = pc, !.seq = n]
    <3>1. /\ r \in ProducerType /\ r.pc = pc /\ r.seq = n
          /\ r.stream = producer[p].stream /\ r.cancelled = producer[p].cancelled
      BY <1>0, <2>1 DEF ProducerType, Running
    <3>2. producer' = [producer EXCEPT ![p] = r]
      BY <1>0, <2>1
    <3>3. pc # "none"
      OBVIOUS
    <3> HIDE DEF r, pc, n
    <3>4. QED
      BY <1>0, <3>1, <3>2, <3>3
  <2>3. connected => Puts(p, f) /\ f \in Sent
    BY <1>3, <2>2, Messages DEF SendChunk, Send, Puts
  <2>4. ~connected => GoesOn(p)
    BY <1>3 DEF SendChunk, Send, GoesOn
  <2>5. QED
    BY <1>3, <2>1, <2>2, <2>3, <2>4 DEF SendChunk, Still, satellite, ProducerStep
<1>4. CASE SendEnd(p)
  <2> DEFINE f == [by |-> p, kind |-> "end", seq |-> producer[p].seq]
             pc == IF connected THEN "close" ELSE "failing"
  <2>1. producer[p].pc \in Running /\ pc \in (Running \ {"header"}) \cup {"done"}
        /\ producer' = [producer EXCEPT ![p].pc = pc]
    BY <1>4 DEF SendEnd, Go, Running
  <2>3. connected => Puts(p, f) /\ f \in Sent
    BY <1>4, <2>1, AdvancePc, Messages DEF SendEnd, Send, Puts
  <2>4. ~connected => GoesOn(p)
    BY <1>4 DEF SendEnd, Send, GoesOn
  <2>5. QED
    BY <1>4, <2>1, <2>3, <2>4, AdvancePc DEF SendEnd, Still, satellite, ProducerStep
<1>5. CASE GiveUp(p)
  <2>1. producer[p].pc \in Running /\ "failing" \in (Running \ {"header"}) \cup {"done"}
        /\ producer' = [producer EXCEPT ![p].pc = "failing"]
    BY <1>5 DEF GiveUp, Running
  <2>2. GoesOn(p)
    BY <1>5, <2>1, AdvancePc DEF GiveUp, GoesOn, Running
  <2>3. QED
    BY <1>5, <2>1, <2>2, AdvancePc DEF GiveUp, Still, satellite, ProducerStep
<1>6. CASE SendFail(p)
  <2> DEFINE f == [by |-> p, kind |-> "fail", seq |-> producer[p].seq]
  <2>1. producer[p].pc \in Running /\ "close" \in (Running \ {"header"}) \cup {"done"}
        /\ producer' = [producer EXCEPT ![p].pc = "close"]
    BY <1>6 DEF SendFail, Running
  <2>2. UNCHANGED queue /\ (~connected \/ producer[p].cancelled) => GoesOn(p)
    BY <1>6, <2>1, AdvancePc DEF SendFail, GoesOn, Running
  <2>3. CASE connected /\ ~producer[p].cancelled
    <3>1. Puts(p, f) /\ f \in Sent
      BY <1>6, <2>1, <2>3, AdvancePc, Messages DEF SendFail, Send, Puts
    <3>2. QED
      BY <1>6, <2>1, <3>1, AdvancePc DEF SendFail, Still, satellite, ProducerStep
  <2>4. CASE ~connected \/ producer[p].cancelled
    <3>1. GoesOn(p)
      BY <1>6, <2>2, <2>4 DEF SendFail, Send
    <3>2. QED
      BY <1>6, <2>1, <3>1, AdvancePc DEF SendFail, Still, satellite, ProducerStep
  <2>5. QED
    BY <2>3, <2>4
<1>7. CASE Close(p)
  <2> DEFINE f == [by |-> p, kind |-> "closed", seq |-> producer[p].seq]
  <2>1. producer[p].pc \in Running /\ "done" \in (Running \ {"header"}) \cup {"done"}
        /\ producer' = [producer EXCEPT ![p].pc = "done"]
    BY <1>7 DEF Close, Running
  <2>3. connected => Puts(p, f) /\ f \in Sent
    BY <1>7, <2>1, AdvancePc, Messages DEF Close, Send, Puts
  <2>4. ~connected => GoesOn(p)
    BY <1>7 DEF Close, Send, GoesOn
  <2>5. QED
    BY <1>7, <2>1, <2>3, <2>4, AdvancePc DEF Close, Still, satellite, ProducerStep
<1>8. QED
  BY <1>1, <1>2, <1>3, <1>4, <1>5, <1>6, <1>7 DEF Produce

(* The connection's loop takes an open or a stop.                           *)
ControlStep ==
  /\ connected
  /\ UNCHANGED <<connected, media, decoder, loads, queue, wire>>
  /\ control' \in Seq(Control)
  /\ producer' \in [Id -> ProducerType]
  /\ \A q \in Id : producer[q].cancelled => producer'[q].cancelled \/ producer[q].pc = "none"

Starts(s, p) ==
  /\ producer[p].pc = "none"
  /\ entry' = [entry EXCEPT ![s] = p]
  /\ producer'[p].stream = s /\ producer'[p].pc = "header"
  /\ \A q \in Id : q # p => /\ producer'[q].stream = producer[q].stream
                            /\ producer'[q].pc = producer[q].pc
                            /\ producer'[q].seq = producer[q].seq
  /\ reopened' = IF entry[s] # 0 THEN reopened \cup {s} ELSE reopened

OnlyCancels ==
  /\ UNCHANGED <<entry, reopened>>
  /\ \A q \in Id : /\ producer'[q].stream = producer[q].stream
                   /\ producer'[q].pc = producer[q].pc
                   /\ producer'[q].seq = producer[q].seq

LEMMA ControlSteps ==
  ASSUME StreamTypeInv, TakeControl
  PROVE  ControlStep /\ (OnlyCancels \/ \E s \in Stream, p \in Id : Starts(s, p))
<1>0. /\ producer \in [Id -> ProducerType] /\ \A q \in Id : producer[q] \in ProducerType
      /\ control # <<>> /\ control \in Seq(Control) /\ connected
      /\ entry \in [Stream -> 0..MaxOpens]
  BY DEF StreamTypeInv, TakeControl
<1>1. /\ UNCHANGED <<connected, media, decoder, loads, queue, wire>>
      /\ control' \in Seq(Control) /\ Head(control) \in Control
  BY <1>0, TailFact DEF TakeControl, satellite
<1>a. ASSUME NEW q \in Id
      PROVE  LET r == [producer[q] EXCEPT !.cancelled = TRUE] IN
             /\ r \in ProducerType /\ r.stream = producer[q].stream /\ r.pc = producer[q].pc
             /\ r.seq = producer[q].seq /\ r.cancelled
  BY <1>0 DEF ProducerType
<1>2. CASE Head(control).kind = "open"
  <2> DEFINE s == Head(control).stream
  <2>0. s \in Stream /\ s # NoStream
    BY <1>1, Constants DEF Control
  <2>1. PICK p \in Id : Unused(p) /\ OpenStream(s, p)
    BY <1>2 DEF TakeControl
  <2>2. producer[p].pc = "none" /\ entry' = [entry EXCEPT ![s] = p]
    BY <2>1 DEF Unused, OpenStream
  <2> DEFINE new == [NoProducer EXCEPT !.stream = s, !.pc = "header"]
  <2>3. new \in ProducerType /\ new.stream = s /\ new.pc = "header"
    BY <2>0, Constants DEF NoProducer, ProducerType, Running
  <2>4. /\ producer' = [q \in Id |->
             IF q = p THEN new
             ELSE IF q = entry[s] THEN [producer[q] EXCEPT !.cancelled = TRUE]
             ELSE producer[q]]
    BY <2>1 DEF OpenStream
  <2>5. /\ producer' \in [Id -> ProducerType] /\ producer'[p] = new
        /\ \A q \in Id : q # p => \/ producer'[q] = producer[q]
                                  \/ producer'[q] = [producer[q] EXCEPT !.cancelled = TRUE]
    <3> HIDE DEF new
    <3>1. QED
      BY <2>3, <2>4, <1>0, <1>a
  <2>6. \A q \in Id : q # p => /\ producer'[q].stream = producer[q].stream
                               /\ producer'[q].pc = producer[q].pc
                               /\ producer'[q].seq = producer[q].seq
                               /\ producer[q].cancelled => producer'[q].cancelled
    BY <2>5, <1>a
  <2>7. ControlStep
    BY <1>0, <1>1, <2>2, <2>5, <2>6 DEF ControlStep
  <2>8. reopened' = IF entry[s] # 0 THEN reopened \cup {s} ELSE reopened
    BY <1>2 DEF TakeControl
  <2>9. Starts(s, p)
    BY <2>2, <2>3, <2>5, <2>6, <2>8 DEF Starts
  <2>10. QED
    BY <2>0, <2>7, <2>9
<1>3. CASE Head(control).kind = "stop"
  <2> DEFINE s == Head(control).stream
  <2>0. s \in Stream
    BY <1>1 DEF Control
  <2>1. Stop(s) /\ reopened' = reopened
    BY <1>3 DEF TakeControl
  <2>2. /\ producer' \in [Id -> ProducerType]
        /\ \A q \in Id : \/ producer'[q] = producer[q]
                         \/ producer'[q] = [producer[q] EXCEPT !.cancelled = TRUE]
    <3>1. CASE entry[s] = 0
      BY <1>0, <2>1, <3>1 DEF Stop
    <3>2. CASE entry[s] # 0
      <4>1. entry[s] \in Id
        BY <1>0, <2>0, <3>2, Constants
      <4>2. producer' = [producer EXCEPT ![entry[s]] = [producer[entry[s]] EXCEPT !.cancelled = TRUE]]
        BY <1>0, <2>1, <3>2, <4>1 DEF Stop
      <4>3. QED
        BY <1>0, <1>a, <4>1, <4>2
    <3>3. QED
      BY <3>1, <3>2
  <2>3. OnlyCancels /\ \A q \in Id : producer[q].cancelled => producer'[q].cancelled
    BY <1>a, <2>1, <2>2 DEF OnlyCancels, Stop
  <2>4. QED
    BY <1>0, <1>1, <2>2, <2>3 DEF ControlStep
<1>4. QED
  BY <1>1, <1>2, <1>3 DEF Control

(* The satellite takes a frame off the wire.                                *)
LEMMA ReceiveSteps ==
  ASSUME StreamTypeInv, Receive
  PROVE  /\ connected /\ wire # <<>> /\ Head(wire) \in Sent /\ wire' = Tail(wire)
         /\ wire' \in Seq(Sent)
         /\ UNCHANGED <<connected, loads, entry, producer, queue, reopened>>
         /\ LET f == Head(wire) IN Header(f) \/ ChunkFrame(f) \/ End(f) \/ Fail(f)
BY TailFact DEF StreamTypeInv, Receive, server

-----------------------------------------------------------------------------

LEMMA StopsFact ==
  ASSUME StreamTypeInv
  PROVE  /\ \A s \in Stream \cup {NoStream} : Stops(s) \in Seq(Control)
         /\ control \o Stops(media) \in Seq(Control)
         /\ \A s \in Stream : control \o Stops(media) \o <<[kind |-> "open", stream |-> s]>> \in Seq(Control)
<1>1. ASSUME NEW s \in Stream
      PROVE  /\ <<[kind |-> "stop", stream |-> s]>> \in Seq(Control)
             /\ <<[kind |-> "open", stream |-> s]>> \in Seq(Control)
  BY DEF Control
<1>2. \A s \in Stream \cup {NoStream} : Stops(s) \in Seq(Control)
  <2>1. <<>> \in Seq(Control)
    OBVIOUS
  <2>2. QED
    BY <1>1, <2>1 DEF Stops
<1>3. control \in Seq(Control) /\ Stops(media) \in Seq(Control)
  BY <1>2 DEF StreamTypeInv
<1>4. control \o Stops(media) \in Seq(Control)
  BY <1>3
<1>5. ASSUME NEW s \in Stream
      PROVE  control \o Stops(media) \o <<[kind |-> "open", stream |-> s]>> \in Seq(Control)
  BY <1>1, <1>4, Concat
<1>6. QED
  BY <1>2, <1>4, <1>5

LEMMA StreamTypeStep == ASSUME StreamTypeInv, Sources, [StreamNext]_streamVars PROVE StreamTypeInv'
<1>0. /\ NoStream \notin Stream /\ NoStream \notin Decoder
      /\ decoder # NoStream => decoder \in Decoder /\ decoder.stream = media
      /\ media \in Stream \cup {NoStream}
      /\ control \in Seq(Control)
  BY Constants DEF StreamTypeInv
<1>1. ASSUME NEW s \in Stream, Load(s) PROVE StreamTypeInv'
  <2>1. loads' \in 0..MaxOpens
    BY <1>1, Constants DEF Load, StreamTypeInv
  <2>2. control' \in Seq(Control)
    BY <1>1, StopsFact DEF Load
  <2>3. QED
    BY <1>1, <2>1, <2>2 DEF Load, StreamTypeInv, server
<1>2. CASE Halt
  <2>1. control' \in Seq(Control)
    BY <1>2, StopsFact DEF Halt
  <2>2. QED
    BY <1>2, <2>1 DEF Halt, StreamTypeInv, server
<1>3. CASE Receive
  <2> DEFINE f == Head(wire)
  <2>1. /\ connected /\ f \in Sent /\ wire' \in Seq(Sent)
        /\ UNCHANGED <<connected, loads, entry, producer, queue, reopened>>
        /\ Header(f) \/ ChunkFrame(f) \/ End(f) \/ Fail(f)
    BY <1>3, ReceiveSteps
  <2>2. /\ f.by \in Id /\ producer[f.by].stream \in Stream \cup {NoStream} /\ f.seq \in 0..Chunks
        /\ producer[f.by].stream # NoStream
    <3>1. f = wire[1] /\ 1 \in 1..Len(wire)
      BY <1>3, ReceiveSteps, TailFact DEF StreamTypeInv
    <3>2. f.by \in Id /\ f.seq \in 0..Chunks
      BY <2>1 DEF Sent, Frame
    <3>3. producer[f.by] \in ProducerType /\ producer[f.by].pc # "none"
      BY <3>1, <3>2 DEF Sources, StreamTypeInv
    <3>4. QED
      BY <3>2, <3>3 DEF ProducerType
  <2> HIDE DEF f
  <2> DEFINE Fits == /\ media' \in Stream \cup {NoStream} /\ decoder' \in Decoder \cup {NoStream}
                     /\ decoder' # NoStream => decoder'.stream = media'
                     /\ control' \in Seq(Control)
  <2>3. ASSUME Header(f) PROVE Fits
    <3>1. CASE media = producer[f.by].stream
      <4>1. [stream |-> media, fed |-> <<>>, pc |-> "feed"] \in Decoder
        BY <1>0, <2>2, <3>1 DEF Decoder
      <4>2. QED
        BY <1>0, <2>3, <3>1, <4>1 DEF Header
    <3>2. CASE media # producer[f.by].stream
      BY <1>0, <2>3, <3>2 DEF Header
    <3>3. QED
      BY <3>1, <3>2
  <2>4. ASSUME ChunkFrame(f) PROVE Fits
    <3>1. ASSUME decoder # NoStream
          PROVE  /\ [decoder EXCEPT !.fed = Append(@, [by |-> f.by, seq |-> f.seq])] \in Decoder
                 /\ [decoder EXCEPT !.fed = Append(@, [by |-> f.by, seq |-> f.seq])].stream = media
      <4>1. decoder \in Decoder /\ decoder.fed \in Seq(Fed) /\ decoder.stream = media
        BY <1>0, <3>1 DEF Decoder
      <4>2. Append(decoder.fed, [by |-> f.by, seq |-> f.seq]) \in Seq(Fed)
        BY <2>2, <4>1, AppendFact DEF Fed
      <4>3. QED
        BY <4>1, <4>2 DEF Decoder
    <3>2. QED
      BY <1>0, <2>4, <3>1, StopsFact DEF ChunkFrame
  <2>5. ASSUME End(f) PROVE Fits
    <3>1. ASSUME decoder # NoStream
          PROVE  /\ [decoder EXCEPT !.pc = "drain"] \in Decoder
                 /\ [decoder EXCEPT !.pc = "drain"].stream = media
      BY <1>0, <3>1 DEF Decoder
    <3>2. QED
      BY <1>0, <2>5, <3>1 DEF End
  <2>6. ASSUME Fail(f) PROVE Fits
    BY <1>0, <2>6 DEF Fail
  <2>7. Fits
    BY <2>1, <2>3, <2>4, <2>5, <2>6
  <2>8. QED
    BY <2>1, <2>7 DEF StreamTypeInv
<1>4. ASSUME NEW pc \in {"feed", "drain"}, DecoderEnds(pc) PROVE StreamTypeInv'
  <2>1. decoder' \in Decoder /\ decoder'.stream = decoder.stream
    BY <1>0, <1>4 DEF DecoderEnds, Decoder
  <2>2. decoder # NoStream /\ UNCHANGED <<connected, media, loads, control, server, wire>>
    BY <1>4 DEF DecoderEnds
  <2>3. QED
    BY <1>0, <2>1, <2>2 DEF StreamTypeInv, server
<1>5. CASE TakeControl
  <2>1. ControlStep /\ entry' \in [Stream -> 0..MaxOpens] /\ reopened' \subseteq Stream
    BY <1>5, ControlSteps, Constants DEF OnlyCancels, Starts, StreamTypeInv
  <2>2. QED
    BY <2>1 DEF ControlStep, StreamTypeInv
<1>6. CASE Forward
  <2>1. queue # <<>> /\ queue' \in Seq(Sent) /\ Head(queue) \in Sent
    BY <1>6, TailFact DEF Forward, StreamTypeInv
  <2>2. wire' \in Seq(Sent) /\ entry' \in [Stream -> 0..MaxOpens]
    <3>1. Append(wire, Head(queue)) \in Seq(Sent)
      BY <2>1, AppendFact DEF StreamTypeInv
    <3>2. /\ wire' = wire \/ wire' = Append(wire, Head(queue))
          /\ entry' = entry \/ entry' = [entry EXCEPT ![producer[Head(queue).by].stream] = 0]
      BY <1>6 DEF Forward
    <3>3. wire \in Seq(Sent) /\ entry \in [Stream -> 0..MaxOpens] /\ 0 \in 0..MaxOpens
      BY Constants DEF StreamTypeInv
    <3>4. entry' \in [Stream -> 0..MaxOpens]
      BY <3>2, <3>3
    <3>5. QED
      BY <3>1, <3>2, <3>3, <3>4
  <2>3. connected /\ UNCHANGED <<connected, media, decoder, loads, control, producer, reopened>>
    BY <1>6, <2>1 DEF Forward, satellite, StreamTypeInv
  <2>4. QED
    BY <2>1, <2>2, <2>3 DEF StreamTypeInv
<1>7. CASE Disconnect
  <2>1. entry' \in [Stream -> 0..MaxOpens] /\ \A s \in Stream : entry'[s] = 0
    BY <1>7, Constants DEF Disconnect
  <2>2. /\ connected' = FALSE /\ media' = NoStream /\ decoder' = NoStream
        /\ control' = <<>> /\ queue' = <<>> /\ wire' = <<>>
        /\ UNCHANGED <<loads, producer, reopened>>
    BY <1>7 DEF Disconnect
  <2>3. /\ control' \in Seq(Control) /\ queue' \in Seq(Sent) /\ wire' \in Seq(Sent)
        /\ connected' \in BOOLEAN /\ media' \in Stream \cup {NoStream}
        /\ decoder' \in Decoder \cup {NoStream}
    <3>1. <<>> \in Seq(Control) /\ <<>> \in Seq(Sent)
      OBVIOUS
    <3>2. control' \in Seq(Control) /\ queue' \in Seq(Sent) /\ wire' \in Seq(Sent)
      BY <2>2, <3>1
    <3>3. QED
      BY <2>2, <3>2
  <2>4. loads' \in 0..MaxOpens /\ producer' \in [Id -> ProducerType] /\ reopened' \subseteq Stream
    BY <2>2 DEF StreamTypeInv
  <2>5. decoder' # NoStream => decoder'.stream = media'
    BY <2>2
  <2>6. QED
    BY <2>1, <2>2, <2>3, <2>4, <2>5 DEF StreamTypeInv
<1>8. ASSUME NEW p \in Id, Produce(p) \/ GiveUp(p) PROVE StreamTypeInv'
  <2>1. ProducerStep(p)
    BY <1>8, ProducerSteps
  <2>2. queue' \in Seq(Sent) /\ (~connected => queue' = queue)
    <3>1. \A f \in Sent : Append(queue, f) \in Seq(Sent)
      BY AppendFact DEF StreamTypeInv
    <3>2. QED
      BY <2>1, <3>1 DEF ProducerStep, GoesOn, Puts, StreamTypeInv
  <2>3. /\ UNCHANGED <<connected, media, decoder, loads, control, entry, wire, reopened>>
        /\ producer' \in [Id -> ProducerType]
    BY <2>1 DEF ProducerStep
  <2>4. QED
    BY <2>2, <2>3 DEF StreamTypeInv
<1>9. CASE UNCHANGED streamVars
  BY <1>9 DEF streamVars, StreamTypeInv
<1>10. QED
  BY <1>1, <1>2, <1>3, <1>4, <1>5, <1>6, <1>7, <1>8, <1>9 DEF StreamNext

-----------------------------------------------------------------------------
(* Producers, frames and entries *)

(* What a step leaves of the queue, but for a frame that it puts in last.   *)
LEMMA SourcesInit == ASSUME StreamInit PROVE Sources /\ Entries
<1>1. /\ Len(wire) = 0 /\ Len(queue) = 0
      /\ \A s \in Stream : entry[s] = 0
      /\ \A p \in Id : producer[p].stream = NoStream
  BY DEF StreamInit, NoProducer
<1>2. Sources
  BY <1>1 DEF Sources
<1>3. EntryIsLive
  BY <1>1 DEF EntryIsLive
<1>4. \A p \in Id : Of[p] = NoStream
  BY <1>1 DEF Of
<1>5. QED
  BY <1>1, <1>2, <1>3, <1>4 DEF Entries

LEMMA SenderFact ==
  ASSUME NEW s \in Seq(Sent) PROVE \A i \in 1..Len(s) : s[i] \in Sent /\ s[i].by \in Id
<1>1. \A i \in 1..Len(s) : s[i] \in Sent
  OBVIOUS
<1>2. \A f \in Sent : f.by \in Id
  BY DEF Sent, Frame
<1>3. QED
  BY <1>1, <1>2

LEMMA SourcesStep == ASSUME StreamTypeInv, StreamTypeInv', Sources, [StreamNext]_streamVars PROVE Sources'
<1>0. /\ wire \in Seq(Sent) /\ queue \in Seq(Sent)
      /\ \A i \in 1..Len(wire) : wire[i].by \in Id
      /\ \A i \in 1..Len(queue) : queue[i].by \in Id
  BY SenderFact DEF StreamTypeInv
<1>1. CASE UNCHANGED <<wire, queue, producer>>
  BY <1>1 DEF Sources
<1>2. CASE Receive
  <2>1. wire # <<>> /\ wire' = Tail(wire) /\ UNCHANGED <<producer, queue>>
    BY <1>2, ReceiveSteps
  <2>2. \A i \in 1..Len(wire') : wire'[i] = wire[i + 1] /\ i + 1 \in 1..Len(wire)
    BY <1>0, <2>1, TailFact
  <2>3. QED
    BY <2>1, <2>2 DEF Sources
<1>3. CASE TakeControl
  <2>1. UNCHANGED <<wire, queue>>
        /\ \A q \in Id : producer[q].pc # "none" => producer'[q].pc = producer[q].pc
    BY <1>3, ControlSteps DEF ControlStep, OnlyCancels, Starts
  <2>2. QED
    BY <1>0, <2>1 DEF Sources
<1>4. CASE Forward
  <2> DEFINE f == Head(queue)
  <2>1. queue # <<>> /\ queue' = Tail(queue) /\ UNCHANGED producer
        /\ (wire' = wire \/ wire' = Append(wire, f))
    BY <1>4 DEF Forward
  <2>2. /\ \A i \in 1..Len(queue') : queue'[i] = queue[i + 1] /\ i + 1 \in 1..Len(queue) /\ i \in Nat
        /\ f \in Sent /\ f = queue[1] /\ 1 \in 1..Len(queue)
    BY <1>0, <2>1, TailFact
  <2>3. \A i \in 1..Len(wire') : producer[wire'[i].by].pc # "none"
    <3>1. CASE wire' = wire
      BY <3>1 DEF Sources
    <3>2. CASE wire' = Append(wire, f)
      <4>1. \A i \in 1..Len(wire') : (i \in 1..Len(wire) /\ wire'[i] = wire[i]) \/ wire'[i] = f
        BY <1>0, <2>2, <3>2, AppendFact
      <4>2. QED
        BY <2>2, <4>1 DEF Sources
    <3>3. QED
      BY <2>1, <3>1, <3>2
  <2>4. ASSUME NEW i \in 1..Len(queue')
        PROVE  /\ producer[queue'[i].by].pc # "none"
               /\ queue'[i].kind = "closed" =>
                    /\ producer[queue'[i].by].pc = "done"
                    /\ \A j \in 1..Len(queue') : j > i => queue'[j].by # queue'[i].by
    <3>1. queue'[i] = queue[i + 1] /\ i + 1 \in 1..Len(queue) /\ i \in Nat
      BY <2>2
    <3>2. /\ producer[queue[i + 1].by].pc # "none"
          /\ queue[i + 1].kind = "closed" =>
               /\ producer[queue[i + 1].by].pc = "done"
               /\ \A j \in 1..Len(queue) : j > i + 1 => queue[j].by # queue[i + 1].by
      BY <3>1 DEF Sources
    <3>3. \A j \in 1..Len(queue') : j > i => j + 1 \in 1..Len(queue) /\ j + 1 > i + 1
                                           /\ queue'[j] = queue[j + 1]
      BY <2>2, <3>1
    <3>4. QED
      BY <3>1, <3>2, <3>3
  <2>5. QED
    BY <2>1, <2>3, <2>4 DEF Sources
<1>5. CASE Disconnect
  <2>1. Len(wire') = 0 /\ Len(queue') = 0
    BY <1>5 DEF Disconnect
  <2>2. QED
    BY <2>1 DEF Sources
<1>6. ASSUME NEW p \in Id, Produce(p) \/ GiveUp(p) PROVE Sources'
  <2>1. ProducerStep(p)
    BY <1>6, ProducerSteps
  <2>2. /\ UNCHANGED wire /\ \A q \in Id : q # p => producer'[q] = producer[q]
        /\ producer[p].pc \in Running /\ producer'[p].pc # "none" /\ producer[p].pc # "done"
    BY <2>1 DEF ProducerStep, Running
  <2>3. \A i \in 1..Len(wire) : producer'[wire[i].by].pc # "none"
    BY <1>0, <2>2 DEF Sources
  <2>4. ASSUME NEW i \in 1..Len(queue)
        PROVE  /\ producer'[queue[i].by].pc # "none"
               /\ queue[i].kind = "closed" =>
                    /\ producer'[queue[i].by].pc = "done" /\ queue[i].by # p
                    /\ \A j \in 1..Len(queue) : j > i => queue[j].by # queue[i].by
    BY <1>0, <2>2 DEF Sources
  <2>5. CASE UNCHANGED queue
    BY <2>2, <2>3, <2>4, <2>5 DEF Sources
  <2>6. ASSUME NEW f \in Sent, Puts(p, f) PROVE Sources'
    <3>1. /\ queue' = Append(queue, f) /\ f.by = p
          /\ f.kind = "closed" => producer'[p].pc = "done"
      BY <2>6 DEF Puts
    <3>2. /\ Len(queue') = Len(queue) + 1 /\ Len(queue) \in Nat /\ queue'[Len(queue) + 1] = f
          /\ \A i \in 1..Len(queue) : queue'[i] = queue[i]
          /\ \A i \in 1..Len(queue') : i \in 1..Len(queue) \/ i = Len(queue) + 1
      BY <1>0, <3>1, AppendFact
    <3>3. ASSUME NEW i \in 1..Len(queue')
          PROVE  /\ producer'[queue'[i].by].pc # "none"
                 /\ queue'[i].kind = "closed" =>
                      /\ producer'[queue'[i].by].pc = "done"
                      /\ \A j \in 1..Len(queue') : j > i => queue'[j].by # queue'[i].by
      <4>1. CASE i = Len(queue) + 1
        BY <2>2, <3>1, <3>2, <4>1
      <4>2. CASE i \in 1..Len(queue)
        BY <2>4, <3>1, <3>2, <4>2
      <4>3. QED
        BY <3>2, <4>1, <4>2
    <3>4. QED
      BY <2>2, <2>3, <3>3 DEF Sources
  <2>7. QED
    BY <2>1, <2>5, <2>6 DEF ProducerStep, GoesOn
<1>7. QED
  BY <1>1, <1>2, <1>3, <1>4, <1>5, <1>6
  DEF StreamNext, streamVars, Load, Halt, DecoderEnds, server

LEMMA EntriesStep ==
  ASSUME StreamTypeInv, StreamTypeInv', Sources, Entries, [StreamNext]_streamVars PROVE Entries'
<1>0. /\ queue \in Seq(Sent) /\ \A i \in 1..Len(queue) : queue[i].by \in Id
      /\ Len(queue) \in Nat
      /\ entry \in [Stream -> 0..MaxOpens] /\ \A e \in 0..MaxOpens : e # 0 => e \in Id
      /\ \A s \in Stream : entry[s] \in 0..MaxOpens
      /\ ~connected => \A s \in Stream : entry[s] = 0
  BY Constants, SenderFact DEF StreamTypeInv
<1>a. DOMAIN queue = 1..Len(queue) /\ DOMAIN queue' = 1..Len(queue')
  BY DEF StreamTypeInv
<1> USE <1>a
<1>1. CASE UNCHANGED <<connected, queue, producer, entry, reopened>>
  BY <1>1 DEF Entries, EntryIsLive, Of, Queued
<1>3. CASE TakeControl
  <2>0. ControlStep
    BY <1>3, ControlSteps
  <2>1. CASE OnlyCancels
    <3>1. /\ UNCHANGED <<connected, queue, entry, reopened>>
          /\ \A q \in Id : /\ producer'[q].stream = producer[q].stream
                           /\ producer'[q].pc = producer[q].pc
      BY <2>0, <2>1 DEF ControlStep, OnlyCancels
    <3>2. \A q \in Id : Of'[q] = Of[q]
      BY <3>1 DEF Of
    <3>3. QED
      BY <1>0, <3>1, <3>2 DEF Entries, EntryIsLive, Queued
  <2>2. ASSUME NEW s \in Stream, NEW p \in Id, Starts(s, p) PROVE Entries'
    <3>0. /\ connected /\ UNCHANGED <<connected, queue>> /\ producer[p].pc = "none"
          /\ entry' = [entry EXCEPT ![s] = p] /\ p # 0
          /\ producer'[p].stream = s /\ producer'[p].pc \in Running
          /\ \A q \in Id : q # p => /\ producer'[q].stream = producer[q].stream
                                    /\ producer'[q].pc = producer[q].pc
          /\ reopened' = IF entry[s] # 0 THEN reopened \cup {s} ELSE reopened
      BY <2>0, <2>2, Constants DEF ControlStep, Starts, Running
    <3>1. producer[p].stream = NoStream /\ s # NoStream
      BY <3>0, Constants DEF StreamTypeInv, ProducerType
    <3>2. \A t \in Stream : t # s => entry'[t] = entry[t]
      BY <1>0, <3>0
    <3>3. entry'[s] = p
      BY <1>0, <3>0
    <3>4. \A t \in Stream : entry[t] # p
      BY <1>0, <3>0, <3>1, Constants DEF Entries
    <3>5. \A t \in Stream : entry'[t] # 0 => producer'[entry'[t]].stream = t
      BY <1>0, <3>0, <3>2, <3>3, <3>4 DEF Entries
    <3>6. EntryIsLive'
      BY <1>0, <3>0, <3>2, <3>3, <3>4 DEF Entries, EntryIsLive
    <3>7. ASSUME NEW q \in Id, Of'[q] \notin reopened', producer'[q].pc \in Running \/ Queued(q)'
          PROVE  entry'[Of'[q]] = q
      <4>1. CASE q = p
        BY <3>0, <3>3, <4>1 DEF Of
      <4>2. CASE q # p
        <5>1. Of'[q] = Of[q] /\ Of[q] \notin reopened /\ (producer[q].pc \in Running \/ Queued(q))
          BY <3>0, <3>7, <4>2 DEF Of, Queued
        <5>2. Of[q] \in Stream
          <6>1. producer[q].pc # "none"
            BY <5>1 DEF Queued, Sources, Running
          <6>2. QED
            BY <6>1 DEF Of, StreamTypeInv, ProducerType
        <5>3. entry[Of[q]] = q
          BY <3>0, <5>1, <5>2, Constants DEF Entries
        <5>4. Of[q] # s
          BY <3>0, <3>7, <5>1, <5>3, Constants
        <5>5. QED
          BY <3>2, <5>1, <5>2, <5>3, <5>4
      <4>3. QED
        BY <4>1, <4>2
    <3>8. QED
      BY <3>5, <3>6, <3>7 DEF Entries
  <2>3. QED
    BY <1>3, <2>1, <2>2, ControlSteps
<1>4. CASE Forward
  <2> DEFINE f == Head(queue)
             s == producer[f.by].stream
  <2>1. /\ queue # <<>> /\ queue' = Tail(queue) /\ UNCHANGED <<producer, reopened>>
        /\ connected /\ connected' = connected
        /\ IF f.kind = "closed" THEN entry' = [entry EXCEPT ![s] = 0] ELSE UNCHANGED entry
    BY <1>4 DEF Forward, satellite, StreamTypeInv
  <2>2. /\ \A i \in 1..Len(queue') : queue'[i] = queue[i + 1] /\ i + 1 \in 1..Len(queue)
        /\ \A i \in 1..Len(queue) : i # 1 => i - 1 \in 1..Len(queue') /\ queue'[i - 1] = queue[i]
        /\ f = queue[1] /\ 1 \in 1..Len(queue)
    <3>1. /\ queue' = Tail(queue) /\ Len(queue) \in Nat \ {0} /\ Len(queue') = Len(queue) - 1
          /\ \A i \in 1..Len(queue') : queue'[i] = queue[i + 1] /\ i + 1 \in 1..Len(queue)
          /\ f = queue[1]
      BY <1>0, <2>1, TailFact
    <3>2. \A i \in 1..Len(queue) : i # 1 => i - 1 \in 1..Len(queue') /\ (i - 1) + 1 = i
      BY <3>1
    <3>3. QED
      BY <3>1, <3>2
  <2>3. /\ f.by \in Id /\ producer[f.by].pc # "none" /\ s \in Stream
        /\ f.kind = "closed" => producer[f.by].pc = "done"
                                /\ \A j \in 1..Len(queue) : j > 1 => queue[j].by # f.by
    <3>1. f.by \in Id /\ producer[f.by].pc # "none"
          /\ (f.kind = "closed" => producer[f.by].pc = "done"
                                /\ \A j \in 1..Len(queue) : j > 1 => queue[j].by # f.by)
      BY <1>0, <2>2 DEF Sources
    <3>2. QED
      BY <3>1 DEF StreamTypeInv, ProducerType
  <2> HIDE DEF f, s
  <2>4. \A q \in Id : Queued(q)' => Queued(q) /\ (f.kind = "closed" => q # f.by)
    BY <2>2, <2>3 DEF Queued
  <2>5. \A t \in Stream : entry'[t] # 0 => entry'[t] = entry[t] /\ (f.kind = "closed" => t # s)
    BY <1>0, <2>1, <2>3
  <2>6. EntryIsLive'
    <3> SUFFICES ASSUME NEW t \in Stream, entry'[t] # 0, producer[entry[t]].pc \notin Running
                 PROVE  \E i \in 1..Len(queue') : queue'[i].by = entry[t] /\ queue'[i].kind = "closed"
      <4>1. \A t \in Stream : entry'[t] # 0 => entry'[t] = entry[t]
        BY <2>5
      <4>2. DOMAIN queue' = 1..Len(queue') /\ producer' = producer
        BY <2>1
      <4>3. QED
        BY <4>1, <4>2 DEF EntryIsLive
    <3>1. entry[t] # 0 /\ entry'[t] = entry[t] /\ producer[entry[t]].stream = t
      BY <2>5 DEF Entries
    <3>2. PICK i \in 1..Len(queue) : queue[i].by = entry[t] /\ queue[i].kind = "closed"
      BY <3>1 DEF Entries, EntryIsLive
    <3>3. i # 1
      BY <2>2, <2>5, <3>1, <3>2 DEF s
    <3>4. QED
      BY <2>2, <3>2, <3>3
  <2>7. ASSUME NEW q \in Id, Of[q] # NoStream, Of[q] \notin reopened, producer[q].pc \in Running \/ Queued(q)'
        PROVE  entry'[Of[q]] = q
    <3>1. entry[Of[q]] = q
      BY <2>1, <2>4, <2>7 DEF Entries
    <3>2. Of[q] \in Stream
      BY <2>7 DEF Of, StreamTypeInv, ProducerType
    <3>3. CASE f.kind # "closed"
      BY <2>1, <3>1, <3>3
    <3>4. CASE f.kind = "closed" /\ Of[q] # s
      BY <1>0, <2>1, <3>1, <3>2, <3>4
    <3>5. CASE f.kind = "closed" /\ Of[q] = s
      <4>1. q # f.by /\ Queued(f.by) /\ Of[f.by] = s
        BY <2>2, <2>3, <2>4, <2>7, <3>5 DEF Queued, Running, Of, s
      <4>2. entry[s] = f.by
        BY <2>1, <2>3, <2>7, <3>5, <4>1 DEF Entries
      <4>3. QED
        BY <3>1, <3>5, <4>1, <4>2
    <3>6. QED
      BY <3>3, <3>4, <3>5
  <2>8. Of' = Of
    BY <2>1 DEF Of
  <2>9. \A t \in Stream : entry'[t] # 0 => producer'[entry'[t]].stream = t
    BY <2>1, <2>5 DEF Entries
  <2>10. QED
    BY <2>1, <2>6, <2>7, <2>8, <2>9 DEF Entries
<1>5. CASE Disconnect
  BY <1>5 DEF Disconnect, Entries, EntryIsLive
<1>6. ASSUME NEW p \in Id, Produce(p) \/ GiveUp(p) PROVE Entries'
  <2>1. ProducerStep(p)
    BY <1>6, ProducerSteps
  <2>2. /\ UNCHANGED <<connected, entry, reopened>>
        /\ \A q \in Id : q # p => producer'[q] = producer[q]
        /\ producer'[p].stream = producer[p].stream
        /\ producer[p].pc \in Running
    BY <2>1 DEF ProducerStep
  <2>3. Of' = Of
    BY <2>2 DEF Of
  <2>4. \A q \in Id : producer'[q].stream = producer[q].stream
    BY <2>2
  <2>5. CASE connected
    <3>1. \A i \in 1..Len(queue) : i \in 1..Len(queue') /\ queue'[i] = queue[i]
      <4>1. UNCHANGED queue \/ \E f \in Sent : queue' = Append(queue, f)
        BY <2>1 DEF ProducerStep, GoesOn, Puts
      <4>2. ASSUME NEW f \in Sent, queue' = Append(queue, f)
            PROVE  \A i \in 1..Len(queue) : i \in 1..Len(queue') /\ queue'[i] = queue[i]
        BY <1>0, <4>2, AppendFact
      <4>3. QED
        BY <4>1, <4>2
    <3>2. \A q \in Id : Queued(q)' => Queued(q) \/ q = p
      <4>1. CASE UNCHANGED queue
        BY <4>1 DEF Queued
      <4>2. ASSUME NEW f \in Sent, Puts(p, f) PROVE \A q \in Id : Queued(q)' => Queued(q) \/ q = p
        <5>1. queue' = Append(queue, f) /\ f.by = p
          BY <4>2 DEF Puts
        <5>2. \A i \in 1..Len(queue') : (i \in 1..Len(queue) /\ queue'[i] = queue[i]) \/ queue'[i] = f
          BY <1>0, <5>1, AppendFact
        <5>3. QED
          BY <5>1, <5>2 DEF Queued
      <4>3. QED
        BY <2>1, <4>1, <4>2 DEF ProducerStep, GoesOn
    <3>3. producer'[p].pc \in Running \/
            \E i \in 1..Len(queue') : queue'[i].by = p /\ queue'[i].kind = "closed"
      <4>1. CASE GoesOn(p)
        BY <2>5, <4>1 DEF GoesOn
      <4>2. ASSUME NEW f \in Sent, Puts(p, f)
            PROVE  producer'[p].pc \in Running \/
                     \E i \in 1..Len(queue') : queue'[i].by = p /\ queue'[i].kind = "closed"
        <5>1. queue' = Append(queue, f) /\ f.by = p
              /\ (producer'[p].pc \in Running \/ f.kind = "closed")
          BY <4>2 DEF Puts, Running
        <5>2. queue'[Len(queue) + 1] = f /\ Len(queue) + 1 \in 1..Len(queue')
          BY <1>0, <5>1, AppendFact
        <5>3. QED
          BY <5>1, <5>2
      <4>3. QED
        BY <2>1, <4>1, <4>2 DEF ProducerStep
    <3>4. EntryIsLive'
      <4> SUFFICES ASSUME NEW t \in Stream, entry[t] # 0
                   PROVE  \/ producer'[entry[t]].pc \in Running
                          \/ \E i \in 1..Len(queue') :
                                queue'[i].by = entry[t] /\ queue'[i].kind = "closed"
        BY <2>2 DEF EntryIsLive
      <4>1. CASE entry[t] = p
        BY <3>3, <4>1
      <4>2. CASE entry[t] # p
        <5>1. producer'[entry[t]] = producer[entry[t]]
          BY <1>0, <2>2, <4>2
        <5>2. QED
          BY <3>1, <5>1 DEF Entries, EntryIsLive
      <4>3. QED
        BY <4>1, <4>2
    <3>5. ASSUME NEW q \in Id, Of[q] # NoStream, Of[q] \notin reopened,
                 producer'[q].pc \in Running \/ Queued(q)'
          PROVE  entry[Of[q]] = q
      <4>1. producer[q].pc \in Running \/ Queued(q)
        BY <2>2, <3>2, <3>5
      <4>2. QED
        BY <2>5, <3>5, <4>1 DEF Entries
    <3>6. \A t \in Stream : entry'[t] # 0 => producer'[entry'[t]].stream = t
      BY <1>0, <2>2, <2>4 DEF Entries
    <3>7. QED
      BY <2>2, <2>3, <3>4, <3>5, <3>6 DEF Entries
  <2>6. CASE ~connected
    BY <1>0, <2>2, <2>6 DEF Entries, EntryIsLive
  <2>7. QED
    BY <2>5, <2>6
<1>7. QED
  BY <1>1, <1>3, <1>4, <1>5, <1>6
  DEF StreamNext, streamVars, Load, Halt, Receive, DecoderEnds, server

-----------------------------------------------------------------------------
(* What comes next, when a sequence of frames grows or is consumed *)

LEMMA HitAppend ==
  ASSUME NEW st, NEW s \in Seq(Sent), NEW f \in Sent, NEW k \in 0..Len(s), NEW p, NEW n
  PROVE  /\ Hit(st, Append(s, f), k, p, n) <=> Hit(st, s, k, p, n)
         /\ Clear(st, Append(s, f), k, p) <=> Clear(st, s, k, p)
<1>1. \A i \in 1..k : Append(s, f)[i] = s[i]
  BY AppendFact
<1>2. QED
  BY <1>1 DEF Hit, Clear

LEMMA HitLast ==
  ASSUME NEW st, NEW s \in Seq(Sent), NEW f \in Sent, NEW p, NEW n
  PROVE  /\ Before(f, p, n) => Hit(st, Append(s, f), Len(s) + 1, p, n)
         /\ st[f.by] # st[p] =>
              /\ Hit(st, s, Len(s), p, n) => Hit(st, Append(s, f), Len(s) + 1, p, n)
              /\ Clear(st, s, Len(s), p) => Clear(st, Append(s, f), Len(s) + 1, p)
<1> DEFINE a == Append(s, f)
<1>1. /\ Len(s) \in Nat /\ a[Len(s) + 1] = f /\ Len(s) + 1 \in 1..(Len(s) + 1)
      /\ \A i \in 1..Len(s) : a[i] = s[i] /\ i \in 1..(Len(s) + 1)
      /\ \A i \in 1..(Len(s) + 1) : i \in 1..Len(s) \/ i = Len(s) + 1
  BY AppendFact
<1>2. \A l \in 1..(Len(s) + 1) : ~(l > Len(s) + 1)
  BY <1>1
<1> HIDE DEF a
<1>3. Before(f, p, n) => Hit(st, a, Len(s) + 1, p, n)
  BY <1>1, <1>2 DEF Hit
<1>4. st[f.by] # st[p] => (Hit(st, s, Len(s), p, n) => Hit(st, a, Len(s) + 1, p, n))
  BY <1>1 DEF Hit
<1>5. st[f.by] # st[p] => (Clear(st, s, Len(s), p) => Clear(st, a, Len(s) + 1, p))
  BY <1>1 DEF Clear
<1>6. QED
  BY <1>3, <1>4, <1>5 DEF a

LEMMA HitTail ==
  ASSUME NEW st, NEW s \in Seq(Sent), NEW k \in 1..Len(s), NEW p, NEW n
  PROVE  /\ Hit(st, s, k, p, n) => \/ Hit(st, Tail(s), k - 1, p, n)
                                   \/ Before(Head(s), p, n) /\ Clear(st, Tail(s), k - 1, p)
         /\ Clear(st, s, k, p) => st[Head(s).by] # st[p] /\ Clear(st, Tail(s), k - 1, p)
<1> DEFINE t == Tail(s)
<1>1. /\ Head(s) = s[1] /\ 1 \in 1..k /\ k \in Nat /\ s # <<>>
      /\ \A i \in 1..(k - 1) : t[i] = s[i + 1] /\ i + 1 \in 1..k /\ i + 1 > 1 /\ i \in Nat
      /\ \A i \in 1..k : i = 1 \/ (i - 1 \in 1..(k - 1) /\ t[i - 1] = s[i] /\ i \in Nat)
  <2>1. s # <<>> /\ Len(s) \in Nat /\ k \in Nat /\ 1 \in 1..k
    OBVIOUS
  <2>2. /\ Head(s) = s[1] /\ Len(t) = Len(s) - 1
        /\ \A i \in 1..Len(t) : t[i] = s[i + 1] /\ i + 1 \in 1..Len(s)
    BY <2>1, TailFact
  <2>3. \A i \in 1..(k - 1) : i \in 1..Len(t) /\ i + 1 \in 1..k /\ i + 1 > 1 /\ i \in Nat
    BY <2>1, <2>2
  <2>4. \A i \in 1..k : i = 1 \/ (i - 1 \in 1..(k - 1) /\ (i - 1) + 1 = i /\ i \in Nat)
    BY <2>1
  <2> HIDE DEF t
  <2>5. QED
    BY <2>1, <2>2, <2>3, <2>4
<1> HIDE DEF t
<1>2. ASSUME Clear(st, s, k, p) PROVE st[Head(s).by] # st[p] /\ Clear(st, t, k - 1, p)
  BY <1>1, <1>2 DEF Clear
<1>3. ASSUME NEW j \in 1..k, Before(s[j], p, n), \A l \in 1..k : l > j => st[s[l].by] # st[p]
      PROVE  Hit(st, t, k - 1, p, n) \/ (Before(Head(s), p, n) /\ Clear(st, t, k - 1, p))
  <2>1. CASE j = 1
    <3>1. Clear(st, t, k - 1, p)
      BY <1>1, <1>3, <2>1 DEF Clear
    <3>2. QED
      BY <1>1, <1>3, <2>1, <3>1
  <2>2. CASE j # 1
    <3>1. j - 1 \in 1..(k - 1) /\ t[j - 1] = s[j] /\ j \in Nat
      BY <1>1, <2>2
    <3>2. \A l \in 1..(k - 1) : l > j - 1 => st[t[l].by] # st[p]
      <4>1. \A l \in 1..(k - 1) : l > j - 1 => l + 1 > j
        BY <1>1, <3>1
      <4>2. QED
        BY <1>1, <1>3, <4>1
    <3>3. QED
      BY <1>3, <3>1, <3>2 DEF Hit
  <2>3. QED
    BY <2>1, <2>2
<1>4. QED
  BY <1>2, <1>3 DEF Hit, t

(* Nothing is in a sequence of no frames.                                   *)
LEMMA HitNone ==
  ASSUME NEW st, NEW s, NEW p, NEW n PROVE ~Hit(st, s, 0, p, n) /\ Clear(st, s, 0, p)
BY DEF Hit, Clear

(* Only the streams of the senders and of p matter.                         *)
LEMMA HitSame ==
  ASSUME NEW st, NEW tt, NEW s, NEW k, NEW p, NEW n, tt[p] = st[p],
         \A l \in 1..k : tt[s[l].by] = st[s[l].by]
  PROVE  /\ Hit(st, s, k, p, n) <=> Hit(tt, s, k, p, n)
         /\ Clear(st, s, k, p) <=> Clear(tt, s, k, p)
BY DEF Hit, Clear

-----------------------------------------------------------------------------
(* What comes next, when the system takes a step *)

LEMMA InLineInit == ASSUME StreamInit PROVE InLine
<1>1. /\ Len(wire) = 0 /\ Len(queue) = 0
      /\ \A p \in Id : producer[p].pc = "none"
  BY DEF StreamInit, NoProducer
<1>2. QED
  BY <1>1 DEF InLine

LEMMA LineTypes ==
  ASSUME StreamTypeInv
  PROVE  /\ wire \in Seq(Sent) /\ queue \in Seq(Sent)
         /\ Len(wire) \in Nat /\ Len(queue) \in Nat
         /\ \A i \in 1..Len(wire) : wire[i] \in Sent /\ wire[i].by \in Id
         /\ \A i \in 1..Len(queue) : queue[i] \in Sent /\ queue[i].by \in Id
         /\ \A f \in Sent : f.by \in Id /\ f.seq \in 0..Chunks
         /\ \A p \in Id : producer[p].seq \in 0..Chunks
         /\ \A p \in Id : producer[p].pc # "none" => Of[p] \in Stream /\ Of[p] # NoStream
<1>1. wire \in Seq(Sent) /\ queue \in Seq(Sent) /\ producer \in [Id -> ProducerType]
  BY DEF StreamTypeInv
<1>2. \A f \in Sent : f.by \in Id /\ f.seq \in 0..Chunks
  BY DEF Sent, Frame
<1>3. \A p \in Id : /\ producer[p].seq \in 0..Chunks
                    /\ producer[p].pc # "none" => Of[p] \in Stream /\ Of[p] # NoStream
  BY <1>1, Constants DEF Of, ProducerType
<1>4. QED
  BY <1>1, <1>2, <1>3, SenderFact

(* Nothing moves, and what is awaited stays so.                             *)
LEMMA InLineKept ==
  ASSUME InLine, UNCHANGED <<connected, producer, queue, wire, reopened>>,
         \A p, n : Awaited(Of, decoder, p, n) => Awaited(Of', decoder', p, n)
  PROVE  InLine'
<1>1. Of' = Of
  BY DEF Of
<1>2. \A k, p, n : OnWire(Of, decoder, wire, k, p, n) => OnWire(Of', decoder', wire', k, p, n)
  BY <1>1 DEF OnWire
<1>3. \A k, p, n : InQueue(Of, decoder, wire, queue, k, p, n) => InQueue(Of', decoder', wire', queue', k, p, n)
  BY <1>1, <1>2 DEF InQueue
<1>4. QED
  BY <1>1, <1>2, <1>3 DEF InLine

(* A frame that comes next is taken by the decoder of its stream, and one   *)
(* of another stream leaves that decoder alone.                             *)
LEMMA Awaits ==
  ASSUME StreamTypeInv, Receive, NEW p \in Id, NEW n \in 0..Chunks
  PROVE  LET f == Head(wire) IN
         /\ f.kind = "header" /\ f.by = p => Awaited(Of', decoder', p, 0)
         /\ f.kind = "chunk" /\ f.by = p /\ Awaited(Of, decoder, p, f.seq) => Awaited(Of', decoder', p, f.seq + 1)
         /\ Of[f.by] # Of[p] /\ Awaited(Of, decoder, p, n) => Awaited(Of', decoder', p, n)
<1> DEFINE f == Head(wire)
<1>1. /\ f \in Sent /\ f.by \in Id /\ f.seq \in 0..Chunks /\ Of' = Of
      /\ Header(f) \/ ChunkFrame(f) \/ End(f) \/ Fail(f)
  BY ReceiveSteps, LineTypes DEF Of
<1>2. producer[f.by].stream = Of[f.by]
  BY <1>1 DEF Of
<1>3. decoder # NoStream => decoder \in Decoder /\ decoder.stream = media /\ decoder.fed \in Seq(Fed)
  BY Constants DEF StreamTypeInv, Decoder
<1>4. NoStream \notin Decoder
  BY Constants
<1> HIDE DEF f
<1>5. CASE Header(f)
  <2>1. CASE media = Of[f.by]
    <3>1. decoder' = [stream |-> media, fed |-> <<>>, pc |-> "feed"]
      BY <1>2, <1>5, <2>1 DEF Header
    <3>2. decoder'.stream = Of[f.by] /\ Len(decoder'.fed) = 0
      BY <2>1, <3>1
    <3>3. f.kind = "header"
      BY <1>5 DEF Header
    <3>4. QED
      BY <1>1, <3>2, <3>3 DEF Awaited, f
  <2>2. CASE media # Of[f.by]
    <3>1. decoder' = decoder /\ f.kind = "header"
      BY <1>2, <1>5, <2>2 DEF Header
    <3>2. QED
      BY <1>1, <1>3, <2>2, <3>1 DEF Awaited, f
  <2>3. QED
    BY <2>1, <2>2
<1>6. CASE ChunkFrame(f)
  <2>1. f.kind = "chunk"
    BY <1>6 DEF ChunkFrame
  <2>2. CASE media # Of[f.by] \/ decoder = NoStream
    <3>1. decoder' = decoder
      BY <1>2, <1>6, <2>2 DEF ChunkFrame
    <3>2. QED
      BY <1>1, <1>3, <2>1, <2>2, <3>1 DEF Awaited, f
  <2>3. CASE media = Of[f.by] /\ decoder # NoStream /\ decoder.pc # "over"
    <3> DEFINE x == [by |-> f.by, seq |-> f.seq]
    <3>1. decoder' = [decoder EXCEPT !.fed = Append(@, x)]
      BY <1>2, <1>6, <2>3 DEF ChunkFrame
    <3>2. decoder'.stream = Of[f.by] /\ decoder'.fed = Append(decoder.fed, x)
      BY <1>3, <2>3, <3>1 DEF Decoder
    <3>3. /\ x \in Fed /\ x.by = f.by
          /\ Len(decoder'.fed) = Len(decoder.fed) + 1
          /\ \A i \in 1..Len(decoder'.fed) : i \in 1..Len(decoder.fed) \/ i = Len(decoder.fed) + 1
          /\ \A i \in 1..Len(decoder.fed) : decoder'.fed[i] = decoder.fed[i]
          /\ decoder'.fed[Len(decoder.fed) + 1] = x
      <4>1. x \in Fed /\ x.by = f.by
        BY <1>1 DEF Fed
      <4> HIDE DEF x
      <4>2. QED
        BY <1>3, <2>3, <3>2, <4>1, AppendFact
    <3> HIDE DEF x
    <3>4. f.by = p /\ Awaited(Of, decoder, p, f.seq) => Awaited(Of', decoder', p, f.seq + 1)
      <4> SUFFICES ASSUME f.by = p, Awaited(Of, decoder, p, f.seq) PROVE Awaited(Of', decoder', p, f.seq + 1)
        OBVIOUS
      <4>1. Len(decoder.fed) = f.seq /\ \A i \in 1..Len(decoder.fed) : decoder.fed[i].by = p
        BY <1>3, <2>3 DEF Awaited
      <4>2. QED
        BY <3>3, <4>1 DEF Awaited
    <3>5. Of[f.by] # Of[p] => Awaited(Of', decoder', p, n)
      BY <1>1, <3>2 DEF Awaited
    <3>6. QED
      BY <2>1, <3>4, <3>5 DEF f
  <2>4. CASE media = Of[f.by] /\ decoder # NoStream /\ decoder.pc = "over"
    <3>1. decoder' = NoStream
      BY <1>2, <1>6, <2>4 DEF ChunkFrame
    <3>2. QED
      BY <2>1, <3>1 DEF Awaited, f
  <2>5. QED
    BY <2>2, <2>3, <2>4
<1>7. CASE End(f)
  <2>1. f.kind = "end"
    BY <1>7 DEF End
  <2>2. decoder' = decoder \/ (decoder # NoStream /\ decoder' = [decoder EXCEPT !.pc = "drain"])
    BY <1>7 DEF End
  <2>3. decoder' # NoStream => decoder # NoStream /\ decoder'.stream = decoder.stream
                           /\ decoder'.fed = decoder.fed
    BY <1>3, <2>2 DEF Decoder
  <2>4. QED
    BY <1>1, <2>1, <2>3 DEF Awaited, f
<1>8. CASE Fail(f)
  <2>1. f.kind = "fail" /\ (decoder' = NoStream \/ decoder' = decoder)
    BY <1>8 DEF Fail
  <2>2. QED
    BY <1>1, <2>1 DEF Awaited, f
<1>9. QED
  BY <1>1, <1>5, <1>6, <1>7, <1>8

LEMMA InLineReceive ==
  ASSUME StreamTypeInv, InLine, Receive
  PROVE  InLine'
<1> DEFINE f == Head(wire)
<1>0. /\ connected /\ wire # <<>> /\ wire' = Tail(wire) /\ Of' = Of
      /\ UNCHANGED <<connected, producer, queue, reopened>>
  BY ReceiveSteps DEF Of
<1>1. /\ f = wire[1] /\ 1 \in 1..Len(wire) /\ Len(wire) \in 1..Len(wire)
      /\ Len(wire') = Len(wire) - 1
      /\ \A i \in 1..Len(wire') : /\ wire'[i] = wire[i + 1] /\ i + 1 \in 1..Len(wire)
                                  /\ i \in 1..Len(wire) /\ (i + 1) - 1 = i
      /\ f \in Sent /\ f.by \in Id
  BY <1>0, LineTypes, TailFact
<1> HIDE DEF f
<1>2. ASSUME NEW k \in 1..Len(wire), NEW p \in Id, NEW n \in 0..Chunks,
             Of[p] \notin reopened, OnWire(Of, decoder, wire, k, p, n)
      PROVE  OnWire(Of', decoder', wire', k - 1, p, n)
  <2>1. CASE Clear(Of, wire, k, p) /\ Awaited(Of, decoder, p, n)
    <3>1. Of[f.by] # Of[p] /\ Clear(Of, wire', k - 1, p)
      BY <1>0, <2>1, LineTypes, HitTail DEF f
    <3>2. Awaited(Of', decoder', p, n)
      BY <2>1, <3>1, Awaits DEF f
    <3>3. QED
      BY <1>0, <3>1, <3>2 DEF OnWire
  <2>2. CASE Hit(Of, wire, k, p, n)
    <3>1. Hit(Of, wire', k - 1, p, n) \/ (Before(f, p, n) /\ Clear(Of, wire', k - 1, p))
      BY <1>0, <2>2, LineTypes, HitTail DEF f
    <3>2. ASSUME Before(f, p, n) PROVE Awaited(Of', decoder', p, n)
      <4>1. CASE n = 0 /\ f.kind = "header"
        BY <3>2, <4>1, Awaits DEF Before, f
      <4>2. CASE n > 0 /\ f.kind = "chunk" /\ f.seq = n - 1
        <5>1. f.by = p /\ f.seq + 1 = n
          BY <3>2, <4>2 DEF Before
        <5>2. OnWire(Of, decoder, wire, 1 - 1, p, f.seq)
          BY <1>1, <1>2, <4>2, <5>1 DEF InLine
        <5>3. Awaited(Of, decoder, p, f.seq)
          BY <5>2, HitNone DEF OnWire
        <5>4. Awaited(Of', decoder', p, f.seq + 1)
          BY <4>2, <5>1, <5>3, Awaits DEF f
        <5>5. QED
          BY <5>1, <5>4
      <4>3. QED
        BY <3>2, <4>1, <4>2 DEF Before
    <3>3. QED
      BY <1>0, <3>1, <3>2 DEF OnWire
  <2>3. QED
    BY <1>2, <2>1, <2>2 DEF OnWire
<1>3. ASSUME NEW k, NEW p \in Id, NEW n \in 0..Chunks, Of[p] \notin reopened, InQueue(Of, decoder, wire, queue, k, p, n)
      PROVE  InQueue(Of', decoder', wire', queue', k, p, n)
  <2>1. OnWire(Of, decoder, wire, Len(wire), p, n) => OnWire(Of', decoder', wire', Len(wire) - 1, p, n)
    BY <1>1, <1>2, <1>3
  <2>2. QED
    BY <1>0, <1>1, <1>3, <2>1 DEF InQueue
<1>4. ASSUME NEW i \in 1..Len(wire'), wire'[i].kind \in {"chunk", "end"},
             Of[wire'[i].by] \notin reopened
      PROVE  OnWire(Of', decoder', wire', i - 1, wire'[i].by, wire'[i].seq)
  <2>1. wire'[i] = wire[i + 1] /\ i + 1 \in 1..Len(wire) /\ i \in 1..Len(wire) /\ (i + 1) - 1 = i
    BY <1>1
  <2>2. OnWire(Of, decoder, wire, i, wire[i + 1].by, wire[i + 1].seq)
    BY <1>4, <2>1 DEF InLine
  <2>3. wire[i + 1].by \in Id /\ wire[i + 1].seq \in 0..Chunks
    BY <2>1, LineTypes
  <2>4. QED
    BY <1>2, <1>4, <2>1, <2>2, <2>3
<1>5. ASSUME NEW i \in 1..Len(queue), queue[i].kind \in {"chunk", "end"},
             Of[queue[i].by] \notin reopened, ~producer[queue[i].by].cancelled
      PROVE  InQueue(Of', decoder', wire', queue', i - 1, queue[i].by, queue[i].seq)
  BY <1>3, <1>5, LineTypes DEF InLine
<1>6. ASSUME NEW p \in Id, producer[p].pc \in {"check", "read"}, Of[p] \notin reopened,
             ~producer[p].cancelled
      PROVE  InQueue(Of', decoder', wire', queue', Len(queue), p, producer[p].seq)
  BY <1>0, <1>3, <1>6, LineTypes DEF InLine
<1>7. QED
  BY <1>0, <1>4, <1>5, <1>6 DEF InLine

LEMMA InLineControl ==
  ASSUME StreamTypeInv, Sources, InLine, TakeControl
  PROVE  InLine'
<1>0. /\ connected /\ UNCHANGED <<connected, decoder, queue, wire>>
      /\ \A q \in Id : producer[q].cancelled => producer'[q].cancelled \/ producer[q].pc = "none"
  BY ControlSteps DEF ControlStep
<1>1. CASE OnlyCancels
  <2>1. /\ reopened' = reopened
        /\ \A q \in Id : /\ producer'[q].stream = producer[q].stream
                         /\ producer'[q].pc = producer[q].pc
                         /\ producer'[q].seq = producer[q].seq
                         /\ producer[q].cancelled => producer'[q].cancelled \/ producer[q].pc = "none"
    BY <1>0, <1>1 DEF OnlyCancels
  <2>2. Of' = Of
    BY <2>1 DEF Of
  <2>3. \A i \in 1..Len(queue) : /\ queue[i].by \in Id
                                 /\ ~producer'[queue[i].by].cancelled => ~producer[queue[i].by].cancelled
    BY <2>1, LineTypes DEF Sources
  <2>4. QED
    BY <1>0, <2>1, <2>2, <2>3 DEF InLine
<1>2. ASSUME NEW s \in Stream, NEW p \in Id, Starts(s, p) PROVE InLine'
  <2>1. /\ producer[p].pc = "none" /\ producer'[p].pc = "header" /\ reopened \subseteq reopened'
        /\ \A q \in Id : q # p => /\ producer'[q].stream = producer[q].stream
                                  /\ producer'[q].pc = producer[q].pc
                                  /\ producer'[q].seq = producer[q].seq
    BY <1>2 DEF Starts
  <2>2. \A q \in Id : q # p => Of'[q] = Of[q]
    BY <2>1 DEF Of
  <2>3. /\ \A i \in 1..Len(wire) : wire[i].by \in Id \ {p} /\ Of'[wire[i].by] = Of[wire[i].by]
        /\ \A i \in 1..Len(queue) : queue[i].by \in Id \ {p} /\ Of'[queue[i].by] = Of[queue[i].by]
    <3>1. \A i \in 1..Len(wire) : wire[i].by \in Id \ {p}
      BY <2>1, LineTypes DEF Sources
    <3>2. \A i \in 1..Len(queue) : queue[i].by \in Id \ {p}
      BY <2>1, LineTypes DEF Sources
    <3>3. QED
      BY <2>2, <3>1, <3>2
  <2>4. ASSUME NEW k \in 0..Len(wire), NEW q \in Id, q # p, NEW n
        PROVE  OnWire(Of, decoder, wire, k, q, n) => OnWire(Of', decoder, wire, k, q, n)
    <3>1. \A l \in 1..k : Of'[wire[l].by] = Of[wire[l].by]
      BY <2>3, LineTypes
    <3>2. Of'[q] = Of[q]
      BY <2>2, <2>4
    <3>3. /\ Hit(Of, wire, k, q, n) <=> Hit(Of', wire, k, q, n)
          /\ Clear(Of, wire, k, q) <=> Clear(Of', wire, k, q)
      BY <3>1, <3>2, HitSame
    <3>4. Awaited(Of, decoder, q, n) <=> Awaited(Of', decoder, q, n)
      BY <3>2 DEF Awaited
    <3>5. QED
      BY <3>3, <3>4 DEF OnWire
  <2>5. ASSUME NEW k \in 0..Len(queue), NEW q \in Id, q # p, NEW n
        PROVE  InQueue(Of, decoder, wire, queue, k, q, n)
                 => InQueue(Of', decoder, wire, queue, k, q, n)
    <3>1. \A l \in 1..k : Of'[queue[l].by] = Of[queue[l].by]
      BY <2>3, LineTypes
    <3>2. Of'[q] = Of[q]
      BY <2>2, <2>5
    <3>3. /\ Hit(Of, queue, k, q, n) <=> Hit(Of', queue, k, q, n)
          /\ Clear(Of, queue, k, q) <=> Clear(Of', queue, k, q)
      BY <3>1, <3>2, HitSame
    <3>4. OnWire(Of, decoder, wire, Len(wire), q, n) => OnWire(Of', decoder, wire, Len(wire), q, n)
      BY <2>4, <2>5, LineTypes
    <3>5. QED
      BY <3>3, <3>4 DEF InQueue
  <2>6. ASSUME NEW i \in 1..Len(wire), wire[i].kind \in {"chunk", "end"},
               Of'[wire[i].by] \notin reopened'
        PROVE  OnWire(Of', decoder, wire, i - 1, wire[i].by, wire[i].seq)
    <3>1. i - 1 \in 0..Len(wire) /\ wire[i].by \in Id \ {p} /\ Of[wire[i].by] \notin reopened
      BY <2>1, <2>3, <2>6, LineTypes
    <3>2. QED
      BY <2>4, <2>6, <3>1 DEF InLine
  <2>7. ASSUME NEW i \in 1..Len(queue), queue[i].kind \in {"chunk", "end"},
               Of'[queue[i].by] \notin reopened', ~producer'[queue[i].by].cancelled
        PROVE  InQueue(Of', decoder, wire, queue, i - 1, queue[i].by, queue[i].seq)
    <3>1. i - 1 \in 0..Len(queue) /\ queue[i].by \in Id \ {p} /\ Of[queue[i].by] \notin reopened
          /\ ~producer[queue[i].by].cancelled
      BY <1>0, <2>1, <2>3, <2>7, LineTypes DEF Sources
    <3>2. QED
      BY <2>5, <2>7, <3>1 DEF InLine
  <2>8. ASSUME NEW q \in Id, producer'[q].pc \in {"check", "read"}, Of'[q] \notin reopened',
               ~producer'[q].cancelled
        PROVE  InQueue(Of', decoder, wire, queue, Len(queue), q, producer'[q].seq)
    <3>1. q # p
      BY <2>1, <2>8
    <3>2. /\ producer[q].pc \in {"check", "read"} /\ Of[q] \notin reopened
          /\ ~producer[q].cancelled /\ producer'[q].seq = producer[q].seq
      BY <1>0, <2>1, <2>2, <2>8, <3>1
    <3>3. Len(queue) \in 0..Len(queue)
      BY LineTypes
    <3>4. QED
      BY <1>0, <2>5, <3>1, <3>2, <3>3 DEF InLine
  <2>9. QED
    BY <1>0, <2>6, <2>7, <2>8 DEF InLine
<1>3. QED
  BY <1>1, <1>2, ControlSteps

LEMMA InLineForward ==
  ASSUME StreamTypeInv, Sources, Entries, InLine, Forward
  PROVE  InLine'
<1> DEFINE f == Head(queue)
<1>0. /\ queue # <<>> /\ queue' = Tail(queue) /\ Of' = Of
      /\ UNCHANGED <<connected, decoder, producer, reopened>>
  BY DEF Forward, satellite, Of
<1>1. /\ f = queue[1] /\ 1 \in 1..Len(queue) /\ Len(queue) \in 1..Len(queue)
      /\ Len(queue') = Len(queue) - 1
      /\ \A i \in 1..Len(queue') : /\ queue'[i] = queue[i + 1] /\ i + 1 \in 1..Len(queue)
                                   /\ i \in 1..Len(queue) /\ (i + 1) - 1 = i
      /\ f \in Sent /\ f.by \in Id
  BY <1>0, LineTypes, TailFact
<1>2. connected
  BY <1>0 DEF StreamTypeInv
<1>3. wire' = IF f.kind # "closed" /\ entry[Of[f.by]] # 0 /\ ~producer[entry[Of[f.by]]].cancelled
                THEN Append(wire, f) ELSE wire
  BY <1>1 DEF Forward, Of
<1>4. Of[f.by] # NoStream /\ Of[f.by] \notin reopened => entry[Of[f.by]] = f.by
  BY <1>1, <1>2 DEF Entries, Queued
<1>5. f.by # 0
  BY <1>1, Constants
<1> HIDE DEF f
<1>6. wire' = wire \/ wire' = Append(wire, f)
  BY <1>3
<1>7. ASSUME NEW k \in 1..Len(queue), NEW p \in Id, NEW n, producer[p].pc # "none",
             Of[p] \notin reopened, ~producer[p].cancelled,
             InQueue(Of, decoder, wire, queue, k, p, n)
      PROVE  InQueue(Of, decoder, wire', queue', k - 1, p, n)
  <2>1. CASE Clear(Of, queue, k, p) /\ OnWire(Of, decoder, wire, Len(wire), p, n)
    <3>1. Of[f.by] # Of[p] /\ Clear(Of, queue', k - 1, p)
      BY <1>0, <2>1, LineTypes, HitTail DEF f
    <3>2. OnWire(Of, decoder, wire', Len(wire'), p, n)
      <4>1. CASE wire' = wire
        BY <2>1, <4>1
      <4>2. CASE wire' = Append(wire, f)
        <5>1. Len(wire') = Len(wire) + 1
          BY <1>1, <4>2, LineTypes, AppendFact
        <5>2. /\ Hit(Of, wire, Len(wire), p, n) => Hit(Of, wire', Len(wire) + 1, p, n)
              /\ Clear(Of, wire, Len(wire), p) => Clear(Of, wire', Len(wire) + 1, p)
          BY <1>1, <3>1, <4>2, LineTypes, HitLast
        <5>3. QED
          BY <2>1, <5>1, <5>2 DEF OnWire
      <4>3. QED
        BY <1>6, <4>1, <4>2
    <3>3. QED
      BY <3>1, <3>2 DEF InQueue
  <2>2. CASE Hit(Of, queue, k, p, n)
    <3>1. Hit(Of, queue', k - 1, p, n) \/ (Before(f, p, n) /\ Clear(Of, queue', k - 1, p))
      BY <1>0, <2>2, LineTypes, HitTail DEF f
    <3>2. ASSUME Before(f, p, n) PROVE OnWire(Of, decoder, wire', Len(wire'), p, n)
      <4>1. f.by = p /\ f.kind # "closed"
        BY <3>2 DEF Before
      <4>2. entry[Of[f.by]] = f.by
        BY <1>4, <1>7, <4>1, LineTypes
      <4>3. wire' = Append(wire, f)
        BY <1>3, <1>5, <1>7, <4>1, <4>2
      <4>4. Len(wire') = Len(wire) + 1
        BY <1>1, <4>3, LineTypes, AppendFact
      <4>5. Hit(Of, wire', Len(wire) + 1, p, n)
        BY <1>1, <3>2, <4>3, LineTypes, HitLast
      <4>6. QED
        BY <4>4, <4>5 DEF OnWire
    <3>3. QED
      BY <3>1, <3>2 DEF InQueue
  <2>3. QED
    BY <1>7, <2>1, <2>2 DEF InQueue
<1>8. ASSUME NEW i \in 1..Len(wire'), wire'[i].kind \in {"chunk", "end"},
             Of[wire'[i].by] \notin reopened
      PROVE  OnWire(Of, decoder, wire', i - 1, wire'[i].by, wire'[i].seq)
  <2>1. CASE wire' = wire
    BY <1>8, <2>1 DEF InLine
  <2>2. CASE wire' = Append(wire, f)
    <3>0. ASSUME NEW k \in 0..Len(wire), NEW p, NEW n
          PROVE  OnWire(Of, decoder, wire, k, p, n) => OnWire(Of, decoder, wire', k, p, n)
      BY <1>1, <2>2, LineTypes, HitAppend DEF OnWire
    <3>1. CASE i \in 1..Len(wire)
      <4>1. wire'[i] = wire[i] /\ i - 1 \in 0..Len(wire)
        BY <1>1, <2>2, <3>1, LineTypes, AppendFact
      <4>2. OnWire(Of, decoder, wire, i - 1, wire[i].by, wire[i].seq)
        BY <1>8, <3>1, <4>1 DEF InLine
      <4>3. QED
        BY <3>0, <4>1, <4>2
    <3>2. CASE i = Len(wire) + 1
      <4>1. wire'[i] = f /\ i - 1 = Len(wire) /\ Len(wire) \in 0..Len(wire)
        BY <1>1, <2>2, <3>2, LineTypes, AppendFact
      <4>2. entry[Of[f.by]] = f.by
        <5>1. producer[f.by].pc # "none"
          BY <1>1 DEF Sources
        <5>2. QED
          BY <1>1, <1>4, <1>8, <4>1, <5>1, LineTypes
      <4>3. ~producer[f.by].cancelled
        <5>1. Append(wire, f) # wire
          BY <1>1, LineTypes, AppendFact
        <5>2. QED
          BY <1>3, <2>2, <4>2, <5>1
      <4>4. InQueue(Of, decoder, wire, queue, 1 - 1, f.by, f.seq)
        BY <1>1, <1>8, <4>1, <4>3 DEF InLine
      <4>5. OnWire(Of, decoder, wire, Len(wire), f.by, f.seq)
        BY <4>4, HitNone DEF InQueue
      <4>6. QED
        BY <3>0, <4>1, <4>5
    <3>3. QED
      BY <1>1, <2>2, <3>1, <3>2, LineTypes, AppendFact
  <2>3. QED
    BY <1>6, <2>1, <2>2
<1>9. ASSUME NEW i \in 1..Len(queue'), queue'[i].kind \in {"chunk", "end"},
             Of[queue'[i].by] \notin reopened, ~producer[queue'[i].by].cancelled
      PROVE  InQueue(Of, decoder, wire', queue', i - 1, queue'[i].by, queue'[i].seq)
  <2>1. queue'[i] = queue[i + 1] /\ i + 1 \in 1..Len(queue) /\ i \in 1..Len(queue) /\ (i + 1) - 1 = i
    BY <1>1
  <2>2. InQueue(Of, decoder, wire, queue, i, queue[i + 1].by, queue[i + 1].seq)
    BY <1>9, <2>1 DEF InLine
  <2>3. queue[i + 1].by \in Id /\ producer[queue[i + 1].by].pc # "none"
    BY <2>1, LineTypes DEF Sources
  <2>4. QED
    BY <1>7, <1>9, <2>1, <2>2, <2>3
<1>10. ASSUME NEW p \in Id, producer[p].pc \in {"check", "read"}, Of[p] \notin reopened,
              ~producer[p].cancelled
       PROVE  InQueue(Of, decoder, wire', queue', Len(queue'), p, producer[p].seq)
  <2>1. InQueue(Of, decoder, wire, queue, Len(queue), p, producer[p].seq)
    BY <1>2, <1>10 DEF InLine
  <2>2. QED
    BY <1>1, <1>7, <1>10, <2>1
<1>11. QED
  BY <1>0, <1>8, <1>9, <1>10 DEF InLine

LEMMA InLineProduce ==
  ASSUME StreamTypeInv, Entries, InLine, NEW p \in Id, Produce(p) \/ GiveUp(p)
  PROVE  InLine'
<1>1. ProducerStep(p)
  BY ProducerSteps
<1>2. /\ UNCHANGED <<connected, decoder, wire, reopened>>
      /\ \A q \in Id : q # p => producer'[q] = producer[q]
      /\ producer'[p].stream = producer[p].stream
      /\ producer'[p].cancelled = producer[p].cancelled
      /\ producer[p].pc \in Running
  BY <1>1 DEF ProducerStep
<1>3. Of' = Of /\ \A q \in Id : producer'[q].cancelled = producer[q].cancelled
  <2>1. \A q \in Id : producer'[q].stream = producer[q].stream
                      /\ producer'[q].cancelled = producer[q].cancelled
    BY <1>2
  <2>2. QED
    BY <2>1 DEF Of
<1>4. \A i \in 1..Len(wire) :
        wire[i].kind \in {"chunk", "end"} /\ Of[wire[i].by] \notin reopened
          => OnWire(Of, decoder, wire, i - 1, wire[i].by, wire[i].seq)
  BY DEF InLine
<1>5. CASE GoesOn(p)
  <2>1. queue' = queue
    BY <1>5 DEF GoesOn
  <2>2. \A i \in 1..Len(queue) : producer'[queue[i].by].cancelled = producer[queue[i].by].cancelled
    BY <1>3, LineTypes
  <2>3. \A i \in 1..Len(queue) :
          queue[i].kind \in {"chunk", "end"} /\ Of[queue[i].by] \notin reopened
              /\ ~producer'[queue[i].by].cancelled
            => InQueue(Of, decoder, wire, queue, i - 1, queue[i].by, queue[i].seq)
    BY <2>2 DEF InLine
  <2>4. ASSUME connected, NEW q \in Id, producer'[q].pc \in {"check", "read"}, Of[q] \notin reopened,
               ~producer'[q].cancelled
        PROVE  InQueue(Of, decoder, wire, queue, Len(queue), q, producer'[q].seq)
    <3>1. producer[q].pc \in {"check", "read"} /\ producer'[q].seq = producer[q].seq
      BY <1>2, <1>5, <2>4 DEF GoesOn
    <3>2. QED
      BY <1>3, <2>4, <3>1 DEF InLine
  <2>5. QED
    BY <1>2, <1>3, <1>4, <2>1, <2>3, <2>4 DEF InLine
<1>6. ASSUME NEW f \in Sent, Puts(p, f) PROVE InLine'
  <2>1. connected /\ queue' = Append(queue, f) /\ f.by = p
    BY <1>6 DEF Puts
  <2>2. /\ Len(queue') = Len(queue) + 1 /\ queue'[Len(queue) + 1] = f
        /\ \A i \in 1..Len(queue) : queue'[i] = queue[i] /\ i - 1 \in 0..Len(queue)
        /\ \A i \in 1..Len(queue') : i \in 1..Len(queue) \/ i = Len(queue) + 1
        /\ Len(queue) \in 0..Len(queue) /\ (Len(queue) + 1) - 1 = Len(queue)
    BY <2>1, LineTypes, AppendFact
  <2>3. ASSUME NEW k \in 0..Len(queue), NEW q, NEW n,
               InQueue(Of, decoder, wire, queue, k, q, n)
        PROVE  InQueue(Of, decoder, wire, queue', k, q, n)
    BY <2>1, <2>3, LineTypes, HitAppend DEF InQueue
  <2>4. ASSUME NEW i \in 1..Len(queue'), queue'[i].kind \in {"chunk", "end"},
               Of[queue'[i].by] \notin reopened, ~producer'[queue'[i].by].cancelled
        PROVE  InQueue(Of, decoder, wire, queue', i - 1, queue'[i].by, queue'[i].seq)
    <3>1. CASE i \in 1..Len(queue)
      <4>1. queue'[i] = queue[i] /\ i - 1 \in 0..Len(queue) /\ ~producer[queue[i].by].cancelled
        BY <1>3, <2>2, <2>4, <3>1, LineTypes
      <4>2. InQueue(Of, decoder, wire, queue, i - 1, queue[i].by, queue[i].seq)
        BY <2>4, <3>1, <4>1 DEF InLine
      <4>3. QED
        BY <2>3, <4>1, <4>2
    <3>2. CASE i = Len(queue) + 1
      <4>1. queue'[i] = f /\ i - 1 = Len(queue) /\ f.kind \in {"chunk", "end"}
        BY <2>2, <2>4, <3>2
      <4>2. producer[p].pc = "read" /\ f.seq = producer[p].seq
        BY <1>6, <4>1 DEF Puts
      <4>3. ~producer[p].cancelled /\ Of[p] \notin reopened
        BY <1>3, <2>1, <2>4, <4>1
      <4>4. InQueue(Of, decoder, wire, queue, Len(queue), p, f.seq)
        BY <2>1, <4>2, <4>3 DEF InLine
      <4>5. QED
        BY <2>1, <2>2, <2>3, <4>1, <4>4
    <3>3. QED
      BY <2>2, <3>1, <3>2
  <2>5. ASSUME NEW q \in Id, producer'[q].pc \in {"check", "read"}, Of[q] \notin reopened,
               ~producer'[q].cancelled
        PROVE  InQueue(Of, decoder, wire, queue', Len(queue'), q, producer'[q].seq)
    <3>1. CASE q = p
      <4>1. Before(f, p, producer'[p].seq)
        <5>1. CASE f.kind = "header"
          BY <1>6, <5>1 DEF Puts, Before
        <5>2. CASE f.kind = "chunk"
          <6>1. f.seq \in Nat /\ producer'[p].seq = f.seq + 1
            BY <1>6, <5>2, LineTypes DEF Puts
          <6>2. producer'[p].seq > 0 /\ f.seq = producer'[p].seq - 1
            BY <6>1
          <6>3. QED
            BY <2>1, <5>2, <6>2 DEF Before
        <5>3. QED
          BY <1>6, <2>5, <3>1, <5>1, <5>2 DEF Puts
      <4>2. QED
        BY <2>1, <2>2, <3>1, <4>1, LineTypes, HitLast DEF InQueue
    <3>2. CASE q # p
      <4>1. producer'[q] = producer[q]
        BY <1>2, <3>2
      <4>2. InQueue(Of, decoder, wire, queue, Len(queue), q, producer[q].seq)
        BY <1>3, <2>1, <2>5, <4>1 DEF InLine
      <4>3. producer[q].pc \in Running /\ producer[p].pc # "none" /\ producer[q].pc # "none"
        BY <1>2, <2>5, <4>1 DEF Running
      <4>4. Of[p] # Of[q]
        BY <1>2, <2>1, <2>5, <3>2, <4>3, LineTypes DEF Entries
      <4>5. /\ Hit(Of, queue, Len(queue), q, producer[q].seq)
                 => Hit(Of, queue', Len(queue) + 1, q, producer[q].seq)
            /\ Clear(Of, queue, Len(queue), q) => Clear(Of, queue', Len(queue) + 1, q)
        BY <2>1, <4>4, LineTypes, HitLast
      <4>6. QED
        BY <2>2, <4>1, <4>2, <4>5 DEF InQueue
    <3>3. QED
      BY <3>1, <3>2
  <2>6. QED
    BY <1>2, <1>3, <1>4, <2>4, <2>5 DEF InLine
<1>7. QED
  BY <1>1, <1>5, <1>6 DEF ProducerStep

LEMMA InLineStep ==
  ASSUME StreamTypeInv, Sources, Entries, InLine, [StreamNext]_streamVars
  PROVE  InLine'
<1>1. CASE \E s \in Stream : Load(s)
  <2>1. decoder' = NoStream /\ UNCHANGED <<connected, producer, queue, wire, reopened>>
    BY <1>1 DEF Load, server
  <2>2. QED
    BY <2>1, InLineKept DEF Awaited
<1>2. CASE Halt
  <2>1. decoder' = NoStream /\ UNCHANGED <<connected, producer, queue, wire, reopened>>
    BY <1>2 DEF Halt, server
  <2>2. QED
    BY <2>1, InLineKept DEF Awaited
<1>3. ASSUME NEW pc, DecoderEnds(pc) PROVE InLine'
  <2>1. /\ decoder # NoStream /\ decoder' = [decoder EXCEPT !.pc = "over"]
        /\ UNCHANGED <<connected, producer, queue, wire, reopened>>
    BY <1>3 DEF DecoderEnds, server
  <2>2. decoder'.stream = decoder.stream /\ decoder'.fed = decoder.fed
    BY <2>1 DEF StreamTypeInv, Decoder
  <2>3. Of' = Of
    BY <2>1 DEF Of
  <2>4. QED
    BY <2>1, <2>2, <2>3, InLineKept DEF Awaited
<1>4. CASE UNCHANGED streamVars
  <2>1. UNCHANGED <<connected, decoder, producer, queue, wire, reopened>>
    BY <1>4 DEF streamVars
  <2>2. Of' = Of
    BY <2>1 DEF Of
  <2>3. QED
    BY <2>1, <2>2, InLineKept
<1>5. CASE Disconnect
  <2>1. Len(wire') = 0 /\ Len(queue') = 0 /\ ~connected'
    BY <1>5 DEF Disconnect
  <2>2. QED
    BY <2>1 DEF InLine
<1>6. QED
  BY <1>1, <1>2, <1>3, <1>4, <1>5, InLineReceive, InLineControl, InLineForward, InLineProduce DEF StreamNext

-----------------------------------------------------------------------------
(* What the decoder is fed *)

LEMMA FedInOrderStep ==
  ASSUME StreamTypeInv, InLine, FedInOrder, [StreamNext]_streamVars
  PROVE  FedInOrder'
<1>0. decoder # NoStream => /\ decoder \in Decoder /\ decoder.stream = media /\ media # NoStream
                        /\ decoder.fed \in Seq(Fed) /\ Len(decoder.fed) \in Nat
                        /\ DOMAIN decoder.fed = 1..Len(decoder.fed)
  BY Constants DEF StreamTypeInv, Decoder
<1>a. CASE decoder' = NoStream
  BY <1>a DEF FedInOrder
<1>b. ASSUME decoder' = decoder, reopened \subseteq reopened',
             \A p \in Id : producer[p].stream # NoStream => producer'[p].stream = producer[p].stream
      PROVE  FedInOrder'
  <2> SUFFICES ASSUME decoder # NoStream, decoder.stream \notin reopened'
               PROVE  /\ \E p \in Id :
                           /\ producer'[p].stream = decoder.stream
                           /\ \A i \in DOMAIN decoder.fed : decoder.fed[i] = [by |-> p, seq |-> i - 1]
                      /\ decoder.pc = "drain" => Len(decoder.fed) = Chunks
    BY <1>b DEF FedInOrder
  <2>1. QED
    BY <1>0, <1>b DEF FedInOrder
<1>1. CASE Receive
  <2> DEFINE f == Head(wire)
  <2>1. /\ wire # <<>> /\ f \in Sent /\ f.by \in Id /\ f.seq \in 0..Chunks
        /\ UNCHANGED <<producer, reopened>>
        /\ Header(f) \/ ChunkFrame(f) \/ End(f) \/ Fail(f)
    BY <1>1, ReceiveSteps, LineTypes
  <2>2. f.kind \in {"chunk", "end"} /\ Of[f.by] \notin reopened => Awaited(Of, decoder, f.by, f.seq)
    <3>1. f = wire[1] /\ 1 \in 1..Len(wire)
      BY <2>1, LineTypes, TailFact
    <3>2. QED
      BY <3>1, HitNone DEF InLine, OnWire
  <2>3. Of[f.by] = producer[f.by].stream
    BY <2>1 DEF Of
  <2> HIDE DEF f
  <2>4. CASE Header(f)
    <3>1. CASE media = producer[f.by].stream
      <4>1. decoder' = [stream |-> media, fed |-> <<>>, pc |-> "feed"]
        BY <2>4, <3>1 DEF Header
      <4>2. decoder'.stream = producer'[f.by].stream /\ DOMAIN decoder'.fed = {}
            /\ decoder'.pc # "drain"
        BY <2>1, <3>1, <4>1
      <4>3. QED
        BY <2>1, <4>2 DEF FedInOrder
    <3>2. CASE media # producer[f.by].stream
      BY <1>b, <2>1, <2>4, <3>2 DEF Header
    <3>3. QED
      BY <3>1, <3>2
  <2>5. CASE ChunkFrame(f)
    <3>1. CASE media # producer[f.by].stream \/ decoder = NoStream
      BY <1>b, <2>1, <2>5, <3>1 DEF ChunkFrame
    <3>2. CASE media = producer[f.by].stream /\ decoder # NoStream /\ decoder.pc # "over"
      <4> DEFINE x == [by |-> f.by, seq |-> f.seq]
      <4>1. decoder' = [decoder EXCEPT !.fed = Append(@, x)] /\ f.kind = "chunk"
        BY <2>5, <3>2 DEF ChunkFrame
      <4>2. decoder'.stream = decoder.stream /\ decoder'.fed = Append(decoder.fed, x)
            /\ decoder'.pc = decoder.pc
        BY <1>0, <3>2, <4>1 DEF Decoder
      <4> SUFFICES ASSUME decoder.stream \notin reopened
                   PROVE  /\ \A i \in DOMAIN decoder'.fed :
                               decoder'.fed[i] = [by |-> f.by, seq |-> i - 1]
                          /\ decoder.pc # "drain"
        BY <1>0, <2>1, <3>2, <4>2 DEF FedInOrder
      <4>3. Len(decoder.fed) = f.seq /\ \A i \in 1..Len(decoder.fed) : decoder.fed[i].by = f.by
        BY <1>0, <2>2, <2>3, <3>2, <4>1 DEF Awaited
      <4>4. decoder.pc # "drain"
        <5>1. f.seq # Chunks
          BY <2>1, <4>1, Constants DEF Sent
        <5>2. QED
          BY <3>2, <4>3, <5>1 DEF FedInOrder
      <4>5. ASSUME NEW i \in 1..Len(decoder.fed)
            PROVE  decoder.fed[i] = [by |-> f.by, seq |-> i - 1]
        <5>1. PICK p \in Id : \A l \in DOMAIN decoder.fed : decoder.fed[l] = [by |-> p, seq |-> l - 1]
          BY <3>2 DEF FedInOrder
        <5>2. decoder.fed[i] = [by |-> p, seq |-> i - 1] /\ decoder.fed[i].by = f.by
          BY <1>0, <3>2, <4>3, <5>1
        <5>3. QED
          BY <5>2
      <4>6. /\ x \in Fed /\ x = [by |-> f.by, seq |-> (Len(decoder.fed) + 1) - 1]
        BY <2>1, <4>3 DEF Fed
      <4> HIDE DEF x
      <4>7. /\ DOMAIN decoder'.fed = 1..Len(decoder'.fed)
            /\ \A i \in 1..Len(decoder'.fed) : i \in 1..Len(decoder.fed) \/ i = Len(decoder.fed) + 1
            /\ \A i \in 1..Len(decoder.fed) : decoder'.fed[i] = decoder.fed[i]
            /\ decoder'.fed[Len(decoder.fed) + 1] = x
        BY <1>0, <3>2, <4>2, <4>6, AppendFact
      <4>8. QED
        BY <4>4, <4>5, <4>6, <4>7
    <3>3. CASE media = producer[f.by].stream /\ decoder # NoStream /\ decoder.pc = "over"
      BY <1>a, <2>5, <3>3 DEF ChunkFrame
    <3>4. QED
      BY <3>1, <3>2, <3>3
  <2>6. CASE End(f)
    <3>1. CASE media = producer[f.by].stream /\ decoder # NoStream /\ decoder.pc = "feed"
      <4>1. decoder' = [decoder EXCEPT !.pc = "drain"] /\ f.kind = "end"
        BY <2>6, <3>1 DEF End
      <4>2. decoder'.stream = decoder.stream /\ decoder'.fed = decoder.fed
        BY <1>0, <3>1, <4>1 DEF Decoder
      <4>3. f.seq = Chunks
        BY <2>1, <4>1 DEF Sent
      <4>4. decoder.stream \notin reopened => Len(decoder.fed) = Chunks
        BY <1>0, <2>2, <2>3, <3>1, <4>1, <4>3 DEF Awaited
      <4>5. QED
        BY <2>1, <3>1, <4>2, <4>4 DEF FedInOrder
    <3>2. CASE ~(media = producer[f.by].stream /\ decoder # NoStream /\ decoder.pc = "feed")
      BY <1>b, <2>1, <2>6, <3>2 DEF End
    <3>3. QED
      BY <3>1, <3>2
  <2>7. CASE Fail(f)
    BY <1>a, <1>b, <2>1, <2>7 DEF Fail
  <2>8. QED
    BY <2>1, <2>4, <2>5, <2>6, <2>7
<1>2. CASE (\E s \in Stream : Load(s)) \/ Halt \/ Disconnect
  BY <1>a, <1>2 DEF Load, Halt, Disconnect
<1>3. ASSUME NEW pc, DecoderEnds(pc) PROVE FedInOrder'
  <2>1. /\ decoder # NoStream /\ decoder' = [decoder EXCEPT !.pc = "over"]
        /\ UNCHANGED <<producer, reopened>>
    BY <1>3 DEF DecoderEnds, server
  <2>2. decoder'.stream = decoder.stream /\ decoder'.fed = decoder.fed /\ decoder'.pc = "over"
    BY <1>0, <2>1 DEF Decoder
  <2>3. QED
    BY <2>1, <2>2 DEF FedInOrder
<1>4. CASE TakeControl
  <2>1. decoder' = decoder
    BY <1>4 DEF TakeControl, satellite
  <2>2. reopened \subseteq reopened'
    BY <1>4 DEF TakeControl
  <2>3. \A p \in Id : producer[p].stream # NoStream => producer'[p].stream = producer[p].stream
    BY <1>4, ControlSteps DEF OnlyCancels, Starts, StreamTypeInv, ProducerType
  <2>4. QED
    BY <1>b, <2>1, <2>2, <2>3
<1>5. CASE Forward
  BY <1>b, <1>5 DEF Forward, satellite
<1>6. ASSUME NEW p \in Id, Produce(p) \/ GiveUp(p) PROVE FedInOrder'
  <2>1. ProducerStep(p)
    BY <1>6, ProducerSteps
  <2>2. QED
    BY <1>b, <2>1 DEF ProducerStep
<1>7. CASE UNCHANGED streamVars
  BY <1>b, <1>7 DEF streamVars
<1>8. QED
  BY <1>1, <1>2, <1>3, <1>4, <1>5, <1>6, <1>7 DEF StreamNext

-----------------------------------------------------------------------------
(* What a satellite plays is on its way *)

LEMMA UnderwayInit == ASSUME StreamInit PROVE Underway
BY Constants DEF StreamInit, Underway

LEMMA UnderwayLoad ==
  ASSUME StreamTypeInv, NEW s \in Stream, Load(s)
  PROVE  Underway'
<1> DEFINE c == [kind |-> "open", stream |-> s]
           rest == control \o Stops(media)
<1>1. rest \in Seq(Control) /\ c \in Control
  BY StopsFact DEF Control
<1>2. control' = rest \o <<c>> /\ media' = s
  BY DEF Load
<1>3. c.kind = "open" /\ c.stream = s
  OBVIOUS
<1> HIDE DEF c, rest
<1>4. control' = Append(rest, c)
  BY <1>1, <1>2
<1>5. /\ Len(control') = Len(rest) + 1 /\ Len(rest) \in Nat
      /\ control'[Len(rest) + 1] = c
  BY <1>1, <1>4, AppendFact
<1>6. Len(control') \in 1..Len(control') /\ \A l \in 1..Len(control') : ~(l > Len(control'))
  BY <1>5
<1>7. Asked(s)'
  BY <1>3, <1>5, <1>6 DEF Asked
<1>8. QED
  BY <1>2, <1>7 DEF Underway

(* The queue and the wire stay as they are, and so do the producers.        *)
LEMMA UnderwayReceive ==
  ASSUME StreamTypeInv, Underway, Receive
  PROVE  Underway'
<1> SUFFICES ASSUME NEW s \in Stream, media' = s, s \notin reopened'
             PROVE  \/ Asked(s)'
                    \/ /\ Unasked(s)'
                       /\ \/ Failing(s)' \/ Beginning(s)' \/ Playing(s)'
                          \/ Ending(s)' \/ Ended(s)' \/ Played(s)'
  BY DEF Underway
<1> DEFINE f == Head(wire)
<1>1. /\ wire # <<>> /\ wire' = Tail(wire) /\ Of' = Of
      /\ UNCHANGED <<connected, producer, queue, entry, reopened>>
      /\ f \in Sent /\ f.by \in Id
      /\ Header(f) \/ ChunkFrame(f) \/ End(f) \/ Fail(f)
  BY ReceiveSteps, LineTypes DEF Of
<1>2. /\ f = wire[1] /\ 1 \in 1..Len(wire)
      /\ \A i \in 1..Len(wire') : wire'[i] = wire[i + 1] /\ i + 1 \in 1..Len(wire) /\ i + 1 > 1
                                  /\ i \in Nat
      /\ \A i \in 1..Len(wire) : i = 1 \/ (/\ i - 1 \in 1..Len(wire') /\ wire'[i - 1] = wire[i]
                                           /\ i \in Nat)
  <2>1. /\ f = wire[1] /\ Len(wire) \in Nat \ {0} /\ Len(wire') = Len(wire) - 1
        /\ \A i \in 1..Len(wire') : wire'[i] = wire[i + 1] /\ i + 1 \in 1..Len(wire)
    BY <1>1, LineTypes, TailFact
  <2>2. \A i \in 1..Len(wire) : i = 1 \/ (/\ i - 1 \in 1..Len(wire') /\ (i - 1) + 1 = i)
    BY <2>1
  <2>3. QED
    BY <2>1, <2>2
<1>3. producer[f.by].stream = Of[f.by] /\ s # NoStream
  BY <1>1, Constants DEF Of
<1>4. decoder # NoStream => decoder.stream = media /\ decoder \in Decoder
  BY Constants DEF StreamTypeInv
<1>5. NoStream \notin Decoder
  BY Constants
<1> DEFINE new == [stream |-> s, fed |-> <<>>, pc |-> "feed"]
           more == [decoder EXCEPT !.fed = Append(@, [by |-> f.by, seq |-> f.seq])]
           last == [decoder EXCEPT !.pc = "drain"]
<1> HIDE DEF f
<1>d. new \in Decoder
  <2>1. <<>> \in Seq(Fed)
    OBVIOUS
  <2>2. QED
    BY <2>1 DEF Decoder
<1>e. decoder # NoStream => /\ more \in Decoder /\ more.pc = decoder.pc
                        /\ last \in Decoder /\ last.pc = "drain"
  <2>1. [by |-> f.by, seq |-> f.seq] \in Fed
    BY <1>1 DEF Sent, Frame, Fed
  <2>2. QED
    BY <1>4, <2>1 DEF Decoder
(* The satellite plays on, and asks for nothing.                            *)
<1>6. media = s /\ control' = control
  BY <1>1, <1>3 DEF Header, ChunkFrame, End, Fail
<1>7. f.kind # "fail" \/ Of[f.by] # s
  BY <1>1, <1>3, <1>6 DEF Header, ChunkFrame, End, Fail
<1>g. \/ f.kind = "header" /\ Of[f.by] = s /\ decoder' = new
      \/ f.kind = "end" /\ Of[f.by] = s /\ decoder # NoStream /\ decoder' = last
      \/ f.kind = "chunk" /\ decoder # NoStream /\ decoder' = more
      \/ /\ decoder' = decoder /\ ~(f.kind = "header" /\ Of[f.by] = s)
         /\ f.kind = "end" /\ Of[f.by] = s /\ decoder # NoStream
              => decoder \in Decoder /\ decoder.pc \in {"drain", "over"}
  <2>1. CASE Header(f)
    BY <1>3, <1>6, <2>1 DEF Header
  <2>2. CASE ChunkFrame(f)
    BY <1>3, <1>6, <2>2 DEF ChunkFrame
  <2>3. CASE End(f)
    <3>1. decoder # NoStream => decoder.pc \in {"feed", "drain", "over"}
      BY <1>4 DEF Decoder
    <3>2. QED
      BY <1>3, <1>4, <1>6, <2>3, <3>1 DEF End
  <2>4. CASE Fail(f)
    BY <1>3, <1>6, <1>7, <2>4 DEF Fail
  <2>5. QED
    BY <1>1, <2>1, <2>2, <2>3, <2>4
<1> HIDE DEF new, more, last
<1>8. decoder # NoStream => decoder' # NoStream
  BY <1>5, <1>d, <1>e, <1>g
<1>9. f.kind = "header" /\ Of[f.by] = s => decoder' # NoStream
  BY <1>5, <1>d, <1>g
<1>10. ~(f.kind = "header" /\ Of[f.by] = s) /\ decoder # NoStream /\ decoder.pc \in {"drain", "over"}
         => decoder' # NoStream /\ decoder'.pc \in {"drain", "over"}
  BY <1>5, <1>e, <1>g
<1>11. f.kind = "end" /\ Of[f.by] = s /\ decoder # NoStream
         => decoder' # NoStream /\ decoder'.pc \in {"drain", "over"}
  BY <1>5, <1>e, <1>g
<1>12. Asked(s) => Asked(s)'
  BY <1>6 DEF Asked
<1>13. Unasked(s) => Unasked(s)'
  BY <1>6 DEF Unasked
<1>14. HeaderCame(s) => HeaderCame(s)'
  <2>1. CASE decoder # NoStream
    BY <1>8, <2>1 DEF HeaderCame
  <2>2. ASSUME NEW j \in 1..Len(wire), wire[j].kind = "header", Of[wire[j].by] = s
        PROVE  HeaderCame(s)'
    <3>1. CASE j = 1
      BY <1>2, <1>9, <2>2, <3>1 DEF HeaderCame
    <3>2. CASE j # 1
      <4>1. j - 1 \in 1..Len(wire') /\ wire'[j - 1] = wire[j]
        BY <1>2, <3>2
      <4>2. QED
        BY <1>1, <2>2, <4>1 DEF HeaderCame
    <3>3. QED
      BY <3>1, <3>2
  <2>3. QED
    BY <2>1, <2>2 DEF HeaderCame
<1>15. Rest(s) => Rest(s)'
  BY <1>1 DEF Rest
<1>16. Failing(s) => Failing(s)'
  <2>1. ASSUME NEW j \in 1..Len(wire), wire[j].kind = "fail", Of[wire[j].by] = s
        PROVE  Failing(s)'
    <3>1. j # 1
      BY <1>2, <1>7, <2>1
    <3>2. j - 1 \in 1..Len(wire') /\ wire'[j - 1] = wire[j]
      BY <1>2, <3>1
    <3>3. QED
      BY <1>1, <2>1, <3>2 DEF Failing
  <2>2. ASSUME NEW p \in Id, Serves(p, s),
               producer[p].pc = "failing" \/
                 \E j \in 1..Len(queue) : queue[j].by = p /\ queue[j].kind = "fail"
        PROVE  Failing(s)'
    <3>1. Serves(p, s)'
      BY <1>1, <2>2 DEF Serves
    <3>2. QED
      BY <1>1, <2>2, <3>1 DEF Failing
  <2>3. QED
    BY <2>1, <2>2 DEF Failing
<1>17. \A p : Serves(p, s) => Serves(p, s)'
  BY <1>1 DEF Serves
<1>18. Beginning(s) => Beginning(s)'
  BY <1>1, <1>17 DEF Beginning
<1>19. Playing(s) => Playing(s)'
  BY <1>1, <1>14, <1>17 DEF Playing
<1>20. Ending(s) => Ending(s)'
  BY <1>1, <1>14, <1>17 DEF Ending
<1>21. Ended(s) => Ended(s)' \/ Played(s)'
  <2> SUFFICES ASSUME Rest(s), NEW i \in 1..Len(wire),
                      wire[i].kind = "end", Of[wire[i].by] = s,
                      \A l \in 1..Len(wire) : l > i => Of[wire[l].by] # s,
                      decoder # NoStream \/ \E j \in 1..Len(wire) :
                              j < i /\ wire[j].kind = "header" /\ Of[wire[j].by] = s
               PROVE  Ended(s)' \/ Played(s)'
    BY DEF Ended
  <2>1. CASE i = 1
    <3>1. decoder # NoStream
      BY <2>1
    <3>2. decoder' # NoStream /\ decoder'.pc \in {"drain", "over"}
      BY <1>2, <1>11, <2>1, <3>1
    <3>3. \A l \in 1..Len(wire') : Of[wire'[l].by] # s
      BY <1>2, <2>1
    <3>4. QED
      BY <1>1, <1>15, <3>2, <3>3 DEF Played
  <2>2. CASE i # 1
    <3>1. i - 1 \in 1..Len(wire') /\ wire'[i - 1] = wire[i] /\ i \in Nat
      BY <1>2, <2>2
    <3>2. \A l \in 1..Len(wire') : l > i - 1 => Of[wire'[l].by] # s
      <4> SUFFICES ASSUME NEW l \in 1..Len(wire'), l > i - 1
                   PROVE  Of[wire'[l].by] # s
        OBVIOUS
      <4>1. l + 1 > i
        BY <1>2, <3>1
      <4>2. l + 1 \in 1..Len(wire) /\ wire'[l] = wire[l + 1]
        BY <1>2
      <4>3. Of[wire[l + 1].by] # s
        BY <4>1, <4>2
      <4>4. QED
        BY <4>2, <4>3
    <3>3. decoder' # NoStream \/ \E j \in 1..Len(wire') :
                              j < i - 1 /\ wire'[j].kind = "header" /\ Of[wire'[j].by] = s
      <4>1. CASE decoder # NoStream
        BY <1>8, <4>1
      <4>2. ASSUME NEW j \in 1..Len(wire), j < i, wire[j].kind = "header", Of[wire[j].by] = s
            PROVE  decoder' # NoStream \/ \E l \in 1..Len(wire') :
                     l < i - 1 /\ wire'[l].kind = "header" /\ Of[wire'[l].by] = s
        <5>1. CASE j = 1
          BY <1>2, <1>9, <4>2, <5>1
        <5>2. CASE j # 1
          <6>1. j - 1 \in 1..Len(wire') /\ wire'[j - 1] = wire[j] /\ j - 1 < i - 1
            BY <1>2, <3>1, <4>2, <5>2
          <6>2. QED
            BY <4>2, <6>1
        <5>3. QED
          BY <5>1, <5>2
      <4>3. QED
        BY <4>1, <4>2
    <3>4. QED
      BY <1>1, <1>15, <3>1, <3>2, <3>3 DEF Ended
  <2>3. QED
    BY <2>1, <2>2
<1>22. Played(s) => Played(s)'
  <2> SUFFICES ASSUME Played(s) PROVE Played(s)'
    OBVIOUS
  <2>1. Of[f.by] # s
    BY <1>2 DEF Played
  <2>2. \A l \in 1..Len(wire') : Of[wire'[l].by] # s
    BY <1>2 DEF Played
  <2>3. QED
    BY <1>1, <1>10, <1>15, <2>1, <2>2 DEF Played
<1>23. QED
  BY <1>1, <1>6, <1>12, <1>13, <1>16, <1>18, <1>19, <1>20, <1>21, <1>22 DEF Underway

(* Nothing happens to stream s and its producers.                           *)
LEMMA UnderwayKept ==
  ASSUME NEW s \in Stream, Entries, StreamTypeInv, UNCHANGED <<wire, queue>>,
         entry'[s] = entry[s],
         \A q \in Id : /\ Of'[q] = s <=> Of[q] = s
                       /\ Of[q] = s => /\ producer'[q].pc = producer[q].pc
                                       /\ producer'[q].cancelled = producer[q].cancelled,
         decoder # NoStream => decoder' # NoStream,
         decoder # NoStream /\ decoder.pc \in {"drain", "over"} => decoder'.pc \in {"drain", "over"}
  PROVE  Failing(s) \/ Beginning(s) \/ Playing(s) \/ Ending(s) \/ Ended(s) \/ Played(s) =>
         \/ Failing(s)' \/ Beginning(s)' \/ Playing(s)'
         \/ Ending(s)' \/ Ended(s)' \/ Played(s)'
<1>1. ASSUME NEW p \in Id, Serves(p, s) PROVE Serves(p, s)' /\ producer'[p].pc = producer[p].pc
  <2>1. Of[p] = s
    BY <1>1, Constants DEF Serves, Entries, Of
  <2>2. QED
    BY <1>1, <2>1 DEF Serves
<1>2. /\ \A i \in 1..Len(wire) : Of'[wire[i].by] = s <=> Of[wire[i].by] = s
      /\ \A i \in 1..Len(queue) : Of'[queue[i].by] = s <=> Of[queue[i].by] = s
  BY LineTypes
<1>3. HeaderCame(s) => HeaderCame(s)'
  BY <1>2 DEF HeaderCame
<1>4. Rest(s) => Rest(s)'
  BY <1>2 DEF Rest
<1>5. Failing(s) => Failing(s)'
  BY <1>1, <1>2 DEF Failing
<1>6. Beginning(s) => Beginning(s)'
  BY <1>1 DEF Beginning
<1>7. Playing(s) => Playing(s)'
  BY <1>1, <1>3 DEF Playing
<1>8. Ending(s) => Ending(s)'
  BY <1>1, <1>2, <1>3 DEF Ending
<1>9. Ended(s) => Ended(s)'
  BY <1>2, <1>4 DEF Ended
<1>10. Played(s) => Played(s)'
  BY <1>2, <1>4 DEF Played
<1>11. QED
  BY <1>5, <1>6, <1>7, <1>8, <1>9, <1>10

LEMMA UnderwayControl ==
  ASSUME StreamTypeInv, Sources, Entries, Underway, TakeControl
  PROVE  Underway'
<1> SUFFICES ASSUME NEW s \in Stream, media' = s, s \notin reopened'
             PROVE  \/ Asked(s)'
                    \/ /\ Unasked(s)'
                       /\ \/ Failing(s)' \/ Beginning(s)' \/ Playing(s)'
                          \/ Ending(s)' \/ Ended(s)' \/ Played(s)'
  BY DEF Underway
<1> DEFINE c == Head(control)
<1>1. /\ control # <<>> /\ control' = Tail(control) /\ c \in Control
      /\ UNCHANGED <<connected, media, decoder, queue, wire>>
      /\ reopened \subseteq reopened'
  BY TailFact DEF TakeControl, satellite, StreamTypeInv
<1>2. /\ c = control[1] /\ 1 \in 1..Len(control)
      /\ \A i \in 1..Len(control') : control'[i] = control[i + 1] /\ i + 1 \in 1..Len(control)
                                     /\ i + 1 > 1 /\ i \in Nat
      /\ \A i \in 1..Len(control) : i = 1 \/ (/\ i - 1 \in 1..Len(control')
                                              /\ control'[i - 1] = control[i] /\ i \in Nat)
  <2>1. /\ c = control[1] /\ Len(control) \in Nat \ {0} /\ Len(control') = Len(control) - 1
        /\ \A i \in 1..Len(control') : control'[i] = control[i + 1] /\ i + 1 \in 1..Len(control)
    BY <1>1, TailFact DEF StreamTypeInv
  <2>2. \A i \in 1..Len(control) : i = 1 \/ (/\ i - 1 \in 1..Len(control') /\ (i - 1) + 1 = i)
    BY <2>1
  <2>3. QED
    BY <2>1, <2>2
<1>3. \/ c.kind = "open" /\ \E p \in Id : Unused(p) /\ OpenStream(c.stream, p)
      \/ c.kind = "stop" /\ Stop(c.stream)
  BY DEF TakeControl
<1>4. s # NoStream /\ c.stream \in Stream
  BY <1>1, Constants DEF Control
<1>5. entry \in [Stream -> 0..MaxOpens] /\ producer \in [Id -> ProducerType] /\ 0 \notin Id
  BY Constants DEF StreamTypeInv
<1> HIDE DEF c
<1>6. CASE Unasked(s)
  <2>1. c.stream # s /\ Unasked(s)'
    BY <1>2, <1>6 DEF Unasked
  <2>2. entry[c.stream] \in Id => Of[entry[c.stream]] # s
    BY <1>4, <1>5, <2>1 DEF Entries, Of
  <2>3. entry'[s] = entry[s]
    BY <1>3, <1>4, <1>5, <2>1 DEF OpenStream, Stop
  <2>4. ASSUME NEW q \in Id
        PROVE  /\ Of'[q] = s <=> Of[q] = s
               /\ Of[q] = s => /\ producer'[q].pc = producer[q].pc
                               /\ producer'[q].cancelled = producer[q].cancelled
    <3>0. Of[q] = producer[q].stream /\ Of'[q] = producer'[q].stream
      BY DEF Of
    <3>1. CASE c.kind = "open" /\ \E p \in Id : Unused(p) /\ OpenStream(c.stream, p)
      <4>1. PICK p \in Id : Unused(p) /\ OpenStream(c.stream, p)
        BY <3>1
      <4>2. producer[p].stream = NoStream
        BY <1>5, <4>1 DEF Unused, ProducerType
      <4>3. CASE q = p
        <5>1. producer'[q].stream = c.stream
          BY <4>1, <4>3 DEF OpenStream, NoProducer
        <5>2. QED
          BY <1>4, <2>1, <3>0, <4>2, <4>3, <5>1
      <4>4. CASE q # p /\ q = entry[c.stream]
        <5>1. producer'[q] = [producer[q] EXCEPT !.cancelled = TRUE]
          BY <4>1, <4>4 DEF OpenStream
        <5>2. producer'[q].stream = producer[q].stream
          BY <1>5, <5>1 DEF ProducerType
        <5>3. QED
          BY <2>2, <3>0, <4>4, <5>2
      <4>5. CASE q # p /\ q # entry[c.stream]
        <5>1. producer'[q] = producer[q]
          BY <4>1, <4>5 DEF OpenStream
        <5>2. QED
          BY <3>0, <5>1
      <4>6. QED
        BY <4>3, <4>4, <4>5
    <3>2. CASE c.kind = "stop" /\ Stop(c.stream)
      <4>1. CASE q = entry[c.stream]
        <5>1. producer'[q] = [producer[q] EXCEPT !.cancelled = TRUE]
          BY <1>5, <3>2, <4>1 DEF Stop
        <5>2. producer'[q].stream = producer[q].stream
          BY <1>5, <5>1 DEF ProducerType
        <5>3. QED
          BY <2>2, <3>0, <4>1, <5>2
      <4>2. CASE q # entry[c.stream]
        <5>1. producer'[q] = producer[q]
          BY <1>5, <3>2, <4>2 DEF Stop
        <5>2. QED
          BY <3>0, <5>1
      <4>3. QED
        BY <4>1, <4>2
    <3>3. QED
      BY <1>3, <3>1, <3>2
  <2>5. Failing(s) \/ Beginning(s) \/ Playing(s) \/ Ending(s) \/ Ended(s) \/ Played(s)
    BY <1>1, <1>6 DEF Underway, Asked, Unasked
  <2>6. QED
    BY <1>1, <2>1, <2>3, <2>4, <2>5, UnderwayKept
<1>7. ASSUME NEW i \in 1..Len(control), control[i].kind = "open", control[i].stream = s,
             \A l \in 1..Len(control) : l > i => control[l].stream # s
      PROVE  Asked(s)' \/ (Unasked(s)' /\ Beginning(s)')
  <2>1. CASE i # 1
    <3>1. i - 1 \in 1..Len(control') /\ control'[i - 1] = control[i] /\ i \in Nat
      BY <1>2, <2>1
    <3>2. \A l \in 1..Len(control') : l > i - 1 => control'[l].stream # s
      <4>1. \A l \in 1..Len(control') : l > i - 1 => l + 1 > i
        BY <1>2, <3>1
      <4>2. QED
        BY <1>2, <1>7, <4>1
    <3>3. QED
      BY <1>7, <3>1, <3>2 DEF Asked
  <2>2. CASE i = 1
    <3>1. Unasked(s)'
      BY <1>2, <1>7, <2>2 DEF Unasked
    <3>2. PICK p \in Id : Unused(p) /\ OpenStream(s, p)
      BY <1>2, <1>3, <1>7, <2>2
    <3>3. entry'[s] = p
      BY <1>5, <3>2 DEF OpenStream
    <3>4. producer'[p].pc = "header" /\ ~producer'[p].cancelled
      BY <3>2 DEF OpenStream, NoProducer
    <3>5. QED
      BY <3>1, <3>3, <3>4 DEF Beginning, Serves
  <2>3. QED
    BY <2>1, <2>2
<1>8. QED
  BY <1>1, <1>6, <1>7 DEF Underway, Asked

LEMMA UnderwayForward ==
  ASSUME StreamTypeInv, Sources, Entries, Underway, Forward
  PROVE  Underway'
<1> SUFFICES ASSUME NEW s \in Stream, media' = s, s \notin reopened'
             PROVE  \/ Asked(s)'
                    \/ /\ Unasked(s)'
                       /\ \/ Failing(s)' \/ Beginning(s)' \/ Playing(s)'
                          \/ Ending(s)' \/ Ended(s)' \/ Played(s)'
  BY DEF Underway
<1> DEFINE f == Head(queue)
<1>1. /\ queue # <<>> /\ queue' = Tail(queue) /\ Of' = Of
      /\ UNCHANGED <<connected, media, decoder, control, producer, reopened>>
      /\ f \in Sent /\ f.by \in Id
  BY LineTypes, TailFact DEF Forward, satellite, Of
<1>2. /\ f = queue[1] /\ 1 \in 1..Len(queue)
      /\ \A i \in 1..Len(queue') : queue'[i] = queue[i + 1] /\ i + 1 \in 1..Len(queue)
                                   /\ i + 1 > 1 /\ i \in Nat
      /\ \A i \in 1..Len(queue) : i = 1 \/ (/\ i - 1 \in 1..Len(queue') /\ queue'[i - 1] = queue[i]
                                            /\ i \in Nat /\ i > 1)
      /\ \A i \in 1..Len(queue) : queue[i].by \in Id
  <2>1. /\ f = queue[1] /\ Len(queue) \in Nat \ {0} /\ Len(queue') = Len(queue) - 1
        /\ \A i \in 1..Len(queue') : queue'[i] = queue[i + 1] /\ i + 1 \in 1..Len(queue)
    BY <1>1, LineTypes, TailFact
  <2>2. \A i \in 1..Len(queue) : i = 1 \/ (/\ i - 1 \in 1..Len(queue') /\ (i - 1) + 1 = i)
    BY <2>1
  <2>3. QED
    BY <2>1, <2>2, LineTypes
<1>3. producer[f.by].stream = Of[f.by] /\ s # NoStream /\ 0 \notin Id
      /\ entry \in [Stream -> 0..MaxOpens]
  BY <1>1, Constants DEF Of, StreamTypeInv
<1>4. media = s /\ s \notin reopened /\ connected
  BY <1>1, <1>3 DEF StreamTypeInv
<1>5. wire' = IF f.kind # "closed" /\ entry[Of[f.by]] # 0 /\ ~producer[entry[Of[f.by]]].cancelled
                THEN Append(wire, f) ELSE wire
  BY <1>3 DEF Forward
<1>6. entry' = IF f.kind = "closed" THEN [entry EXCEPT ![Of[f.by]] = 0] ELSE entry
  BY <1>3 DEF Forward
<1> HIDE DEF f
<1>7. \A q \in Id : Of[q] = s /\ (producer[q].pc \in Running \/ Queued(q)) => entry[s] = q
  BY <1>3, <1>4 DEF Entries
<1>8. Of[f.by] = s => entry[s] = f.by
  BY <1>1, <1>2, <1>7 DEF Queued
(* The wire keeps its frames, and gets f if anything.                       *)
<1>9. /\ Len(wire) \in Nat
      /\ \A i \in 1..Len(wire) : i \in 1..Len(wire') /\ wire'[i] = wire[i] /\ i < Len(wire) + 1
      /\ \A i \in 1..Len(wire') : \/ i \in 1..Len(wire) /\ wire'[i] = wire[i]
                                  \/ i = Len(wire) + 1 /\ wire' = Append(wire, f) /\ wire'[i] = f
  <2>1. CASE wire' = wire
    BY <2>1, LineTypes
  <2>2. CASE wire' = Append(wire, f)
    BY <1>1, <2>2, LineTypes, AppendFact
  <2>3. QED
    BY <1>5, <2>1, <2>2
<1>10. wire' = Append(wire, f) => Len(wire) + 1 \in 1..Len(wire') /\ wire'[Len(wire) + 1] = f
  BY <1>1, LineTypes, AppendFact
<1>11. Of[f.by] = s /\ Serves(f.by, s) /\ f.kind # "closed" => wire' = Append(wire, f)
  BY <1>1, <1>3, <1>5 DEF Serves
(* Who serves the stream still does, unless it has put its last message.    *)
<1>12. ASSUME NEW p \in Id, Serves(p, s),
              \/ producer[p].pc \in Running
              \/ \E i \in 1..Len(queue) : queue[i].by = p /\ queue[i].kind # "closed"
       PROVE  Serves(p, s)' /\ Of[p] = s
  <2>1. Of[p] = s
    BY <1>3, <1>12 DEF Serves, Entries, Of
  <2>2. ~(f.kind = "closed" /\ f.by = p)
    BY <1>2, <1>12 DEF Sources, Running
  <2>3. f.kind = "closed" => Of[f.by] # s
    BY <1>8, <1>12, <2>2 DEF Serves
  <2>4. entry'[s] = entry[s]
    BY <1>3, <1>6, <2>3
  <2>5. QED
    BY <1>1, <1>12, <2>1, <2>4 DEF Serves
<1>13. Asked(s) => Asked(s)'
  BY <1>1 DEF Asked
<1>14. Unasked(s) => Unasked(s)'
  BY <1>1 DEF Unasked
<1>15. HeaderCame(s) => HeaderCame(s)'
  BY <1>1, <1>9 DEF HeaderCame
<1>16. Rest(s) => Rest(s)'
  BY <1>1, <1>2 DEF Rest
<1>17. Failing(s) => Failing(s)'
  <2>1. ASSUME NEW j \in 1..Len(wire), wire[j].kind = "fail", Of[wire[j].by] = s
        PROVE  Failing(s)'
    BY <1>1, <1>9, <2>1 DEF Failing
  <2>2. ASSUME NEW p \in Id, Serves(p, s), producer[p].pc = "failing"
        PROVE  Failing(s)'
    <3>1. Serves(p, s)'
      BY <1>12, <2>2 DEF Running
    <3>2. QED
      BY <1>1, <2>2, <3>1 DEF Failing
  <2>3. ASSUME NEW p \in Id, Serves(p, s),
               NEW j \in 1..Len(queue), queue[j].by = p, queue[j].kind = "fail"
        PROVE  Failing(s)'
    <3>1. Serves(p, s)' /\ Of[p] = s
      BY <1>12, <2>3
    <3>2. CASE j = 1
      <4>1. wire' = Append(wire, f)
        BY <1>2, <1>11, <2>3, <3>1, <3>2
      <4>2. QED
        BY <1>1, <1>2, <1>10, <2>3, <3>1, <3>2, <4>1 DEF Failing
    <3>3. CASE j # 1
      BY <1>2, <2>3, <3>1, <3>3 DEF Failing
    <3>4. QED
      BY <3>2, <3>3
  <2>4. QED
    BY <2>1, <2>2, <2>3 DEF Failing
<1>18. Beginning(s) => Beginning(s)'
  BY <1>1, <1>12 DEF Beginning, Running
<1>19. Playing(s) => Playing(s)'
  <2> SUFFICES ASSUME NEW p \in Id, Serves(p, s), producer[p].pc \in {"check", "read"},
                      HeaderCame(s) \/
                        \E j \in 1..Len(queue) : queue[j].by = p /\ queue[j].kind = "header"
               PROVE  Playing(s)'
    BY DEF Playing
  <2>1. Serves(p, s)' /\ Of[p] = s
    BY <1>12 DEF Running
  <2>2. CASE HeaderCame(s)
    BY <1>1, <1>15, <2>1, <2>2 DEF Playing
  <2>3. ASSUME NEW j \in 1..Len(queue), queue[j].by = p, queue[j].kind = "header"
        PROVE  Playing(s)'
    <3>1. CASE j = 1
      <4>1. wire' = Append(wire, f)
        BY <1>2, <1>11, <2>1, <2>3, <3>1
      <4>2. HeaderCame(s)'
        BY <1>1, <1>2, <1>10, <2>1, <2>3, <3>1, <4>1 DEF HeaderCame
      <4>3. QED
        BY <1>1, <2>1, <4>2 DEF Playing
    <3>2. CASE j # 1
      BY <1>1, <1>2, <2>1, <2>3, <3>2 DEF Playing
    <3>3. QED
      BY <3>1, <3>2
  <2>4. QED
    BY <2>2, <2>3
<1>20. Ending(s) => Ending(s)' \/ Ended(s)'
  <2> SUFFICES ASSUME NEW p \in Id, NEW i \in 1..Len(queue),
                      Serves(p, s), producer[p].pc \in {"close", "done"},
                      queue[i].by = p, queue[i].kind = "end",
                      \A l \in 1..Len(queue) : l > i /\ Of[queue[l].by] = s => queue[l].kind = "closed",
                      HeaderCame(s) \/ \E j \in 1..Len(queue) :
                        j < i /\ queue[j].by = p /\ queue[j].kind = "header"
               PROVE  Ending(s)' \/ Ended(s)'
    BY DEF Ending
  <2>1. Serves(p, s)' /\ Of[p] = s
    BY <1>12
  <2>2. CASE i = 1
    <3>1. wire' = Append(wire, f) /\ f.kind = "end" /\ Of[f.by] = s
      BY <1>2, <1>11, <2>1, <2>2
    <3>2. Rest(s)'
      <4>1. \A l \in 1..Len(queue') : Of[queue'[l].by] = s => queue'[l].kind = "closed"
        BY <1>2, <2>2
      <4>2. \A q \in Id : Of[q] = s /\ producer[q].pc \in Running => q = p
        BY <1>7 DEF Serves
      <4>3. \A q \in Id : Of[q] = s /\ producer[q].pc \in Running => producer[q].pc = "close"
        BY <4>2 DEF Running
      <4>4. QED
        BY <1>1, <4>1, <4>3 DEF Rest
    <3>3. HeaderCame(s)
      BY <1>2, <2>2
    <3>4. \A l \in 1..Len(wire') : ~(l > Len(wire) + 1)
      BY <1>9
    <3>5. decoder # NoStream \/ \E j \in 1..Len(wire') :
                              j < Len(wire) + 1 /\ wire'[j].kind = "header" /\ Of[wire'[j].by] = s
      BY <1>9, <3>3 DEF HeaderCame
    <3>6. QED
      BY <1>1, <1>10, <3>1, <3>2, <3>4, <3>5 DEF Ended
  <2>3. CASE i # 1
    <3>1. i - 1 \in 1..Len(queue') /\ queue'[i - 1] = queue[i] /\ i \in Nat
      BY <1>2, <2>3
    <3>2. \A l \in 1..Len(queue') : l > i - 1 /\ Of[queue'[l].by] = s => queue'[l].kind = "closed"
      <4>1. \A l \in 1..Len(queue') : l > i - 1 => l + 1 > i
        BY <1>2, <3>1
      <4>2. QED
        BY <1>2, <4>1
    <3>3. HeaderCame(s)' \/ \E j \in 1..Len(queue') :
                              j < i - 1 /\ queue'[j].by = p /\ queue'[j].kind = "header"
      <4>1. CASE HeaderCame(s)
        BY <1>15, <4>1
      <4>2. ASSUME NEW j \in 1..Len(queue), j < i, queue[j].by = p, queue[j].kind = "header"
            PROVE  HeaderCame(s)' \/ \E l \in 1..Len(queue') :
                              l < i - 1 /\ queue'[l].by = p /\ queue'[l].kind = "header"
        <5>1. CASE j = 1
          <6>1. wire' = Append(wire, f)
            BY <1>2, <1>11, <2>1, <4>2, <5>1
          <6>2. QED
            BY <1>1, <1>2, <1>10, <2>1, <4>2, <5>1, <6>1 DEF HeaderCame
        <5>2. CASE j # 1
          <6>1. j - 1 \in 1..Len(queue') /\ queue'[j - 1] = queue[j] /\ j - 1 < i - 1
            BY <1>2, <3>1, <4>2, <5>2
          <6>2. QED
            BY <4>2, <6>1
        <5>3. QED
          BY <5>1, <5>2
      <4>3. QED
        BY <4>1, <4>2
    <3>4. QED
      BY <1>1, <2>1, <3>1, <3>2, <3>3 DEF Ending
  <2>4. QED
    BY <2>2, <2>3
(* What follows the end is not written out.                                 *)
<1>21. Rest(s) => \A l \in 1..Len(wire') :
         Of[wire'[l].by] = s => l \in 1..Len(wire) /\ wire'[l] = wire[l]
  <2> SUFFICES ASSUME Rest(s), wire' = Append(wire, f) PROVE Of[f.by] # s
    BY <1>9
  <2>1. wire' # wire
    BY <1>9, <1>10
  <2>2. QED
    BY <1>2, <1>5, <2>1 DEF Rest
<1>22. Ended(s) => Ended(s)'
  <2> SUFFICES ASSUME Rest(s), NEW i \in 1..Len(wire),
                      wire[i].kind = "end", Of[wire[i].by] = s,
                      \A l \in 1..Len(wire) : l > i => Of[wire[l].by] # s,
                      decoder # NoStream \/ \E j \in 1..Len(wire) :
                              j < i /\ wire[j].kind = "header" /\ Of[wire[j].by] = s
               PROVE  Ended(s)'
    BY DEF Ended
  <2>1. i \in 1..Len(wire') /\ wire'[i] = wire[i]
    BY <1>9
  <2>2. \A l \in 1..Len(wire') : l > i => Of[wire'[l].by] # s
    BY <1>21
  <2>3. decoder # NoStream \/ \E j \in 1..Len(wire') :
                            j < i /\ wire'[j].kind = "header" /\ Of[wire'[j].by] = s
    BY <1>9
  <2>4. QED
    BY <1>1, <1>16, <2>1, <2>2, <2>3 DEF Ended
<1>23. Played(s) => Played(s)'
  <2> SUFFICES ASSUME Played(s) PROVE Played(s)'
    OBVIOUS
  <2>1. Rest(s) /\ \A l \in 1..Len(wire') : Of[wire'[l].by] # s
    BY <1>21 DEF Played
  <2>2. QED
    BY <1>1, <1>16, <2>1 DEF Played
<1>24. QED
  BY <1>4, <1>13, <1>14, <1>17, <1>18, <1>19, <1>20, <1>22, <1>23 DEF Underway

LEMMA UnderwayProduce ==
  ASSUME StreamTypeInv, Entries, Underway, NEW p \in Id, Produce(p) \/ GiveUp(p)
  PROVE  Underway'
<1> SUFFICES ASSUME NEW s \in Stream, media' = s, s \notin reopened'
             PROVE  \/ Asked(s)'
                    \/ /\ Unasked(s)'
                       /\ \/ Failing(s)' \/ Beginning(s)' \/ Playing(s)'
                          \/ Ending(s)' \/ Ended(s)' \/ Played(s)'
  BY DEF Underway
<1>1. ProducerStep(p)
  BY ProducerSteps
<1>2. /\ UNCHANGED <<connected, media, decoder, control, entry, wire, reopened>>
      /\ \A q \in Id : q # p => producer'[q] = producer[q]
      /\ producer'[p].stream = producer[p].stream
      /\ producer'[p].cancelled = producer[p].cancelled
      /\ producer[p].pc \in Running
      /\ s # NoStream /\ 0 \notin Id
  BY <1>1, Constants DEF ProducerStep
<1>3. connected /\ media = s /\ s \notin reopened
  BY <1>2 DEF StreamTypeInv
<1>4. Of' = Of
  <2>1. \A q \in Id : producer'[q].stream = producer[q].stream
    BY <1>2
  <2>2. QED
    BY <2>1 DEF Of
<1>5. \A q \in Id : Of[q] = s /\ (producer[q].pc \in Running \/ Queued(q)) => entry[s] = q
  BY <1>2, <1>3 DEF Entries
<1>6. \A q \in Id : Serves(q, s) => Serves(q, s)'
  BY <1>2 DEF Serves
<1>7. GoesOn(p) \/ \E f \in Sent : Puts(p, f)
  BY <1>1 DEF ProducerStep
(* The queue keeps its frames, and gets one of p if anything.               *)
<1>8. /\ Len(queue) \in Nat
      /\ \A i \in 1..Len(queue) : i \in 1..Len(queue') /\ queue'[i] = queue[i] /\ i < Len(queue) + 1
      /\ \A i \in 1..Len(queue') : \/ i \in 1..Len(queue) /\ queue'[i] = queue[i]
                                   \/ i = Len(queue) + 1 /\ queue'[i].by = p
  <2>1. CASE queue' = queue
    BY <2>1, LineTypes
  <2>2. ASSUME NEW f \in Sent, Puts(p, f)
        PROVE  /\ \A i \in 1..Len(queue) : /\ i \in 1..Len(queue') /\ queue'[i] = queue[i]
                                           /\ i < Len(queue) + 1
               /\ \A i \in 1..Len(queue') : \/ i \in 1..Len(queue) /\ queue'[i] = queue[i]
                                            \/ i = Len(queue) + 1 /\ queue'[i].by = p
    BY <2>2, LineTypes, AppendFact DEF Puts
  <2>3. QED
    BY <1>7, <2>1, <2>2, LineTypes DEF GoesOn
<1>9. ASSUME NEW f \in Sent, Puts(p, f)
      PROVE  /\ Len(queue) + 1 \in 1..Len(queue') /\ queue'[Len(queue) + 1] = f /\ f.by = p
             /\ \A l \in 1..Len(queue') : ~(l > Len(queue) + 1)
  BY <1>9, LineTypes, AppendFact DEF Puts
<1>10. HeaderCame(s) => HeaderCame(s)'
  BY <1>2, <1>4 DEF HeaderCame
<1>11. Asked(s) => Asked(s)'
  BY <1>2 DEF Asked
<1>12. Unasked(s) => Unasked(s)'
  BY <1>2 DEF Unasked
<1>13. ASSUME NEW j \in 1..Len(wire), wire[j].kind = "fail", Of[wire[j].by] = s PROVE Failing(s)'
  BY <1>2, <1>4, <1>13 DEF Failing
<1>14. ASSUME NEW q \in Id, Serves(q, s),
              NEW j \in 1..Len(queue), queue[j].by = q, queue[j].kind = "fail"
       PROVE  Failing(s)'
  BY <1>6, <1>8, <1>14 DEF Failing
<1>15. ASSUME NEW q \in Id, q # p, Serves(q, s), producer[q].pc = "failing" PROVE Failing(s)'
  BY <1>2, <1>6, <1>15 DEF Failing
<1>16. \A q \in Id : Serves(q, s) => Of[q] = s
  BY <1>2 DEF Serves, Entries, Of
<1>17. CASE Of[p] # s
  <2>0. \A q \in Id : Of[q] = s => producer'[q] = producer[q]
    BY <1>2, <1>17
  <2>1. Failing(s) => Failing(s)'
    BY <1>13, <1>14, <1>15, <1>16, <1>17 DEF Failing
  <2>2. Beginning(s) => Beginning(s)'
    BY <1>6, <1>16, <2>0 DEF Beginning
  <2>3. Playing(s) => Playing(s)'
    BY <1>6, <1>8, <1>10, <1>16, <2>0 DEF Playing
  <2>4. Ending(s) => Ending(s)'
    BY <1>4, <1>6, <1>8, <1>10, <1>16, <1>17, <2>0 DEF Ending
  <2>5. Rest(s) => Rest(s)'
    BY <1>4, <1>8, <1>17, <2>0 DEF Rest
  <2>6. Ended(s) => Ended(s)'
    BY <1>2, <1>4, <2>5 DEF Ended
  <2>7. Played(s) => Played(s)'
    BY <1>2, <1>4, <2>5 DEF Played
  <2>8. QED
    BY <1>3, <1>11, <1>12, <2>1, <2>2, <2>3, <2>4, <2>6, <2>7 DEF Underway
<1>18. CASE Of[p] = s
  <2>0. entry[s] = p /\ \A q : Serves(q, s) => q = p
    BY <1>2, <1>5, <1>18 DEF Serves
  <2>1. Failing(s) => Failing(s)'
    <3> SUFFICES ASSUME Serves(p, s), producer[p].pc = "failing" PROVE Failing(s)'
      BY <1>13, <1>14, <2>0 DEF Failing
    <3>1. PICK f \in Sent : Puts(p, f) /\ f.kind = "fail"
      BY <1>3, <1>7 DEF GoesOn, Puts, Serves
    <3>2. QED
      BY <1>6, <1>9, <3>1 DEF Failing
  <2>2. Beginning(s) => Playing(s)' \/ Failing(s)'
    <3> SUFFICES ASSUME Serves(p, s), producer[p].pc = "header" PROVE Playing(s)' \/ Failing(s)'
      BY <2>0 DEF Beginning
    <3>1. CASE GoesOn(p)
      <4>1. producer'[p].pc = "failing"
        BY <1>3, <3>1 DEF GoesOn
      <4>2. QED
        BY <1>6, <4>1 DEF Failing
    <3>2. ASSUME NEW f \in Sent, Puts(p, f) PROVE Playing(s)'
      <4>1. f.kind = "header" /\ producer'[p].pc = "check"
        BY <3>2 DEF Puts
      <4>2. QED
        BY <1>6, <1>9, <3>2, <4>1 DEF Playing
    <3>3. QED
      BY <1>7, <3>1, <3>2
  <2>3. Playing(s) => Playing(s)' \/ Failing(s)' \/ Ending(s)'
    <3> SUFFICES ASSUME Serves(p, s), producer[p].pc \in {"check", "read"},
                        HeaderCame(s) \/
                          \E j \in 1..Len(queue) : queue[j].by = p /\ queue[j].kind = "header"
                 PROVE  Playing(s)' \/ Failing(s)' \/ Ending(s)'
      BY <2>0 DEF Playing
    <3>0. HeaderCame(s)' \/
            \E j \in 1..Len(queue') : /\ queue'[j].by = p /\ queue'[j].kind = "header"
                                      /\ j < Len(queue) + 1
      BY <1>8, <1>10
    <3>1. CASE producer'[p].pc \in {"check", "read"}
      BY <1>6, <3>0, <3>1 DEF Playing
    <3>2. CASE producer'[p].pc = "failing"
      BY <1>6, <3>2 DEF Failing
    <3>3. ASSUME NEW f \in Sent, Puts(p, f), f.kind = "end", producer'[p].pc = "close"
          PROVE  Ending(s)'
      <4>1. Len(queue) + 1 \in 1..Len(queue') /\ queue'[Len(queue) + 1] = f /\ f.by = p
            /\ \A l \in 1..Len(queue') : ~(l > Len(queue) + 1)
        BY <1>9, <3>3
      <4>2. QED
        BY <1>6, <3>0, <3>3, <4>1 DEF Ending
    <3>4. QED
      BY <1>3, <1>7, <3>1, <3>2, <3>3 DEF GoesOn, Puts, Serves
  <2>4. producer[p].pc = "close" => \E f \in Sent : /\ Puts(p, f) /\ f.kind = "closed"
                                                    /\ producer'[p].pc = "done"
    BY <1>3, <1>7 DEF GoesOn, Puts
  <2>5. Ending(s) => Ending(s)'
    <3> SUFFICES ASSUME NEW i \in 1..Len(queue),
                        Serves(p, s), producer[p].pc \in {"close", "done"},
                        queue[i].by = p, queue[i].kind = "end",
                        \A l \in 1..Len(queue) : l > i /\ Of[queue[l].by] = s
                                                   => queue[l].kind = "closed",
                        HeaderCame(s) \/ \E j \in 1..Len(queue) :
                          j < i /\ queue[j].by = p /\ queue[j].kind = "header"
                 PROVE  Ending(s)'
      BY <2>0 DEF Ending
    <3>1. producer[p].pc = "close"
      BY <1>2 DEF Running
    <3>2. PICK f \in Sent : Puts(p, f) /\ f.kind = "closed" /\ producer'[p].pc = "done"
      BY <2>4, <3>1
    <3>3. \A l \in 1..Len(queue') : l > i /\ Of[queue'[l].by] = s => queue'[l].kind = "closed"
      BY <1>8, <1>9, <3>2
    <3>4. HeaderCame(s)' \/ \E j \in 1..Len(queue') :
                              j < i /\ queue'[j].by = p /\ queue'[j].kind = "header"
      BY <1>8, <1>10
    <3>5. i \in 1..Len(queue') /\ queue'[i] = queue[i]
      BY <1>8
    <3>6. QED
      BY <1>4, <1>6, <3>2, <3>3, <3>4, <3>5 DEF Ending
  <2>6. Rest(s) => Rest(s)'
    <3> SUFFICES ASSUME Rest(s) PROVE Rest(s)'
      OBVIOUS
    <3>1. producer[p].pc = "close"
      BY <1>2, <1>18 DEF Rest
    <3>2. PICK f \in Sent : Puts(p, f) /\ f.kind = "closed" /\ producer'[p].pc = "done"
      BY <2>4, <3>1
    <3>3. \A l \in 1..Len(queue') : Of[queue'[l].by] = s => queue'[l].kind = "closed"
      BY <1>8, <1>9, <3>2 DEF Rest
    <3>4. \A q \in Id : Of[q] = s /\ producer'[q].pc \in Running => producer'[q].pc = "close"
      BY <1>2, <3>2 DEF Rest, Running
    <3>5. QED
      BY <1>4, <3>3, <3>4 DEF Rest
  <2>7. Ended(s) => Ended(s)'
    BY <1>2, <1>4, <2>6 DEF Ended
  <2>8. Played(s) => Played(s)'
    BY <1>2, <1>4, <2>6 DEF Played
  <2>9. QED
    BY <1>3, <1>11, <1>12, <2>1, <2>2, <2>3, <2>5, <2>7, <2>8 DEF Underway
<1>19. QED
  BY <1>17, <1>18

LEMMA UnderwayStep ==
  ASSUME StreamTypeInv, Sources, Entries, Underway, [StreamNext]_streamVars
  PROVE  Underway'
<1>1. ASSUME UNCHANGED <<media, control, queue, wire, entry, producer, reopened>>,
             decoder # NoStream => decoder' # NoStream,
             decoder # NoStream /\ decoder.pc \in {"drain", "over"} => decoder'.pc \in {"drain", "over"}
      PROVE  Underway'
  <2> SUFFICES ASSUME NEW s \in Stream, media' = s, s \notin reopened'
               PROVE  \/ Asked(s)'
                      \/ /\ Unasked(s)'
                         /\ \/ Failing(s)' \/ Beginning(s)' \/ Playing(s)'
                            \/ Ending(s)' \/ Ended(s)' \/ Played(s)'
    BY DEF Underway
  <2>1. Of' = Of
    BY <1>1 DEF Of
  <2>2. (Asked(s) => Asked(s)') /\ (Unasked(s) => Unasked(s)')
    BY <1>1 DEF Asked, Unasked
  <2>3. Failing(s) \/ Beginning(s) \/ Playing(s) \/ Ending(s) \/ Ended(s) \/ Played(s) =>
         \/ Failing(s)' \/ Beginning(s)' \/ Playing(s)'
         \/ Ending(s)' \/ Ended(s)' \/ Played(s)'
    BY <1>1, <2>1, UnderwayKept
  <2>4. QED
    BY <1>1, <2>2, <2>3 DEF Underway
<1>2. CASE Halt \/ Disconnect
  BY <1>2, Constants DEF Halt, Disconnect, Underway
<1>3. ASSUME NEW pc, DecoderEnds(pc) PROVE Underway'
  <2>1. /\ decoder # NoStream /\ decoder' = [decoder EXCEPT !.pc = "over"]
        /\ UNCHANGED <<media, control, queue, wire, entry, producer, reopened>>
    BY <1>3 DEF DecoderEnds, server
  <2>2. decoder \in Decoder
    BY <2>1 DEF StreamTypeInv
  <2>3. [decoder EXCEPT !.pc = "over"] \in Decoder /\ [decoder EXCEPT !.pc = "over"].pc = "over"
    BY <2>2 DEF Decoder
  <2>4. decoder' # NoStream /\ decoder'.pc = "over"
    BY <2>1, <2>3, Constants
  <2>5. QED
    BY <1>1, <2>1, <2>4
<1>4. CASE UNCHANGED streamVars
  BY <1>1, <1>4 DEF streamVars
<1>5. QED
  BY <1>2, <1>3, <1>4, UnderwayLoad, UnderwayReceive, UnderwayControl, UnderwayForward,
     UnderwayProduce DEF StreamNext

(* When all is quiet, nothing is on its way.                                *)
LEMMA UnderwayEnds == ASSUME StreamTypeInv, Underway PROVE NoStreamHangs
<1> SUFFICES ASSUME Quiet, media # NoStream, media \notin reopened
             PROVE  decoder # NoStream /\ decoder.pc = "over"
  BY DEF NoStreamHangs
<1> DEFINE s == media
<1>1. /\ Len(control) = 0 /\ Len(queue) = 0 /\ Len(wire) = 0 /\ s \in Stream
      /\ \A p \in Id : producer[p].pc \notin Running
      /\ decoder # NoStream => decoder.pc # "drain"
  BY DEF Quiet, StreamTypeInv
<1>2. ~Asked(s) /\ ~Failing(s) /\ ~Beginning(s) /\ ~Playing(s) /\ ~Ending(s) /\ ~Ended(s)
  BY <1>1 DEF Asked, Failing, Beginning, Playing, Ending, Ended, Running
<1>3. Played(s)
  BY <1>1, <1>2 DEF Underway
<1>4. QED
  BY <1>1, <1>3 DEF Played

-----------------------------------------------------------------------------
(* The theorems about the stream                                          *)

MediaInv == StreamTypeInv /\ Sources /\ Entries /\ InLine /\ FedInOrder /\ Underway

LEMMA MediaInvAlways == StreamSpec => []MediaInv
<1>1. StreamInit => MediaInv
  <2>1. StreamInit => FedInOrder
    BY DEF StreamInit, FedInOrder
  <2>2. QED
    BY <2>1, StreamTypeInit, SourcesInit, InLineInit, UnderwayInit DEF MediaInv
<1>2. MediaInv /\ [StreamNext]_streamVars => MediaInv'
  BY StreamTypeStep, SourcesStep, EntriesStep, InLineStep, FedInOrderStep, UnderwayStep
  DEF MediaInv
<1>3. QED
  BY <1>1, <1>2, PTL DEF StreamSpec

(* All variables of the audio's way keep their types.                       *)
THEOREM StreamTypeCorrect == StreamSpec => []StreamTypeOK
<1>1. MediaInv => StreamTypeOK
  <2> SUFFICES ASSUME MediaInv PROVE StreamTypeOK
    OBVIOUS
  <2>1. Sent \subseteq Frame
    BY DEF Sent
  <2>2. queue \in Seq(Frame) /\ wire \in Seq(Frame)
    BY <2>1 DEF MediaInv, StreamTypeInv
  <2>3. producer \in [Id -> [stream: Stream \cup {NoStream}, pc: Running \cup {"none", "done"},
                             seq: 0..Chunks, cancelled: BOOLEAN]]
    BY DEF MediaInv, StreamTypeInv, ProducerType
  <2>4. QED
    BY <2>2, <2>3 DEF MediaInv, StreamTypeInv, StreamTypeOK
<1>2. QED
  BY <1>1, MediaInvAlways, PTL

(* Entries of the connection do not pile up: each is of a producer that is  *)
(* still at work or whose last message is in the queue.                     *)
THEOREM EntriesLive == StreamSpec => []EntryIsLive
<1>1. MediaInv => EntryIsLive
  BY DEF MediaInv, Entries
<1>2. QED
  BY <1>1, MediaInvAlways, PTL

(* Unless its stream was reopened too early, a decoder is fed the chunks of *)
(* one producer, all of them and in order: whatever was stopped, opened     *)
(* again, cancelled or left behind in the queue before.                     *)
THEOREM FedByOne == StreamSpec => []FedInOrder
<1>1. MediaInv => FedInOrder
  BY DEF MediaInv
<1>2. QED
  BY <1>1, MediaInvAlways, PTL

(* Unless its stream was reopened too early, what a satellite plays comes   *)
(* to an end: when all is quiet, its decoder is over.  Whatever was stopped,*)
(* failed or cancelled, nobody waits for a frame that does not come.        *)
THEOREM NoneHangs == StreamSpec => []NoStreamHangs
<1>1. MediaInv => NoStreamHangs
  BY UnderwayEnds DEF MediaInv
<1>2. QED
  BY <1>1, MediaInvAlways, PTL

-----------------------------------------------------------------------------
(* The library: its theorems stand with the lemmas they rest on            *)

USE DistinctAssumption, FoundAssumption, ManifestAssumption, RemovalsAssumption, ScanAssumption

-----------------------------------------------------------------------------
(* Type correctness *)

ImportState == [pc: ImportPc, want: Manifest \cup {NoManifest}, dest: Folder \cup {None},
                todo: SUBSET Names, exists: SUBSET Names, received: SUBSET Names,
                linked: SUBSET Names]

(* An import that is at work knows what it brings, and where to. *)
AtWork(r) == r.pc \notin {"idle", "failed"} => r.dest \in Folder /\ r.want \in Manifest

TypeInv == TypeOK /\ \A t \in Transfer : AtWork(import[t])

LEMMA ImportType ==
  ASSUME TypeInv
  PROVE  /\ import \in [Transfer -> ImportState]
         /\ \A t \in Transfer : /\ import[t] \in ImportState
                                /\ AtWork(import[t])
BY DEF TypeInv, TypeOK, ImportState

LEMMA States == NoImport \in ImportState /\ Failed \in ImportState
BY DEF ImportState, NoImport, Failed, NoManifest, ImportPc

LEMMA TypeInit == Init => TypeInv
<1> SUFFICES ASSUME Init PROVE TypeInv
  OBVIOUS
<1>1. import \in [Transfer -> ImportState]
  BY States DEF Init
<1>2. \A t \in Transfer : AtWork(import[t])
  BY DEF Init, NoImport, AtWork
<1>3. file \in [Path -> Content \cup {None}]
  BY DEF Init
<1>4. scan \in [pc: {"off", "walk", "prune", "art"}, todo: SUBSET Folder, seen: SUBSET Folder,
                cur: Folder \cup {None}, excluded: SUBSET Folder]
  BY DEF Init, NoScan
<1>5. removals \in 0..MaxRemovals
  BY DEF Init
<1>6. QED
  BY <1>1, <1>2, <1>3, <1>4, <1>5 DEF Init, TypeInv, TypeOK, ImportState

(* A step that changes the record of one import.                            *)
Becomes(t, r) == r \in ImportState /\ AtWork(r) /\ import' = [import EXCEPT ![t] = r]

LEMMA ImportChange ==
  ASSUME TypeInv, NEW t \in Transfer, NEW r, Becomes(t, r)
  PROVE  import' \in [Transfer -> ImportState] /\ \A u \in Transfer : AtWork(import'[u])
BY ImportType DEF Becomes

ScanState == [pc: {"off", "walk", "prune", "art"}, todo: SUBSET Folder, seen: SUBSET Folder,
              cur: Folder \cup {None}, excluded: SUBSET Folder]

(* What a step changes beside the imports has its type, too.                *)
OthersType ==
  /\ file \in [Path -> Content \cup {None}]
  /\ row \in [Folder -> Content \cup {Unhashed, None}]
  /\ scan \in ScanState
  /\ removals \in 0..MaxRemovals
  /\ gone \subseteq Path /\ left \subseteq Path
  /\ unsure \subseteq Folder /\ doomed \subseteq Folder
  /\ by \in [Path -> Transfer \cup {None}]

LEMMA TypeParts ==
  /\ TypeInv => OthersType
  /\ (/\ import' \in [Transfer -> ImportState]
      /\ \A t \in Transfer : AtWork(import'[t])
      /\ OthersType') => TypeInv'
BY DEF TypeInv, TypeOK, OthersType, ImportState, ScanState

LEMMA ImportTypeStep ==
  ASSUME TypeInv, NEW t \in Transfer, ImportStep(t) PROVE TypeInv'
<1>0. /\ import \in [Transfer -> ImportState] /\ import[t] \in ImportState /\ AtWork(import[t])
      /\ OthersType
  BY ImportType, TypeParts
<1>a. ASSUME NEW r, Becomes(t, r), OthersType' PROVE TypeInv'
  BY <1>a, ImportChange, TypeParts
<1>b. /\ Missing(t) \subseteq Names
      /\ \A n \in Names : /\ import[t].exists \cup {n} \in SUBSET Names
                          /\ import[t].received \cup {n} \in SUBSET Names
                          /\ import[t].linked \cup {n} \in SUBSET Names
                          /\ import[t].pc \notin {"idle", "failed"} => At(t, n) \in Path
  BY <1>0 DEF Missing, Files, ImportState, AtWork, At, Path
<1>1. CASE Cancel(t)
  <2> DEFINE r == Failed
  <2>1. r \in ImportState /\ AtWork(r)
    BY <1>1, <1>0, <1>b, States DEF Cancel, ImportState, ImportPc, AtWork, Failed, NoImport
  <2>2. import' = [import EXCEPT ![t] = r] /\ OthersType'
    BY <1>1, <1>0 DEF Cancel, history, OthersType, ImportState, Fails
  <2>3. QED
    BY <2>1, <2>2, <1>a DEF Becomes
<1>2. CASE Finish(t)
  <2> DEFINE r == [import[t] EXCEPT !.pc = "link", !.todo = Missing(t), !.received = {}]
  <2>1. r \in ImportState /\ AtWork(r)
    BY <1>2, <1>0, <1>b, States DEF Finish, ImportState, ImportPc, AtWork, Failed, NoImport
  <2>2. import' = [import EXCEPT ![t] = r] /\ OthersType'
    BY <1>2, <1>0 DEF Finish, history, OthersType, ImportState
  <2>3. QED
    BY <2>1, <2>2, <1>a DEF Becomes
<1>3. CASE FinishFails(t)
  <2> DEFINE r == Failed
  <2>1. r \in ImportState /\ AtWork(r)
    BY <1>3, <1>0, <1>b, States DEF FinishFails, ImportState, ImportPc, AtWork, Failed, NoImport
  <2>2. import' = [import EXCEPT ![t] = r] /\ OthersType'
    BY <1>3, <1>0 DEF FinishFails, history, OthersType, ImportState, Fails
  <2>3. QED
    BY <2>1, <2>2, <1>a DEF Becomes
<1>4. CASE LinkFails(t)
  <2> DEFINE r == [import[t] EXCEPT !.pc = "undo"]
  <2>1. r \in ImportState /\ AtWork(r)
    BY <1>4, <1>0, <1>b, States DEF LinkFails, ImportState, ImportPc, AtWork, Failed, NoImport
  <2>2. import' = [import EXCEPT ![t] = r] /\ OthersType'
    BY <1>4, <1>0 DEF LinkFails, history, OthersType, ImportState, Now
  <2>3. QED
    BY <2>1, <2>2, <1>a DEF Becomes
<1>5. CASE IndexFails(t)
  <2> DEFINE r == [import[t] EXCEPT !.pc = "undo"]
  <2>1. r \in ImportState /\ AtWork(r)
    BY <1>5, <1>0, <1>b, States DEF IndexFails, ImportState, ImportPc, AtWork, Failed, NoImport
  <2>2. import' = [import EXCEPT ![t] = r] /\ OthersType'
    BY <1>5, <1>0 DEF IndexFails, history, OthersType, ImportState, Now
  <2>3. QED
    BY <2>1, <2>2, <1>a DEF Becomes
<1>6. CASE Undone(t)
  <2> DEFINE r == Failed
  <2>1. r \in ImportState /\ AtWork(r)
    BY <1>6, <1>0, <1>b, States DEF Undone, ImportState, ImportPc, AtWork, Failed, NoImport
  <2>2. import' = [import EXCEPT ![t] = r] /\ OthersType'
    BY <1>6, <1>0 DEF Undone, history, OthersType, ImportState, Fails
  <2>3. QED
    BY <2>1, <2>2, <1>a DEF Becomes
<1>7. CASE Open(t)
  <2>1. PICK old \in SUBSET {u \in Transfer : import[u].pc = "open"} :
           import' = [u \in Transfer |->
                        IF u = t THEN [import[u] EXCEPT !.pc = "open"]
                        ELSE IF u \in old THEN Failed ELSE import[u]]
    BY <1>7 DEF Open
  <2>2. ASSUME NEW u \in Transfer PROVE import'[u] \in ImportState /\ AtWork(import'[u])
    BY <1>7, <2>1, ImportType, States DEF Open, ImportState, ImportPc, AtWork, Failed, NoImport
  <2>3. import' \in [Transfer -> ImportState]
    BY <2>1, <2>2
  <2>4. OthersType'
    BY <1>7, <1>0 DEF Open, history, OthersType
  <2>5. QED
    BY <2>2, <2>3, <2>4, TypeParts
<1>8. CASE Index(t)
  <2> DEFINE r0 == [import[t] EXCEPT !.pc = "hash"]
  <2>1. r0 \in ImportState /\ AtWork(r0)
    BY <1>8, <1>0, <1>b, States DEF Index, ImportState, ImportPc, AtWork, Failed, NoImport
  <2>2. import' = [import EXCEPT ![t] = r0]
    BY <1>8, <1>0 DEF Index, Fails, Now, ImportState
  <2>3. OthersType'
    BY <1>8, <1>0, <1>b DEF Index, history, OthersType, ImportState, AtWork, Indexed, Doubt
  <2>4. QED
    BY <2>1, <2>2, <2>3, <1>a DEF Becomes
<1>9. CASE SetHash(t)
  <2> DEFINE r0 == [import[t] EXCEPT !.pc = "imported", !.exists = {}, !.linked = {}]
  <2>1. r0 \in ImportState /\ AtWork(r0)
    BY <1>9, <1>0, <1>b, States DEF SetHash, ImportState, ImportPc, AtWork, Failed, NoImport
  <2>2. import' = [import EXCEPT ![t] = r0]
    BY <1>9, <1>0 DEF SetHash, Fails, Now, ImportState
  <2>3. OthersType'
    BY <1>9, <1>0, <1>b DEF SetHash, history, OthersType, ImportState, AtWork, NoManifest, Names
  <2>4. QED
    BY <2>1, <2>2, <2>3, <1>a DEF Becomes
<1>10. ASSUME NEW n \in Names, Look(t, n) PROVE TypeInv'
  <2> DEFINE r0 == [import[t] EXCEPT !.todo = @ \ {n}]
  <2>1. r0 \in ImportState /\ AtWork(r0)
    BY <1>10, <1>0, <1>b, States DEF Look, ImportState, ImportPc, AtWork, Failed, NoImport
  <2> DEFINE r1 == [import[t] EXCEPT !.todo = @ \ {n}, !.exists = @ \cup {n}]
  <2>2. r1 \in ImportState /\ AtWork(r1)
    BY <1>10, <1>0, <1>b, States DEF Look, ImportState, ImportPc, AtWork, Failed, NoImport
  <2> DEFINE r2 == Failed
  <2>3. r2 \in ImportState /\ AtWork(r2)
    BY <1>10, <1>0, <1>b, States DEF Look, ImportState, ImportPc, AtWork, Failed, NoImport
  <2>4. \/ import' = [import EXCEPT ![t] = r0]
       \/ import' = [import EXCEPT ![t] = r1]
       \/ import' = [import EXCEPT ![t] = r2]
    BY <1>10, <1>0 DEF Look, Fails, Now, ImportState
  <2>5. OthersType'
    BY <1>10, <1>0, <1>b DEF Look, history, OthersType, ImportState, AtWork
  <2>6. QED
    BY <2>1, <2>2, <2>3, <2>4, <2>5, <1>a DEF Becomes
<1>11. ASSUME NEW n \in Names, Chunk(t, n) PROVE TypeInv'
  <2> DEFINE r0 == [import[t] EXCEPT !.received = @ \cup {n}]
  <2>1. r0 \in ImportState /\ AtWork(r0)
    BY <1>11, <1>0, <1>b, States DEF Chunk, ImportState, ImportPc, AtWork, Failed, NoImport
  <2>2. import' = [import EXCEPT ![t] = r0]
    BY <1>11, <1>0 DEF Chunk, Fails, Now, ImportState
  <2>3. OthersType'
    BY <1>11, <1>0, <1>b DEF Chunk, history, OthersType, ImportState, AtWork
  <2>4. QED
    BY <2>1, <2>2, <2>3, <1>a DEF Becomes
<1>12. ASSUME NEW n \in Names, Link(t, n) PROVE TypeInv'
  <2> DEFINE r0 == [import[t] EXCEPT !.todo = @ \ {n}, !.linked = @ \cup {n}]
  <2>1. r0 \in ImportState /\ AtWork(r0)
    BY <1>12, <1>0, <1>b, States DEF Link, ImportState, ImportPc, AtWork, Failed, NoImport
  <2>2. import' = [import EXCEPT ![t] = r0]
    BY <1>12, <1>0 DEF Link, Fails, Now, ImportState, Put
  <2>3. OthersType'
    BY <1>12, <1>0, <1>b DEF Link, history, OthersType, ImportState, AtWork, Put, Doubt,
                            NoManifest, Names
  <2>4. QED
    BY <2>1, <2>2, <2>3, <1>a DEF Becomes
<1>13. ASSUME NEW n \in Names, Undo(t, n) PROVE TypeInv'
  <2> DEFINE r0 == [import[t] EXCEPT !.linked = @ \ {n}]
  <2>1. r0 \in ImportState /\ AtWork(r0)
    BY <1>13, <1>0, <1>b, States DEF Undo, ImportState, ImportPc, AtWork, Failed, NoImport
  <2>2. import' = [import EXCEPT ![t] = r0]
    BY <1>13, <1>0 DEF Undo, Fails, Now, ImportState
  <2>3. OthersType'
    BY <1>13, <1>0, <1>b DEF Undo, history, OthersType, ImportState, AtWork, Doubt
  <2>4. QED
    BY <2>1, <2>2, <2>3, <1>a DEF Becomes
<1>14. ASSUME NEW n \in Names, UndoFails(t, n) PROVE TypeInv'
  <2> DEFINE r0 == [import[t] EXCEPT !.linked = @ \ {n}]
  <2>1. r0 \in ImportState /\ AtWork(r0)
    BY <1>14, <1>0, <1>b, States DEF UndoFails, ImportState, ImportPc, AtWork, Failed, NoImport
  <2>2. import' = [import EXCEPT ![t] = r0]
    BY <1>14, <1>0 DEF UndoFails, ImportState
  <2>3. At(t, n) \in Path
    BY <1>14, <1>b DEF UndoFails
  <2>4. OthersType'
    BY <1>14, <1>0, <2>3 DEF UndoFails, OthersType
  <2>5. QED
    BY <2>1, <2>2, <2>4, <1>a DEF Becomes
<1>15. QED
  BY <1>1, <1>2, <1>3, <1>4, <1>5, <1>6, <1>7, <1>8, <1>9, <1>10, <1>11, <1>12, <1>13, <1>14 DEF ImportStep

LEMMA BeginType ==
  ASSUME TypeInv, NEW t \in Transfer, NEW w \in Manifest, NEW f \in Folder, Begin(t, w, f)
  PROVE  TypeInv'
<1>1. PICK g \in Folder :
         import' = [import EXCEPT ![t] = [NoImport EXCEPT !.pc = "look", !.want = w, !.dest = g,
                                            !.todo = {n \in Names : w[n] # None}]]
  BY DEF Begin
<1> DEFINE r == [NoImport EXCEPT !.pc = "look", !.want = w, !.dest = g,
                                 !.todo = {n \in Names : w[n] # None}]
<1>2. r \in ImportState /\ AtWork(r)
  BY DEF NoImport, ImportState, ImportPc, AtWork
<1>3. OthersType'
  BY TypeParts DEF Begin, history, OthersType
<1>4. QED
  BY <1>1, <1>2, <1>3, ImportChange, TypeParts DEF Becomes

(* What the scan of a start goes on with, and any scan ends with.           *)
LEMMA ScanRecords ==
  /\ NoScan \in ScanState /\ NoScan.pc = "off"
  /\ \A S \in SUBSET Folder, ex \in SUBSET Folder :
       [NoScan EXCEPT !.pc = "walk", !.todo = S, !.excluded = ex] \in ScanState
  /\ \A S \in SUBSET Folder :
       /\ [NoScan EXCEPT !.pc = "art", !.todo = S] \in ScanState
       /\ [NoScan EXCEPT !.pc = "art", !.todo = S].pc = "art"
       /\ [NoScan EXCEPT !.pc = "art", !.todo = S].cur = None
BY DEF NoScan, ScanState

LEMMA OverScan ==
  ASSUME PruneFails \/ EndScan
  PROVE  scan' \in ScanState /\ (scan'.pc = "off" \/ (scan'.pc = "art" /\ scan'.cur = None))
<1>1. Rows \in SUBSET Folder
  BY DEF Rows
<1>2. scan' = NoScan \/ scan' = [NoScan EXCEPT !.pc = "art", !.todo = Rows]
  BY DEF PruneFails, EndScan, Over
<1>3. QED
  BY <1>1, <1>2, ScanRecords

LEMMA ScanType ==
  ASSUME TypeInv, ScanStep PROVE TypeInv'
<1>0. OthersType
  BY TypeParts
<1>1. import' = import
  BY DEF ScanStep, StartScan, IndexMet, IndexMetFails, ListRows, Prune, PruneFails, EndScan, Over,
         Pass, Meet, Probe
<1>2. scan' \in ScanState
  <2>1. CASE StartScan
    <3>1. PICK ex \in SUBSET Folder :
             scan' = [NoScan EXCEPT !.pc = "walk", !.todo = Folder, !.excluded = ex]
      BY <2>1 DEF StartScan
    <3>2. QED
      BY <3>1, ScanRecords
  <2>6. CASE EndScan \/ PruneFails
    BY <2>6, OverScan
  <2>2. CASE IndexMet \/ IndexMetFails \/ Prune
    BY <2>2, <1>0 DEF OthersType, IndexMet, IndexMetFails, Prune, ScanState
  <2>3. CASE ListRows
    BY <2>3, <1>0 DEF OthersType, ListRows, Rows, ScanState
  <2>4. ASSUME NEW f \in Folder, Pass(f)
         PROVE  scan' \in ScanState
    BY <2>4, <1>0 DEF OthersType, Pass, ScanState
  <2>7. ASSUME NEW f \in Folder, Meet(f)
         PROVE  scan' \in ScanState
    BY <2>7, <1>0 DEF OthersType, Meet, ScanState
  <2>8. ASSUME NEW f \in Folder, Probe(f)
         PROVE  scan' \in ScanState
    <3>1. \/ scan' = [scan EXCEPT !.todo = @ \ {f}, !.cur = f]
          \/ scan' = [scan EXCEPT !.todo = @ \ {f}]
      BY <2>8 DEF Probe
    <3>2. scan \in ScanState
      BY <1>0 DEF OthersType
    <3>3. [scan EXCEPT !.todo = @ \ {f}, !.cur = f] \in ScanState
      BY <3>2 DEF ScanState
    <3>4. [scan EXCEPT !.todo = @ \ {f}] \in ScanState
      BY <3>2 DEF ScanState
    <3>5. QED
      BY <3>1, <3>3, <3>4
  <2>5. QED
    BY <2>1, <2>2, <2>3, <2>4, <2>6, <2>7, <2>8 DEF ScanStep
<1>3. row' \in [Folder -> Content \cup {Unhashed, None}]
  BY <1>0 DEF OthersType, Indexed, history, ScanStep, StartScan, IndexMet, IndexMetFails, ListRows,
              Prune, PruneFails, EndScan, Over, Pass, Meet, Probe
<1>4. unsure' \subseteq Folder /\ doomed' \subseteq Folder
  <2>1. scan.cur # None => scan.cur \in Folder
    BY <1>0 DEF OthersType, ScanState
  <2>2. QED
    BY <2>1, <1>0 DEF OthersType, history, ScanStep, StartScan, IndexMet, IndexMetFails, ListRows,
                      Prune, PruneFails, EndScan, Over, Pass, Meet, Probe
<1>5. UNCHANGED <<file, removals, gone, left, by>>
  BY DEF history, ScanStep, StartScan, IndexMet, IndexMetFails, ListRows, Prune, PruneFails,
         EndScan, Over, Pass, Meet, Probe
<1>6. QED
  BY <1>0, <1>1, <1>2, <1>3, <1>4, <1>5, TypeParts, ImportType DEF OthersType

LEMMA CoverType ==
  ASSUME TypeInv, CoverStep PROVE TypeInv'
<1>0. OthersType
  BY TypeParts
<1>1. import' = import
  BY DEF CoverStep, SeekCover, SaveCover, NoCover, EndFetch
<1>2. scan' \in ScanState
  <2>1. scan \in ScanState
    BY <1>0 DEF OthersType
  <2>2. \/ scan' = NoScan \/ scan' = [scan EXCEPT !.cur = None]
        \/ \E f \in Folder : scan' = [scan EXCEPT !.todo = @ \ {f}, !.cur = f]
    BY DEF CoverStep, SeekCover, SaveCover, NoCover, EndFetch
  <2>3. [scan EXCEPT !.cur = None] \in ScanState
        /\ \A f \in Folder : [scan EXCEPT !.todo = @ \ {f}, !.cur = f] \in ScanState
    BY <2>1 DEF ScanState
  <2>4. QED
    BY <2>2, <2>3, ScanRecords
<1>3. CASE SaveCover
  <2>1. scan.cur \in Folder /\ Cover(scan.cur) \in Path
    BY <1>0, <1>3 DEF SaveCover, OthersType, ScanState, Cover, Path, Names
  <2>2. OthersType'
    BY <1>0, <1>2, <1>3, <2>1 DEF SaveCover, OthersType
  <2>3. QED
    BY <1>1, <2>2, TypeParts, ImportType
<1>4. CASE ~SaveCover
  <2>1. UNCHANGED <<file, row, history>>
    BY <1>4 DEF CoverStep, SeekCover, NoCover, EndFetch
  <2>2. OthersType'
    BY <1>0, <1>2, <2>1 DEF OthersType, history
  <2>3. QED
    BY <1>1, <2>2, TypeParts, ImportType
<1>5. QED
  BY <1>3, <1>4

LEMMA RemoveType ==
  ASSUME TypeInv, NEW p \in Path, Remove(p) PROVE TypeInv'
<1>1. OthersType'
  BY TypeParts DEF Remove, OthersType, Doubt, Path
<1>2. QED
  BY <1>1, TypeParts, ImportType DEF Remove

LEMMA TypeStep == TypeInv /\ [Next]_vars => TypeInv'
<1> SUFFICES ASSUME TypeInv, [Next]_vars PROVE TypeInv'
  OBVIOUS
<1>1. CASE UNCHANGED vars
  BY <1>1, TypeParts, ImportType DEF vars, history, OthersType
<1>2. QED
  BY <1>1, ImportTypeStep, BeginType, ScanType, CoverType, RemoveType DEF Next

LEMMA TypeAlways == Spec => []TypeInv
BY TypeInit, TypeStep, PTL DEF Spec

(* Every variable of the library has its type.                              *)
THEOREM TypeCorrect == Spec => []TypeOK
<1>1. TypeInv => TypeOK
  BY DEF TypeInv
<1>2. QED
  BY <1>1, TypeAlways, PTL

(* The album whose cover is sought had none, or an import brought one since.*)
CoverInv ==
  Fetching /\ scan.cur # None => file[Cover(scan.cur)] = None \/ by[Cover(scan.cur)] # None

LEMMA CoverInit == Init => CoverInv
BY DEF Init, NoScan, CoverInv, Fetching

(* Steps that change a file: one that removes it, one that links it where   *)
(* there is none, and the saving of a cover.                                *)
LEMMA Changes ==
  ASSUME TypeInv, Next
  PROVE  \/ UNCHANGED <<file, by>>
         \/ scan' = scan /\ \E q \in Path :
              \/ /\ file' = [file EXCEPT ![q] = None]
                 /\ by' \in {by, [by EXCEPT ![q] = None]}
              \/ \E t \in Transfer, c \in Content \cup {None} :
                   /\ file[q] = None /\ file' = [file EXCEPT ![q] = c]
                   /\ by' = [by EXCEPT ![q] = t]
         \/ SaveCover
<1>1. ASSUME NEW q \in Path, Remove(q)
      PROVE  /\ scan' = scan /\ file' = [file EXCEPT ![q] = None] /\ by' = by
  BY <1>1 DEF Remove
<1>2. ASSUME NEW t \in Transfer, NEW n \in Names, Link(t, n)
      PROVE  /\ scan' = scan /\ At(t, n) \in Path /\ file[At(t, n)] = None
             /\ import[t].want[n] \in Content \cup {None}
             /\ file' = [file EXCEPT ![At(t, n)] = import[t].want[n]]
             /\ by' = [by EXCEPT ![At(t, n)] = t]
  <2>1. import[t].dest \in Folder /\ import[t].want \in Manifest
    BY <1>2, ImportType DEF Link, AtWork
  <2>2. QED
    BY <1>2, <2>1 DEF Link, Put, At, Path
<1>3. ASSUME NEW t \in Transfer, NEW n \in Names, Undo(t, n)
      PROVE  /\ scan' = scan /\ At(t, n) \in Path /\ file' = [file EXCEPT ![At(t, n)] = None]
             /\ by' = [by EXCEPT ![At(t, n)] = None]
  BY <1>3, ImportType DEF Undo, AtWork, At, Path
<1>4. ASSUME NEW t \in Transfer, ImportStep(t), ~\E n \in Names : Link(t, n) \/ Undo(t, n)
      PROVE  UNCHANGED <<file, by>>
  BY <1>4 DEF ImportStep, Open, Cancel, Finish, FinishFails, LinkFails, Index, SetHash,
              IndexFails, Undone, Look, Chunk, UndoFails, history
<1>5. ASSUME ScanStep PROVE UNCHANGED <<file, by>>
  BY <1>5 DEF ScanStep, history, StartScan, IndexMet, IndexMetFails, ListRows, Prune, PruneFails,
              EndScan, Over, Pass, Meet, Probe
<1>6. ASSUME CoverStep, ~SaveCover PROVE UNCHANGED <<file, by>>
  BY <1>6 DEF CoverStep, NoCover, EndFetch, SeekCover, history
<1>7. ASSUME NEW t \in Transfer, NEW w \in Manifest, NEW f \in Folder, Begin(t, w, f)
      PROVE  UNCHANGED <<file, by>>
  BY <1>7 DEF Begin, history
<1>8. QED
  BY <1>1, <1>2, <1>3, <1>4, <1>5, <1>6, <1>7 DEF Next

LEMMA CoverInvStep == TypeInv /\ CoverInv /\ [Next]_vars => CoverInv'
<1> SUFFICES ASSUME TypeInv, CoverInv, [Next]_vars PROVE CoverInv'
  OBVIOUS
<1>0. /\ file \in [Path -> Content \cup {None}] /\ by \in [Path -> Transfer \cup {None}]
      /\ scan \in ScanState
  BY TypeParts DEF OthersType
<1>1. \A f \in Folder : Cover(f) \in Path
  BY DEF Cover, Path, Names
<1>2. CASE UNCHANGED vars
  BY <1>2 DEF vars, history, CoverInv, Fetching
<1>3. CASE ScanStep
  <2>1. \/ scan'.pc # "art" \/ scan'.cur = None
    <3>1. CASE PruneFails \/ EndScan
      BY <3>1, OverScan
    <3>2. CASE StartScan
      BY <3>2 DEF StartScan, NoScan
    <3>3. CASE ScanStep /\ ~PruneFails /\ ~EndScan /\ ~StartScan
      BY <1>0, <3>3 DEF ScanStep, IndexMet, IndexMetFails, ListRows, Prune, Pass, Meet, Probe,
                        ScanState
    <3>4. QED
      BY <1>3, <3>1, <3>2, <3>3
  <2>2. QED
    BY <2>1 DEF CoverInv, Fetching
<1>4. CASE CoverStep
  <2>1. CASE SaveCover \/ NoCover \/ EndFetch
    BY <1>0, <2>1 DEF SaveCover, NoCover, EndFetch, NoScan, CoverInv, Fetching, ScanState
  <2>2. ASSUME NEW f \in Folder, SeekCover(f) PROVE CoverInv'
    BY <1>0, <2>2 DEF SeekCover, history, CoverInv, Fetching, ScanState
  <2>3. QED
    BY <1>4, <2>1, <2>2 DEF CoverStep
<1>5. CASE scan' = scan /\ Next
  <2>1. ASSUME Fetching, scan.cur # None
        PROVE  file'[Cover(scan.cur)] = None \/ by'[Cover(scan.cur)] # None
    <3>1. Cover(scan.cur) \in Path
      BY <1>0, <1>1, <2>1 DEF ScanState
    <3>2. ~SaveCover
      BY <1>0, <1>5, <2>1 DEF SaveCover, ScanState
    <3>3. file[Cover(scan.cur)] = None \/ by[Cover(scan.cur)] # None
      BY <2>1 DEF CoverInv
    <3>4. CASE UNCHANGED <<file, by>>
      BY <3>3, <3>4
    <3>5. ASSUME NEW q \in Path, file' = [file EXCEPT ![q] = None],
                 by' \in {by, [by EXCEPT ![q] = None]}
          PROVE  file'[Cover(scan.cur)] = None \/ by'[Cover(scan.cur)] # None
      BY <1>0, <3>1, <3>3, <3>5
    <3>6. ASSUME NEW q \in Path, NEW t \in Transfer, NEW c \in Content \cup {None},
                 file[q] = None, file' = [file EXCEPT ![q] = c], by' = [by EXCEPT ![q] = t]
          PROVE  file'[Cover(scan.cur)] = None \/ by'[Cover(scan.cur)] # None
      BY <1>0, <3>1, <3>3, <3>6
    <3>7. QED
      BY <1>5, <3>2, <3>4, <3>5, <3>6, Changes
  <2>2. QED
    BY <1>5, <2>1 DEF CoverInv, Fetching
<1>6. scan' = scan \/ ScanStep \/ CoverStep \/ UNCHANGED vars
  <2>1. ASSUME NEW t \in Transfer, ImportStep(t) PROVE scan' = scan
    BY <2>1 DEF ImportStep, Open, Cancel, Finish, FinishFails, LinkFails, Index, SetHash,
                IndexFails, Undone, Look, Chunk, Link, Put, Undo, UndoFails
  <2>2. ASSUME NEW t \in Transfer, NEW w \in Manifest, NEW f \in Folder, Begin(t, w, f)
        PROVE  scan' = scan
    BY <2>2 DEF Begin
  <2>3. ASSUME NEW p \in Path, Remove(p) PROVE scan' = scan
    BY <2>3 DEF Remove
  <2>4. QED
    BY <2>1, <2>2, <2>3 DEF Next
<1>7. QED
  BY <1>2, <1>3, <1>4, <1>5, <1>6

(* The time between looking at a path and linking a file to it does not     *)
(* matter, because the hard link is the look that counts (federation.rs     *)
(* finish).  The time between looking for a cover and writing one does      *)
(* (art.rs fetch_missing): what an import linked meanwhile is replaced, and *)
(* nothing else ever is.                                                    *)
THEOREM NeverOverwritten == Spec => NothingOverwritten
<1>1. TypeInv /\ CoverInv /\ [Next]_vars
        => [\A p \in Path : file[p] # None /\ file'[p] # file[p] =>
              \/ file'[p] = None
              \/ Fetching /\ scan.cur # None /\ p = Cover(scan.cur) /\ by[p] # None]_file
  <2> SUFFICES ASSUME TypeInv, CoverInv, [Next]_vars, NEW p \in Path, file[p] # None,
                      file'[p] # file[p], file'[p] # None
               PROVE  Fetching /\ scan.cur # None /\ p = Cover(scan.cur) /\ by[p] # None
    OBVIOUS
  <2>1. file \in [Path -> Content \cup {None}]
    BY TypeParts DEF OthersType
  <2>2. Next
    BY DEF vars
  <2>3. ASSUME NEW q \in Path, file' = [file EXCEPT ![q] = None] PROVE FALSE
    BY <2>1, <2>3
  <2>4. ASSUME NEW q \in Path, NEW c \in Content \cup {None}, file[q] = None,
               file' = [file EXCEPT ![q] = c]
        PROVE  FALSE
    BY <2>1, <2>4
  <2>5. SaveCover
    BY <2>2, <2>3, <2>4, Changes
  <2>6. PICK c \in Picture : file' = [file EXCEPT ![Cover(scan.cur)] = c]
    BY <2>5 DEF SaveCover
  <2>7. p = Cover(scan.cur)
    BY <2>1, <2>6
  <2>8. QED
    BY <2>5, <2>7 DEF SaveCover, CoverInv
<1>2. QED
  BY <1>1, TypeAlways, CoverInit, CoverInvStep, PTL DEF Spec, NothingOverwritten

-----------------------------------------------------------------------------
(* Imports *)

(* What an import knows to be there, or to have been removed from there.    *)
Brought(t, n) == file[At(t, n)] = import[t].want[n] \/ At(t, n) \in gone

(* How far an import has come, and which files it is to blame for.          *)
Progress(t) ==
  LET r == import[t] IN
  /\ r.pc \in {"look", "open", "link"} =>
       /\ r.exists \subseteq Files(t)
       /\ \A n \in r.exists : Brought(t, n)
  /\ r.pc = "look" => r.todo \subseteq Files(t)
  /\ r.pc = "link" =>
       /\ r.todo \subseteq Files(t)
       /\ r.linked \subseteq Files(t)
       /\ Files(t) \subseteq r.todo \cup r.exists \cup r.linked
       /\ \A n \in r.linked : Brought(t, n)
  /\ r.pc \in {"hash", "imported"} => \A n \in Files(t) : Brought(t, n)
  /\ r.pc = "hash" =>
       row[r.dest] # None \/ At(t, "song") \in gone \/ r.dest \in doomed
  /\ r.pc = "imported" =>
       row[r.dest] = r.want["song"] \/ At(t, "song") \in gone \/ r.dest \in doomed

Blame(t) ==
  LET r == import[t] IN
  /\ r.pc \in {"idle", "look", "open"} => r.linked = {} /\ \A p \in Path : by[p] # t
  /\ r.pc \in {"link", "hash"} =>
       \A p \in Path : by[p] = t => \E n \in r.linked : p = At(t, n)
  /\ r.pc = "undo" =>
       \A p \in Path : by[p] = t => p \in left \/ \E n \in r.linked : p = At(t, n)
  /\ r.pc = "failed" => \A p \in Path : by[p] = t => p \in left

PruneIsDoomed == scan.pc = "prune" /\ scan.cur # None => scan.cur \in doomed

ImportInv == (\A t \in Transfer : Progress(t) /\ Blame(t)) /\ PruneIsDoomed

LEMMA ImportInit == Init => ImportInv
BY DEF Init, ImportInv, Progress, Blame, PruneIsDoomed, NoImport, NoScan

(* A step keeps what an import knows if it changes no file but by making    *)
(* one or by telling that it is gone, and no row but by making one or with  *)
(* an excuse.                                                               *)
Keeps(u) ==
  /\ \A p \in Path : file'[p] = file[p] \/ file[p] = None \/ p \in gone'
  /\ gone \subseteq gone' /\ doomed \subseteq doomed'
  /\ \A p \in Path : by'[p] = u => by[p] = u /\ (p \in left => p \in left')
  /\ LET d == import[u].dest IN
       import[u].pc \in {"hash", "imported"} /\ row[d] # None =>
         \/ row'[d] # None /\ (import[u].pc = "imported" => row'[d] = row[d])
         \/ Song(d) \in gone' \/ d \in doomed'

LEMMA Wanted ==
  ASSUME TypeInv, NEW u \in Transfer, import[u].pc \notin {"idle", "failed"}
  PROVE  /\ import[u].want["song"] # None
         /\ import[u].dest \in Folder
         /\ At(u, "song") = Song(import[u].dest)
         /\ "song" \in Files(u)
         /\ \A n \in Files(u) : n \in Names /\ At(u, n) \in Path /\ import[u].want[n] # None
BY ImportType DEF AtWork, At, Song, Files, Path, Names

LEMMA BroughtStays ==
  ASSUME TypeInv, NEW u \in Transfer, import[u].pc \notin {"idle", "failed"}, Keeps(u),
         import'[u].dest = import[u].dest, import'[u].want = import[u].want,
         NEW n \in Files(u), Brought(u, n)
  PROVE  Brought(u, n)'
<1>1. At(u, n)' = At(u, n) /\ At(u, n) \in Path /\ import[u].want[n] # None
  BY Wanted DEF At
<1>2. QED
  BY <1>1 DEF Brought, Keeps

(* An import that does not move itself.                                     *)
LEMMA Others ==
  ASSUME TypeInv, NEW u \in Transfer, Progress(u), Blame(u), Keeps(u), import'[u] = import[u]
  PROVE  Progress(u)' /\ Blame(u)'
<1>1. Blame(u)'
  BY DEF Blame, Keeps, At
<1>2. CASE import[u].pc \in {"idle", "failed"}
  BY <1>1, <1>2 DEF Progress
<1>3. CASE import[u].pc \notin {"idle", "failed"}
  <2>1. Files(u)' = Files(u)
    BY DEF Files
  <2>2. \A n \in Files(u) : Brought(u, n) => Brought(u, n)'
    BY <1>3, BroughtStays
  <2>3. /\ At(u, "song") = Song(import[u].dest) /\ At(u, "song")' = Song(import[u].dest)
        /\ import[u].want["song"] # None
    BY <1>3, Wanted DEF At
  <2>4. QED
    BY <1>1, <2>1, <2>2, <2>3 DEF Progress, Keeps
<1>4. QED
  BY <1>2, <1>3

(* A step that leaves the library alone.                                    *)
Aside == UNCHANGED <<file, row, scan, history>>

LEMMA AsideKeeps ==
  ASSUME Aside, NEW u \in Transfer PROVE Keeps(u) /\ (PruneIsDoomed => PruneIsDoomed')
BY DEF Aside, history, Keeps, PruneIsDoomed

LEMMA AsideStep ==
  ASSUME TypeInv, ImportInv, Aside, NEW t \in Transfer,
         \A u \in Transfer \ {t} : import'[u] = import[u], Progress(t)', Blame(t)'
  PROVE  ImportInv'
<1>1. ASSUME NEW u \in Transfer, u # t PROVE Progress(u)' /\ Blame(u)'
  BY <1>1, AsideKeeps, Others DEF ImportInv
<1>2. QED
  BY <1>1, AsideKeeps DEF ImportInv

LEMMA AsideSteps ==
  ASSUME TypeInv, ImportInv, NEW t \in Transfer,
         \/ Cancel(t) \/ Finish(t) \/ FinishFails(t) \/ LinkFails(t) \/ IndexFails(t) \/ Undone(t)
         \/ \E n \in Names : Look(t, n) \/ Chunk(t, n)
  PROVE  ImportInv'
<1>0. /\ Aside /\ \A u \in Transfer \ {t} : import'[u] = import[u]
  BY ImportType DEF Aside, Cancel, Finish, FinishFails, LinkFails, IndexFails, Undone, Look, Chunk,
                    Fails, Now
<1>t. import \in [Transfer -> ImportState] /\ import[t] \in ImportState
  BY ImportType
<1>p. Progress(t) /\ Blame(t) /\ UNCHANGED <<file, row, gone, left, doomed, by>>
  BY <1>0 DEF ImportInv, Aside, history
<1>a. ASSUME Progress(t)', Blame(t)' PROVE ImportInv'
  BY <1>0, <1>a, AsideStep
<1>1. CASE Cancel(t) \/ FinishFails(t) \/ Undone(t)
  <2>1. import'[t] = Failed /\ Failed.pc = "failed"
    BY <1>1, <1>t DEF Cancel, FinishFails, Undone, Fails, Failed, NoImport
  <2>2. Progress(t)'
    BY <2>1 DEF Progress
  <2>3. \A p \in Path : by[p] = t => p \in left
    BY <1>1, <1>p DEF Cancel, FinishFails, Undone, Blame
  <2>4. Blame(t)'
    BY <2>1, <2>3, <1>p DEF Blame
  <2>5. QED
    BY <2>2, <2>4, <1>a
<1>2. CASE Finish(t)
  <2>1. import'[t] = [import[t] EXCEPT !.pc = "link", !.todo = Missing(t), !.received = {}]
    BY <1>2, <1>t DEF Finish
  <2>2. /\ import'[t].pc = "link" /\ import'[t].todo = Missing(t)
        /\ import'[t].exists = import[t].exists /\ import'[t].linked = import[t].linked
        /\ import'[t].dest = import[t].dest /\ import'[t].want = import[t].want
    BY <2>1, <1>t DEF ImportState
  <2>3. /\ import[t].linked = {} /\ \A p \in Path : by[p] # t
        /\ import[t].exists \subseteq Files(t) /\ \A n \in import[t].exists : Brought(t, n)
    BY <1>2, <1>p DEF Finish, Blame, Progress
  <2>4. Progress(t)'
    BY <2>2, <2>3, <1>p DEF Progress, Files, Missing, Brought, At
  <2>5. Blame(t)'
    BY <2>2, <2>3, <1>p DEF Blame
  <2>6. QED
    BY <2>4, <2>5, <1>a
<1>3. CASE LinkFails(t) \/ IndexFails(t)
  <2>1. import'[t] = [import[t] EXCEPT !.pc = "undo"]
    BY <1>3, <1>t DEF LinkFails, IndexFails, Now
  <2>2. /\ import'[t].pc = "undo" /\ import'[t].linked = import[t].linked
        /\ import'[t].dest = import[t].dest
    BY <2>1, <1>t DEF ImportState
  <2>3. Progress(t)'
    BY <2>2 DEF Progress
  <2>4. Blame(t)'
    BY <1>3, <2>2, <1>p DEF LinkFails, IndexFails, Blame, At
  <2>5. QED
    BY <2>3, <2>4, <1>a
<1>4. ASSUME NEW n \in Names, Look(t, n) PROVE ImportInv'
  <2>1. CASE Fails(t)
    <3>1. import'[t] = Failed /\ Failed.pc = "failed"
      BY <2>1, <1>t DEF Fails, Failed, NoImport
    <3>2. Progress(t)'
      BY <3>1 DEF Progress
    <3>3. Blame(t)'
      BY <3>1, <1>4, <1>p DEF Look, Blame
    <3>4. QED
      BY <3>2, <3>3, <1>a
  <2>2. CASE import' = [import EXCEPT ![t].todo = @ \ {n}]
    <3>1. import'[t] = [import[t] EXCEPT !.todo = @ \ {n}]
      BY <2>2, <1>t
    <3>2. /\ import'[t].pc = import[t].pc /\ import'[t].dest = import[t].dest
          /\ import'[t].want = import[t].want /\ import'[t].linked = import[t].linked
          /\ import'[t].todo = import[t].todo \ {n}
          /\ import'[t].exists = import[t].exists
      BY <3>1, <1>t DEF ImportState
    <3>3. Progress(t)'
      BY <3>2, <2>2, <1>4, <1>p DEF Look, Progress, Files, Brought, At
    <3>4. Blame(t)'
      BY <3>2, <1>4, <1>p DEF Look, Blame
    <3>5. QED
      BY <3>3, <3>4, <1>a
  <2>3. CASE /\ file[At(t, n)] = import[t].want[n]
             /\ import' = [import EXCEPT ![t].todo = @ \ {n}, ![t].exists = @ \cup {n}]
    <3>1. import'[t] = [import[t] EXCEPT !.todo = @ \ {n}, !.exists = @ \cup {n}]
      BY <2>3, <1>t
    <3>2. /\ import'[t].pc = import[t].pc /\ import'[t].dest = import[t].dest
          /\ import'[t].want = import[t].want /\ import'[t].linked = import[t].linked
          /\ import'[t].todo = import[t].todo \ {n}
          /\ import'[t].exists = import[t].exists \cup {n}
      BY <3>1, <1>t DEF ImportState
    <3>3. Progress(t)'
      BY <3>2, <2>3, <1>4, <1>p DEF Look, Progress, Files, Brought, At
    <3>4. Blame(t)'
      BY <3>2, <1>4, <1>p DEF Look, Blame
    <3>5. QED
      BY <3>3, <3>4, <1>a
  <2>4. QED
    BY <2>1, <2>2, <2>3, <1>4 DEF Look
<1>5. ASSUME NEW n \in Names, Chunk(t, n) PROVE ImportInv'
  <2>1. /\ import'[t].pc = import[t].pc /\ import'[t].dest = import[t].dest
        /\ import'[t].want = import[t].want /\ import'[t].linked = import[t].linked
        /\ import'[t].todo = import[t].todo /\ import'[t].exists = import[t].exists
    BY <1>5, <1>t DEF Chunk, ImportState
  <2>2. Progress(t)'
    BY <2>1, <1>5, <1>p DEF Chunk, Progress, Files, Brought, At
  <2>3. Blame(t)'
    BY <2>1, <1>5, <1>p DEF Chunk, Blame
  <2>4. QED
    BY <2>2, <2>3, <1>a
<1>6. QED
  BY <1>1, <1>2, <1>3, <1>4, <1>5

LEMMA OpenStep ==
  ASSUME TypeInv, ImportInv, NEW t \in Transfer, Open(t) PROVE ImportInv'
<1>1. PICK old \in SUBSET {u \in Transfer : import[u].pc = "open"} :
         import' = [u \in Transfer |->
                      IF u = t THEN [import[u] EXCEPT !.pc = "open"]
                      ELSE IF u \in old THEN Failed ELSE import[u]]
  BY DEF Open
<1>2. Aside
  BY DEF Open, Aside
<1>3. ASSUME NEW u \in Transfer PROVE Progress(u)' /\ Blame(u)'
  <2>0. Progress(u) /\ Blame(u) /\ UNCHANGED <<file, row, gone, left, doomed, by>>
    BY <1>2 DEF ImportInv, Aside, history
  <2>1. CASE u = t
    <3>1. /\ import'[t].pc = "open" /\ import'[t].dest = import[t].dest
          /\ import'[t].want = import[t].want /\ import'[t].linked = import[t].linked
          /\ import'[t].exists = import[t].exists
      BY <1>1, ImportType DEF ImportState
    <3>2. Progress(t)'
      BY <3>1, <2>0, <2>1 DEF Open, Progress, Files, Brought, At
    <3>3. Blame(t)'
      BY <3>1, <2>0, <2>1 DEF Open, Blame
    <3>4. QED
      BY <2>1, <3>2, <3>3
  <2>2. CASE u # t /\ u \in old
    <3>1. import'[u].pc = "failed" /\ import[u].pc = "open"
      BY <1>1, <2>2 DEF Failed, NoImport
    <3>2. QED
      BY <3>1, <2>0 DEF Progress, Blame
  <2>3. CASE u # t /\ u \notin old
    BY <1>1, <1>2, <2>0, <2>3, AsideKeeps, Others
  <2>4. QED
    BY <2>1, <2>2, <2>3
<1>4. QED
  BY <1>2, <1>3, AsideKeeps DEF ImportInv

LEMMA BeginStep ==
  ASSUME TypeInv, ImportInv, NEW t \in Transfer, NEW w \in Manifest, NEW f \in Folder,
         Begin(t, w, f)
  PROVE  ImportInv'
<1>1. Aside /\ \A u \in Transfer \ {t} : import'[u] = import[u]
  BY ImportType DEF Begin, Aside
<1>2. /\ import'[t].pc = "look" /\ import'[t].want = w /\ import'[t].linked = {}
      /\ import'[t].exists = {} /\ import'[t].todo = {n \in Names : w[n] # None}
  BY ImportType DEF Begin, NoImport
<1>3. Progress(t)'
  BY <1>2 DEF Progress, Files
<1>4. Blame(t)'
  BY <1>1, <1>2 DEF ImportInv, Blame, Begin, history
<1>5. QED
  BY <1>1, <1>3, <1>4, AsideStep

LEMMA LinkStep ==
  ASSUME TypeInv, ImportInv, NEW t \in Transfer, NEW n \in Names, Link(t, n) PROVE ImportInv'
<1>0. /\ import \in [Transfer -> ImportState] /\ import[t] \in ImportState
      /\ file \in [Path -> Content \cup {None}] /\ by \in [Path -> Transfer \cup {None}]
      /\ Progress(t) /\ Blame(t) /\ PruneIsDoomed
  BY ImportType, TypeParts DEF OthersType, ImportInv
<1>1. /\ import[t].pc = "link" /\ n \in import[t].todo /\ n \in Files(t)
      /\ file[At(t, n)] = None /\ At(t, n) \in Path
      /\ UNCHANGED <<row, scan, gone, doomed>>
  BY <1>0, Wanted DEF Link, Put, Progress
<1>2. /\ file' = [file EXCEPT ![At(t, n)] = import[t].want[n]]
      /\ by' = [by EXCEPT ![At(t, n)] = t] /\ left' = left \ {At(t, n)}
  BY DEF Link, Put
<1>3. /\ import'[t].pc = "link" /\ import'[t].dest = import[t].dest
      /\ import'[t].want = import[t].want /\ import'[t].exists = import[t].exists
      /\ import'[t].todo = import[t].todo \ {n}
      /\ import'[t].linked = import[t].linked \cup {n}
  BY <1>0, <1>1 DEF Link, Put, ImportState
<1>4. \A u \in Transfer : Keeps(u) \/ u = t
  BY <1>0, <1>1, <1>2 DEF Keeps
<1>5. ASSUME NEW u \in Transfer \ {t} PROVE Progress(u)' /\ Blame(u)'
  <2>1. import'[u] = import[u]
    BY <1>0 DEF Link, Put
  <2>2. QED
    BY <2>1, <1>4, Others DEF ImportInv
<1>6. \A m \in Files(t) : Brought(t, m) => Brought(t, m)'
  BY <1>0, <1>1, <1>2, <1>3, Wanted DEF Brought, At
<1>7. Brought(t, n)'
  BY <1>0, <1>1, <1>2, <1>3 DEF Brought, At
<1>8. Progress(t)'
  BY <1>0, <1>1, <1>3, <1>6, <1>7 DEF Progress, Files
<1>9. Blame(t)'
  BY <1>0, <1>1, <1>2, <1>3 DEF Blame, At
<1>10. QED
  BY <1>0, <1>1, <1>5, <1>8, <1>9 DEF ImportInv, PruneIsDoomed

LEMMA IndexStep ==
  ASSUME TypeInv, ImportInv, NEW t \in Transfer, Index(t) PROVE ImportInv'
<1>0. /\ import \in [Transfer -> ImportState] /\ import[t] \in ImportState
      /\ row \in [Folder -> Content \cup {Unhashed, None}]
      /\ Progress(t) /\ Blame(t) /\ PruneIsDoomed
  BY ImportType, TypeParts DEF OthersType, ImportInv
<1>1. /\ import[t].pc = "link" /\ import[t].todo = {} /\ import[t].dest \in Folder
      /\ UNCHANGED <<file, scan, gone, left, doomed, by>>
  BY Wanted DEF Index
<1>2. /\ row' = [row EXCEPT ![import[t].dest] = Indexed(import[t].dest)]
      /\ row'[import[t].dest] # None
  BY <1>0, <1>1 DEF Index, Indexed
<1>3. /\ import'[t].pc = "hash" /\ import'[t].dest = import[t].dest
      /\ import'[t].want = import[t].want /\ import'[t].linked = import[t].linked
  BY <1>0 DEF Index, Now, ImportState
<1>4. \A f \in Folder : row'[f] = row[f] \/ row[f] = None
  BY <1>0, <1>2 DEF Indexed
<1>5. ASSUME NEW u \in Transfer \ {t} PROVE Progress(u)' /\ Blame(u)'
  <2>1. import'[u] = import[u]
    BY <1>0 DEF Index, Now
  <2>2. CASE import[u].pc \in {"hash", "imported"}
    BY <2>1, <2>2, <1>1, <1>4, Wanted, Others DEF ImportInv, Keeps
  <2>3. CASE import[u].pc \notin {"hash", "imported"}
    BY <2>1, <2>3, <1>1, Others DEF ImportInv, Keeps
  <2>4. QED
    BY <2>2, <2>3
<1>6. Progress(t)'
  BY <1>0, <1>1, <1>2, <1>3 DEF Progress, Files, Brought, At
<1>7. Blame(t)'
  BY <1>0, <1>1, <1>3 DEF Blame, At
<1>8. QED
  BY <1>0, <1>1, <1>5, <1>6, <1>7 DEF ImportInv, PruneIsDoomed

(* Two imports with one destination have the same song, or it is gone.      *)
LEMMA SetHashStep ==
  ASSUME TypeInv, ImportInv, NEW t \in Transfer, SetHash(t) PROVE ImportInv'
<1>0. /\ import \in [Transfer -> ImportState] /\ import[t] \in ImportState
      /\ row \in [Folder -> Content \cup {Unhashed, None}]
      /\ Progress(t) /\ Blame(t) /\ PruneIsDoomed
  BY ImportType, TypeParts DEF OthersType, ImportInv
<1> DEFINE d == import[t].dest
           s == import[t].want["song"]
<1>1. /\ import[t].pc = "hash" /\ d \in Folder /\ s # None /\ "song" \in Files(t)
      /\ At(t, "song") = Song(d) /\ UNCHANGED <<file, scan, gone, left, doomed, by>>
  BY Wanted DEF SetHash, history
<1>2. row' = [row EXCEPT ![d] = IF row[d] = None THEN row[d] ELSE s]
  BY DEF SetHash
<1>3. /\ import'[t].pc = "imported" /\ import'[t].dest = d
      /\ import'[t].want = import[t].want
  BY <1>0 DEF SetHash, ImportState
<1>4. file[Song(d)] = s \/ Song(d) \in gone
  BY <1>0, <1>1 DEF Progress, Brought
<1>5. ASSUME NEW u \in Transfer \ {t} PROVE Progress(u)' /\ Blame(u)'
  <2>1. import'[u] = import[u] /\ Progress(u) /\ Blame(u)
    BY <1>0 DEF SetHash, ImportInv
  <2>2. CASE import[u].pc = "hash"
    <3>1. import[u].dest \in Folder
      BY <2>2, Wanted
    <3>2. row[import[u].dest] # None => row'[import[u].dest] # None
      BY <3>1, <1>0, <1>1, <1>2
    <3>3. QED
      BY <2>1, <2>2, <3>2, <1>1, Others DEF Keeps
  <2>3. CASE import[u].pc = "imported"
    <3>1. /\ import[u].dest \in Folder /\ "song" \in Files(u)
          /\ At(u, "song") = Song(import[u].dest)
      BY <2>3, Wanted
    <3>2. file[Song(import[u].dest)] = import[u].want["song"] \/ Song(import[u].dest) \in gone
      BY <3>1, <2>1, <2>3 DEF Progress, Brought
    <3>3. Blame(u)'
      BY <2>1, <1>1 DEF Blame, At
    <3>4. \A n \in Files(u) : Brought(u, n)'
      BY <2>1, <2>3, <1>1 DEF Progress, Brought, At, Files
    <3>5. \/ row'[import[u].dest] = import[u].want["song"]
          \/ Song(import[u].dest) \in gone \/ import[u].dest \in doomed
      BY <3>1, <3>2, <2>1, <2>3, <1>0, <1>1, <1>2, <1>4 DEF Progress
    <3>6. Progress(u)'
      BY <3>1, <3>4, <3>5, <2>1, <2>3, <1>1 DEF Progress, Files, At
    <3>7. QED
      BY <3>3, <3>6
  <2>4. CASE import[u].pc \notin {"hash", "imported"}
    BY <2>1, <2>4, <1>1, Others DEF Keeps
  <2>5. QED
    BY <2>2, <2>3, <2>4
<1>6. Progress(t)'
  BY <1>0, <1>1, <1>2, <1>3 DEF Progress, Files, Brought, At
<1>7. Blame(t)'
  BY <1>3 DEF Blame
<1>8. QED
  BY <1>0, <1>1, <1>5, <1>6, <1>7 DEF ImportInv, PruneIsDoomed

LEMMA UndoStep ==
  ASSUME TypeInv, ImportInv, NEW t \in Transfer, NEW n \in Names, Undo(t, n) PROVE ImportInv'
<1>0. /\ import \in [Transfer -> ImportState] /\ import[t] \in ImportState
      /\ file \in [Path -> Content \cup {None}] /\ by \in [Path -> Transfer \cup {None}]
      /\ Progress(t) /\ Blame(t) /\ PruneIsDoomed
  BY ImportType, TypeParts DEF OthersType, ImportInv
<1>1. /\ import[t].pc = "undo" /\ UNCHANGED <<row, scan, left, doomed>>
      /\ file' = [file EXCEPT ![At(t, n)] = None] /\ gone' = gone \cup {At(t, n)}
      /\ by' = [by EXCEPT ![At(t, n)] = None]
  BY DEF Undo
<1>2. /\ import'[t].pc = "undo" /\ import'[t].dest = import[t].dest
      /\ import'[t].linked = import[t].linked \ {n}
  BY <1>0, <1>1 DEF Undo, ImportState
<1>3. ASSUME NEW u \in Transfer \ {t} PROVE Progress(u)' /\ Blame(u)'
  <2>1. import'[u] = import[u]
    BY <1>0 DEF Undo
  <2>2. Keeps(u)
    BY <1>0, <1>1 DEF Keeps
  <2>3. QED
    BY <2>1, <2>2, Others DEF ImportInv
<1>4. Progress(t)'
  BY <1>2 DEF Progress
<1>5. Blame(t)'
  BY <1>0, <1>1, <1>2 DEF Blame, At
<1>6. QED
  BY <1>0, <1>1, <1>3, <1>4, <1>5 DEF ImportInv, PruneIsDoomed

LEMMA UndoFailsStep ==
  ASSUME TypeInv, ImportInv, NEW t \in Transfer, NEW n \in Names, UndoFails(t, n)
  PROVE  ImportInv'
<1>0. /\ import \in [Transfer -> ImportState] /\ import[t] \in ImportState
      /\ Progress(t) /\ Blame(t) /\ PruneIsDoomed
  BY ImportType DEF ImportInv
<1>1. /\ import[t].pc = "undo" /\ UNCHANGED <<file, row, scan, gone, doomed, by>>
      /\ left' = left \cup {At(t, n)}
  BY DEF UndoFails
<1>2. /\ import'[t].pc = "undo" /\ import'[t].dest = import[t].dest
      /\ import'[t].linked = import[t].linked \ {n}
  BY <1>0, <1>1 DEF UndoFails, ImportState
<1>3. ASSUME NEW u \in Transfer \ {t} PROVE Progress(u)' /\ Blame(u)'
  <2>1. import'[u] = import[u]
    BY <1>0 DEF UndoFails
  <2>2. Keeps(u)
    BY <1>1 DEF Keeps
  <2>3. QED
    BY <2>1, <2>2, Others DEF ImportInv
<1>4. Progress(t)'
  BY <1>2 DEF Progress
<1>5. Blame(t)'
  BY <1>0, <1>1, <1>2 DEF Blame, At
<1>6. QED
  BY <1>0, <1>1, <1>3, <1>4, <1>5 DEF ImportInv, PruneIsDoomed

LEMMA CoverImportStep == ASSUME TypeInv, ImportInv, CoverStep PROVE ImportInv'
<1>0. /\ file \in [Path -> Content \cup {None}] /\ by \in [Path -> Transfer \cup {None}]
      /\ scan \in ScanState
  BY TypeParts DEF OthersType
<1>1. UNCHANGED <<row, import, left, doomed>>
  BY DEF CoverStep, SeekCover, SaveCover, NoCover, EndFetch, history
<1>2. PruneIsDoomed'
  <2>1. scan'.pc # "prune"
    <3>1. scan' = NoScan \/ (scan.pc = "art" /\ scan'.pc = scan.pc)
      BY <1>0 DEF CoverStep, SeekCover, SaveCover, NoCover, EndFetch, Fetching, ScanState
    <3>2. QED
      BY <3>1, ScanRecords
  <2>2. QED
    BY <2>1 DEF PruneIsDoomed
<1>3. ASSUME NEW u \in Transfer PROVE Keeps(u)
  <2>1. CASE SaveCover
    <3>1. scan.cur \in Folder /\ Cover(scan.cur) \in Path
      BY <1>0, <2>1 DEF SaveCover, ScanState, Cover, Path, Names
    <3>2. PICK c \in Picture : file' = [file EXCEPT ![Cover(scan.cur)] = c]
      BY <2>1 DEF SaveCover
    <3>3. \A p \in Path : file'[p] = file[p] \/ file[p] = None \/ p \in gone'
      BY <1>0, <2>1, <3>1, <3>2 DEF SaveCover
    <3>4. /\ gone \subseteq gone'
          /\ \A p \in Path : by'[p] = u => by[p] = u
      BY <1>0, <2>1, <3>1 DEF SaveCover
    <3>5. QED
      BY <1>1, <3>3, <3>4 DEF Keeps
  <2>2. CASE ~SaveCover
    <3>1. UNCHANGED <<file, row, history>>
      BY <2>2 DEF CoverStep, SeekCover, NoCover, EndFetch
    <3>2. QED
      BY <3>1 DEF Keeps, history
  <2>3. QED
    BY <2>1, <2>2
<1>4. QED
  BY <1>1, <1>2, <1>3, Others DEF ImportInv

LEMMA ScanImportStep ==
  ASSUME TypeInv, ImportInv, ScanStep PROVE ImportInv'
<1>0. /\ row \in [Folder -> Content \cup {Unhashed, None}] /\ scan \in ScanState /\ PruneIsDoomed
  BY TypeParts DEF OthersType, ImportInv
<1>1. UNCHANGED <<file, import, gone, left, by>>
  BY DEF history, ScanStep, StartScan, IndexMet, IndexMetFails, ListRows, Prune, PruneFails,
         EndScan, Over, Pass, Meet, Probe
<1>2. doomed \subseteq doomed'
  BY DEF history, ScanStep, StartScan, IndexMet, IndexMetFails, ListRows, Prune, PruneFails,
         EndScan, Over, Pass, Meet, Probe
<1>3. \A f \in Folder : row'[f] = row[f] \/ row[f] = None \/ f \in doomed'
  <2>1. CASE IndexMet
    BY <1>0, <2>1 DEF IndexMet, Indexed, history
  <2>2. CASE Prune
    BY <1>0, <2>2 DEF Prune, PruneIsDoomed, history
  <2>3. CASE ~IndexMet /\ ~Prune
    BY <2>3 DEF ScanStep, history, StartScan, IndexMetFails, ListRows, PruneFails, EndScan, Over, Pass,
                Meet, Probe
  <2>4. QED
    BY <2>1, <2>2, <2>3
<1>4. PruneIsDoomed'
  <2>1. CASE ListRows
    BY <2>1, <1>0 DEF ListRows, PruneIsDoomed, ScanState
  <2>2. CASE IndexMet \/ IndexMetFails \/ Prune
    BY <2>2, <1>0 DEF IndexMet, IndexMetFails, Prune, PruneIsDoomed, ScanState
  <2>6. CASE StartScan
    BY <2>6 DEF StartScan, NoScan, PruneIsDoomed
  <2>7. CASE PruneFails \/ EndScan
    BY <2>7, OverScan DEF PruneIsDoomed
  <2>3. ASSUME NEW f \in Folder, Pass(f) \/ Meet(f) PROVE PruneIsDoomed'
    BY <2>3, <1>0 DEF Pass, Meet, PruneIsDoomed, ScanState
  <2>4. ASSUME NEW f \in Folder, Probe(f) PROVE PruneIsDoomed'
    BY <2>4, <1>0 DEF Probe, PruneIsDoomed, ScanState
  <2>5. QED
    BY <2>1, <2>2, <2>3, <2>4, <2>6, <2>7 DEF ScanStep
<1>5. ASSUME NEW u \in Transfer PROVE Progress(u)' /\ Blame(u)'
  <2>1. CASE import[u].pc \in {"hash", "imported"}
    BY <2>1, <1>1, <1>2, <1>3, Wanted, Others DEF ImportInv, Keeps
  <2>2. CASE import[u].pc \notin {"hash", "imported"}
    BY <2>2, <1>1, <1>2, Others DEF ImportInv, Keeps
  <2>3. QED
    BY <2>1, <2>2
<1>6. QED
  BY <1>4, <1>5 DEF ImportInv

LEMMA RemoveStep ==
  ASSUME TypeInv, ImportInv, NEW p \in Path, Remove(p) PROVE ImportInv'
<1>1. file \in [Path -> Content \cup {None}]
  BY TypeParts DEF OthersType
<1>2. ASSUME NEW u \in Transfer PROVE Progress(u)' /\ Blame(u)'
  BY <1>1, Others DEF Remove, ImportInv, Keeps
<1>3. QED
  BY <1>2 DEF Remove, ImportInv, PruneIsDoomed

LEMMA ImportInvStep == TypeInv /\ ImportInv /\ [Next]_vars => ImportInv'
<1> SUFFICES ASSUME TypeInv, ImportInv, [Next]_vars PROVE ImportInv'
  OBVIOUS
<1>1. CASE UNCHANGED vars
  <2>1. ASSUME NEW u \in Transfer PROVE Progress(u)' /\ Blame(u)'
    BY <1>1, AsideKeeps, Others DEF vars, Aside, ImportInv
  <2>2. QED
    BY <1>1, <2>1, AsideKeeps DEF vars, history, Aside, ImportInv, PruneIsDoomed
<1>2. ASSUME NEW t \in Transfer, ImportStep(t) PROVE ImportInv'
  BY <1>2, AsideSteps, OpenStep, LinkStep, IndexStep, SetHashStep, UndoStep, UndoFailsStep DEF ImportStep
<1>3. QED
  BY <1>1, <1>2, BeginStep, ScanImportStep, CoverImportStep, RemoveStep DEF Next

(* An import brings in everything or nothing (federation.rs), whatever other *)
(* imports, scans, fetched covers and removals do meanwhile; the property   *)
(* names what may take away what it brought in, and which files a failed    *)
(* one leaves.                                                              *)
THEOREM AllOrNothingHolds == Spec => []AllOrNothing
<1>1. ImportInv => AllOrNothing
  <2> SUFFICES ASSUME ImportInv, NEW t \in Transfer
               PROVE  ImportedStays(t) /\ FailedLeavesNothing(t)
    BY DEF AllOrNothing
  <2>1. Progress(t) /\ Blame(t)
    BY DEF ImportInv
  <2>2. ImportedStays(t)
    BY <2>1 DEF Progress, ImportedStays, Brought
  <2>3. FailedLeavesNothing(t)
    BY <2>1 DEF Blame, FailedLeavesNothing
  <2>4. QED
    BY <2>2, <2>3
<1>2. QED
  BY <1>1, TypeAlways, ImportInit, ImportInvStep, PTL DEF Spec

-----------------------------------------------------------------------------
(* Scans *)

(* During the walk: of the songs that it has passed and nobody touched, it  *)
(* has met those that have a file and are not left out, and indexed them    *)
(* but the one in hand.                                                     *)
(* Afterwards: those have a row, and the other rows are still to be probed. *)
ScanInv ==
  /\ scan.pc = "walk" =>
       /\ scan.seen \cap scan.todo = {} /\ scan.seen \cap scan.excluded = {}
       /\ scan.cur # None => scan.cur \in scan.seen
       /\ \A f \in Folder \ (unsure \cup scan.todo) :
            IF f \in scan.seen
              THEN file[Song(f)] # None /\ (f # scan.cur => row[f] # None)
              ELSE file[Song(f)] = None \/ f \in scan.excluded
  /\ scan.pc = "prune" =>
       /\ scan.seen \cap scan.todo = {} /\ scan.cur \notin scan.seen
       /\ scan.seen \cap scan.excluded = {}
       /\ \A f \in Folder \ unsure :
            IF f \in scan.seen
              THEN file[Song(f)] # None /\ row[f] # None
              ELSE /\ file[Song(f)] = None \/ f \in scan.excluded
                   /\ row[f] # None => f \in scan.todo \cup {scan.cur}

LEMMA ScanInit == Init => ScanInv
BY DEF Init, NoScan, ScanInv

(* A step of others that tells of every song it touches.                    *)
Tells ==
  /\ scan' = scan
  /\ scan.pc \in {"walk", "prune"} =>
       /\ unsure \subseteq unsure'
       /\ \A f \in Folder \ unsure' :
            /\ file'[Song(f)] = file[Song(f)]
            /\ \/ row'[f] = row[f]
               \/ row'[f] # None /\ file[Song(f)] # None /\ f \notin scan.excluded

LEMMA Doubted == ScanInv /\ Tells => ScanInv'
BY DEF ScanInv, Tells

LEMMA ImportScanStep ==
  ASSUME TypeInv, ScanInv, NEW t \in Transfer, ImportStep(t) PROVE ScanInv'
<1>0. /\ file \in [Path -> Content \cup {None}]
      /\ row \in [Folder -> Content \cup {Unhashed, None}]
      /\ import \in [Transfer -> ImportState]
  BY ImportType, TypeParts DEF OthersType
<1>1. CASE \/ Open(t) \/ Cancel(t) \/ Finish(t) \/ FinishFails(t) \/ LinkFails(t)
           \/ IndexFails(t) \/ Undone(t)
           \/ \E n \in Names : Look(t, n) \/ Chunk(t, n) \/ UndoFails(t, n)
  <2>1. UNCHANGED <<file, row, scan, unsure>>
    BY <1>1 DEF Open, Cancel, Finish, FinishFails, LinkFails, IndexFails, Undone, Look, Chunk,
                UndoFails, history
  <2>2. QED
    <3>1. Tells
      BY <2>1 DEF Tells
    <3>2. QED
      BY <3>1, Doubted
<1>2. CASE Index(t)
  <2>1. At(t, "song") = Song(import[t].dest)
    BY DEF At, Song
  <2>2. \A f \in Folder : f # import[t].dest => row'[f] = row[f]
    BY <1>0, <1>2 DEF Index
  <2>3. row'[import[t].dest] # None
    BY <1>0, <1>2, Wanted DEF Index, Indexed
  <2>4. QED
    <3>1. Tells
      BY <1>2, <2>1, <2>2, <2>3 DEF Tells, Index, Doubt
    <3>2. QED
      BY <3>1, Doubted
<1>3. CASE SetHash(t)
  <2>1. UNCHANGED <<file, scan, unsure>>
    BY <1>3 DEF SetHash, history
  <2>2. \A f \in Folder : row'[f] = None <=> row[f] = None
    BY <1>0, <1>3, Wanted DEF SetHash
  <2>3. QED
    BY <2>1, <2>2 DEF ScanInv
<1>4. ASSUME NEW n \in Names, Link(t, n) PROVE ScanInv'
  <2>1. \A f \in Folder : f # import[t].dest \/ n # "song" => file'[Song(f)] = file[Song(f)]
    BY <1>0, <1>4 DEF Link, Put, At, Song
  <2>2. QED
    <3>1. Tells
      BY <1>4, <2>1 DEF Tells, Link, Put, Doubt
    <3>2. QED
      BY <3>1, Doubted
<1>5. ASSUME NEW n \in Names, Undo(t, n) PROVE ScanInv'
  <2>1. \A f \in Folder : f # import[t].dest \/ n # "song" => file'[Song(f)] = file[Song(f)]
    BY <1>0, <1>5 DEF Undo, At, Song
  <2>2. QED
    <3>1. Tells
      BY <1>5, <2>1 DEF Tells, Undo, Doubt
    <3>2. QED
      BY <3>1, Doubted
<1>6. QED
  BY <1>1, <1>2, <1>3, <1>4, <1>5 DEF ImportStep

LEMMA RemoveScanStep ==
  ASSUME TypeInv, ScanInv, NEW p \in Path, Remove(p) PROVE ScanInv'
<1>1. file \in [Path -> Content \cup {None}]
  BY TypeParts DEF OthersType
<1>2. PICK g \in Folder, n \in Names : p = <<g, n>>
  BY DEF Path
<1>3. \A f \in Folder : f # g \/ n # "song" => file'[Song(f)] = file[Song(f)]
  BY <1>1, <1>2 DEF Remove, Song
<1>4. p[1] = g /\ p[2] = n
  BY <1>2
<1>5. QED
  <2>1. Tells
    BY <1>3, <1>4 DEF Tells, Remove, Doubt
  <2>2. QED
    BY <2>1, Doubted

LEMMA ScanInvScanStep ==
  ASSUME TypeInv, ScanInv, ScanStep PROVE ScanInv'
<1>0. /\ row \in [Folder -> Content \cup {Unhashed, None}] /\ scan \in ScanState
  BY TypeParts DEF OthersType
<1>1. CASE StartScan
  <2>1. scan'.pc = "walk" /\ scan'.todo = Folder /\ scan'.seen = {} /\ scan'.cur = None
    BY <1>1 DEF StartScan, NoScan
  <2>2. QED
    BY <2>1 DEF ScanInv
<1>2. CASE PruneFails \/ EndScan
  BY <1>2, OverScan DEF ScanInv
<1>3. CASE IndexMet
  <2>1. scan' = [scan EXCEPT !.cur = None] /\ scan.pc = "walk" /\ scan.cur # None
    BY <1>3 DEF IndexMet
  <2>2. /\ scan'.pc = "walk" /\ scan'.cur = None /\ scan'.todo = scan.todo
        /\ scan'.seen = scan.seen /\ scan.cur \in Folder /\ scan'.excluded = scan.excluded
    BY <2>1, <1>0 DEF ScanState
  <2>3. \A f \in Folder : row'[f] = row[f] \/ f = scan.cur
    BY <1>0, <1>3 DEF IndexMet
  <2>4. row'[scan.cur] # None
    BY <1>0, <1>3, <2>2 DEF IndexMet, Indexed
  <2>5. QED
    BY <1>3, <2>1, <2>2, <2>3, <2>4 DEF IndexMet, ScanInv, history
<1>4. CASE IndexMetFails
  <2>1. scan' = [scan EXCEPT !.cur = None] /\ scan.pc = "walk" /\ scan.cur # None
    BY <1>4 DEF IndexMetFails
  <2>2. /\ scan'.pc = "walk" /\ scan'.cur = None /\ scan'.todo = scan.todo
        /\ scan'.seen = scan.seen /\ scan'.excluded = scan.excluded
    BY <2>1, <1>0 DEF ScanState
  <2>3. QED
    BY <1>4, <2>1, <2>2 DEF IndexMetFails, ScanInv
<1>5. CASE ListRows
  <2>1. /\ scan'.pc = "prune" /\ scan'.cur = None /\ scan'.seen = scan.seen
        /\ scan'.todo = {f \in Folder : row[f] # None} \ scan.seen
        /\ scan'.excluded = scan.excluded
        /\ scan.pc = "walk" /\ scan.cur = None /\ scan.todo = {}
    BY <1>0, <1>5 DEF ListRows, Rows, ScanState
  <2>2. None \notin scan.seen
    BY <1>0 DEF ScanState
  <2>3. QED
    BY <1>5, <2>1, <2>2 DEF ListRows, ScanInv, history
<1>6. CASE Prune
  <2>1. /\ scan'.pc = "prune" /\ scan'.cur = None /\ scan'.seen = scan.seen
        /\ scan'.todo = scan.todo /\ scan'.excluded = scan.excluded
        /\ scan.pc = "prune" /\ scan.cur # None /\ scan.cur \in Folder
        /\ None \notin scan.seen
    BY <1>0, <1>6 DEF Prune, ScanState
  <2>2. row' = [row EXCEPT ![scan.cur] = None]
    BY <1>6 DEF Prune
  <2>3. QED
    BY <1>0, <1>6, <2>1, <2>2 DEF Prune, ScanInv, history
<1>7. ASSUME NEW g \in Folder, Pass(g) PROVE ScanInv'
  <2>1. /\ scan'.pc = "walk" /\ scan'.cur = scan.cur /\ scan'.seen = scan.seen
        /\ scan'.todo = scan.todo \ {g} /\ scan.pc = "walk" /\ g \in scan.todo
        /\ scan'.excluded = scan.excluded
    BY <1>0, <1>7 DEF Pass, ScanState
  <2>2. QED
    BY <1>7, <2>1 DEF Pass, ScanInv
<1>8. ASSUME NEW g \in Folder, Meet(g) PROVE ScanInv'
  <2>1. /\ scan'.pc = "walk" /\ scan'.cur = g /\ scan'.seen = scan.seen \cup {g}
        /\ scan'.todo = scan.todo \ {g} /\ scan.pc = "walk" /\ g \in scan.todo
        /\ scan.cur = None /\ scan'.excluded = scan.excluded
    BY <1>0, <1>8 DEF Meet, ScanState
  <2>2. UNCHANGED <<file, row, unsure>> /\ file[Song(g)] # None /\ g \notin scan.excluded
    BY <1>8 DEF Meet, history
  <2>3. QED
    BY <2>1, <2>2 DEF ScanInv
<1>9. ASSUME NEW g \in Folder, Probe(g) PROVE ScanInv'
  <2>1. /\ scan'.pc = "prune" /\ scan'.seen = scan.seen /\ scan'.todo = scan.todo \ {g}
        /\ scan.pc = "prune" /\ g \in scan.todo /\ scan.cur = None
        /\ scan'.excluded = scan.excluded
        /\ scan'.cur = IF file[Song(g)] = None \/ g \in scan.excluded THEN g ELSE None
    BY <1>0, <1>9 DEF Probe, ScanState
  <2>2. UNCHANGED <<file, row, unsure>> /\ None \notin scan.seen
    BY <1>0, <1>9 DEF Probe, ScanState
  <2>3. QED
    BY <2>1, <2>2 DEF ScanInv
<1>10. QED
  BY <1>1, <1>2, <1>3, <1>4, <1>5, <1>6, <1>7, <1>8, <1>9 DEF ScanStep

LEMMA ScanInvStep == TypeInv /\ ScanInv /\ [Next]_vars => ScanInv'
<1> SUFFICES ASSUME TypeInv, ScanInv, [Next]_vars PROVE ScanInv'
  OBVIOUS
<1>1. CASE UNCHANGED vars
  <2>1. Tells
    BY <1>1 DEF Tells, vars, history
  <2>2. QED
    BY <2>1, Doubted
<1>2. ASSUME NEW t \in Transfer, NEW w \in Manifest, NEW f \in Folder, Begin(t, w, f)
      PROVE  ScanInv'
  <2>1. Tells
    BY <1>2 DEF Tells, Begin, history
  <2>2. QED
    BY <2>1, Doubted
<1>3. CASE CoverStep
  <2>1. scan \in ScanState
    BY TypeParts DEF OthersType
  <2>2. scan'.pc \in {"art", "off"}
    <3>1. scan' = NoScan \/ (scan.pc = "art" /\ scan'.pc = scan.pc)
      BY <1>3, <2>1 DEF CoverStep, SeekCover, SaveCover, NoCover, EndFetch, Fetching, ScanState
    <3>2. QED
      BY <3>1, ScanRecords
  <2>3. QED
    BY <2>2 DEF ScanInv
<1>4. QED
  BY <1>1, <1>2, <1>3, ImportScanStep, RemoveScanStep, ScanInvScanStep DEF Next

(* A scan (scan.rs) leaves rows in step with the files that it does not     *)
(* leave out, but for what others touched while it ran.                     *)
THEOREM ScanVouchesHolds == Spec => []ScanVouches
<1>1. TypeInv /\ ScanInv => ScanVouches
  <2>1. TypeInv => scan \in ScanState
    BY TypeParts DEF OthersType
  <2>2. QED
    BY <2>1 DEF ScanInv, ScanVouches, Complete, ScanState
<1>2. QED
  BY <1>1, TypeAlways, ScanInit, ScanInvStep, PTL DEF Spec
==============================================================================
