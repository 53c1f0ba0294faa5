----------------------------- MODULE MediaStream -----------------------------
(***************************************************************************)
(* The audio of a satellite's output, over one connection.  The satellite  *)
(* opens a stream for what it was told to play; the server starts a        *)
(* producer, a thread that reads the file and puts frames into the queue   *)
(* of the connection, whose loop writes them out (server/tcp.rs).  The     *)
(* satellite feeds the chunks of its current stream to a decoder, which    *)
(* runs on a thread of its own (satellite.rs).                             *)
(*                                                                         *)
(* A stream's name is the playback id of what is played.  It can be opened *)
(* again while an earlier producer of it still runs: after a device was    *)
(* disabled and enabled, its satellite is told to load what it plays.      *)
(* Streams of several outputs of a satellite differ in their names, and    *)
(* everything here goes by the name: one output is modelled.               *)
(***************************************************************************)
EXTENDS Naturals, Sequences

CONSTANTS Stream,       \* playback ids
          Chunks,       \* the number of chunks of each stream
          MaxOpens,     \* bound: how many streams are opened
          NoStream      \* no stream, no decoder

VARIABLES
  connected,  \* the connection is up
  media,      \* satellite: the stream it plays, or NoStream
  decoder,    \* satellite: the decoder and what it was fed, or NoStream
  loads,      \* how often the satellite was told to load
  control,    \* on the way to the server: opens and stops
  entry,      \* server: [Stream -> 0..MaxOpens], media_cancels
  producer,   \* server: [1..MaxOpens -> ...], the producers in order of opening
  queue,      \* server: media_rx
  wire,       \* on the way to the satellite: media frames
  reopened    \* history: streams opened before their entry was removed

streamVars == <<connected, media, decoder, loads, control, entry, producer, queue, wire, reopened>>
satellite == <<media, decoder, loads>>
server == <<entry, producer, queue, reopened>>

Id == 1..MaxOpens
Control == [kind: {"open", "stop"}, stream: Stream]
Frame == [by: Id, kind: {"header", "chunk", "end", "fail", "closed"}, seq: 0..Chunks]
Fed == [by: Id, seq: 0..Chunks]
Running == {"header", "check", "read", "end", "failing", "close"}

Decoder == [stream: Stream, fed: Seq(Fed), pc: {"feed", "drain", "over"}]

ASSUME MediaAssumption ==
  /\ Chunks \in Nat /\ MaxOpens \in Nat
  /\ NoStream \notin Stream \cup Decoder

NoProducer == [stream |-> NoStream, pc |-> "none", seq |-> 0, cancelled |-> FALSE]

StreamTypeOK ==
  /\ connected \in BOOLEAN
  /\ media \in Stream \cup {NoStream}
  /\ decoder \in Decoder \cup {NoStream}
  /\ loads \in 0..MaxOpens
  /\ control \in Seq(Control)
  /\ entry \in [Stream -> 0..MaxOpens]
  /\ producer \in [Id -> [stream: Stream \cup {NoStream}, pc: Running \cup {"none", "done"},
                          seq: 0..Chunks, cancelled: BOOLEAN]]
  /\ queue \in Seq(Frame) /\ wire \in Seq(Frame)
  /\ reopened \subseteq Stream

StreamInit ==
  /\ connected = TRUE
  /\ media = NoStream /\ decoder = NoStream /\ loads = 0
  /\ control = <<>> /\ queue = <<>> /\ wire = <<>>
  /\ entry = [s \in Stream |-> 0]
  /\ producer = [p \in Id |-> NoProducer]
  /\ reopened = {}

-----------------------------------------------------------------------------
(* The satellite *)

Stops(s) == IF s = NoStream THEN <<>> ELSE <<[kind |-> "stop", stream |-> s]>>

(* A load stops what is played and opens a stream for what is to be played. *)
Load(s) ==
  /\ connected /\ loads < MaxOpens
  /\ loads' = loads + 1
  /\ media' = s /\ decoder' = NoStream
  /\ control' = control \o Stops(media) \o <<[kind |-> "open", stream |-> s]>>
  /\ UNCHANGED <<connected, server, wire>>

(* So do a pause and a stop, without the new stream. *)
Halt ==
  /\ connected
  /\ media' = NoStream /\ decoder' = NoStream
  /\ control' = control \o Stops(media)
  /\ UNCHANGED <<connected, loads, server, wire>>

(* handle_media_event: only frames of the current stream count. *)
Header(f) ==
  /\ f.kind = "header"
  /\ decoder' = IF media = producer[f.by].stream
                  THEN [stream |-> media, fed |-> <<>>, pc |-> "feed"] ELSE decoder
  /\ UNCHANGED <<media, control>>

(* A decoder that is over takes no chunk: the rest of the stream is stopped. *)
ChunkFrame(f) ==
  /\ f.kind = "chunk"
  /\ IF media # producer[f.by].stream \/ decoder = NoStream
       THEN UNCHANGED <<media, decoder, control>>
     ELSE IF decoder.pc # "over"
       THEN /\ decoder' = [decoder EXCEPT !.fed = Append(@, [by |-> f.by, seq |-> f.seq])]
            /\ UNCHANGED <<media, control>>
     ELSE /\ decoder' = NoStream /\ media' = NoStream
          /\ control' = control \o Stops(media)

End(f) ==
  /\ f.kind = "end"
  /\ decoder' = IF media = producer[f.by].stream /\ decoder # NoStream /\ decoder.pc = "feed"
                  THEN [decoder EXCEPT !.pc = "drain"] ELSE decoder
  /\ UNCHANGED <<media, control>>

Fail(f) ==
  /\ f.kind = "fail"
  /\ IF media = producer[f.by].stream
       THEN media' = NoStream /\ decoder' = NoStream ELSE UNCHANGED <<media, decoder>>
  /\ UNCHANGED control

Receive ==
  /\ wire # <<>>
  /\ LET f == Head(wire) IN Header(f) \/ ChunkFrame(f) \/ End(f) \/ Fail(f)
  /\ wire' = Tail(wire)
  /\ UNCHANGED <<connected, loads, server>>

(* The decoder has played what it was fed, or finds no sense in it.         *)
DecoderEnds(pc) ==
  /\ decoder # NoStream /\ decoder.pc = pc
  /\ decoder' = [decoder EXCEPT !.pc = "over"]
  /\ UNCHANGED <<connected, media, loads, control, server, wire>>

-----------------------------------------------------------------------------
(* The connection's loop in the server *)

Unused(p) == producer[p].pc = "none" /\ \A q \in 1..(p - 1) : producer[q].pc # "none"

\* Mutant: the stream is opened without an entry of its own.
OpenUnnoted(s, p) ==
  /\ entry' = entry
  /\ producer' = [producer EXCEPT ![p] = [NoProducer EXCEPT !.stream = s, !.pc = "header"]]

(* An open starts a producer and cancels the one whose entry it takes over. *)
OpenStream(s, p) ==
  /\ entry' = [entry EXCEPT ![s] = p]
  /\ producer' = [q \in Id |->
       IF q = p THEN [NoProducer EXCEPT !.stream = s, !.pc = "header"]
       ELSE IF q = entry[s] THEN [producer[q] EXCEPT !.cancelled = TRUE]
       ELSE producer[q]]

(* A stop only sets the flag: the entry stays until the producer's last     *)
(* message is taken from the queue.                                         *)
Stop(s) ==
  /\ producer' = IF entry[s] = 0 THEN producer
                 ELSE [producer EXCEPT ![entry[s]].cancelled = TRUE]
  /\ entry' = entry

TakeControl ==
  /\ control # <<>>
  /\ LET c == Head(control) IN
       /\ \/ c.kind = "open" /\ \E p \in Id : Unused(p) /\ OpenStream(c.stream, p)
          \/ c.kind = "stop" /\ Stop(c.stream)
       /\ reopened' = IF c.kind = "open" /\ entry[c.stream] # 0
                        THEN reopened \cup {c.stream} ELSE reopened
  /\ control' = Tail(control)
  /\ UNCHANGED <<connected, satellite, queue, wire>>

\* Mutant: the last message of a producer leaves its entry behind.
ForwardKeeping ==
  /\ queue # <<>>
  /\ LET f == Head(queue)  s == producer[f.by].stream IN
       wire' = IF /\ f.kind # "closed"
                  /\ entry[s] # 0 /\ ~producer[entry[s]].cancelled
                 THEN Append(wire, f) ELSE wire
  /\ queue' = Tail(queue)
  /\ UNCHANGED <<connected, satellite, control, entry, producer, reopened>>

(* A frame is written out if the stream has an entry that is not cancelled, *)
(* be it the producer's own or not.  The last message removes the entry.    *)
Forward ==
  /\ queue # <<>>
  /\ LET f == Head(queue)  s == producer[f.by].stream IN
       IF f.kind = "closed"
         THEN entry' = [entry EXCEPT ![s] = 0] /\ UNCHANGED wire
         ELSE /\ wire' = IF entry[s] # 0 /\ ~producer[entry[s]].cancelled
                           THEN Append(wire, f) ELSE wire
              /\ UNCHANGED entry
  /\ queue' = Tail(queue)
  /\ UNCHANGED <<connected, satellite, control, producer, reopened>>

(* The connection ends: what is on the way is lost and both sides forget    *)
(* the streams, but the producers find out by themselves.                   *)
Disconnect ==
  /\ connected /\ connected' = FALSE
  /\ media' = NoStream /\ decoder' = NoStream
  /\ control' = <<>> /\ queue' = <<>> /\ wire' = <<>>
  /\ entry' = [s \in Stream |-> 0]
  /\ UNCHANGED <<loads, producer, reopened>>

-----------------------------------------------------------------------------
(* A producer *)

(* Without a connection nothing can be sent. *)
Send(p, kind) ==
  queue' = IF connected THEN Append(queue, [by |-> p, kind |-> kind, seq |-> producer[p].seq])
           ELSE queue

Go(p, pc) == producer' = [producer EXCEPT ![p].pc = IF connected THEN pc ELSE "failing"]

Still == UNCHANGED <<connected, satellite, control, entry, wire, reopened>>

SendHeader(p) == producer[p].pc = "header" /\ Send(p, "header") /\ Go(p, "check") /\ Still

Check(p) ==
  /\ producer[p].pc = "check"
  /\ producer' = [producer EXCEPT ![p].pc = IF producer[p].cancelled THEN "close" ELSE "read"]
  /\ UNCHANGED queue /\ Still

SendChunk(p) ==
  /\ producer[p].pc = "read" /\ producer[p].seq < Chunks
  /\ Send(p, "chunk")
  /\ producer' = [producer EXCEPT ![p].pc = IF connected THEN "check" ELSE "failing",
                                  ![p].seq = @ + 1]
  /\ Still

\* Mutant: a read that fails is taken for the end of the file.
SendEndOnError(p) ==
  /\ producer[p].pc = "read"
  /\ Send(p, "end") /\ Go(p, "close") /\ Still

(* After the last chunk the end is sent, cancelled or not. *)
SendEnd(p) ==
  /\ producer[p].pc = "read" /\ producer[p].seq = Chunks
  /\ Send(p, "end") /\ Go(p, "close") /\ Still

(* No track, no file, no ffmpeg, or a read that fails. *)
GiveUp(p) ==
  /\ producer[p].pc \in {"header", "read"}
  /\ producer' = [producer EXCEPT ![p].pc = "failing"]
  /\ UNCHANGED queue /\ Still

SendFail(p) ==
  /\ producer[p].pc = "failing"
  /\ IF producer[p].cancelled THEN UNCHANGED queue ELSE Send(p, "fail")
  /\ producer' = [producer EXCEPT ![p].pc = "close"]
  /\ Still

Close(p) ==
  /\ producer[p].pc = "close"
  /\ Send(p, "closed")
  /\ producer' = [producer EXCEPT ![p].pc = "done"]
  /\ Still

Produce(p) == SendHeader(p) \/ Check(p) \/ SendChunk(p) \/ SendEnd(p) \/ SendFail(p) \/ Close(p)

-----------------------------------------------------------------------------
StreamNext ==
  \/ \E s \in Stream : Load(s)
  \/ Halt \/ Receive
  \/ DecoderEnds("feed") \/ DecoderEnds("drain")
  \/ TakeControl \/ Forward \/ Disconnect
  \/ \E p \in Id : Produce(p) \/ GiveUp(p)

StreamSpec == StreamInit /\ [][StreamNext]_streamVars

-----------------------------------------------------------------------------
(* Properties *)

(* Unless its stream was reopened too early, a decoder is fed the chunks of *)
(* one producer of the stream, none left out and in order, and all of them  *)
(* before it is told that there are no more.                                *)
FedInOrder ==
  decoder # NoStream /\ decoder.stream \notin reopened =>
    /\ \E p \in Id : /\ producer[p].stream = decoder.stream
                     /\ \A i \in DOMAIN decoder.fed : decoder.fed[i] = [by |-> p, seq |-> i - 1]
    /\ decoder.pc = "drain" => Len(decoder.fed) = Chunks

(* The connection keeps an entry only for a producer that is still at work  *)
(* or whose last message is still in the queue: entries do not pile up.     *)
EntryIsLive ==
  \A s \in Stream : entry[s] # 0 =>
    LET p == entry[s] IN
    \/ producer[p].pc \in Running
    \/ \E i \in DOMAIN queue : queue[i].by = p /\ queue[i].kind = "closed"

(* Nothing is on its way, and nobody is at work. *)
Quiet ==
  /\ control = <<>> /\ queue = <<>> /\ wire = <<>>
  /\ \A p \in Id : producer[p].pc \notin Running
  /\ decoder # NoStream => decoder.pc # "drain"

(* What a satellite plays comes to an end: once all is quiet, its decoder   *)
(* is over, or it plays nothing any more because it was stopped or the      *)
(* stream failed.  A stream that was reopened too early may be cut short by *)
(* the end of its earlier producer, and then its decoder waits for ever.    *)
NoStreamHangs ==
  Quiet /\ media # NoStream /\ media \notin reopened => decoder # NoStream /\ decoder.pc = "over"
=============================================================================
