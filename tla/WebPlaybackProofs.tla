------------------------- MODULE WebPlaybackProofs -------------------------
(***************************************************************************)
(* Theorems about WebPlayback, for every library, every choice of what     *)
(* users do and every value of the bounds.                                 *)
(***************************************************************************)
EXTENDS WebPlayback, TLAPS

\* A queue with a place in it; 0 is none.
Listing == {q \in QueueType : q.index <= Len(q.queue)}

\* A state of the row that can be sent.
FrameOK(f) == f \in FrameType /\ (f.status = "playing" => f.token # 0)

Frames == {f \in FrameType : FrameOK(f)}

Sources == Track \cup {Mine, Theirs, None} \cup 1..MaxTokens

MediaEvents == {"play", "pause", "ended", "error"}

Media ==
    [src : Sources, opened : BOOLEAN, paused : BOOLEAN,
     health : {"fine", "over", "broken"}, tasks : Seq(MediaEvents), left : BOOLEAN]

Controls == [event : {"command", "playing", "paused", "completed", "failed"},
             token : 0..MaxTokens]

Page ==
    [target : {Local, Mine, Theirs}, owned : BOOLEAN, chosen : BOOLEAN,
     shown : QueueType, view : Views, saved : Listing \cup {None},
     undo : [shown : Listing, view : Views] \cup {None},
     remote : Frames \cup {None}, cache : Frames \cup {None},
     speaking : (1..MaxTokens) \cup {None}, audio : Media, chain : Seq(Controls)]

\* The tab's own queue: shown, or put aside.
Own(p) == IF p.target = Local THEN p.shown ELSE p.saved

\* The track a queue is at.
Current(q, media) ==
    q # None /\ q.index \in DOMAIN q.queue /\ media = q.queue[q.index]

\* The place is in the queue shown.  What is loaded is the current track of the
\* own queue, heard only where that is the target, or what the tab was told to
\* speak, or is excused.
Consistent(p) ==
    /\ p.shown \in Listing
    /\ p.speaking # None => p.target # Local /\ p.audio.src = p.speaking
    /\ p.target # Local /\ ~p.audio.paused =>
          \/ p.audio.left
          \/ p.target = Mine /\ p.owned /\ p.audio.src = p.speaking
    /\ ~p.audio.left /\ p.audio.src # None =>
          Current(Own(p), p.audio.src) \/ p.target = Mine

-----------------------------------------------------------------------------
(* The fields of a page.                                                   *)

\* q is p but for the media.
Beside(p, q) ==
    /\ q.target = p.target /\ q.owned = p.owned /\ q.chosen = p.chosen
    /\ q.shown = p.shown /\ q.view = p.view /\ q.saved = p.saved
    /\ q.undo = p.undo /\ q.remote = p.remote /\ q.cache = p.cache
    /\ q.speaking = p.speaking /\ q.chain = p.chain

LEMMA WithAudio ==
    ASSUME NEW p \in Page, NEW m \in Media
    PROVE  /\ [p EXCEPT !.audio = m] \in Page
           /\ [p EXCEPT !.audio = m].audio = m
           /\ Beside(p, [p EXCEPT !.audio = m])
<1> DEFINE q == [p EXCEPT !.audio = m]
<1>1. q \in Page
  BY DEF Page
<1>2. q.audio = m
  BY DEF Page
<1>3. Beside(p, q)
  BY DEF Page, Beside
<1>4. QED
  BY <1>1, <1>2, <1>3

LEMMA NoMediaFacts ==
    /\ NoMedia \in Media
    /\ NoMedia.src = None /\ NoMedia.paused /\ ~NoMedia.left
    /\ NoMedia.health = "fine" /\ NoMedia.tasks = <<>>
<1>1. <<>> \in Seq(MediaEvents) /\ None \in Sources
  BY DEF Sources
<1>2. QED
  BY <1>1 DEF NoMedia, Media

LEMMA LoadFacts ==
    ASSUME NEW p \in Page, NEW media \in Sources
    PROVE  /\ Load(p, media) \in Page
           /\ Beside(p, Load(p, media))
           /\ Load(p, media).audio.src = media
           /\ Load(p, media).audio.paused
           /\ ~Load(p, media).audio.left
           /\ Load(p, media).audio.health = "fine"
           /\ Load(p, media).audio.tasks = <<>>
<1> DEFINE m == [NoMedia EXCEPT !.src = media, !.opened = TRUE]
<1>1. /\ m \in Media /\ m.src = media /\ m.paused /\ ~m.left
      /\ m.health = "fine" /\ m.tasks = <<>>
  BY NoMediaFacts DEF Media
<1>2. Load(p, media) = [p EXCEPT !.audio = m]
  BY DEF Load
<1> HIDE DEF m
<1>3. QED
  BY <1>1, <1>2, WithAudio

LEMMA UnloadFacts ==
    ASSUME NEW p \in Page
    PROVE  /\ Unload(p) \in Page
           /\ Beside(p, Unload(p))
           /\ Unload(p).audio.src = None
<1> DEFINE m == [NoMedia EXCEPT !.opened = p.audio.opened]
<1>1. m \in Media /\ m.src = None
  <2>1. p.audio.opened \in BOOLEAN
    BY DEF Page, Media
  <2>2. QED
    BY <2>1, NoMediaFacts DEF Media
<1>2. Unload(p) = [p EXCEPT !.audio = m]
  BY DEF Unload
<1> HIDE DEF m
<1>3. QED
  BY <1>1, <1>2, WithAudio

LEMMA PauseFacts ==
    ASSUME NEW p \in Page
    PROVE  /\ Pause(p) \in Page
           /\ Beside(p, Pause(p))
           /\ Pause(p).audio.paused
           /\ Pause(p).audio.src = p.audio.src
           /\ Pause(p).audio.left = p.audio.left
           /\ Pause(p).audio.health = p.audio.health
           /\ Pause(p).audio.tasks =
                 IF p.audio.paused THEN p.audio.tasks
                 ELSE Append(p.audio.tasks, "pause")
<1> DEFINE m == [p.audio EXCEPT !.paused = TRUE, !.tasks = Append(@, "pause")]
<1>1. p.audio \in Media
  BY DEF Page
<1>2. Append(p.audio.tasks, "pause") \in Seq(MediaEvents)
  BY <1>1 DEF Media, MediaEvents
<1>3. /\ m \in Media /\ m.paused /\ m.src = p.audio.src
      /\ m.left = p.audio.left /\ m.health = p.audio.health
      /\ m.tasks = Append(p.audio.tasks, "pause")
  BY <1>1, <1>2 DEF Media
<1>4. Pause(p) = IF p.audio.paused THEN p ELSE [p EXCEPT !.audio = m]
  BY DEF Pause
<1> HIDE DEF m
<1>5. CASE p.audio.paused
  BY <1>4, <1>5 DEF Beside
<1>6. CASE ~p.audio.paused
  BY <1>3, <1>4, <1>6, WithAudio
<1>7. QED
  BY <1>5, <1>6

LEMMA ResumeFacts ==
    ASSUME NEW p \in Page
    PROVE  /\ Resume(p) \in Page
           /\ Beside(p, Resume(p))
           /\ Resume(p).audio.src = p.audio.src
           /\ Resume(p).audio.left = p.audio.left
           /\ p.audio.health # "broken" =>
                 /\ ~Resume(p).audio.paused /\ Resume(p).audio.health = "fine"
                 /\ Resume(p).audio.tasks =
                       IF p.audio.paused THEN Append(p.audio.tasks, "play")
                       ELSE p.audio.tasks
           /\ p.audio.health = "broken" => Resume(p) = p
<1> DEFINE ts == IF p.audio.paused THEN Append(p.audio.tasks, "play")
                 ELSE p.audio.tasks
<1> DEFINE m == [p.audio EXCEPT !.paused = FALSE, !.health = "fine", !.tasks = ts]
<1>1. p.audio \in Media
  BY DEF Page
<1>2. ts \in Seq(MediaEvents)
  BY <1>1 DEF Media, MediaEvents
<1>3. Resume(p) = IF p.audio.health = "broken" THEN p ELSE [p EXCEPT !.audio = m]
  BY DEF Resume
<1>4. /\ m \in Media /\ ~m.paused /\ m.src = p.audio.src
      /\ m.left = p.audio.left /\ m.health = "fine" /\ m.tasks = ts
  <2> HIDE DEF ts
  <2>1. QED
    BY <1>1, <1>2 DEF Media
<1> HIDE DEF m
<1>5. CASE p.audio.health = "broken"
  BY <1>3, <1>5 DEF Beside
<1>6. CASE p.audio.health # "broken"
  BY <1>3, <1>4, <1>6, WithAudio
<1>7. QED
  BY <1>5, <1>6

-----------------------------------------------------------------------------
(* Driving the speaker.                                                    *)

\* q is p but for the media and what the tab speaks.
Driven(p, q) ==
    /\ q.target = p.target /\ q.owned = p.owned /\ q.chosen = p.chosen
    /\ q.shown = p.shown /\ q.view = p.view /\ q.saved = p.saved
    /\ q.undo = p.undo /\ q.remote = p.remote /\ q.cache = p.cache
    /\ q.chain = p.chain

LEMMA FrameFacts ==
    ASSUME NEW f \in Frames
    PROVE  /\ f.status \in {"stopped", "playing", "paused"}
           /\ f.token \in 0..MaxTokens /\ f.rev \in Nat
           /\ f.token # None
           /\ f.status = "playing" => f.token \in 1..MaxTokens
<1>1. MaxTokens \in Nat /\ None \notin Nat
  BY PageAssumption
<1>2. /\ f.status \in {"stopped", "playing", "paused"}
      /\ f.token \in 0..MaxTokens /\ f.rev \in Nat
      /\ f.status = "playing" => f.token # 0
  BY DEF Frames, FrameOK, FrameType
<1>3. f.token # None
  BY <1>1, <1>2
<1>4. QED
  BY <1>1, <1>2, <1>3

LEMMA WithSpeaking ==
    ASSUME NEW p \in Page, NEW t \in (1..MaxTokens) \cup {None}
    PROVE  /\ [p EXCEPT !.speaking = t] \in Page
           /\ [p EXCEPT !.speaking = t].speaking = t
           /\ [p EXCEPT !.speaking = t].audio = p.audio
           /\ Driven(p, [p EXCEPT !.speaking = t])
<1> DEFINE q == [p EXCEPT !.speaking = t]
<1>1. q \in Page
  BY DEF Page
<1>2. q.speaking = t /\ q.audio = p.audio
  BY DEF Page
<1>3. Driven(p, q)
  BY DEF Page, Driven
<1>4. QED
  BY <1>1, <1>2, <1>3

\* What the speaker does on a frame.
LEMMA DriveFacts ==
    ASSUME NEW p \in Page, NEW f \in Frames, NEW allowed \in BOOLEAN
    PROVE  /\ Drive(p, f, allowed) \in Page
           /\ Driven(p, Drive(p, f, allowed))
           /\ f.status = "playing" =>
                 /\ Drive(p, f, allowed).speaking = f.token
                 /\ \/ /\ Drive(p, f, allowed).audio.src = f.token
                       /\ ~Drive(p, f, allowed).audio.left
                    \/ /\ p.speaking = f.token
                       /\ Drive(p, f, allowed).audio.src = p.audio.src
                       /\ Drive(p, f, allowed).audio.left = p.audio.left
           /\ f.status # "playing" =>
                 /\ Drive(p, f, allowed).audio.paused
                 /\ Drive(p, f, allowed).audio.src = p.audio.src
                 /\ Drive(p, f, allowed).audio.left = p.audio.left
                 /\ Drive(p, f, allowed).speaking \in {p.speaking, None}
<1> DEFINE q0 == [p EXCEPT !.speaking = f.token]
<1> DEFINE q1 == Load(q0, f.token)
<1> DEFINE r == Drive(p, f, allowed)
<1>1. f.status \in {"stopped", "playing", "paused"}
      /\ (f.status = "playing" => f.token \in 1..MaxTokens)
  BY FrameFacts
<1>2. CASE f.status = "playing" /\ f.token # p.speaking
  <2>1. r = IF allowed THEN Resume(q1) ELSE q1
    BY <1>2 DEF Drive
  <2>2. f.token \in 1..MaxTokens /\ f.token \in Sources
    BY <1>1, <1>2 DEF Sources
  <2>3. q0 \in Page /\ q0.speaking = f.token /\ Driven(p, q0)
    BY <2>2, WithSpeaking
  <2> HIDE DEF q0
  <2>4. q1 \in Page /\ Beside(q0, q1) /\ q1.audio.src = f.token /\ ~q1.audio.left
    BY <2>2, <2>3, LoadFacts
  <2> HIDE DEF q1
  <2>5. r \in Page /\ Beside(q1, r) /\ r.audio.src = f.token /\ ~r.audio.left
    <3>1. CASE allowed
      BY <2>1, <2>4, <3>1, ResumeFacts
    <3>2. CASE ~allowed
      BY <2>1, <2>4, <3>2 DEF Beside
    <3>3. QED
      BY <3>1, <3>2
  <2> HIDE DEF r
  <2>6. Driven(p, r) /\ r.speaking = f.token
    BY <2>3, <2>4, <2>5 DEF Driven, Beside
  <2>7. QED
    BY <1>2, <2>5, <2>6 DEF r
<1>3. CASE f.status = "playing" /\ f.token = p.speaking
  <2>1. r = IF p.audio.paused /\ allowed THEN Resume(p) ELSE p
    BY <1>3 DEF Drive
  <2>2. /\ r \in Page /\ Beside(p, r)
        /\ r.audio.src = p.audio.src /\ r.audio.left = p.audio.left
    <3>1. CASE p.audio.paused /\ allowed
      BY <2>1, <3>1, ResumeFacts
    <3>2. CASE ~(p.audio.paused /\ allowed)
      BY <2>1, <3>2 DEF Beside
    <3>3. QED
      BY <3>1, <3>2
  <2> HIDE DEF r
  <2>3. QED
    BY <1>3, <2>2 DEF r, Driven, Beside
<1>4. CASE f.status = "paused"
  <2>1. r = Pause(p)
    BY <1>4 DEF Drive
  <2> HIDE DEF r
  <2>2. /\ r \in Page /\ Beside(p, r) /\ r.audio.paused
        /\ r.audio.src = p.audio.src /\ r.audio.left = p.audio.left
    BY <2>1, PauseFacts
  <2>3. QED
    BY <1>4, <2>2 DEF r, Driven, Beside
<1>5. CASE f.status = "stopped"
  <2> DEFINE s == Pause(p)
  <2>1. r = [s EXCEPT !.speaking = None]
    BY <1>5 DEF Drive
  <2>2. /\ s \in Page /\ Beside(p, s) /\ s.audio.paused
        /\ s.audio.src = p.audio.src /\ s.audio.left = p.audio.left
    BY PauseFacts
  <2> HIDE DEF s, r
  <2>3. /\ r \in Page /\ r.speaking = None /\ r.audio = s.audio /\ Driven(s, r)
    BY <2>1, <2>2, WithSpeaking
  <2>4. QED
    BY <1>5, <2>2, <2>3 DEF r, Driven, Beside
<1>6. QED
  BY <1>1, <1>2, <1>3, <1>4, <1>5

LEMMA DriveConsistent ==
    ASSUME NEW p \in Page, NEW f \in Frames, NEW allowed \in BOOLEAN,
           p.target = Mine, p.owned, Consistent(p)
    PROVE  Consistent(Drive(p, f, allowed))
<1> DEFINE r == Drive(p, f, allowed)
<1> SUFFICES Consistent(r)
  OBVIOUS
<1>1. /\ Driven(p, r)
      /\ f.status = "playing" =>
                 /\ r.speaking = f.token
                 /\ \/ r.audio.src = f.token /\ ~r.audio.left
                    \/ /\ p.speaking = f.token
                       /\ r.audio.src = p.audio.src /\ r.audio.left = p.audio.left
      /\ f.status # "playing" =>
                 /\ r.audio.paused
                 /\ r.audio.src = p.audio.src /\ r.audio.left = p.audio.left
                 /\ r.speaking \in {p.speaking, None}
  BY DriveFacts
<1> HIDE DEF r
<1>2. /\ r.target = Mine /\ r.owned /\ Mine # Local /\ f.token # None
      /\ r.shown \in Listing
  <2>1. r.shown \in Listing
    BY <1>1 DEF Driven, Consistent
  <2>2. QED
    BY <1>1, <2>1, PageAssumption, FrameFacts DEF Driven
<1>3. CASE f.status = "playing"
  <2>1. r.audio.src = r.speaking
    BY <1>1, <1>2, <1>3 DEF Consistent
  <2>2. QED
    BY <1>2, <2>1 DEF Consistent
<1>4. CASE f.status # "playing"
  BY <1>1, <1>2, <1>4 DEF Consistent
<1>5. QED
  BY <1>3, <1>4

-----------------------------------------------------------------------------
(* Frames.                                                                 *)

\* q is p but for what the shared player is known to be and, where it is the
\* target, for what is shown and driven.
Routed(p, q) ==
    /\ q.target = p.target /\ q.owned = p.owned /\ q.chosen = p.chosen
    /\ q.view = p.view /\ q.saved = p.saved /\ q.undo = p.undo
    /\ q.chain = p.chain
    /\ p.target # Mine =>
          /\ q.shown = p.shown /\ q.remote = p.remote
          /\ q.speaking = p.speaking /\ q.audio = p.audio

LEMMA ShowsFacts ==
    ASSUME NEW player \in {Mine, Theirs}
    PROVE  Shows(player) \in Listing
<1>1. <<player>> \in Seq(Track \cup {Mine, Theirs}) /\ Len(<<player>>) = 1
  OBVIOUS
<1>2. Shows(player) \in QueueType
  BY <1>1 DEF Shows, QueueType
<1>3. Shows(player).queue = <<player>> /\ Shows(player).index = 1
  BY DEF Shows
<1>4. QED
  BY <1>1, <1>2, <1>3 DEF Listing

\* q is p but for what the shared player is known to be and what is shown.
Told(p, q) ==
    /\ q.target = p.target /\ q.owned = p.owned /\ q.chosen = p.chosen
    /\ q.view = p.view /\ q.saved = p.saved /\ q.undo = p.undo
    /\ q.cache = p.cache /\ q.chain = p.chain
    /\ q.speaking = p.speaking /\ q.audio = p.audio

LEMMA WithRemote ==
    ASSUME NEW p \in Page, NEW f \in Frames \cup {None}, NEW list \in QueueType
    PROVE  /\ [p EXCEPT !.remote = f, !.shown = list] \in Page
           /\ [p EXCEPT !.remote = f, !.shown = list].remote = f
           /\ [p EXCEPT !.remote = f, !.shown = list].shown = list
           /\ Told(p, [p EXCEPT !.remote = f, !.shown = list])
<1> DEFINE q == [p EXCEPT !.remote = f, !.shown = list]
<1>1. q \in Page
  BY DEF Page
<1>2. /\ q.remote = f /\ q.shown = list
      /\ q.target = p.target /\ q.owned = p.owned /\ q.chosen = p.chosen
      /\ q.view = p.view /\ q.saved = p.saved /\ q.undo = p.undo
  BY DEF Page
<1>3. /\ q.cache = p.cache /\ q.chain = p.chain
      /\ q.speaking = p.speaking /\ q.audio = p.audio
  BY DEF Page
<1>4. QED
  BY <1>1, <1>2, <1>3 DEF Told

LEMMA ApplyFacts ==
    ASSUME NEW p \in Page, NEW f \in Frames, NEW allowed \in BOOLEAN
    PROVE  /\ Apply(p, f, allowed) \in Page
           /\ Routed(p, Apply(p, f, allowed))
           /\ Apply(p, f, allowed).cache = p.cache
           /\ Consistent(p) => Consistent(Apply(p, f, allowed))
<1> DEFINE list == Shows(Mine)
<1> DEFINE q == [p EXCEPT !.remote = f, !.shown = list]
<1> DEFINE r == Apply(p, f, allowed)
<1> SUFFICES /\ r \in Page /\ Routed(p, r) /\ r.cache = p.cache
             /\ Consistent(p) => Consistent(r)
  OBVIOUS
<1>1. r = IF p.target # Mine \/ Stale(f, p.remote) THEN p
          ELSE IF p.owned THEN Drive(q, f, allowed) ELSE q
  BY DEF Apply
<1>2. /\ q \in Page
      /\ q.target = p.target /\ q.owned = p.owned /\ q.chosen = p.chosen
      /\ q.view = p.view /\ q.saved = p.saved /\ q.undo = p.undo
      /\ q.cache = p.cache /\ q.chain = p.chain
      /\ q.speaking = p.speaking /\ q.audio = p.audio
      /\ q.shown \in Listing
  <2>1. list \in Listing /\ list \in QueueType /\ f \in Frames \cup {None}
    BY ShowsFacts DEF Listing
  <2> HIDE DEF list
  <2>2. q \in Page /\ Told(p, q)
    BY <2>1, WithRemote DEF q
  <2>3. q.shown = list
    BY DEF Page
  <2> HIDE DEF q
  <2>4. QED
    BY <2>1, <2>2, <2>3 DEF Told
<1> HIDE DEF q, r
<1>3. CASE p.target # Mine \/ Stale(f, p.remote)
  <2>1. r = p
    BY <1>1, <1>3
  <2>2. QED
    BY <2>1 DEF Routed
<1>4. CASE p.target = Mine /\ ~Stale(f, p.remote)
  <2>1. Consistent(p) => Consistent(q)
    BY <1>2, <1>4, PageAssumption DEF Consistent, Own
  <2>2. CASE p.owned
    <3>1. r = Drive(q, f, allowed)
      BY <1>1, <1>4, <2>2
    <3>2. r \in Page /\ Driven(q, r)
      BY <1>2, <3>1, DriveFacts
    <3>3. Consistent(p) => Consistent(r)
      BY <1>2, <1>4, <2>1, <2>2, <3>1, DriveConsistent
    <3>4. Routed(p, r) /\ r.cache = p.cache
      BY <1>2, <1>4, <3>2 DEF Routed, Driven
    <3>5. QED
      BY <3>2, <3>3, <3>4
  <2>3. CASE ~p.owned
    <3>1. r = q
      BY <1>1, <1>4, <2>3
    <3>2. Routed(p, r)
      BY <1>2, <1>4, <3>1 DEF Routed
    <3>3. QED
      BY <1>2, <2>1, <3>1, <3>2
  <2>4. QED
    BY <2>2, <2>3
<1>5. QED
  BY <1>3, <1>4

LEMMA WithCache ==
    ASSUME NEW p \in Page, NEW f \in Frames \cup {None}
    PROVE  /\ [p EXCEPT !.cache = f] \in Page
           /\ [p EXCEPT !.cache = f].cache = f
           /\ Routed(p, [p EXCEPT !.cache = f])
           /\ [p EXCEPT !.cache = f].shown = p.shown
           /\ [p EXCEPT !.cache = f].remote = p.remote
           /\ [p EXCEPT !.cache = f].speaking = p.speaking
           /\ [p EXCEPT !.cache = f].audio = p.audio
           /\ Consistent(p) => Consistent([p EXCEPT !.cache = f])
<1> DEFINE q == [p EXCEPT !.cache = f]
<1>1. q \in Page /\ q.cache = f
  BY DEF Page
<1>2. /\ q.target = p.target /\ q.owned = p.owned /\ q.chosen = p.chosen
      /\ q.view = p.view /\ q.saved = p.saved /\ q.undo = p.undo
      /\ q.chain = p.chain
  BY DEF Page
<1>3. /\ q.shown = p.shown /\ q.remote = p.remote
      /\ q.speaking = p.speaking /\ q.audio = p.audio
  BY DEF Page
<1> HIDE DEF q
<1>4. Routed(p, q)
  BY <1>2, <1>3 DEF Routed
<1>5. Consistent(p) => Consistent(q)
  BY <1>2, <1>3 DEF Consistent, Own
<1>6. QED
  BY <1>1, <1>3, <1>4, <1>5 DEF q

LEMMA AcceptFacts ==
    ASSUME NEW p \in Page, NEW f \in Frames, NEW allowed \in BOOLEAN
    PROVE  /\ Accept(p, f, allowed) \in Page
           /\ Routed(p, Accept(p, f, allowed))
           /\ Consistent(p) => Consistent(Accept(p, f, allowed))
<1> DEFINE q == [p EXCEPT !.cache = f]
<1>1. q \in Page /\ Routed(p, q) /\ (Consistent(p) => Consistent(q))
  BY WithCache
<1>2. Accept(p, f, allowed) = IF Stale(f, p.cache) THEN p ELSE Apply(q, f, allowed)
  BY DEF Accept
<1> HIDE DEF q
<1>3. CASE Stale(f, p.cache)
  BY <1>2, <1>3 DEF Routed
<1>4. CASE ~Stale(f, p.cache)
  BY <1>1, <1>2, <1>4, ApplyFacts DEF Routed
<1>5. QED
  BY <1>3, <1>4

LEMMA WatchFacts ==
    ASSUME NEW p \in Page, NEW from, NEW allowed \in BOOLEAN
    PROVE  /\ Watch(p, from, allowed) \in Page
           /\ Routed(p, Watch(p, from, allowed))
           /\ Consistent(p) => Consistent(Watch(p, from, allowed))
<1> DEFINE q == IF from = Mine THEN [p EXCEPT !.cache = None] ELSE p
<1>1. q \in Page /\ Routed(p, q) /\ (Consistent(p) => Consistent(q))
  <2>1. CASE from = Mine
    BY <2>1, WithCache
  <2>2. CASE from # Mine
    BY <2>2 DEF Routed
  <2>3. QED
    BY <2>1, <2>2
<1>2. Watch(p, from, allowed)
        = IF q.target = Mine /\ q.cache # None THEN Apply(q, q.cache, allowed) ELSE q
  BY DEF Watch
<1> HIDE DEF q
<1>3. CASE q.target = Mine /\ q.cache # None
  <2>1. q.cache \in Frames
    BY <1>1, <1>3 DEF Page
  <2>2. QED
    BY <1>1, <1>2, <1>3, <2>1, ApplyFacts DEF Routed
<1>4. CASE ~(q.target = Mine /\ q.cache # None)
  BY <1>1, <1>2, <1>4
<1>5. QED
  BY <1>3, <1>4

-----------------------------------------------------------------------------
(* Changes of the target.                                                  *)

LEMMA RoutedOwn ==
    ASSUME NEW p, NEW q, Routed(p, q)
    PROVE  Own(q) = Own(p)
BY PageAssumption DEF Routed, Own

\* What a page is after it has been told to leave its target for id.
Departed(p, id, q) ==
    /\ q.target = id /\ q.owned = p.owned /\ q.shown = p.shown
    /\ q.chain = p.chain /\ q.audio.src = p.audio.src
    /\ p.target = Local =>
          /\ q.saved = p.shown /\ q.speaking = None
          /\ q.audio.paused /\ q.audio.left = p.audio.left
    /\ p.target # Local =>
          /\ q.saved = p.saved /\ q.speaking = p.speaking
          /\ q.audio.paused = p.audio.paused
          /\ q.audio.left = (p.audio.left \/ p.target = Mine)

LEMMA DepartFacts ==
    ASSUME NEW p \in Page, NEW id \in {Local, Mine, Theirs}, p.shown \in Listing
    PROVE  /\ Depart(p, id) \in Page
           /\ Departed(p, id, Depart(p, id))
<1> DEFINE q == [p EXCEPT !.undo = None]
<1> DEFINE r == Depart(p, id)
<1>1. /\ q \in Page /\ q.target = p.target /\ q.owned = p.owned
      /\ q.shown = p.shown /\ q.saved = p.saved
      /\ q.speaking = p.speaking /\ q.audio = p.audio /\ q.chain = p.chain
  BY DEF Page
<1>2. r = IF p.target # Local
          THEN [q EXCEPT !.target = id, !.audio.left = @ \/ p.target = Mine]
          ELSE [Pause(q) EXCEPT !.target = id, !.saved = p.shown, !.speaking = None]
  BY DEF Depart
<1> SUFFICES r \in Page /\ Departed(p, id, r)
  OBVIOUS
<1> HIDE DEF q, r
<1>3. CASE p.target # Local
  <2>1. r = [q EXCEPT !.target = id, !.audio.left = @ \/ p.target = Mine]
    BY <1>2, <1>3
  <2> DEFINE b == q.audio.left \/ p.target = Mine
  <2> DEFINE m == [q.audio EXCEPT !.left = b]
  <2>2. q.audio \in Media /\ b \in BOOLEAN
    BY <1>1 DEF Page
  <2>3. r = [q EXCEPT !.target = id, !.audio = m]
    BY <1>1, <2>1 DEF Page
  <2> HIDE DEF b
  <2>4. /\ m \in Media /\ m.src = q.audio.src /\ m.paused = q.audio.paused
        /\ m.left = b
    BY <2>2 DEF Media
  <2> HIDE DEF m
  <2>5. r \in Page
    BY <1>1, <2>3, <2>4 DEF Page
  <2>6. /\ r.target = id /\ r.owned = q.owned /\ r.shown = q.shown
        /\ r.saved = q.saved /\ r.speaking = q.speaking /\ r.audio = m
        /\ r.chain = q.chain
    BY <1>1, <2>3 DEF Page
  <2>7. QED
    BY <1>1, <1>3, <2>4, <2>5, <2>6 DEF Departed, b
<1>4. CASE p.target = Local
  <2> DEFINE s == Pause(q)
  <2>1. /\ s \in Page /\ Beside(q, s) /\ s.audio.paused
        /\ s.audio.src = q.audio.src /\ s.audio.left = q.audio.left
    BY <1>1, PauseFacts
  <2>2. r = [s EXCEPT !.target = id, !.saved = p.shown, !.speaking = None]
    BY <1>2, <1>4
  <2> HIDE DEF s
  <2>3. r \in Page
    BY <2>1, <2>2 DEF Page
  <2>4. /\ r.target = id /\ r.owned = s.owned /\ r.shown = s.shown
        /\ r.saved = p.shown /\ r.speaking = None /\ r.audio = s.audio
        /\ r.chain = s.chain
    BY <2>1, <2>2 DEF Page
  <2>5. QED
    BY <1>1, <1>4, <2>1, <2>3, <2>4 DEF Departed, Beside
<1>5. QED
  BY <1>3, <1>4

\* What a page is when it arrives at another output, or at the own queue.
LEMMA ArriveFacts ==
    ASSUME NEW p \in Page, NEW id
    PROVE  LET q == Arrive(p, id)
           IN  /\ q \in Page
               /\ q.target = p.target /\ q.owned = p.owned
               /\ q.saved = p.saved /\ q.audio = p.audio /\ q.chain = p.chain
               /\ id = Local =>
                     /\ q.speaking = None
                     /\ q.shown = IF p.saved = None THEN p.shown ELSE p.saved
               /\ id # Local => q.speaking = p.speaking /\ q.shown = NoQueue
<1> DEFINE q == Arrive(p, id)
<1>1. CASE id = Local
  <2> DEFINE list == IF p.saved = None THEN p.shown ELSE p.saved
  <2>1. list \in QueueType
    BY DEF Page, Listing
  <2>2. q = [p EXCEPT !.speaking = None, !.view = "silent", !.shown = list]
    BY <1>1 DEF Arrive
  <2> HIDE DEF list
  <2>3. q \in Page
    BY <2>1, <2>2 DEF Page, Views
  <2>4. /\ q.target = p.target /\ q.owned = p.owned
        /\ q.saved = p.saved /\ q.audio = p.audio /\ q.chain = p.chain
        /\ q.speaking = None /\ q.shown = list
    BY <2>2 DEF Page
  <2>5. QED
    BY <1>1, <2>3, <2>4 DEF list
<1>2. CASE id # Local
  <2>1. q = [p EXCEPT !.shown = NoQueue, !.remote = None, !.view = "silent"]
    BY <1>2 DEF Arrive
  <2>2. NoQueue \in QueueType
    BY DEF NoQueue, QueueType
  <2>3. q \in Page
    BY <2>1, <2>2 DEF Page, Views
  <2>4. /\ q.target = p.target /\ q.owned = p.owned
        /\ q.saved = p.saved /\ q.audio = p.audio /\ q.chain = p.chain
        /\ q.speaking = p.speaking /\ q.shown = NoQueue
    BY <2>1 DEF Page
  <2>5. QED
    BY <1>2, <2>3, <2>4
<1>3. QED
  BY <1>1, <1>2

LEMMA NoQueueListing ==
    NoQueue \in Listing
BY DEF NoQueue, Listing, QueueType

\* Leaving for another output.
LEMMA AwayFacts ==
    ASSUME NEW p \in Page, Consistent(p), NEW id \in {Mine, Theirs}, p.target # id,
           NEW q \in Page, Departed(p, id, q)
    PROVE  /\ Consistent(q) /\ Own(q) = Own(p)
           /\ Consistent(Arrive(q, id)) /\ Own(Arrive(q, id)) = Own(p)
<1> DEFINE r == Arrive(q, id)
<1>1. id # Local /\ Mine # Local
  BY PageAssumption
<1>2. /\ r.target = id /\ r.saved = q.saved /\ r.audio = q.audio /\ r.owned = q.owned
      /\ r.speaking = q.speaking /\ r.shown \in Listing
  BY <1>1, ArriveFacts, NoQueueListing DEF Departed
<1> SUFFICES /\ Consistent(q) /\ Own(q) = Own(p)
             /\ Consistent(r) /\ Own(r) = Own(p)
  OBVIOUS
<1> HIDE DEF r
<1>3. Own(q) = Own(p)
  BY <1>1 DEF Departed, Own
<1>4. Own(r) = Own(p)
  BY <1>1, <1>2, <1>3 DEF Departed, Own
<1>5. Consistent(q)
  <2>1. q.shown \in Listing
    BY DEF Departed, Consistent
  <2>2. q.speaking # None => q.target # Local /\ q.audio.src = q.speaking
    BY <1>1 DEF Departed, Consistent
  <2>3. ~q.audio.paused => q.audio.left
    BY <1>1 DEF Departed, Consistent
  <2>4. ~q.audio.left /\ q.audio.src # None => Current(Own(q), q.audio.src) \/ q.target = Mine
    BY <1>1, <1>3 DEF Departed, Consistent
  <2>5. QED
    BY <2>1, <2>2, <2>3, <2>4 DEF Consistent
<1>6. Consistent(r)
  <2>1. r.target = q.target /\ Own(r) = Own(q)
    BY <1>2, <1>3, <1>4 DEF Departed
  <2>2. QED
    BY <1>2, <1>5, <2>1 DEF Consistent
<1>7. QED
  BY <1>3, <1>4, <1>5, <1>6

\* What a page is on its way from another output to the own queue.
Returning(p, q) ==
    /\ q.target = Local /\ q.owned = p.owned /\ q.shown \in Listing /\ q.saved = p.saved
    /\ q.chain = p.chain /\ q.audio.src = p.audio.src
    /\ q.audio.left = (p.audio.left \/ p.target = Mine)

LEMMA HomeFacts ==
    ASSUME NEW p \in Page, Consistent(p), p.target # Local,
           NEW q \in Page, Returning(p, q)
    PROVE  LET r == Arrive(q, Local)
           IN  /\ r \in Page /\ Consistent(r) /\ r.target = Local /\ r.owned = p.owned
               /\ r.chain = p.chain
               /\ p.saved # None => Own(r) = Own(p)
<1> DEFINE r == Arrive(q, Local)
<1>1. /\ r \in Page /\ r.target = Local /\ r.owned = p.owned
      /\ r.audio = q.audio /\ r.speaking = None /\ r.chain = p.chain
      /\ r.shown = IF p.saved = None THEN q.shown ELSE p.saved
  BY ArriveFacts DEF Returning
<1> HIDE DEF r
<1>2. p.saved # None => Own(r) = Own(p)
  BY <1>1 DEF Own
<1>3. r.shown \in Listing
  BY <1>1 DEF Returning, Page
<1>4. ~r.audio.left /\ r.audio.src # None => Current(Own(r), r.audio.src)
  <2>1. SUFFICES ASSUME ~r.audio.left, r.audio.src # None
                 PROVE  Current(Own(r), r.audio.src)
    OBVIOUS
  <2>2. p.target # Mine /\ ~p.audio.left /\ r.audio.src = p.audio.src
    BY <1>1, <2>1 DEF Returning
  <2>3. Current(Own(p), r.audio.src)
    BY <2>1, <2>2 DEF Consistent
  <2>4. p.saved # None
    BY <2>3 DEF Current, Own
  <2>5. QED
    BY <1>2, <2>3, <2>4
<1>5. Consistent(r)
  BY <1>1, <1>3, <1>4 DEF Consistent
<1>6. QED
  BY <1>1, <1>2, <1>5 DEF r
LEMMA ReturningFacts ==
    ASSUME NEW p \in Page, Consistent(p), p.target # Local,
           NEW q \in Page, Departed(p, Local, q)
    PROVE  Returning(p, q)
BY DEF Departed, Consistent, Returning

\* Whatever becomes of the target, the own queue stays.
Preserved(p, q) ==
    /\ q \in Page /\ Consistent(q) /\ q.owned = p.owned /\ q.chain = p.chain
    /\ Own(p) # None => Own(q) = Own(p)

LEMMA RoutedPreserved ==
    ASSUME NEW p, NEW q \in Page, NEW r \in Page, Preserved(p, q),
           Routed(q, r), Consistent(r)
    PROVE  Preserved(p, r) /\ r.target = q.target /\ r.saved = q.saved
<1>1. Own(r) = Own(q)
  BY RoutedOwn
<1>2. QED
  BY <1>1 DEF Preserved, Routed

LEMMA PausePreserved ==
    ASSUME NEW p, NEW q \in Page, Preserved(p, q)
    PROVE  /\ Preserved(p, Pause(q))
           /\ Pause(q).target = q.target /\ Pause(q).saved = q.saved
<1> DEFINE r == Pause(q)
<1>1. /\ r \in Page /\ Beside(q, r) /\ r.audio.paused
      /\ r.audio.src = q.audio.src /\ r.audio.left = q.audio.left
  BY PauseFacts
<1> SUFFICES Preserved(p, r) /\ r.target = q.target /\ r.saved = q.saved
  OBVIOUS
<1> HIDE DEF r
<1>2. Own(r) = Own(q)
  BY <1>1 DEF Beside, Own
<1>3. Consistent(r)
  BY <1>1, <1>2 DEF Preserved, Consistent, Beside
<1>4. QED
  BY <1>1, <1>2, <1>3 DEF Preserved, Beside

\* Leaving a target and arriving at another at once.
LEMMA GoFacts ==
    ASSUME NEW p \in Page, Consistent(p), NEW id \in {Local, Mine, Theirs}, p.target # id
    PROVE  /\ Preserved(p, Arrive(Depart(p, id), id))
           /\ Arrive(Depart(p, id), id).target = id
           /\ p.target # Local => Arrive(Depart(p, id), id).saved = p.saved
<1> DEFINE q == Depart(p, id)
<1> DEFINE r == Arrive(q, id)
<1>1. q \in Page /\ Departed(p, id, q)
  BY DepartFacts DEF Consistent
<1> HIDE DEF q
<1>2. /\ r \in Page /\ r.target = id /\ r.owned = p.owned /\ r.chain = p.chain
      /\ p.target # Local => r.saved = p.saved
  BY <1>1, ArriveFacts DEF Departed
<1>3. CASE id = Local
  <2>1. Returning(p, q)
    BY <1>1, <1>3, ReturningFacts
  <2>2. Consistent(r) /\ (p.saved # None => Own(r) = Own(p))
    BY <1>1, <1>3, <2>1, HomeFacts
  <2>3. QED
    BY <1>2, <1>3, <2>2 DEF Preserved, Own, q
<1>4. CASE id # Local
  <2>1. Consistent(r) /\ Own(r) = Own(p)
    BY <1>1, <1>4, AwayFacts
  <2>2. QED
    BY <1>2, <2>1 DEF Preserved, q
<1>5. QED
  BY <1>3, <1>4

LEMMA NestedFacts ==
    ASSUME NEW p \in Page, Consistent(p), NEW id \in {Local, Mine, Theirs},
           NEW allowed \in BOOLEAN
    PROVE  Preserved(p, Nested(p, id, allowed)) /\ Nested(p, id, allowed).target = id
<1> DEFINE q == Arrive(Depart(p, id), id)
<1> DEFINE r == Watch(q, p.target, allowed)
<1>1. CASE p.target = id
  <2>1. Nested(p, id, allowed) = p
    BY <1>1 DEF Nested
  <2>2. QED
    BY <1>1, <2>1 DEF Preserved
<1>2. CASE p.target # id
  <2>1. Nested(p, id, allowed) = r
    BY <1>2 DEF Nested
  <2>2. Preserved(p, q) /\ q.target = id
    BY <1>2, GoFacts
  <2> HIDE DEF q
  <2>3. q \in Page /\ Consistent(q)
    BY <2>2 DEF Preserved
  <2>4. r \in Page /\ Routed(q, r) /\ Consistent(r)
    BY <2>3, WatchFacts
  <2> HIDE DEF r
  <2>5. Preserved(p, r) /\ r.target = id
    BY <2>2, <2>3, <2>4, RoutedPreserved
  <2>6. QED
    BY <2>1, <2>5
<1>3. QED
  BY <1>1, <1>2

\* The tab goes back when its target is not listed any more.
Adopts(p) == p.saved = None \/ p.saved.queue = <<>>

LEMMA ResolveFacts ==
    ASSUME NEW p, NEW id \in {Local, Mine, Theirs}, NEW players
    PROVE  /\ Resolve(p, id, players) \in {Local, Mine, Theirs}
           /\ Resolve(p, id, players) # id => Resolve(p, id, players) \in players
           /\ id = Local => Resolve(p, id, players) \in players \cup {Local}
           /\ id # Local \/ ~p.owned => Resolve(p, id, players) = id
BY DEF Resolve

LEMMA LeaveFacts ==
    ASSUME NEW p \in Page, Consistent(p), NEW players, NEW allowed \in BOOLEAN
    PROVE  LET r == Leave(p, players, allowed)
               gone == p.target \notin players \cup {Local}
           IN  /\ r \in Page /\ Consistent(r) /\ r.owned = p.owned /\ r.chain = p.chain
               /\ ~gone => r = p
               /\ gone => r.target = Resolve(p, Local, players)
               /\ gone /\ Adopts(p) => Own(r) = r.saved
               /\ ~(gone /\ Adopts(p)) => Preserved(p, r)
<1> DEFINE gone == p.target \notin players \cup {Local}
<1> DEFINE r == Leave(p, players, allowed)
<1> DEFINE q == IF p.saved = None \/ p.saved.queue = <<>>
                THEN [p EXCEPT !.saved = p.shown] ELSE p
<1> DEFINE id == Resolve(q, Local, players)
<1> DEFINE s == Arrive(Depart(q, id), id)
<1> DEFINE t == Pause(s)
<1> DEFINE w == Watch(t, p.target, allowed)
<1>1. r = IF p.target \in players \cup {Local} THEN p ELSE w
  BY DEF Leave
<1>2. CASE ~gone
  <2>1. r = p
    BY <1>1, <1>2
  <2>2. Preserved(p, r)
    BY <2>1 DEF Preserved
  <2> HIDE DEF r
  <2>3. QED
    BY <1>2, <2>1, <2>2 DEF r
<1>3. CASE gone
  <2>1. /\ q \in Page /\ q.target = p.target /\ q.owned = p.owned
        /\ q.shown = p.shown /\ q.audio = p.audio /\ q.speaking = p.speaking
        /\ q.chain = p.chain
        /\ q.saved = IF Adopts(p) THEN p.shown ELSE p.saved
    <3>1. CASE Adopts(p)
      <4>1. q = [p EXCEPT !.saved = p.shown]
        BY <3>1 DEF Adopts
      <4>2. p.shown \in Listing
        BY DEF Consistent
      <4> HIDE DEF q
      <4>3. QED
        BY <3>1, <4>1, <4>2 DEF Page
    <3>2. CASE ~Adopts(p)
      BY <3>2 DEF Adopts
    <3>3. QED
      BY <3>1, <3>2
  <2> HIDE DEF q
  <2>2. Consistent(q)
    <3>1. CASE Adopts(p)
      <4>1. Own(p) = p.saved /\ ~Current(p.saved, p.audio.src)
        BY <1>3, <3>1 DEF Own, Adopts, Current
      <4>2. QED
        BY <2>1, <4>1 DEF Consistent
    <3>2. CASE ~Adopts(p)
      BY <2>1, <3>2 DEF Consistent, Own
    <3>3. QED
      BY <3>1, <3>2
  <2>3. Own(q) = q.saved /\ q.saved # None
    <3>1. p.shown # None
      BY PageAssumption DEF Consistent, Listing
    <3>2. QED
      BY <1>3, <2>1, <3>1 DEF Own, Adopts
  <2>4. id \in {Local, Mine, Theirs} /\ id # q.target /\ id = Resolve(p, Local, players)
    <3>1. id = Resolve(p, Local, players)
      BY <2>1 DEF Resolve
    <3> HIDE DEF id
    <3>2. QED
      BY <1>3, <2>1, <3>1, ResolveFacts
  <2> HIDE DEF id
  <2>5. Preserved(q, s) /\ s.target = id /\ s.saved = q.saved
    BY <1>3, <2>1, <2>2, <2>4, GoFacts
  <2> HIDE DEF s
  <2>6. Preserved(q, t) /\ t.target = id /\ t.saved = q.saved
    BY <2>5, PausePreserved DEF Preserved
  <2> HIDE DEF t
  <2>7. w \in Page /\ Routed(t, w) /\ Consistent(w)
    BY <2>6, WatchFacts DEF Preserved
  <2> HIDE DEF w
  <2>8. Preserved(q, w) /\ w.target = id /\ Own(w) = q.saved /\ w.saved = q.saved
    <3>1. Preserved(q, w) /\ w.target = id /\ w.saved = q.saved
      BY <2>6, <2>7, RoutedPreserved DEF Preserved
    <3>2. QED
      BY <2>3, <3>1 DEF Preserved
  <2>9. r = w
    BY <1>1, <1>3
  <2> HIDE DEF r
  <2>10. /\ Own(r) = q.saved /\ r.owned = p.owned /\ r.chain = p.chain
         /\ r \in Page /\ Consistent(r)
    BY <2>1, <2>8, <2>9 DEF Preserved
  <2>11. Own(r) = r.saved
    BY <2>8, <2>9, <2>10
  <2>12. ASSUME ~Adopts(p) PROVE Preserved(p, r)
    BY <1>3, <2>1, <2>10, <2>12 DEF Preserved, Own
  <2>13. QED
    BY <1>3, <2>4, <2>8, <2>9, <2>10, <2>11, <2>12 DEF r
<1>4. QED
  BY <1>2, <1>3
LEMMA MovedFacts ==
    ASSUME NEW p \in Page, Consistent(p), NEW id \in {Local, Mine, Theirs}, p.target # id,
           NEW allowed \in BOOLEAN
    PROVE  LET q == Watch(Depart(p, id), p.target, allowed)
           IN  /\ q \in Page /\ q.target = id /\ q.owned = p.owned
               /\ id = Local => Returning(p, q)
               /\ id # Local => Preserved(p, q)
<1> DEFINE d == Depart(p, id)
<1> DEFINE q == Watch(d, p.target, allowed)
<1>1. d \in Page /\ Departed(p, id, d)
  BY DepartFacts DEF Consistent
<1> HIDE DEF d
<1>2. q \in Page /\ Routed(d, q) /\ (Consistent(d) => Consistent(q))
  BY <1>1, WatchFacts
<1> HIDE DEF q
<1>3. q.target = id /\ q.owned = p.owned /\ q.chain = p.chain
  BY <1>1, <1>2 DEF Routed, Departed
<1>4. ASSUME id = Local PROVE Returning(p, q)
  <2>1. Returning(p, d)
    BY <1>1, <1>4, ReturningFacts
  <2>2. d.target # Mine
    BY <2>1, PageAssumption DEF Returning
  <2>3. q.shown = d.shown /\ q.saved = d.saved /\ q.audio = d.audio
    BY <1>2, <2>2 DEF Routed
  <2>4. QED
    BY <1>3, <1>4, <2>1, <2>3 DEF Returning
<1>5. ASSUME id # Local PROVE Preserved(p, q)
  <2>1. Consistent(d) /\ Own(d) = Own(p)
    BY <1>1, <1>5, AwayFacts
  <2>2. Own(q) = Own(d)
    BY <1>2, RoutedOwn
  <2>3. QED
    BY <1>2, <1>3, <2>1, <2>2 DEF Preserved
<1>6. QED
  BY <1>2, <1>3, <1>4, <1>5 DEF q, d

\* A handler's change of the target, to one that is listed or to the own queue.
LEMMA SetTargetFacts ==
    ASSUME NEW p \in Page, Consistent(p), NEW wanted \in {Local, Mine, Theirs},
           NEW players, NEW allowed \in BOOLEAN,
           wanted \in players \cup {Local} \/ p.target = Resolve(p, wanted, players)
    PROVE  /\ Preserved(p, SetTarget(p, wanted, players, allowed))
           /\ SetTarget(p, wanted, players, allowed).target = Resolve(p, wanted, players)
<1> DEFINE id == Resolve(p, wanted, players)
<1> DEFINE q == Watch(Depart(p, id), p.target, allowed)
<1> DEFINE s == Leave(q, players, allowed)
<1> DEFINE r == SetTarget(p, wanted, players, allowed)
<1>1. r = IF p.target = id THEN p ELSE Arrive(s, id)
  BY DEF SetTarget
<1>2. /\ id \in {Local, Mine, Theirs}
      /\ p.target # id => id \in players \cup {Local}
  BY ResolveFacts
<1> SUFFICES Preserved(p, r) /\ r.target = id
  OBVIOUS
<1> HIDE DEF id
<1>3. CASE p.target = id
  BY <1>1, <1>3 DEF Preserved
<1>4. CASE p.target # id
  <2>1. /\ q \in Page /\ q.target = id /\ q.owned = p.owned
        /\ id = Local => Returning(p, q)
        /\ id # Local => Preserved(p, q)
    BY <1>2, <1>4, MovedFacts
  <2>2. r = Arrive(s, id)
    BY <1>1, <1>4
  <2> HIDE DEF q, r
  <2>3. s = q
    BY <1>2, <1>4, <2>1 DEF Leave
  <2>4. r = Arrive(q, id)
    BY <2>2, <2>3
  <2>5. CASE id = Local
    <3>1. /\ r \in Page /\ Consistent(r) /\ r.target = Local /\ r.owned = p.owned
          /\ r.chain = p.chain
          /\ p.saved # None => Own(r) = Own(p)
      BY <1>4, <2>1, <2>4, <2>5, HomeFacts
    <3>2. QED
      BY <1>4, <2>5, <3>1 DEF Preserved, Own
  <2>6. CASE id # Local
    <3>1. /\ r \in Page /\ r.target = id /\ r.owned = p.owned /\ r.saved = q.saved
          /\ r.chain = p.chain /\ r.audio = q.audio /\ r.speaking = q.speaking /\ r.shown \in Listing
      BY <2>1, <2>4, <2>6, ArriveFacts, NoQueueListing DEF Preserved
    <3>2. Own(r) = Own(q)
      BY <2>1, <2>6, <3>1 DEF Own
    <3>3. Consistent(r)
      BY <2>1, <2>6, <3>1, <3>2 DEF Preserved, Consistent
    <3>4. QED
      BY <2>1, <2>6, <3>1, <3>2, <3>3 DEF Preserved
  <2>7. QED
    BY <2>5, <2>6
<1>5. QED
  BY <1>3, <1>4

LEMMA AutoSelectFacts ==
    ASSUME NEW p \in Page, Consistent(p), NEW players, NEW allowed \in BOOLEAN
    PROVE  LET r == AutoSelect(p, players, allowed)
           IN  /\ Preserved(p, r)
               /\ r = p \/ (r.target = Mine /\ Mine \in players)
<1> DEFINE r == AutoSelect(p, players, allowed)
<1> DEFINE q == [p EXCEPT !.chosen = TRUE]
<1> DEFINE n == Nested(q, Mine, allowed)
<1>1. r = IF p.chosen \/ ~p.owned \/ Mine \notin players THEN p ELSE n
  BY DEF AutoSelect
<1>2. CASE p.chosen \/ ~p.owned \/ Mine \notin players
  <2>1. r = p
    BY <1>1, <1>2
  <2> HIDE DEF r
  <2>2. QED
    BY <2>1 DEF Preserved, r
<1>3. CASE ~(p.chosen \/ ~p.owned \/ Mine \notin players)
  <2>1. q \in Page
    BY DEF Page
  <2>2. /\ q.target = p.target /\ q.owned = p.owned /\ q.shown = p.shown
        /\ q.saved = p.saved /\ q.audio = p.audio /\ q.speaking = p.speaking
        /\ q.chain = p.chain
    BY DEF Page
  <2> HIDE DEF q
  <2>3. Consistent(q) /\ Own(q) = Own(p)
    BY <2>2 DEF Consistent, Own
  <2>4. Preserved(q, n) /\ n.target = Mine
    BY <2>1, <2>3, NestedFacts
  <2>5. r = n
    BY <1>1, <1>3
  <2> HIDE DEF n, r
  <2>6. Preserved(p, r) /\ r.target = Mine
    BY <2>2, <2>3, <2>4, <2>5 DEF Preserved
  <2>7. QED
    BY <1>3, <2>6 DEF r
<1>4. QED
  BY <1>2, <1>3

\* Sharing a player that is not listed: the effect goes back to the own queue,
\* and the handler then wipes what is shown.
LEMMA WipedFacts ==
    ASSUME NEW p \in Page, Consistent(p), NEW players, NEW allowed \in BOOLEAN,
           p.target # Mine, Mine \notin players
    PROVE  LET r == SetTarget(p, Mine, players, allowed)
           IN  /\ r \in Page /\ r.owned = p.owned /\ r.target = Local
               /\ r.chain = p.chain /\ r.speaking = None /\ r.shown \in Listing
<1> DEFINE q == Watch(Depart(p, Mine), p.target, allowed)
<1> DEFINE s == Leave(q, players, allowed)
<1> DEFINE r == SetTarget(p, Mine, players, allowed)
<1>1. Mine # Local
  BY PageAssumption
<1>2. Resolve(p, Mine, players) = Mine
  BY <1>1 DEF Resolve
<1>3. r = Arrive(s, Mine)
  BY <1>2 DEF SetTarget
<1>4. /\ q \in Page /\ q.target = Mine /\ q.owned = p.owned /\ q.chain = p.chain
      /\ Consistent(q)
  BY <1>1, MovedFacts DEF Preserved
<1> HIDE DEF q, r
<1>5. Resolve(q, Local, players) = Local
  BY DEF Resolve
<1>6. /\ s \in Page /\ Consistent(s) /\ s.owned = p.owned /\ s.chain = p.chain
      /\ s.target = Local
  BY <1>1, <1>4, <1>5, LeaveFacts
<1> HIDE DEF s
<1>7. s.speaking = None
  BY <1>6 DEF Consistent
<1>8. /\ r \in Page /\ r.owned = p.owned /\ r.target = Local /\ r.chain = p.chain
      /\ r.speaking = None /\ r.shown \in Listing
  BY <1>1, <1>3, <1>6, <1>7, ArriveFacts, NoQueueListing
<1>9. QED
  BY <1>8 DEF r
-----------------------------------------------------------------------------
(* Edits of a sequence.                                                    *)

LEMMA FrontPart ==
    ASSUME NEW S, NEW q \in Seq(S), NEW k \in 0..Len(q)
    PROVE  /\ SubSeq(q, 1, k) \in Seq(S) /\ Len(SubSeq(q, 1, k)) = k
           /\ \A j \in 1..k : SubSeq(q, 1, k)[j] = q[j]
<1>1. Len(q) \in Nat
  OBVIOUS
<1>2. \A j \in 1..k : q[j] \in S
  BY <1>1
<1>3. QED
  BY <1>1, <1>2

LEMMA BackPart ==
    ASSUME NEW S, NEW q \in Seq(S), NEW k \in 1..(Len(q) + 1)
    PROVE  /\ SubSeq(q, k, Len(q)) \in Seq(S)
           /\ Len(SubSeq(q, k, Len(q))) = Len(q) - k + 1
           /\ \A j \in 1..(Len(q) - k + 1) : SubSeq(q, k, Len(q))[j] = q[j + k - 1]
<1>1. Len(q) \in Nat
  OBVIOUS
<1>2. \A j \in 1..(Len(q) - k + 1) : q[j + k - 1] \in S
  BY <1>1
<1>3. QED
  BY <1>1, <1>2

LEMMA Joined ==
    ASSUME NEW S, NEW a \in Seq(S), NEW b \in Seq(S)
    PROVE  /\ a \o b \in Seq(S) /\ Len(a \o b) = Len(a) + Len(b)
           /\ \A j \in 1..Len(a) : (a \o b)[j] = a[j]
           /\ \A j \in (Len(a) + 1)..(Len(a) + Len(b)) : (a \o b)[j] = b[j - Len(a)]
<1>1. Len(a) \in Nat /\ Len(b) \in Nat
  OBVIOUS
<1>2. QED
  BY <1>1

LEMMA Removing ==
    ASSUME NEW S, NEW q \in Seq(S), NEW k \in 1..Len(q)
    PROVE  /\ RemoveAt(q, k) \in Seq(S)
           /\ Len(RemoveAt(q, k)) = Len(q) - 1
           /\ \A j \in 1..(k - 1) : RemoveAt(q, k)[j] = q[j]
           /\ \A j \in k..(Len(q) - 1) : RemoveAt(q, k)[j] = q[j + 1]
<1> DEFINE i == k - 1
<1> DEFINE front == SubSeq(q, 1, i)
<1> DEFINE back == SubSeq(q, k + 1, Len(q))
<1>1. Len(q) \in Nat /\ k \in Nat /\ k - 1 \in 0..Len(q) /\ k + 1 \in 1..(Len(q) + 1)
  OBVIOUS
<1>2. /\ front \in Seq(S) /\ Len(front) = k - 1
      /\ \A j \in 1..(k - 1) : front[j] = q[j]
  <2>1. i \in 0..Len(q) /\ i = k - 1
    BY <1>1
  <2> HIDE DEF i
  <2>2. /\ front \in Seq(S) /\ Len(front) = i
        /\ \A j \in 1..i : front[j] = q[j]
    BY <2>1, FrontPart
  <2> HIDE DEF front
  <2>3. QED
    BY <2>1, <2>2
<1>3. /\ back \in Seq(S) /\ Len(back) = Len(q) - (k + 1) + 1
      /\ \A j \in 1..(Len(q) - (k + 1) + 1) : back[j] = q[j + (k + 1) - 1]
  BY <1>1, BackPart
<1>4. RemoveAt(q, k) = front \o back
  BY DEF RemoveAt
<1> HIDE DEF front, back
<1>5. /\ front \o back \in Seq(S) /\ Len(front \o back) = Len(front) + Len(back)
      /\ \A j \in 1..Len(front) : (front \o back)[j] = front[j]
      /\ \A j \in (Len(front) + 1)..(Len(front) + Len(back)) :
            (front \o back)[j] = back[j - Len(front)]
  BY <1>2, <1>3, Joined
<1>6. Len(front \o back) = Len(q) - 1
  BY <1>1, <1>2, <1>3, <1>5
<1>7. ASSUME NEW j \in 1..(k - 1) PROVE (front \o back)[j] = q[j]
  BY <1>1, <1>2, <1>5
<1>8. ASSUME NEW j \in k..(Len(q) - 1) PROVE (front \o back)[j] = q[j + 1]
  <2>1. (front \o back)[j] = back[j - (k - 1)]
    BY <1>1, <1>2, <1>3, <1>5
  <2>2. j - (k - 1) \in 1..(Len(q) - (k + 1) + 1) /\ j - (k - 1) + (k + 1) - 1 = j + 1
    BY <1>1
  <2>3. back[j - (k - 1)] = q[j - (k - 1) + (k + 1) - 1]
    BY <1>3, <2>2
  <2>4. QED
    BY <2>1, <2>2, <2>3
<1>9. QED
  BY <1>4, <1>5, <1>6, <1>7, <1>8

LEMMA Inserting ==
    ASSUME NEW S, NEW q \in Seq(S), NEW k \in 1..(Len(q) + 1), NEW e \in S
    PROVE  /\ InsertAt(q, k, e) \in Seq(S)
           /\ Len(InsertAt(q, k, e)) = Len(q) + 1
           /\ \A j \in 1..(k - 1) : InsertAt(q, k, e)[j] = q[j]
           /\ InsertAt(q, k, e)[k] = e
           /\ \A j \in k..Len(q) : InsertAt(q, k, e)[j + 1] = q[j]
<1> DEFINE i == k - 1
<1> DEFINE front == SubSeq(q, 1, i)
<1> DEFINE back == SubSeq(q, k, Len(q))
<1> DEFINE s == front \o <<e>>
<1>1. Len(q) \in Nat /\ k \in Nat /\ k - 1 \in 0..Len(q)
  OBVIOUS
<1>2. /\ front \in Seq(S) /\ Len(front) = k - 1
      /\ \A j \in 1..(k - 1) : front[j] = q[j]
  <2>1. i \in 0..Len(q) /\ i = k - 1
    BY <1>1
  <2> HIDE DEF i
  <2>2. /\ front \in Seq(S) /\ Len(front) = i
        /\ \A j \in 1..i : front[j] = q[j]
    BY <2>1, FrontPart
  <2> HIDE DEF front
  <2>3. QED
    BY <2>1, <2>2
<1>3. /\ back \in Seq(S) /\ Len(back) = Len(q) - k + 1
      /\ \A j \in 1..(Len(q) - k + 1) : back[j] = q[j + k - 1]
  BY <1>1, BackPart
<1>4. InsertAt(q, k, e) = s \o back
  BY DEF InsertAt
<1> HIDE DEF front, back
<1>5. /\ s \in Seq(S) /\ Len(s) = k /\ s[k] = e
      /\ \A j \in 1..(k - 1) : s[j] = q[j]
  BY <1>1, <1>2
<1> HIDE DEF s
<1>6. /\ s \o back \in Seq(S) /\ Len(s \o back) = Len(s) + Len(back)
      /\ \A j \in 1..Len(s) : (s \o back)[j] = s[j]
      /\ \A j \in (Len(s) + 1)..(Len(s) + Len(back)) : (s \o back)[j] = back[j - Len(s)]
  BY <1>3, <1>5, Joined
<1>7. Len(s \o back) = Len(q) + 1 /\ (s \o back)[k] = e
  BY <1>1, <1>3, <1>5, <1>6
<1>8. ASSUME NEW j \in 1..(k - 1) PROVE (s \o back)[j] = q[j]
  BY <1>1, <1>5, <1>6
<1>9. ASSUME NEW j \in k..Len(q) PROVE (s \o back)[j + 1] = q[j]
  <2>1. j + 1 \in (Len(s) + 1)..(Len(s) + Len(back)) /\ j + 1 - Len(s) = j - k + 1
    BY <1>1, <1>3, <1>5
  <2>2. (s \o back)[j + 1] = back[j + 1 - Len(s)]
    BY <1>6, <2>1
  <2>3. j - k + 1 \in 1..(Len(q) - k + 1) /\ j - k + 1 + k - 1 = j
    BY <1>1
  <2>4. back[j - k + 1] = q[j - k + 1 + k - 1]
    BY <1>3, <2>3
  <2>5. QED
    BY <2>1, <2>2, <2>3, <2>4
<1>10. QED
  BY <1>4, <1>6, <1>7, <1>8, <1>9

\* Where an element is after another one, or itself, has been moved.
After(from, to, cur) ==
    CASE from = cur -> to
      [] from < cur /\ to >= cur -> cur - 1
      [] from > cur /\ to <= cur -> cur + 1
      [] OTHER -> cur

LEMMA Moving ==
    ASSUME NEW S, NEW q \in Seq(S), NEW from \in 1..Len(q), NEW to \in 1..Len(q),
           from # to, NEW cur \in 0..Len(q)
    PROVE  LET m == InsertAt(RemoveAt(q, from), to, q[from])
           IN  /\ m \in Seq(S) /\ Len(m) = Len(q)
               /\ After(from, to, cur) \in 0..Len(q)
               /\ cur > 0 => After(from, to, cur) > 0 /\ m[After(from, to, cur)] = q[cur]
<1> DEFINE rest == RemoveAt(q, from)
<1> DEFINE e == q[from]
<1> DEFINE m == InsertAt(rest, to, e)
<1> DEFINE at == After(from, to, cur)
<1>1. Len(q) \in Nat /\ e \in S
  OBVIOUS
<1>2. /\ rest \in Seq(S) /\ Len(rest) = Len(q) - 1
      /\ \A j \in 1..(from - 1) : rest[j] = q[j]
      /\ \A j \in from..(Len(q) - 1) : rest[j] = q[j + 1]
  BY Removing
<1> HIDE DEF rest, e
<1>3. to \in 1..(Len(rest) + 1) /\ Len(rest) + 1 = Len(q)
  BY <1>1, <1>2
<1>4. m = InsertAt(rest, to, e)
  OBVIOUS
<1> HIDE DEF m
<1>5. /\ m \in Seq(S) /\ Len(m) = Len(rest) + 1
      /\ \A j \in 1..(to - 1) : m[j] = rest[j]
      /\ m[to] = e
      /\ \A j \in to..Len(rest) : m[j + 1] = rest[j]
  <2>1. e \in S /\ rest \in Seq(S) /\ to \in 1..(Len(rest) + 1)
    BY <1>1, <1>2, <1>3
  <2>2. InsertAt(rest, to, e) \in Seq(S) /\ Len(InsertAt(rest, to, e)) = Len(rest) + 1
    BY <2>1, Inserting
  <2>3. \A j \in 1..(to - 1) : m[j] = rest[j]
    BY <2>1, <1>4, Inserting
  <2>4. m[to] = e
    BY <2>1, <1>4, Inserting
  <2>5. \A j \in to..Len(rest) : m[j + 1] = rest[j]
    BY <2>1, <1>4, Inserting
  <2>6. QED
    BY <1>4, <2>2, <2>3, <2>4, <2>5
<1>6. at \in 0..Len(q) /\ (cur > 0 => at > 0)
  BY <1>1 DEF After
<1>7. ASSUME cur > 0 PROVE m[at] = q[cur]
  <2>1. CASE from = cur
    <3>1. at = to
      BY <2>1 DEF After
    <3>2. QED
      BY <1>5, <2>1, <3>1 DEF e
  <2>2. CASE from < cur /\ to >= cur
    <3>1. at = cur - 1 /\ cur - 1 \in 1..(to - 1) /\ cur - 1 \in from..(Len(q) - 1)
      BY <1>1, <2>2 DEF After
    <3>2. m[at] = rest[cur - 1] /\ rest[cur - 1] = q[(cur - 1) + 1]
      BY <1>2, <1>5, <3>1
    <3>3. (cur - 1) + 1 = cur
      OBVIOUS
    <3>4. QED
      BY <3>2, <3>3
  <2>3. CASE from > cur /\ to <= cur
    <3>1. /\ at = cur + 1 /\ cur + 1 \in (to + 1)..Len(q) /\ (cur + 1) - 1 = cur
          /\ cur \in 1..(from - 1)
      BY <1>1, <1>7, <2>3 DEF After
    <3>2. m[at] = rest[(cur + 1) - 1] /\ rest[cur] = q[cur]
      BY <1>2, <1>3, <1>5, <3>1
    <3>3. QED
      BY <3>1, <3>2
  <2>4. CASE from < cur /\ to < cur
    <3>1. /\ at = cur /\ cur \in (to + 1)..Len(q) /\ cur - 1 \in from..(Len(q) - 1)
          /\ (cur - 1) + 1 = cur
      BY <1>1, <2>4 DEF After
    <3>2. m[at] = rest[cur - 1] /\ rest[cur - 1] = q[(cur - 1) + 1]
      BY <1>2, <1>3, <1>5, <3>1
    <3>3. QED
      BY <3>1, <3>2
  <2>5. CASE from > cur /\ to > cur
    <3>1. at = cur /\ cur \in 1..(to - 1) /\ cur \in 1..(from - 1)
      BY <1>1, <1>7, <2>5 DEF After
    <3>2. QED
      BY <1>2, <1>5, <3>1
  <2>6. QED
    BY <1>1, <2>1, <2>2, <2>3, <2>4, <2>5
<1>8. QED
  BY <1>3, <1>5, <1>6, <1>7 DEF m, rest, e
-----------------------------------------------------------------------------
(* The own queue.                                                          *)

Entry == Track \cup {Mine, Theirs}

\* The target is the own queue.
AtHome(p) == p \in Page /\ Consistent(p) /\ p.target = Local

\* What the functions that load a track need of the page they are given, whose
\* place may be outside its queue for a moment.
Idle(p) == p \in Page /\ p.target = Local /\ p.speaking = None

\* What the functions for the own queue leave alone.
Aside(p, q) ==
    /\ q.owned = p.owned /\ q.chosen = p.chosen /\ q.saved = p.saved
    /\ q.remote = p.remote /\ q.cache = p.cache /\ q.chain = p.chain

LEMMA AsideTransitive ==
    ASSUME NEW p, NEW q, NEW r, Aside(p, q), Aside(q, r)
    PROVE  Aside(p, r)
BY DEF Aside

LEMMA AtHomeIdle ==
    ASSUME NEW p, AtHome(p)
    PROVE  Idle(p) /\ p.shown \in Listing
BY DEF AtHome, Idle, Consistent

LEMMA IdleAtHome ==
    ASSUME NEW p, Idle(p), p.shown \in Listing,
           ~p.audio.left /\ p.audio.src # None => Current(p.shown, p.audio.src)
    PROVE  AtHome(p)
BY DEF AtHome, Idle, Consistent, Own

LEMMA ListFacts ==
    ASSUME NEW queue \in Seq(Entry), NEW i \in Nat
    PROVE  LET list == [queue |-> queue, index |-> i]
           IN  /\ list \in QueueType /\ list.queue = queue /\ list.index = i
               /\ i <= Len(queue) => list \in Listing
BY DEF QueueType, Listing, Entry

LEMMA ListingFacts ==
    ASSUME NEW list \in QueueType
    PROVE  /\ list.queue \in Seq(Entry) /\ list.index \in Nat
           /\ Len(list.queue) \in Nat /\ DOMAIN list.queue = 1..Len(list.queue)
           /\ list = [queue |-> list.queue, index |-> list.index]
           /\ list \in Listing => list.index \in 0..Len(list.queue)
BY DEF QueueType, Listing, Entry

LEMMA WithList ==
    ASSUME NEW p, Idle(p), NEW list \in QueueType
    PROVE  /\ Idle([p EXCEPT !.shown = list])
           /\ [p EXCEPT !.shown = list].shown = list
           /\ [p EXCEPT !.shown = list].audio = p.audio
           /\ [p EXCEPT !.shown = list].view = p.view
           /\ [p EXCEPT !.shown = list].undo = p.undo
           /\ Aside(p, [p EXCEPT !.shown = list])
<1> DEFINE q == [p EXCEPT !.shown = list]
<1>1. Idle(q)
  BY DEF Idle, Page
<1>2. q.shown = list /\ q.audio = p.audio /\ q.view = p.view /\ q.undo = p.undo
  BY DEF Idle, Page
<1>3. Aside(p, q)
  BY DEF Idle, Page, Aside
<1>4. QED
  BY <1>1, <1>2, <1>3

LEMMA WithIndex ==
    ASSUME NEW p, Idle(p), NEW i \in Nat
    PROVE  [p EXCEPT !.shown.index = i]
             = [p EXCEPT !.shown = [queue |-> p.shown.queue, index |-> i]]
BY DEF Idle, Page, QueueType

LEMMA WithTracks ==
    ASSUME NEW p, Idle(p), NEW queue \in Seq(Entry)
    PROVE  [p EXCEPT !.shown.queue = queue]
             = [p EXCEPT !.shown = [queue |-> queue, index |-> p.shown.index]]
BY DEF Idle, Page, QueueType

\* Loading the current track.
LEMMA CurrentLoaded ==
    ASSUME NEW p, Idle(p), p.shown \in Listing, NEW media, Current(p.shown, media)
    PROVE  /\ AtHome(Load(p, media)) /\ Aside(p, Load(p, media))
           /\ AtHome(Resume(Load(p, media))) /\ Aside(p, Resume(Load(p, media)))
<1> DEFINE q == Load(p, media)
<1> DEFINE r == Resume(q)
<1>1. media \in Sources
  <2>1. media = p.shown.queue[p.shown.index] /\ p.shown.index \in DOMAIN p.shown.queue
    BY DEF Current
  <2>2. p.shown.queue \in Seq(Entry)
    BY ListingFacts DEF Listing
  <2>3. QED
    BY <2>1, <2>2 DEF Entry, Sources
<1>2. p \in Page
  BY DEF Idle
<1>3. q \in Page /\ Beside(p, q) /\ q.audio.src = media
  BY <1>1, <1>2, LoadFacts
<1> HIDE DEF q
<1>4. r \in Page /\ Beside(q, r) /\ r.audio.src = q.audio.src
  BY <1>3, ResumeFacts
<1> HIDE DEF r
<1>5. AtHome(q)
  BY <1>3, IdleAtHome DEF Beside, Idle
<1>6. AtHome(r)
  BY <1>3, <1>4, IdleAtHome DEF Beside, Idle
<1>7. Aside(p, q) /\ Aside(p, r)
  BY <1>3, <1>4 DEF Beside, Aside
<1>8. QED
  BY <1>5, <1>6, <1>7 DEF q, r

LEMMA OpenFacts ==
    ASSUME NEW p, Idle(p), NEW i \in DOMAIN p.shown.queue
    PROVE  AtHome(OpenIndex(p, i)) /\ Aside(p, OpenIndex(p, i))
<1> DEFINE list == [queue |-> p.shown.queue, index |-> i]
<1> DEFINE q == [p EXCEPT !.shown = list]
<1> DEFINE media == p.shown.queue[i]
<1>1. /\ p.shown.queue \in Seq(Entry) /\ i \in Nat /\ i <= Len(p.shown.queue)
  <2>1. p.shown \in QueueType
    BY DEF Idle, Page
  <2>2. QED
    BY <2>1, ListingFacts
<1>2. /\ list \in QueueType /\ list.queue = p.shown.queue /\ list.index = i
      /\ list \in Listing
  BY <1>1, ListFacts
<1>3. OpenIndex(p, i) = Resume(Load(q, media))
  BY <1>1, WithIndex DEF OpenIndex
<1> HIDE DEF list
<1>4. Idle(q) /\ q.shown = list /\ Aside(p, q)
  BY <1>2, WithList
<1> HIDE DEF q
<1>5. Current(q.shown, media)
  <2>1. list # None
    BY <1>2, PageAssumption
  <2>2. QED
    BY <1>2, <1>4, <2>1 DEF Current
<1> HIDE DEF media
<1> DEFINE r == Resume(Load(q, media))
<1>6. AtHome(r) /\ Aside(q, r)
  BY <1>2, <1>4, <1>5, CurrentLoaded
<1>7. OpenIndex(p, i) = r
  BY <1>3
<1> HIDE DEF r
<1>8. QED
  BY <1>4, <1>6, <1>7 DEF Aside

LEMMA StopFacts ==
    ASSUME NEW p, Idle(p)
    PROVE  /\ AtHome(StopLocal(p)) /\ StopLocal(p).audio.src = None
           /\ StopLocal(p).shown.queue = p.shown.queue
           /\ Aside(p, StopLocal(p))
<1> DEFINE q == Unload(p)
<1> DEFINE list == [queue |-> q.shown.queue, index |-> 0]
<1> DEFINE r == StopLocal(p)
<1>1. p \in Page /\ p.shown \in QueueType
  BY DEF Idle, Page
<1>2. q \in Page /\ Beside(p, q) /\ q.audio.src = None
  BY <1>1, UnloadFacts
<1>3. r = [q EXCEPT !.shown.index = 0, !.view = "silent"]
  BY DEF StopLocal
<1> HIDE DEF q
<1>4. q.shown = p.shown /\ q.shown \in QueueType
  BY <1>1, <1>2 DEF Beside
<1>5. r = [q EXCEPT !.shown = list, !.view = "silent"]
  BY <1>2, <1>3 DEF Page, QueueType
<1>6. list \in QueueType /\ list \in Listing /\ list.queue = p.shown.queue
  <2>1. q.shown.queue \in Seq(Entry) /\ 0 <= Len(q.shown.queue) /\ 0 \in Nat
    BY <1>4, ListingFacts
  <2>2. list \in QueueType /\ list.queue = q.shown.queue /\ list \in Listing
    BY <2>1 DEF QueueType, Listing, Entry
  <2> HIDE DEF list
  <2>3. QED
    BY <1>4, <2>2
<1> HIDE DEF list, r
<1>7. r \in Page
  <2>1. q \in Page /\ list \in QueueType
    BY <1>2, <1>6
  <2>2. QED
    BY <1>5, <2>1 DEF Page, Views
<1>8. /\ r.target = q.target /\ r.speaking = q.speaking /\ r.shown = list
      /\ r.audio = q.audio /\ Aside(q, r)
  BY <1>2, <1>5 DEF Page, Aside
<1>9. AtHome(r)
  BY <1>2, <1>6, <1>7, <1>8, IdleAtHome DEF Beside, Idle
<1>10. Aside(p, r)
  BY <1>2, <1>8 DEF Beside, Aside
<1>11. QED
  BY <1>2, <1>6, <1>8, <1>9, <1>10 DEF r

\* An edit that keeps the current track.
LEMMA EditFacts ==
    ASSUME NEW p, AtHome(p), NEW list \in Listing,
           p.shown.index > 0 => /\ list.index > 0
                                /\ list.queue[list.index] = p.shown.queue[p.shown.index]
    PROVE  /\ AtHome([p EXCEPT !.shown = list])
           /\ Aside(p, [p EXCEPT !.shown = list])
<1> DEFINE q == [p EXCEPT !.shown = list]
<1>1. list \in QueueType /\ Idle(p)
  BY AtHomeIdle DEF Listing
<1>2. Idle(q) /\ q.shown = list /\ q.audio = p.audio /\ Aside(p, q)
  BY <1>1, WithList
<1> HIDE DEF q
<1>3. ASSUME ~p.audio.left, p.audio.src # None
      PROVE  Current(list, p.audio.src)
  <2>1. Current(p.shown, p.audio.src)
    BY <1>3, PageAssumption DEF AtHome, Consistent, Own
  <2>2. p.shown.index > 0
    <3>1. p.shown \in QueueType
      BY <1>1 DEF Idle, Page
    <3>2. QED
      BY <2>1, <3>1, ListingFacts DEF Current
  <2>3. list.index \in DOMAIN list.queue
    BY <1>1, <2>2, ListingFacts
  <2>4. list # None
    BY <1>1, PageAssumption
  <2>5. QED
    BY <2>1, <2>2, <2>3, <2>4 DEF Current
<1>4. AtHome(q)
  BY <1>2, <1>3, IdleAtHome
<1>5. QED
  BY <1>2, <1>4 DEF q
\* A step of the own queue, from p to q.
Goes(p, q) == AtHome(q) /\ Aside(p, q)

LEMMA GoesTransitive ==
    ASSUME NEW p, NEW q, NEW r, Goes(p, q), Goes(q, r)
    PROVE  Goes(p, r)
BY AsideTransitive DEF Goes

LEMMA OpenGoes ==
    ASSUME NEW p, AtHome(p), NEW i
    PROVE  Goes(p, OpenIndex(p, i))
<1>1. CASE i \in DOMAIN p.shown.queue
  BY <1>1, AtHomeIdle, OpenFacts DEF Goes
<1>2. CASE i \notin DOMAIN p.shown.queue
  <2>1. OpenIndex(p, i) = p
    BY <1>2 DEF OpenIndex
  <2>2. QED
    BY <2>1 DEF Goes, Aside
<1>3. QED
  BY <1>1, <1>2

LEMMA NextsFacts ==
    ASSUME NEW p, AtHome(p), NEW q \in Nexts(p)
    PROVE  Goes(p, q)
<1>1. q = p \/ q = StopLocal(p) \/ \E j : q = OpenIndex(p, j)
  BY DEF Nexts
<1>2. QED
  BY <1>1, AtHomeIdle, OpenGoes, StopFacts DEF Goes, Aside

LEMMA AdvancesFacts ==
    ASSUME NEW p, AtHome(p), NEW q \in Advances(p)
    PROVE  Goes(p, q)
<1>1. q \in Nexts(p) \/ q = OpenIndex(p, p.shown.index)
  BY DEF Advances
<1>2. QED
  BY <1>1, NextsFacts, OpenGoes

LEMMA WithView ==
    ASSUME NEW p \in Page, NEW view \in Views
    PROVE  LET q == [p EXCEPT !.view = view]
           IN  /\ q \in Page /\ q.view = view
               /\ q.target = p.target /\ q.owned = p.owned /\ q.shown = p.shown
               /\ q.saved = p.saved /\ q.speaking = p.speaking /\ q.audio = p.audio
               /\ q.undo = p.undo /\ Aside(p, q)
               /\ Consistent(p) => Consistent(q)
<1> DEFINE q == [p EXCEPT !.view = view]
<1>1. q \in Page /\ q.view = view
  BY DEF Page
<1>2. /\ q.target = p.target /\ q.owned = p.owned /\ q.shown = p.shown
      /\ q.saved = p.saved /\ q.speaking = p.speaking /\ q.audio = p.audio
      /\ q.undo = p.undo /\ Aside(p, q)
  BY DEF Page, Aside
<1> HIDE DEF q
<1>3. Consistent(p) => Consistent(q)
  BY <1>2 DEF Consistent, Own
<1>4. QED
  BY <1>1, <1>2, <1>3 DEF q

\* The end of a track, seen by the effect on the status.
LEMMA EndedFacts ==
    ASSUME NEW p \in Page, Consistent(p), NEW q \in Ended(p)
    PROVE  /\ p.target = Local => Goes(p, q)
           /\ p.target # Local => q = p
<1> DEFINE r == [p EXCEPT !.view = "ended"]
<1>1. "ended" \in Views
  BY DEF Views
<1>2. r \in Page /\ r.target = p.target /\ Consistent(r) /\ Aside(p, r)
  BY <1>1, WithView
<1>3. p.target = Local => q = p \/ q \in Advances(r)
  BY DEF Ended
<1> HIDE DEF r
<1>4. p.target = Local => Goes(p, q)
  <2>1. SUFFICES ASSUME p.target = Local PROVE Goes(p, q)
    OBVIOUS
  <2>2. AtHome(p) /\ Goes(p, r)
    BY <1>2, <2>1 DEF AtHome, Goes
  <2>3. q \in Advances(r) => Goes(r, q)
    BY <2>2, AdvancesFacts DEF Goes
  <2>4. Goes(p, p)
    BY <2>2 DEF Goes, Aside
  <2>5. QED
    BY <1>3, <2>1, <2>2, <2>3, <2>4, GoesTransitive
<1>5. p.target # Local => q = p
  BY DEF Ended
<1>6. QED
  BY <1>4, <1>5

LEMMA RememberFacts ==
    ASSUME NEW p, AtHome(p)
    PROVE  Goes(p, Remember(p)) /\ Remember(p).shown = p.shown
<1> DEFINE u == [shown |-> p.shown, view |-> p.view]
<1> DEFINE q == Remember(p)
<1>1. p \in Page /\ p.shown \in Listing /\ p.view \in Views
  BY DEF AtHome, Consistent, Page
<1>2. u \in [shown : Listing, view : Views]
  BY <1>1
<1>3. q = [p EXCEPT !.undo = u]
  BY DEF Remember
<1> HIDE DEF u, q
<1>4. q \in Page
  BY <1>1, <1>2, <1>3 DEF Page
<1>5. /\ q.target = p.target /\ q.shown = p.shown /\ q.saved = p.saved
      /\ q.owned = p.owned /\ q.speaking = p.speaking /\ q.audio = p.audio
      /\ Aside(p, q)
  BY <1>1, <1>3 DEF Page, Aside
<1>6. AtHome(q)
  BY <1>4, <1>5 DEF AtHome, Consistent, Own
<1>7. QED
  BY <1>5, <1>6 DEF q, Goes

\* Removing a track: the place follows its track.
LEMMA RemovedFacts ==
    ASSUME NEW p, AtHome(p), NEW i \in DOMAIN p.shown.queue
    PROVE  Goes(p, Removed(p, i))
<1> DEFINE queue == p.shown.queue
<1> DEFINE cur == p.shown.index
<1> DEFINE rest == RemoveAt(queue, i)
<1> DEFINE q == [p EXCEPT !.shown.queue = rest]
<1>1. Idle(p) /\ p.shown \in Listing /\ p.shown \in QueueType
  BY AtHomeIdle DEF Listing
<1>2. /\ queue \in Seq(Entry) /\ Len(queue) \in Nat /\ i \in 1..Len(queue)
      /\ cur \in 0..Len(queue)
  BY <1>1, ListingFacts
<1>3. /\ rest \in Seq(Entry) /\ Len(rest) = Len(queue) - 1
      /\ \A j \in 1..(i - 1) : rest[j] = queue[j]
      /\ \A j \in i..(Len(queue) - 1) : rest[j] = queue[j + 1]
  BY <1>2, Removing
<1> DEFINE k == IF i > Len(rest) THEN Len(rest) ELSE i
<1>4. Removed(p, i) = CASE i = cur /\ rest = <<>> -> StopLocal(q)
                        [] i = cur /\ rest # <<>> -> OpenIndex(q, k)
                        [] i < cur -> [q EXCEPT !.shown.index = cur - 1]
                        [] OTHER -> q
  BY DEF Removed
<1> DEFINE same == [queue |-> rest, index |-> cur]
<1>5. q = [p EXCEPT !.shown = same]
  BY <1>1, <1>3, WithTracks
<1>6. same \in QueueType /\ same.queue = rest
  BY <1>2, <1>3, ListFacts
<1> HIDE DEF k, q, rest, queue, cur, same
<1>7. Idle(q) /\ q.shown = same /\ q.shown.queue = rest /\ Aside(p, q)
  BY <1>1, <1>5, <1>6, WithList
<1>8. CASE i = cur
  <2>1. ASSUME rest = <<>> PROVE Goes(p, Removed(p, i))
    <3>1. Removed(p, i) = StopLocal(q)
      BY <1>2, <1>4, <1>8, <2>1
    <3>2. QED
      BY <1>7, <3>1, StopFacts, AsideTransitive DEF Goes
  <2>2. ASSUME rest # <<>> PROVE Goes(p, Removed(p, i))
    <3>1. Removed(p, i) = OpenIndex(q, k)
      BY <1>2, <1>4, <1>8, <2>2
    <3>2. Len(rest) \in Nat /\ Len(rest) # 0
      BY <1>3, <2>2
    <3>3. k \in 1..Len(rest)
      BY <1>2, <3>2 DEF k
    <3>4. k \in DOMAIN q.shown.queue
      BY <1>3, <1>7, <3>3
    <3>5. QED
      BY <1>7, <3>1, <3>4, OpenFacts, AsideTransitive DEF Goes
  <2>3. QED
    BY <2>1, <2>2
<1>9. CASE i < cur
  <2> DEFINE list == [queue |-> rest, index |-> cur - 1]
  <2>1. Removed(p, i) = [q EXCEPT !.shown.index = cur - 1]
    BY <1>2, <1>4, <1>9
  <2>2. Removed(p, i) = [p EXCEPT !.shown = list]
    <3>1. cur - 1 \in Nat
      BY <1>2, <1>9
    <3>2. [q EXCEPT !.shown.index = cur - 1] = [q EXCEPT !.shown = list]
      BY <1>7, <3>1, WithIndex
    <3>3. [q EXCEPT !.shown = list] = [p EXCEPT !.shown = list]
      BY <1>1, <1>5 DEF Idle, Page
    <3>4. QED
      BY <2>1, <3>2, <3>3
  <2>3. /\ cur - 1 \in Nat /\ cur - 1 <= Len(rest)
        /\ rest[cur - 1] = queue[cur]
    <3>1. cur - 1 \in i..(Len(queue) - 1) /\ (cur - 1) + 1 = cur
      BY <1>2, <1>9
    <3>2. rest[cur - 1] = queue[(cur - 1) + 1]
      BY <1>3, <3>1
    <3>3. QED
      BY <1>2, <1>3, <3>1, <3>2
  <2>4. /\ list \in Listing /\ list.index = cur - 1 /\ list.queue = rest
    BY <1>3, <2>3, ListFacts
  <2> HIDE DEF list
  <2>5. cur - 1 > 0
    BY <1>2, <1>9
  <2>6. Goes(p, [p EXCEPT !.shown = list])
    BY <2>3, <2>4, <2>5, EditFacts DEF cur, queue, Goes
  <2>7. QED
    BY <2>2, <2>6
<1>10. CASE i > cur
  <2> DEFINE list == [queue |-> rest, index |-> cur]
  <2>1. Removed(p, i) = q
    BY <1>2, <1>4, <1>10
  <2>2. Removed(p, i) = [p EXCEPT !.shown = list]
    BY <1>5, <2>1 DEF same
  <2>3. cur \in Nat /\ cur <= Len(rest)
    BY <1>2, <1>3, <1>10
  <2>4. cur > 0 => rest[cur] = queue[cur]
    <3>1. cur > 0 => cur \in 1..(i - 1)
      BY <1>2, <1>10
    <3>2. QED
      BY <1>3, <3>1
  <2>5. /\ list \in Listing /\ list.index = cur /\ list.queue = rest
    BY <1>3, <2>3, ListFacts
  <2> HIDE DEF list
  <2>6. Goes(p, [p EXCEPT !.shown = list])
    BY <2>4, <2>5, EditFacts DEF cur, queue, Goes
  <2>7. QED
    BY <2>2, <2>6
<1>11. QED
  <2>1. i = cur \/ i < cur \/ i > cur
    BY <1>2
  <2>2. QED
    BY <1>8, <1>9, <1>10, <2>1

LEMMA MovedTrackFacts ==
    ASSUME NEW p, AtHome(p), NEW from \in DOMAIN p.shown.queue,
           NEW to \in DOMAIN p.shown.queue, from # to
    PROVE  Goes(p, Moved(p, from, to))
<1> DEFINE queue == p.shown.queue
<1> DEFINE cur == p.shown.index
<1> DEFINE m == InsertAt(RemoveAt(queue, from), to, queue[from])
<1> DEFINE at == After(from, to, cur)
<1> DEFINE list == [queue |-> m, index |-> at]
<1>1. Moved(p, from, to) = [p EXCEPT !.shown = list]
  BY DEF Moved, WithQueue, After
<1>2. /\ queue \in Seq(Entry) /\ Len(queue) \in Nat
      /\ from \in 1..Len(queue) /\ to \in 1..Len(queue) /\ cur \in 0..Len(queue)
  BY AtHomeIdle, ListingFacts DEF Listing
<1> HIDE DEF queue, cur
<1>3. /\ m \in Seq(Entry) /\ Len(m) = Len(queue) /\ at \in 0..Len(queue)
      /\ cur > 0 => at > 0 /\ m[at] = queue[cur]
  BY <1>2, Moving
<1> HIDE DEF m, at
<1>4. at \in Nat /\ at <= Len(m)
  BY <1>2, <1>3
<1>5. list \in Listing /\ list.index = at /\ list.queue = m
  BY <1>3, <1>4, ListFacts
<1> HIDE DEF list
<1>6. QED
  BY <1>1, <1>3, <1>5, EditFacts DEF cur, queue, Goes
\* An undo: what it loads after it has moved on is marked.
LEMMA RestoredFacts ==
    ASSUME NEW q, AtHome(q), NEW list \in Listing, NEW view \in Views
    PROVE  Goes(q, IF list.index \notin DOMAIN list.queue THEN q
                   ELSE LET r == [Load(q, list.queue[list.index])
                                    EXCEPT !.audio.left = q.shown # list]
                        IN  IF view = "playing" THEN Resume(r) ELSE r)
<1> DEFINE media == list.queue[list.index]
<1> DEFINE l == Load(q, media)
<1> DEFINE b == q.shown # list
<1> DEFINE m == [l.audio EXCEPT !.left = b]
<1> DEFINE r == [l EXCEPT !.audio.left = b]
<1> DEFINE s == Resume(r)
<1> SUFFICES ASSUME list.index \in DOMAIN list.queue
             PROVE  Goes(q, r) /\ Goes(q, s)
  <2>1. Goes(q, q)
    BY DEF Goes, Aside
  <2>2. QED
    BY <2>1, Zenon
<1>1. q \in Page /\ q.target = Local /\ q.speaking = None /\ q.shown \in Listing
  BY AtHomeIdle DEF AtHome, Idle
<1>2. Current(list, media) /\ media \in Sources
  <2>1. list \in QueueType /\ list # None
    BY PageAssumption DEF Listing
  <2>2. list.queue \in Seq(Entry)
    BY <2>1, ListingFacts
  <2>3. media \in Sources
    BY <2>2 DEF Entry, Sources
  <2>4. QED
    BY <2>1, <2>3 DEF Current
<1> HIDE DEF media
<1>3. l \in Page /\ Beside(q, l) /\ l.audio.src = media
  BY <1>1, <1>2, LoadFacts
<1> HIDE DEF l
<1>4. b \in BOOLEAN /\ (~b => q.shown = list)
  OBVIOUS
<1>5. r = [l EXCEPT !.audio = m]
  BY <1>3 DEF Page
<1> HIDE DEF b
<1>6. m \in Media /\ m.src = media /\ m.left = b
  <2>1. l.audio \in Media
    BY <1>3 DEF Page
  <2>2. QED
    BY <1>3, <1>4, <2>1 DEF Media
<1> HIDE DEF m
<1>7. r \in Page /\ Beside(l, r) /\ r.audio = m
  BY <1>3, <1>5, <1>6, WithAudio
<1> HIDE DEF r
<1>8. s \in Page /\ Beside(r, s) /\ s.audio.src = r.audio.src /\ s.audio.left = r.audio.left
  BY <1>7, ResumeFacts
<1> HIDE DEF s
<1>9. /\ r.target = Local /\ r.speaking = None /\ r.shown = q.shown
      /\ s.target = Local /\ s.speaking = None /\ s.shown = q.shown
  BY <1>1, <1>3, <1>7, <1>8 DEF Beside
<1>10. ~b => Current(q.shown, media)
  BY <1>2, <1>4
<1>11. AtHome(r)
  BY <1>1, <1>6, <1>7, <1>9, <1>10, IdleAtHome DEF Idle
<1>12. AtHome(s)
  BY <1>1, <1>6, <1>7, <1>8, <1>9, <1>10, IdleAtHome DEF Idle
<1>13. Aside(q, r) /\ Aside(q, s)
  BY <1>3, <1>7, <1>8 DEF Beside, Aside
<1>14. QED
  BY <1>11, <1>12, <1>13 DEF Goes

LEMMA UndoneFacts ==
    ASSUME NEW p, AtHome(p), p.undo # None, NEW q \in Undone(p)
    PROVE  Goes(p, q)
<1> DEFINE u == p.undo
<1> DEFINE e == Unload(p)
<1> DEFINE back == [e EXCEPT !.undo = None, !.shown = u.shown, !.view = p.view]
<1> DEFINE states == IF u.view = "ended" THEN Ended(back) ELSE {[back EXCEPT !.view = u.view]}
<1> DEFINE media(r) == IF u.shown.index \notin DOMAIN u.shown.queue THEN r
                       ELSE LET s == [Load(r, u.shown.queue[u.shown.index])
                                        EXCEPT !.audio.left = r.shown # u.shown]
                            IN  IF u.view = "playing" THEN Resume(s) ELSE s
<1>1. PICK r \in states : q = media(r)
  BY Zenon DEF Undone
<1>2. /\ p \in Page /\ p.target = Local /\ p.speaking = None /\ p.view \in Views
  BY AtHomeIdle DEF AtHome, Idle, Page
<1>3. u.shown \in Listing /\ u.view \in Views
  BY <1>2 DEF Page
<1>4. e \in Page /\ Beside(p, e) /\ e.audio.src = None
  BY <1>2, UnloadFacts
<1> HIDE DEF u, e
<1>5. u.shown \in QueueType
  BY <1>3 DEF Listing
<1>6. back \in Page
  BY <1>2, <1>3, <1>4, <1>5 DEF Page
<1>7. /\ back.target = e.target /\ back.speaking = e.speaking
      /\ back.shown = u.shown /\ back.audio = e.audio /\ Aside(e, back)
  BY <1>4 DEF Page, Aside
<1> HIDE DEF back
<1>8. Goes(p, back)
  <2>1. AtHome(back)
    BY <1>2, <1>3, <1>4, <1>6, <1>7, IdleAtHome DEF Beside, Idle
  <2>2. QED
    BY <1>4, <1>7, <2>1 DEF Goes, Aside, Beside
<1>9. Goes(p, r)
  <2>1. CASE u.view = "ended"
    <3>1. r \in Ended(back)
      BY <2>1, <1>1
    <3>2. Goes(back, r)
      BY <1>8, <3>1, EndedFacts DEF AtHome, Goes
    <3>3. QED
      BY <1>8, <3>2, GoesTransitive
  <2>2. CASE u.view # "ended"
    <3>1. r = [back EXCEPT !.view = u.view]
      BY <2>2, <1>1
    <3>2. /\ r \in Page /\ r.target = back.target /\ Consistent(r)
          /\ Aside(back, r)
      BY <1>3, <1>8, <3>1, WithView DEF AtHome, Goes
    <3>3. QED
      BY <1>8, <3>2, AsideTransitive DEF AtHome, Goes
  <2>3. QED
    BY <2>1, <2>2
<1>10. Goes(r, media(r))
  BY <1>3, <1>9, RestoredFacts DEF Goes
<1>11. QED
  BY <1>1, <1>9, <1>10, GoesTransitive
\* Lists put behind the queue, or in the place of it, or next.
LEMMA ReplacedFacts ==
    ASSUME NEW p, AtHome(p), NEW a \in Albums, NEW i \in Nat, NEW k \in DOMAIN a
    PROVE  Goes(p, OpenIndex(WithQueue(p, a, i), k))
<1> DEFINE list == [queue |-> a, index |-> i]
<1> DEFINE q == [p EXCEPT !.shown = list]
<1>1. a \in Seq(Entry)
  BY PageAssumption DEF Entry
<1>2. list \in QueueType /\ list.queue = a
  BY <1>1, ListFacts
<1>3. WithQueue(p, a, i) = q
  BY DEF WithQueue
<1> HIDE DEF list
<1>4. Idle(q) /\ q.shown = list /\ Aside(p, q)
  BY <1>2, AtHomeIdle, WithList
<1> HIDE DEF q
<1>5. k \in DOMAIN q.shown.queue
  BY <1>2, <1>4
<1>6. QED
  BY <1>3, <1>4, <1>5, OpenFacts, AsideTransitive DEF Goes

LEMMA AddedFacts ==
    ASSUME NEW p, AtHome(p), NEW queue \in Seq(Entry), queue # <<>>,
           \A j \in 1..p.shown.index : queue[j] = p.shown.queue[j],
           Len(queue) >= Len(p.shown.queue)
    PROVE  Goes(p, WithQueue(p, queue, IF p.shown.index = 0 THEN 1 ELSE p.shown.index))
<1> DEFINE at == IF p.shown.index = 0 THEN 1 ELSE p.shown.index
<1> DEFINE list == [queue |-> queue, index |-> at]
<1>1. /\ p.shown.index \in 0..Len(p.shown.queue) /\ Len(p.shown.queue) \in Nat
      /\ p.shown.index \in Nat
  BY AtHomeIdle, ListingFacts DEF Listing
<1>2. Len(queue) \in Nat /\ Len(queue) # 0
  OBVIOUS
<1>3. at \in Nat /\ at <= Len(queue) /\ at > 0
  BY <1>1, <1>2
<1>4. p.shown.index > 0 => queue[at] = p.shown.queue[p.shown.index]
  BY <1>1
<1>5. WithQueue(p, queue, at) = [p EXCEPT !.shown = list]
  BY DEF WithQueue
<1> HIDE DEF at
<1>6. list \in Listing /\ list.queue = queue /\ list.index = at
  BY <1>3, ListFacts
<1> HIDE DEF list
<1>7. Goes(p, [p EXCEPT !.shown = list])
  BY <1>3, <1>4, <1>6, EditFacts DEF Goes
<1>8. QED
  BY <1>5, <1>7 DEF at

LEMMA AppendedFacts ==
    ASSUME NEW p, AtHome(p), NEW a \in Albums
    PROVE  Goes(p, WithQueue(p, p.shown.queue \o a,
                            IF p.shown.index = 0 THEN 1 ELSE p.shown.index))
<1> DEFINE queue == p.shown.queue
<1> DEFINE longer == queue \o a
<1>1. /\ queue \in Seq(Entry) /\ Len(queue) \in Nat
      /\ p.shown.index \in 0..Len(queue)
  BY AtHomeIdle, ListingFacts DEF Listing
<1>2. a \in Seq(Entry) /\ a # <<>>
  BY PageAssumption DEF Entry
<1> HIDE DEF queue
<1>3. Len(a) \in Nat /\ Len(a) # 0
  BY <1>2
<1>4. /\ longer \in Seq(Entry) /\ Len(longer) = Len(queue) + Len(a)
      /\ \A j \in 1..Len(queue) : longer[j] = queue[j]
  BY <1>1, <1>2, Joined
<1> HIDE DEF longer
<1>5. longer # <<>> /\ Len(longer) >= Len(queue)
  BY <1>1, <1>3, <1>4
<1>6. \A j \in 1..p.shown.index : longer[j] = queue[j]
  BY <1>1, <1>4
<1>7. QED
  BY <1>4, <1>5, <1>6, AddedFacts DEF longer, queue

LEMMA InsertedFacts ==
    ASSUME NEW p, AtHome(p), NEW t \in Track
    PROVE  Goes(p, WithQueue(p, InsertAt(p.shown.queue, p.shown.index + 1, t),
                            IF p.shown.index = 0 THEN 1 ELSE p.shown.index))
<1> DEFINE queue == p.shown.queue
<1> DEFINE k == p.shown.index + 1
<1> DEFINE longer == InsertAt(queue, k, t)
<1>1. /\ queue \in Seq(Entry) /\ Len(queue) \in Nat
      /\ p.shown.index \in 0..Len(queue)
  BY AtHomeIdle, ListingFacts DEF Listing
<1>2. t \in Entry
  BY DEF Entry
<1>3. k \in 1..(Len(queue) + 1) /\ k - 1 = p.shown.index
  BY <1>1
<1> HIDE DEF queue, k
<1>4. /\ longer \in Seq(Entry) /\ Len(longer) = Len(queue) + 1
      /\ \A j \in 1..(k - 1) : longer[j] = queue[j]
  BY <1>1, <1>2, <1>3, Inserting
<1> HIDE DEF longer
<1>5. longer # <<>> /\ Len(longer) >= Len(queue)
  BY <1>1, <1>4
<1>6. \A j \in 1..p.shown.index : longer[j] = queue[j]
  BY <1>3, <1>4
<1>7. QED
  BY <1>4, <1>5, <1>6, AddedFacts DEF longer, queue, k

LEMMA ClearedFacts ==
    ASSUME NEW p, AtHome(p)
    PROVE  Goes(p, WithQueue(StopLocal(p), <<>>, 0))
<1> DEFINE q == StopLocal(p)
<1> DEFINE list == [queue |-> <<>>, index |-> 0]
<1> DEFINE r == [q EXCEPT !.shown = list]
<1>1. AtHome(q) /\ q.audio.src = None /\ Aside(p, q)
  BY AtHomeIdle, StopFacts
<1>2. WithQueue(q, <<>>, 0) = r
  BY DEF WithQueue
<1> HIDE DEF q
<1>3. list \in Listing /\ list \in QueueType
  BY NoQueueListing DEF NoQueue, Listing
<1> HIDE DEF list
<1>4. Idle(r) /\ r.shown = list /\ r.audio = q.audio /\ Aside(q, r)
  BY <1>1, <1>3, AtHomeIdle, WithList
<1> HIDE DEF r
<1>5. AtHome(r)
  BY <1>1, <1>3, <1>4, IdleAtHome
<1>6. Aside(p, r)
  BY <1>1, <1>4, AsideTransitive
<1>7. QED
  BY <1>2, <1>5, <1>6 DEF q, Goes

\* Play and pause of the own queue.
Toggled(p) ==
    CASE ~p.audio.paused -> Pause(p)
      [] p.audio.paused /\ p.audio.opened -> Resume(p)
      [] OTHER -> OpenIndex(p, p.shown.index)

LEMMA ToggledFacts ==
    ASSUME NEW p, AtHome(p)
    PROVE  Goes(p, Toggled(p))
<1>1. \/ Toggled(p) = Pause(p)
      \/ Toggled(p) = Resume(p)
      \/ Toggled(p) = OpenIndex(p, p.shown.index)
  BY DEF Toggled
<1>2. p \in Page
  BY DEF AtHome
<1>3. Goes(p, Pause(p))
  <2> DEFINE q == Pause(p)
  <2>1. /\ q \in Page /\ Beside(p, q)
        /\ q.audio.src = p.audio.src /\ q.audio.left = p.audio.left
    BY <1>2, PauseFacts
  <2> HIDE DEF q
  <2>2. AtHome(q)
    BY <2>1 DEF AtHome, Consistent, Beside, Own
  <2>3. Aside(p, q)
    BY <2>1 DEF Beside, Aside
  <2>4. QED
    BY <2>2, <2>3 DEF q, Goes
<1>4. Goes(p, Resume(p))
  <2> DEFINE q == Resume(p)
  <2>1. /\ q \in Page /\ Beside(p, q)
        /\ q.audio.src = p.audio.src /\ q.audio.left = p.audio.left
    BY <1>2, ResumeFacts
  <2> HIDE DEF q
  <2>2. AtHome(q)
    BY <2>1 DEF AtHome, Consistent, Beside, Own
  <2>3. Aside(p, q)
    BY <2>1 DEF Beside, Aside
  <2>4. QED
    BY <2>2, <2>3 DEF q, Goes
<1>5. Goes(p, OpenIndex(p, p.shown.index))
  BY OpenGoes
<1>6. QED
  BY <1>1, <1>3, <1>4, <1>5

\* The kinds of things a user can do with the own queue.
LEMMA LocalOpsKinds ==
    ASSUME NEW p, NEW q \in LocalOps(p)
    PROVE  LET queue == p.shown.queue
               i == p.shown.index
               at == DOMAIN queue
               r == Remember(p)
           IN  \/ \E a \in Albums : \E k \in DOMAIN a : q = OpenIndex(WithQueue(r, a, i), k)
               \/ \E a \in Albums : q = WithQueue(r, queue \o a, IF i = 0 THEN 1 ELSE i)
               \/ \E t \in Track :
                     q = WithQueue(r, InsertAt(queue, i + 1, t), IF i = 0 THEN 1 ELSE i)
               \/ \E k : q = OpenIndex(p, k)
               \/ \E k \in at : q = Removed(r, k)
               \/ \E k \in at : \E l \in at \ {k} : q = Moved(r, k, l)
               \/ q \in Nexts(p)
               \/ q = WithQueue(StopLocal(r), <<>>, 0)
               \/ p.undo # None /\ q \in Undone(p)
               \/ q = Toggled(p)
<1> DEFINE queue == p.shown.queue
<1> DEFINE i == p.shown.index
<1> DEFINE at == DOMAIN queue
<1> DEFINE r == Remember(p)
<1> DEFINE S1 == UNION {{OpenIndex(WithQueue(r, a, i), k) : k \in DOMAIN a} : a \in Albums}
<1> DEFINE S2 == {WithQueue(r, queue \o a, IF i = 0 THEN 1 ELSE i) : a \in Albums}
<1> DEFINE S3 == {WithQueue(r, InsertAt(queue, i + 1, t), IF i = 0 THEN 1 ELSE i) : t \in Track}
<1> DEFINE S4 == {OpenIndex(p, k) : k \in at}
<1> DEFINE S5 == {Removed(r, k) : k \in at}
<1> DEFINE S6 == UNION {{Moved(r, k, l) : l \in at \ {k}} : k \in at}
<1> DEFINE S7 == IF at = {} THEN {} ELSE Nexts(p) \cup {WithQueue(StopLocal(r), <<>>, 0)}
<1> DEFINE S8 == IF i > 1 THEN {OpenIndex(p, i - 1)} ELSE {}
<1> DEFINE S9 == IF p.undo = None THEN {} ELSE Undone(p)
<1>1. LocalOps(p) = S1 \cup S2 \cup S3 \cup S4 \cup S5 \cup S6 \cup S7 \cup S8 \cup S9
                    \cup {Toggled(p)}
  BY DEF LocalOps, Toggled
<1>2. q \in S1 => \E a \in Albums : \E k \in DOMAIN a : q = OpenIndex(WithQueue(r, a, i), k)
  OBVIOUS
<1>3. q \in S2 => \E a \in Albums : q = WithQueue(r, queue \o a, IF i = 0 THEN 1 ELSE i)
  OBVIOUS
<1>4. q \in S3 => \E t \in Track :
                   q = WithQueue(r, InsertAt(queue, i + 1, t), IF i = 0 THEN 1 ELSE i)
  OBVIOUS
<1>5. q \in S4 => \E k : q = OpenIndex(p, k)
  OBVIOUS
<1>6. q \in S5 => \E k \in at : q = Removed(r, k)
  OBVIOUS
<1>7. q \in S6 => \E k \in at : \E l \in at \ {k} : q = Moved(r, k, l)
  OBVIOUS
<1>8. q \in S7 => q \in Nexts(p) \/ q = WithQueue(StopLocal(r), <<>>, 0)
  OBVIOUS
<1>9. q \in S8 => \E k : q = OpenIndex(p, k)
  OBVIOUS
<1>10. q \in S9 => p.undo # None /\ q \in Undone(p)
  OBVIOUS
<1> HIDE DEF S1, S2, S3, S4, S5, S6, S7, S8, S9, r, at
<1>11. \/ q \in S1 \/ q \in S2 \/ q \in S3 \/ q \in S4 \/ q \in S5
       \/ q \in S6 \/ q \in S7 \/ q \in S8 \/ q \in S9 \/ q = Toggled(p)
  BY <1>1
<1>12. QED
  BY <1>2, <1>3, <1>4, <1>5, <1>6, <1>7, <1>8, <1>9, <1>10, <1>11 DEF r, at

\* Whatever the user does with the own queue.
LEMMA LocalOpsFacts ==
    ASSUME NEW p, AtHome(p), NEW q \in LocalOps(p)
    PROVE  Goes(p, q)
<1> DEFINE queue == p.shown.queue
<1> DEFINE i == p.shown.index
<1> DEFINE at == DOMAIN queue
<1> DEFINE r == Remember(p)
<1>1. AtHome(r) /\ r.shown = p.shown /\ Goes(p, r)
  BY RememberFacts DEF Goes
<1>2. i \in Nat
  BY AtHomeIdle, ListingFacts DEF Listing
<1>3. \/ \E a \in Albums : \E k \in DOMAIN a : q = OpenIndex(WithQueue(r, a, i), k)
      \/ \E a \in Albums : q = WithQueue(r, queue \o a, IF i = 0 THEN 1 ELSE i)
      \/ \E t \in Track : q = WithQueue(r, InsertAt(queue, i + 1, t), IF i = 0 THEN 1 ELSE i)
      \/ \E k : q = OpenIndex(p, k)
      \/ \E k \in at : q = Removed(r, k)
      \/ \E k \in at : \E l \in at \ {k} : q = Moved(r, k, l)
      \/ q \in Nexts(p)
      \/ q = WithQueue(StopLocal(r), <<>>, 0)
      \/ p.undo # None /\ q \in Undone(p)
      \/ q = Toggled(p)
  BY LocalOpsKinds
<1> HIDE DEF r
<1>4. ASSUME NEW a \in Albums, NEW k \in DOMAIN a, q = OpenIndex(WithQueue(r, a, i), k)
      PROVE  Goes(p, q)
  BY <1>1, <1>2, <1>4, ReplacedFacts, GoesTransitive
<1>5. ASSUME NEW a \in Albums, q = WithQueue(r, queue \o a, IF i = 0 THEN 1 ELSE i)
      PROVE  Goes(p, q)
  <2>1. q = WithQueue(r, r.shown.queue \o a, IF r.shown.index = 0 THEN 1 ELSE r.shown.index)
    BY <1>1, <1>5
  <2>2. QED
    BY <1>1, <2>1, AppendedFacts, GoesTransitive
<1>6. ASSUME NEW t \in Track,
             q = WithQueue(r, InsertAt(queue, i + 1, t), IF i = 0 THEN 1 ELSE i)
      PROVE  Goes(p, q)
  <2>1. q = WithQueue(r, InsertAt(r.shown.queue, r.shown.index + 1, t),
                      IF r.shown.index = 0 THEN 1 ELSE r.shown.index)
    BY <1>1, <1>6
  <2>2. QED
    BY <1>1, <2>1, InsertedFacts, GoesTransitive
<1>7. ASSUME NEW k, q = OpenIndex(p, k) PROVE Goes(p, q)
  BY <1>7, OpenGoes
<1>8. ASSUME NEW k \in at, q = Removed(r, k) PROVE Goes(p, q)
  BY <1>1, <1>8, RemovedFacts, GoesTransitive
<1>9. ASSUME NEW k \in at, NEW l \in at \ {k}, q = Moved(r, k, l) PROVE Goes(p, q)
  BY <1>1, <1>9, MovedTrackFacts, GoesTransitive
<1>10. QED
  BY <1>1, <1>3, <1>4, <1>5, <1>6, <1>7, <1>8, <1>9,
     NextsFacts, ClearedFacts, UndoneFacts, ToggledFacts, GoesTransitive
-----------------------------------------------------------------------------
(* The media element's events.                                             *)

\* The target stays, and with it a queue that is put aside.
Keeps(p, q) ==
    /\ q \in Page /\ Consistent(q) /\ q.target = p.target
    /\ p.target # Local => q.saved = p.saved

\* And the reports that wait go on waiting.
Stays(p, q) ==
    /\ Keeps(p, q)
    /\ p.chain # <<>> => q.chain # <<>>

\* Media that are the same but may be silent, or at another point.
Muted(p, q) ==
    /\ q.target = p.target /\ q.owned = p.owned /\ q.shown = p.shown
    /\ q.saved = p.saved /\ q.speaking = p.speaking
    /\ q.audio.src = p.audio.src /\ q.audio.left = p.audio.left
    /\ q.audio.paused = p.audio.paused \/ q.audio.paused

LEMMA MutedKeeps ==
    ASSUME NEW p, Consistent(p), NEW q \in Page, Muted(p, q)
    PROVE  Keeps(p, q)
<1>1. Own(q) = Own(p)
  BY DEF Muted, Own
<1>2. Consistent(q)
  BY <1>1 DEF Muted, Consistent
<1>3. QED
  BY <1>2 DEF Muted, Keeps

LEMMA StaysTransitive ==
    ASSUME NEW p, NEW q, NEW r, Stays(p, q), Stays(q, r)
    PROVE  Stays(p, r)
BY DEF Stays, Keeps

Reports == {"playing", "paused", "completed", "failed"}

LEMMA TellStays ==
    ASSUME NEW p \in Page, Consistent(p), NEW event \in Reports
    PROVE  Stays(p, Tell(p, event))
<1> DEFINE c == [event |-> event, token |-> p.remote.token]
<1> DEFINE chain == Append(p.chain, c)
<1> DEFINE q == [p EXCEPT !.chain = chain]
<1>1. CASE Speaks(p)
  <2>1. p.remote \in Frames
    BY <1>1 DEF Speaks, Page
  <2>2. c \in Controls
    BY <2>1, FrameFacts DEF Controls, Reports
  <2> HIDE DEF c
  <2>3. p.chain \in Seq(Controls)
    BY DEF Page
  <2>4. chain \in Seq(Controls)
    BY <2>2, <2>3
  <2>5. Tell(p, event) = q
    BY <1>1 DEF Tell, c
  <2>6. chain # <<>>
    BY <2>2, <2>3
  <2> HIDE DEF chain
  <2>7. q \in Page
    BY <2>4 DEF Page
  <2>8. Muted(p, q) /\ q.chain = chain
    BY DEF Muted, Page
  <2> HIDE DEF q
  <2>9. QED
    BY <2>5, <2>6, <2>7, <2>8, MutedKeeps DEF Stays
<1>2. CASE ~Speaks(p)
  <2>1. Tell(p, event) = p
    BY <1>2 DEF Tell
  <2>2. QED
    BY <2>1 DEF Stays, Keeps
<1>3. QED
  BY <1>1, <1>2

LEMMA SeesStays ==
    ASSUME NEW p \in Page, Consistent(p), NEW view \in Views
    PROVE  Stays(p, Sees(p, view))
<1> DEFINE q == [p EXCEPT !.view = view]
<1>1. q \in Page /\ q.target = p.target /\ q.owned = p.owned
      /\ q.saved = p.saved /\ Consistent(q) /\ Aside(p, q)
  BY WithView
<1>2. Sees(p, view) = IF p.target = Local THEN q ELSE p
  BY DEF Sees
<1> HIDE DEF q
<1>3. QED
  BY <1>1, <1>2 DEF Stays, Keeps, Aside

LEMMA SilencedStays ==
    ASSUME NEW p \in Page, Consistent(p)
    PROVE  Stays(p, Silenced(p))
<1>1. Stays(p, Sees(p, "silent"))
  BY SeesStays DEF Views
<1>2. Stays(p, p)
  BY DEF Stays, Keeps
<1>3. QED
  BY <1>1, <1>2 DEF Silenced

LEMMA TickedStays ==
    ASSUME NEW p \in Page, Consistent(p), NEW q \in Ticked(p)
    PROVE  Stays(p, q)
<1>1. q = p \/ q = Tell(p, "playing")
  BY DEF Ticked
<1>2. Stays(p, Tell(p, "playing"))
  BY TellStays DEF Reports
<1>3. Stays(p, p)
  BY DEF Stays, Keeps
<1>4. QED
  BY <1>1, <1>2, <1>3

\* The media element with other media.
LEMMA MediaStays ==
    ASSUME NEW p \in Page, Consistent(p), NEW m \in Media,
           m.src = p.audio.src, m.left = p.audio.left,
           m.paused = p.audio.paused \/ m.paused
    PROVE  Stays(p, [p EXCEPT !.audio = m])
<1> DEFINE q == [p EXCEPT !.audio = m]
<1>1. q \in Page /\ q.audio = m /\ Beside(p, q)
  BY WithAudio
<1> HIDE DEF q
<1>2. Muted(p, q) /\ q.chain = p.chain
  BY <1>1 DEF Muted, Beside
<1>3. Stays(p, q)
  BY <1>1, <1>2, MutedKeeps DEF Stays
<1>4. QED
  BY <1>3 DEF q

LEMMA PlayStays ==
    ASSUME NEW p \in Page, Consistent(p)
    PROVE  Stays(p, Tell(Sees(p, "playing"), "playing"))
<1>1. Stays(p, Sees(p, "playing"))
  BY SeesStays DEF Views
<1>2. Stays(Sees(p, "playing"), Tell(Sees(p, "playing"), "playing"))
  BY <1>1, TellStays DEF Stays, Keeps, Reports
<1>3. QED
  BY <1>1, <1>2, StaysTransitive

LEMMA PauseStays ==
    ASSUME NEW p \in Page, Consistent(p), NEW q \in Ticked(p)
    PROVE  /\ Stays(p, Silenced(q))
           /\ Stays(p, Tell(Silenced(q), "paused"))
<1>1. Stays(p, q)
  BY TickedStays
<1>2. Stays(q, Silenced(q))
  BY <1>1, SilencedStays DEF Stays, Keeps
<1>3. Stays(Silenced(q), Tell(Silenced(q), "paused"))
  BY <1>2, TellStays DEF Stays, Keeps, Reports
<1>4. Stays(p, Silenced(q))
  BY <1>1, <1>2, StaysTransitive
<1>5. Stays(p, Tell(Silenced(q), "paused"))
  BY <1>3, <1>4, StaysTransitive
<1>6. QED
  BY <1>4, <1>5

LEMMA StoppedStays ==
    ASSUME NEW p \in Page, Consistent(p)
    PROVE  Stays(p, [Silenced(p) EXCEPT !.audio.paused = TRUE])
<1> DEFINE s == Silenced(p)
<1> DEFINE m == [s.audio EXCEPT !.paused = TRUE]
<1> DEFINE q == [s EXCEPT !.audio.paused = TRUE]
<1>1. Stays(p, s)
  BY SilencedStays
<1> HIDE DEF s
<1>2. s \in Page /\ Consistent(s)
  BY <1>1 DEF Stays, Keeps
<1>3. q = [s EXCEPT !.audio = m]
  BY <1>2 DEF Page
<1>4. m \in Media /\ m.src = s.audio.src /\ m.left = s.audio.left /\ m.paused
  <2>1. s.audio \in Media
    BY <1>2 DEF Page
  <2>2. QED
    BY <2>1 DEF Media
<1> HIDE DEF m
<1>5. Stays(s, q)
  BY <1>2, <1>3, <1>4, MediaStays
<1> HIDE DEF q
<1>6. Stays(p, q)
  BY <1>1, <1>5, StaysTransitive
<1>7. QED
  BY <1>6 DEF q, s

LEMMA EndStays ==
    ASSUME NEW p \in Page, Consistent(p), NEW stopped,
           stopped = p \/ stopped = [Silenced(p) EXCEPT !.audio.paused = TRUE],
           NEW q \in Ticked(stopped), NEW r \in Ended(q)
    PROVE  Stays(p, Tell(r, "completed"))
<1>1. Stays(p, stopped)
  BY StoppedStays DEF Stays, Keeps
<1>2. Stays(stopped, q)
  BY <1>1, TickedStays DEF Stays, Keeps
<1>3. Stays(p, q)
  BY <1>1, <1>2, StaysTransitive
<1>4. /\ r \in Page /\ Consistent(r) /\ r.target = p.target
      /\ (p.target # Local => r.saved = p.saved)
      /\ (p.chain # <<>> => r.chain # <<>>)
  <2>1. q \in Page /\ Consistent(q)
    BY <1>3 DEF Stays, Keeps
  <2>2. (q.target = Local => Goes(q, r)) /\ (q.target # Local => r = q)
    BY <2>1, EndedFacts
  <2>3. QED
    BY <1>3, <2>2 DEF Stays, Keeps, AtHome, Goes, Aside
<1>5. Stays(r, Tell(r, "completed"))
  BY <1>4, TellStays DEF Reports
<1>6. Stays(p, r)
  BY <1>4 DEF Stays, Keeps
<1>7. QED
  BY <1>5, <1>6, StaysTransitive

LEMMA HandledFacts ==
    ASSUME NEW p \in Page, Consistent(p), NEW event \in MediaEvents, NEW q \in Handled(p, event)
    PROVE  Stays(p, q)
<1>1. CASE event = "play"
  <2>1. q = Tell(Sees(p, "playing"), "playing")
    BY <1>1 DEF Handled
  <2>2. QED
    BY <2>1, PlayStays
<1>2. CASE event = "pause"
  <2>1. PICK r \in Ticked(p) : q = Silenced(r) \/ q = Tell(Silenced(r), "paused")
    BY <1>2 DEF Handled
  <2>2. QED
    BY <2>1, PauseStays
<1>3. CASE event = "ended"
  <2> DEFINE stopped == IF p.audio.health # "over" \/ p.audio.paused THEN p
                        ELSE [Silenced(p) EXCEPT !.audio.paused = TRUE]
  <2>1. PICK s \in Ticked(stopped) : \E r \in Ended(s) : q = Tell(r, "completed")
    BY <1>3 DEF Handled
  <2>2. PICK r \in Ended(s) : q = Tell(r, "completed")
    BY <2>1
  <2>3. stopped = p \/ stopped = [Silenced(p) EXCEPT !.audio.paused = TRUE]
    OBVIOUS
  <2> HIDE DEF stopped
  <2>4. QED
    BY <2>1, <2>2, <2>3, EndStays
<1>4. CASE event = "error"
  <2>1. q = Tell(Sees(p, "silent"), "failed")
    BY <1>4 DEF Handled
  <2>2. Stays(p, Sees(p, "silent"))
    BY SeesStays DEF Views
  <2>3. Stays(Sees(p, "silent"), q)
    BY <2>1, <2>2, TellStays DEF Stays, Keeps, Reports
  <2>4. QED
    BY <2>2, <2>3, StaysTransitive
<1>5. QED
  BY <1>1, <1>2, <1>3, <1>4 DEF MediaEvents
-----------------------------------------------------------------------------
(* The invariant.                                                          *)

Deliveries ==
    {d \in [status : {"stopped", "playing", "paused"}, token : 0..MaxTokens,
            rev : Nat, reply : BOOLEAN] : d.status = "playing" => d.token # 0}

\* A row that plays names what it plays, from the tokens handed out.
RowInv ==
    /\ rowStatus \in {"stopped", "playing", "paused"}
    /\ rowTokens \in 0..MaxTokens /\ rowToken \in 0..rowTokens /\ rowRev \in Nat
    /\ rowStatus = "playing" => rowToken # 0

NetInv ==
    /\ there \subseteq {Mine, Theirs} /\ listed \subseteq {Mine, Theirs}
    /\ answer \in {"none", "shared", "released"}
    /\ subscribed \in BOOLEAN
    /\ frames \in Seq(Deliveries)

\* One answer is on its way at most, and to a control that waits for it.
ReplyInv ==
    /\ \A j, k \in DOMAIN frames : frames[j].reply /\ frames[k].reply => j = k
    /\ InFlight => page.chain # <<>>

PageInv ==
    /\ RowInv /\ NetInv /\ ReplyInv
    /\ page \in Page /\ Consistent(page)
    /\ LocalQueueKept

LEMMA KeptOwn ==
    LocalQueueKept <=> (kept # None => kept = Own(page))
BY DEF LocalQueueKept, Own

LEMMA KeptOwnNext ==
    LocalQueueKept' <=> (kept' # None => kept' = Own(page'))
BY DEF LocalQueueKept, Own

\* A page that is told something, or goes on as it is, and keeps its queue.
LEMMA KeptAlong ==
    ASSUME PageInv, Own(page) # None => Own(page') = Own(page), UNCHANGED kept
    PROVE  LocalQueueKept'
BY KeptOwn, KeptOwnNext DEF PageInv

-----------------------------------------------------------------------------
(* The row and what is on its way.                                         *)

LEMMA SentFrame ==
    ASSUME RowInv, NEW reply \in BOOLEAN
    PROVE  [status |-> rowStatus, token |-> rowToken, rev |-> rowRev, reply |-> reply]
             \in Deliveries
<1>1. rowToken \in 0..MaxTokens
  BY PageAssumption DEF RowInv
<1>2. QED
  BY <1>1 DEF RowInv, Deliveries

LEMMA PushedFrame ==
    ASSUME RowInv', NEW reply \in BOOLEAN
    PROVE  Push(reply) \in Deliveries
<1>1. rowToken' \in 0..MaxTokens
  BY PageAssumption DEF RowInv
<1>2. QED
  BY <1>1 DEF RowInv, Deliveries, Push

LEMMA StartRow ==
    ASSUME RowInv, rowTokens < MaxTokens, Shared!StartPlayback
    PROVE  RowInv'
BY PageAssumption DEF RowInv, Shared!StartPlayback, Shared!Commit

LEMMA ControlRow ==
    ASSUME RowInv, Control
    PROVE  RowInv'
<1>1. CASE rowTokens < MaxTokens /\ Shared!StartPlayback
  BY <1>1, StartRow
<1>2. CASE Shared!PausePlayback
  BY <1>2 DEF RowInv, Shared!PausePlayback, Shared!Commit
<1>3. CASE Shared!StopPlayback
  BY <1>3 DEF RowInv, Shared!StopPlayback, Shared!Commit
<1>4. CASE Shared!Adjust
  BY <1>4 DEF RowInv, Shared!Adjust, Shared!Commit
<1>5. QED
  BY <1>1, <1>2, <1>3, <1>4 DEF Control

LEMMA ReportRow ==
    ASSUME RowInv, NEW event, ReportChanges(event)
    PROVE  RowInv'
<1>1. CASE rowTokens < MaxTokens /\ Shared!StartPlayback
  BY <1>1, StartRow
<1>2. CASE Shared!EndPlayback
  BY <1>2 DEF RowInv, Shared!EndPlayback, Shared!Commit
<1>3. CASE Shared!Observe
  BY <1>3 DEF RowInv, Shared!Observe, Shared!Commit
<1>4. QED
  BY <1>1, <1>2, <1>3 DEF ReportChanges

LEMMA SameRow ==
    ASSUME RowInv, UNCHANGED shareVars
    PROVE  RowInv'
BY DEF RowInv, shareVars

LEMMA SameNet ==
    ASSUME NetInv, UNCHANGED netVars
    PROVE  NetInv'
BY DEF NetInv, netVars

\* What goes out with a change of the target.
LEMMA AskNet ==
    ASSUME RowInv, NetInv, NEW asked, Ask(asked), there' \in SUBSET {Mine, Theirs},
           listed' \in SUBSET {Mine, Theirs}, answer' \in {"none", "shared", "released"}
    PROVE  NetInv'
<1> DEFINE f == [status |-> rowStatus, token |-> rowToken, rev |-> rowRev, reply |-> FALSE]
<1>1. f \in Deliveries
  BY SentFrame
<1>2. frames' = Append(frames, f) \/ frames' = frames
  BY DEF Ask
<1> HIDE DEF f
<1>3. frames' \in Seq(Deliveries)
  BY <1>1, <1>2 DEF NetInv
<1>4. subscribed' \in BOOLEAN
  BY DEF Ask, NetInv
<1>5. QED
  BY <1>3, <1>4 DEF NetInv

LEMMA ReplySame ==
    ASSUME ReplyInv, frames' = frames, page.chain # <<>> => page'.chain # <<>>
    PROVE  ReplyInv'
BY DEF ReplyInv, InFlight

LEMMA ReplyMore ==
    ASSUME NetInv, ReplyInv, NEW f \in Deliveries, ~f.reply,
           frames' = Append(frames, f), page.chain # <<>> => page'.chain # <<>>
    PROVE  ReplyInv'
<1>1. frames \in Seq(Deliveries)
  BY DEF NetInv
<1>2. /\ DOMAIN frames' = 1..(Len(frames) + 1) /\ DOMAIN frames = 1..Len(frames)
      /\ Len(frames) \in Nat
  BY <1>1
<1>3. \A k \in DOMAIN frames' : frames'[k].reply => k \in DOMAIN frames /\ frames[k].reply
  <2> SUFFICES ASSUME NEW k \in DOMAIN frames', frames'[k].reply
               PROVE  k \in DOMAIN frames /\ frames[k].reply
    OBVIOUS
  <2>1. CASE k = Len(frames) + 1
    <3>1. frames'[k] = f
      BY <1>1, <2>1
    <3>2. QED
      BY <3>1
  <2>2. CASE k \in 1..Len(frames)
    BY <1>1, <1>2, <2>2
  <2>3. QED
    BY <1>2, <2>1, <2>2
<1>4. QED
  BY <1>3 DEF ReplyInv, InFlight

LEMMA AskReply ==
    ASSUME RowInv, NetInv, ReplyInv, NEW asked, Ask(asked),
           page.chain # <<>> => page'.chain # <<>>
    PROVE  ReplyInv'
<1> DEFINE f == [status |-> rowStatus, token |-> rowToken, rev |-> rowRev, reply |-> FALSE]
<1>1. f \in Deliveries
  BY SentFrame
<1>2. ~f.reply
  OBVIOUS
<1>3. frames' = Append(frames, f) \/ frames' = frames
  BY DEF Ask
<1> HIDE DEF f
<1>4. CASE frames' = Append(frames, f)
  BY <1>1, <1>2, <1>4, ReplyMore
<1>5. CASE frames' = frames
  BY <1>5, ReplySame
<1>6. QED
  BY <1>3, <1>4, <1>5

-----------------------------------------------------------------------------
(* The steps that leave the target alone.                                  *)

\* What such a step needs to show.
LEMMA StayingInv ==
    ASSUME PageInv, RowInv', NetInv', ReplyInv', Keeps(page, page'),
           \/ UNCHANGED kept /\ Own(page') = Own(page)
           \/ Keep
    PROVE  PageInv'
<1>1. page' \in Page /\ Consistent(page') /\ page'.target = page.target
      /\ (page.target # Local => page'.saved = page.saved)
  BY DEF Keeps
<1>2. CASE UNCHANGED kept /\ Own(page') = Own(page)
  BY <1>1, <1>2, KeptAlong DEF PageInv
<1>3. CASE Keep
  <2>1. kept' = kept \/ (page'.target = Local /\ kept' = page'.shown)
    BY <1>3 DEF Keep
  <2>2. kept' = kept => Own(page') = Own(page)
               \/ (page'.target = Local /\ kept' = page'.shown)
    BY <1>1, <1>3 DEF Keep, Own
  <2>3. kept' # None => kept' = Own(page')
    BY <2>1, <2>2, KeptOwn DEF PageInv, Own
  <2>4. QED
    BY <1>1, <2>3, KeptOwnNext DEF PageInv
<1>4. QED
  BY <1>2, <1>3

LEMMA LocalOpInv ==
    PageInv /\ LocalOp => PageInv'
<1> SUFFICES ASSUME PageInv, LocalOp PROVE PageInv'
  OBVIOUS
<1>1. AtHome(page)
  BY DEF LocalOp, PageInv, AtHome
<1>2. page' \in LocalOps(page)
  BY DEF LocalOp
<1>3. Goes(page, page')
  BY <1>1, <1>2, LocalOpsFacts
<1>4. Keeps(page, page') /\ (page.chain # <<>> => page'.chain # <<>>)
  BY <1>1, <1>3 DEF Keeps, Goes, AtHome, Aside
<1>5. frames' = frames
  BY DEF LocalOp, netVars
<1>6. QED
  BY <1>4, <1>5, SameRow, SameNet, ReplySame, StayingInv DEF PageInv, LocalOp

LEMMA WithChain ==
    ASSUME NEW p \in Page, Consistent(p), NEW chain \in Seq(Controls)
    PROVE  LET q == [p EXCEPT !.chain = chain]
           IN  /\ Keeps(p, q) /\ Own(q) = Own(p) /\ q.chain = chain
               /\ q.target = p.target
<1> DEFINE q == [p EXCEPT !.chain = chain]
<1>1. q \in Page
  BY DEF Page
<1>2. Muted(p, q) /\ q.chain = chain
  BY DEF Muted, Page
<1> HIDE DEF q
<1>3. Keeps(p, q) /\ Own(q) = Own(p) /\ q.target = p.target
  BY <1>1, <1>2, MutedKeeps DEF Muted, Own
<1>4. QED
  BY <1>2, <1>3 DEF q

LEMMA ClickInv ==
    PageInv /\ Click => PageInv'
<1> SUFFICES ASSUME PageInv, Click PROVE PageInv'
  OBVIOUS
<1> DEFINE c == [event |-> "command", token |-> 0]
<1> DEFINE chain == Append(page.chain, c)
<1>1. page \in Page /\ Consistent(page)
  BY DEF PageInv
<1>2. c \in Controls
  BY PageAssumption DEF Controls
<1>3. page' = [page EXCEPT !.chain = chain]
  BY <1>1 DEF Click, Page
<1> HIDE DEF c
<1>4. page.chain \in Seq(Controls)
  BY <1>1 DEF Page
<1>5. chain \in Seq(Controls)
  BY <1>2, <1>4
<1>6. chain # <<>>
  BY <1>2, <1>4
<1> HIDE DEF chain
<1>7. Keeps(page, page') /\ Own(page') = Own(page) /\ page'.chain = chain
  BY <1>1, <1>3, <1>5, WithChain
<1>8. frames' = frames
  BY DEF Click, netVars
<1>9. ReplyInv'
  BY <1>6, <1>7, <1>8, ReplySame DEF PageInv
<1>10. QED
  BY <1>7, <1>9, SameRow, SameNet, StayingInv DEF PageInv, Click

LEMMA ControlFailsInv ==
    PageInv /\ ControlFails => PageInv'
<1> SUFFICES ASSUME PageInv, ControlFails PROVE PageInv'
  OBVIOUS
<1> DEFINE chain == Tail(page.chain)
<1>1. page \in Page /\ Consistent(page)
  BY DEF PageInv
<1>2. chain \in Seq(Controls)
  BY <1>1 DEF Page, ControlFails
<1>3. page' = [page EXCEPT !.chain = chain]
  BY <1>1 DEF ControlFails, Page
<1> HIDE DEF chain
<1>4. Keeps(page, page') /\ Own(page') = Own(page)
  BY <1>1, <1>2, <1>3, WithChain
<1>5. frames' = frames /\ ~InFlight
  BY DEF ControlFails, netVars
<1>6. ReplyInv'
  BY <1>5 DEF ReplyInv, InFlight, PageInv
<1>7. QED
  BY <1>4, <1>6, SameRow, SameNet, StayingInv DEF PageInv, ControlFails

\* The media element's own steps.
LEMMA HappensInv ==
    ASSUME PageInv, NEW q, Happens(q), Stays(page, q), Own(q) = Own(page)
    PROVE  PageInv'
<1>1. page' = q
  BY DEF Happens
<1>2. Stays(page, page') /\ Own(page') = Own(page)
  BY <1>1
<1>3. ReplyInv'
  BY <1>2, ReplySame DEF PageInv, Happens, netVars, Stays
<1>4. QED
  BY <1>2, <1>3, SameRow, SameNet, StayingInv DEF PageInv, Happens, Stays

LEMMA WithMedia ==
    ASSUME NEW p \in Page, Consistent(p), NEW tasks \in Seq(MediaEvents),
           NEW health \in {"fine", "over", "broken"}
    PROVE  LET q == [p EXCEPT !.audio.health = health, !.audio.tasks = tasks]
           IN  Stays(p, q) /\ Own(q) = Own(p)
<1> DEFINE m == [p.audio EXCEPT !.health = health, !.tasks = tasks]
<1> DEFINE q == [p EXCEPT !.audio.health = health, !.audio.tasks = tasks]
<1>1. p.audio \in Media
  BY DEF Page
<1>2. m \in Media /\ m.src = p.audio.src /\ m.left = p.audio.left
      /\ m.paused = p.audio.paused
  BY <1>1 DEF Media
<1>3. q = [p EXCEPT !.audio = m]
  BY <1>1 DEF Page, Media
<1> HIDE DEF m
<1>4. q \in Page /\ q.audio = m /\ Beside(p, q)
  BY <1>2, <1>3, WithAudio
<1> HIDE DEF q
<1>5. Muted(p, q) /\ q.chain = p.chain
  BY <1>2, <1>4 DEF Muted, Beside
<1>6. Stays(p, q) /\ Own(q) = Own(p)
  BY <1>4, <1>5, MutedKeeps DEF Muted, Own, Stays
<1>7. QED
  BY <1>6 DEF q

LEMMA MediaEndInv ==
    PageInv /\ MediaEnd => PageInv'
<1> SUFFICES ASSUME PageInv, MediaEnd PROVE PageInv'
  OBVIOUS
<1> DEFINE tasks == Append(page.audio.tasks, "ended")
<1> DEFINE q == [page EXCEPT !.audio.health = "over", !.audio.tasks = tasks]
<1>1. page \in Page /\ Consistent(page)
  BY DEF PageInv
<1>2. tasks \in Seq(MediaEvents)
  BY <1>1 DEF Page, Media, MediaEvents
<1>3. Happens(q)
  <2>1. [page EXCEPT !.audio.health = "over", !.audio.tasks = Append(@, "ended")] = q
    BY <1>1 DEF Page, Media
  <2>2. QED
    BY <2>1 DEF MediaEnd
<1> HIDE DEF tasks
<1>4. Stays(page, q) /\ Own(q) = Own(page)
  BY <1>1, <1>2, WithMedia
<1> HIDE DEF q
<1>5. QED
  BY <1>3, <1>4, HappensInv

LEMMA BreakInv ==
    PageInv /\ Break => PageInv'
<1> SUFFICES ASSUME PageInv, Break PROVE PageInv'
  OBVIOUS
<1> DEFINE tasks == Append(page.audio.tasks, "error")
<1> DEFINE q == [page EXCEPT !.audio.health = "broken", !.audio.tasks = tasks]
<1>1. page \in Page /\ Consistent(page)
  BY DEF PageInv
<1>2. tasks \in Seq(MediaEvents)
  BY <1>1 DEF Page, Media, MediaEvents
<1>3. Happens(q)
  <2>1. [page EXCEPT !.audio.health = "broken", !.audio.tasks = Append(@, "error")] = q
    BY <1>1 DEF Page, Media
  <2>2. QED
    BY <2>1 DEF Break
<1> HIDE DEF tasks
<1>4. Stays(page, q) /\ Own(q) = Own(page)
  BY <1>1, <1>2, WithMedia
<1> HIDE DEF q
<1>5. QED
  BY <1>3, <1>4, HappensInv

LEMMA HoldInv ==
    PageInv /\ Hold => PageInv'
<1> SUFFICES ASSUME PageInv, Hold PROVE PageInv'
  OBVIOUS
<1> DEFINE q == Pause(page)
<1>1. page \in Page /\ Consistent(page)
  BY DEF PageInv
<1>2. /\ q \in Page /\ Beside(page, q) /\ q.audio.paused
      /\ q.audio.src = page.audio.src /\ q.audio.left = page.audio.left
  BY <1>1, PauseFacts
<1>3. Happens(q)
  BY DEF Hold
<1> HIDE DEF q
<1>4. Muted(page, q) /\ Own(q) = Own(page) /\ q.chain = page.chain
  BY <1>2 DEF Muted, Beside, Own
<1>5. Stays(page, q)
  BY <1>1, <1>2, <1>4, MutedKeeps DEF Stays
<1>6. QED
  BY <1>3, <1>4, <1>5, HappensInv

LEMMA TellOwn ==
    ASSUME NEW p \in Page, NEW event
    PROVE  Own(Tell(p, event)) = Own(p)
<1> DEFINE c == [event |-> event, token |-> p.remote.token]
<1> DEFINE q == [p EXCEPT !.chain = Append(@, c)]
<1>1. q.target = p.target /\ q.shown = p.shown /\ q.saved = p.saved
  BY DEF Page
<1>2. Tell(p, event) = IF Speaks(p) THEN q ELSE p
  BY DEF Tell
<1> HIDE DEF q
<1>3. QED
  BY <1>1, <1>2 DEF Own

LEMMA TickInv ==
    PageInv /\ Tick => PageInv'
<1> SUFFICES ASSUME PageInv, Tick PROVE PageInv'
  OBVIOUS
<1> DEFINE q == Tell(page, "playing")
<1>1. page \in Page /\ Consistent(page)
  BY DEF PageInv
<1>2. Happens(q)
  BY DEF Tick
<1>3. Stays(page, q)
  BY <1>1, TellStays DEF Reports
<1>4. Own(q) = Own(page)
  BY <1>1, TellOwn
<1> HIDE DEF q
<1>5. QED
  BY <1>2, <1>3, <1>4, HappensInv

LEMMA EventInv ==
    PageInv /\ Event => PageInv'
<1> SUFFICES ASSUME PageInv, Event PROVE PageInv'
  OBVIOUS
<1> DEFINE e == Head(page.audio.tasks)
<1> DEFINE rest == Tail(page.audio.tasks)
<1> DEFINE p == [page EXCEPT !.audio.tasks = Tail(@)]
<1> DEFINE m == [page.audio EXCEPT !.tasks = rest]
<1>1. page \in Page /\ Consistent(page) /\ page.audio \in Media
  BY DEF PageInv, Page
<1>2. page.audio.tasks \in Seq(MediaEvents) /\ page.audio.tasks # <<>>
  BY <1>1 DEF Media, Event
<1>3. e \in MediaEvents /\ rest \in Seq(MediaEvents)
  BY <1>2
<1>4. p = [page EXCEPT !.audio = m]
  BY <1>1 DEF Page
<1>5. page' \in Handled(p, e)
  BY DEF Event
<1> HIDE DEF e, rest
<1>6. m \in Media /\ m.src = page.audio.src /\ m.left = page.audio.left
      /\ m.paused = page.audio.paused
  BY <1>1, <1>3 DEF Media
<1> HIDE DEF m
<1>7. Stays(page, p)
  BY <1>1, <1>4, <1>6, MediaStays
<1> HIDE DEF p
<1>8. Stays(p, page')
  BY <1>3, <1>5, <1>7, HandledFacts DEF Stays, Keeps
<1>9. Stays(page, page')
  BY <1>7, <1>8, StaysTransitive
<1>10. Keep /\ UNCHANGED shareVars /\ UNCHANGED netVars
  BY DEF Event
<1>11. ReplyInv'
  BY <1>9, <1>10, ReplySame DEF PageInv, netVars, Stays
<1>12. QED
  BY <1>9, <1>10, <1>11, SameRow, SameNet, StayingInv DEF PageInv, Stays

\* The queue of the other output is shown where it is the target.
LEMMA ReceiveTheirsInv ==
    PageInv /\ ReceiveTheirs => PageInv'
<1> SUFFICES ASSUME PageInv, ReceiveTheirs PROVE PageInv'
  OBVIOUS
<1> DEFINE list == Shows(Theirs)
<1>1. page \in Page /\ Consistent(page) /\ page.target = Theirs /\ Theirs # Local
  BY PageAssumption DEF PageInv, ReceiveTheirs
<1>2. list \in Listing /\ list \in QueueType
  BY ShowsFacts DEF Listing
<1>3. page' = [page EXCEPT !.shown = list]
  BY DEF ReceiveTheirs
<1> HIDE DEF list
<1>4. page' \in Page
  BY <1>1, <1>2, <1>3 DEF Page
<1>5. /\ page'.target = page.target /\ page'.saved = page.saved /\ page'.owned = page.owned
      /\ page'.speaking = page.speaking /\ page'.audio = page.audio /\ page'.shown = list
  BY <1>1, <1>3 DEF Page
<1>6. Own(page') = Own(page)
  BY <1>1, <1>5 DEF Own
<1>7. Consistent(page')
  BY <1>1, <1>2, <1>5, <1>6 DEF Consistent
<1>8. Keeps(page, page')
  BY <1>4, <1>5, <1>7 DEF Keeps
<1>9. page'.chain = page.chain
  BY <1>1, <1>3 DEF Page
<1>10. ReplyInv'
  BY <1>9, ReplySame DEF PageInv, ReceiveTheirs, netVars
<1>11. QED
  BY <1>6, <1>8, <1>10, SameRow, SameNet, StayingInv DEF PageInv, ReceiveTheirs

-----------------------------------------------------------------------------
(* The steps that change the target.                                       *)

LEMMA PreservedInv ==
    ASSUME PageInv, RowInv', NetInv', ReplyInv', Preserved(page, page'), UNCHANGED kept
    PROVE  PageInv'
<1>1. page' \in Page /\ Consistent(page')
  BY DEF Preserved
<1>2. LocalQueueKept'
  BY KeptAlong DEF Preserved
<1>3. QED
  BY <1>1, <1>2 DEF PageInv

LEMMA SelectInv ==
    ASSUME PageInv, NEW id \in listed \cup {Local}, Select(id)
    PROVE  PageInv'
<1>1. page \in Page /\ Consistent(page) /\ id \in {Local, Mine, Theirs}
  BY DEF PageInv, NetInv
<1>2. PICK allowed \in BOOLEAN : page' = SetTarget(page, id, listed, allowed)
  BY DEF Select
<1>3. Preserved(page, page')
  BY <1>1, <1>2, SetTargetFacts
<1> DEFINE asked == page'.target = Mine
<1>4. Ask(asked)
  BY DEF Select
<1> HIDE DEF asked
<1>5. NetInv'
  BY <1>4, AskNet DEF Select, PageInv, NetInv
<1>6. ReplyInv'
  BY <1>3, <1>4, AskReply DEF PageInv, Preserved
<1>7. RowInv' /\ UNCHANGED kept
  BY SameRow DEF PageInv, Select
<1>8. QED
  BY <1>3, <1>5, <1>6, <1>7, PreservedInv

LEMMA RefreshInv ==
    PageInv /\ Refresh => PageInv'
<1> SUFFICES ASSUME PageInv, Refresh PROVE PageInv'
  OBVIOUS
<1>1. page \in Page /\ Consistent(page) /\ Mine # Local
  BY PageAssumption DEF PageInv
<1>2. PICK allowed \in BOOLEAN :
         page' = Leave(AutoSelect(page, there, allowed), there, allowed)
  BY DEF Refresh
<1> DEFINE q == AutoSelect(page, there, allowed)
<1> DEFINE gone == page.target \notin there \cup {Local}
<1>3. Preserved(page, q) /\ (q = page \/ (q.target = Mine /\ Mine \in there))
  BY <1>1, AutoSelectFacts
<1>4. page' = Leave(q, there, allowed)
  BY <1>2
<1>5. kept' = IF Adopts(page) /\ gone THEN page'.saved ELSE kept
  BY DEF Refresh, Adopts
<1> HIDE DEF q
<1>6. q \in Page /\ Consistent(q) /\ q.chain = page.chain
  BY <1>3 DEF Preserved
<1>7. page' \in Page /\ Consistent(page') /\ page'.chain = page.chain
  BY <1>4, <1>6, LeaveFacts
<1>8. LocalQueueKept'
  <2>1. CASE q = page
    <3>1. CASE gone /\ Adopts(page)
      <4>1. Own(page') = page'.saved
        BY <1>1, <1>4, <2>1, <3>1, LeaveFacts
      <4>2. QED
        BY <1>5, <3>1, <4>1, KeptOwnNext
    <3>2. CASE ~(gone /\ Adopts(page))
      <4>1. Preserved(page, page')
        BY <1>1, <1>4, <2>1, <3>2, LeaveFacts
      <4>2. QED
        BY <1>5, <3>2, <4>1, KeptAlong DEF Preserved
    <3>3. QED
      BY <3>1, <3>2
  <2>2. CASE q.target = Mine /\ Mine \in there
    <3>1. page' = q
      BY <1>4, <2>2 DEF Leave
    <3>2. Own(page') = page'.saved
      BY <1>1, <2>2, <3>1 DEF Own
    <3>3. kept' = page'.saved => LocalQueueKept'
      BY <3>2, KeptOwnNext
    <3>4. kept' = kept => LocalQueueKept'
      BY <1>3, <3>1, KeptAlong DEF Preserved
    <3>5. QED
      BY <1>5, <3>3, <3>4
  <2>3. QED
    BY <1>3, <2>1, <2>2
<1> DEFINE asked == page'.target = Mine /\ page.target # Mine
<1>9. Ask(asked)
  BY DEF Refresh
<1> HIDE DEF asked
<1>10. NetInv'
  BY <1>9, AskNet DEF Refresh, PageInv, NetInv
<1>11. ReplyInv'
  BY <1>7, <1>9, AskReply DEF PageInv
<1>12. RowInv'
  BY SameRow DEF PageInv, Refresh
<1>13. QED
  BY <1>7, <1>8, <1>10, <1>11, <1>12 DEF PageInv

LEMMA WithOwned ==
    ASSUME NEW p \in Page, NEW owned \in BOOLEAN
    PROVE  LET q == [p EXCEPT !.owned = owned]
           IN  /\ q \in Page /\ q.owned = owned /\ q.target = p.target /\ q.shown = p.shown
               /\ q.saved = p.saved /\ q.chain = p.chain /\ q.audio = p.audio
               /\ Own(q) = Own(p)
               /\ Consistent(p) /\ (owned \/ p.target # Mine) => Consistent(q)
<1> DEFINE q == [p EXCEPT !.owned = owned]
<1>1. q \in Page
  BY DEF Page
<1>2. /\ q.owned = owned /\ q.target = p.target /\ q.shown = p.shown /\ q.saved = p.saved
      /\ q.chain = p.chain /\ q.audio = p.audio /\ q.speaking = p.speaking
  BY DEF Page
<1> HIDE DEF q
<1>3. Own(q) = Own(p)
  BY <1>2 DEF Own
<1>4. Consistent(p) /\ (owned \/ p.target # Mine) => Consistent(q)
  BY <1>2, <1>3 DEF Consistent
<1>5. QED
  BY <1>1, <1>2, <1>3, <1>4 DEF q

LEMMA WithLeft ==
    ASSUME NEW p \in Page, NEW left \in BOOLEAN
    PROVE  LET q == [p EXCEPT !.audio.left = left]
           IN  /\ q \in Page /\ Beside(p, q) /\ q.audio.left = left
               /\ left = p.audio.left => q = p
<1> DEFINE m == [p.audio EXCEPT !.left = left]
<1> DEFINE q == [p EXCEPT !.audio.left = left]
<1>1. p.audio \in Media
  BY DEF Page
<1>2. m \in Media /\ m.left = left
  BY <1>1 DEF Media
<1>3. left = p.audio.left => m = p.audio
  BY <1>1 DEF Media
<1>4. q = [p EXCEPT !.audio = m]
  BY DEF Page
<1> HIDE DEF m
<1>5. q \in Page /\ q.audio = m /\ Beside(p, q)
  BY <1>2, <1>4, WithAudio
<1>6. m = p.audio => q = p
  BY <1>4 DEF Page
<1>7. QED
  BY <1>2, <1>3, <1>5, <1>6

\* The answer to sharing.
LEMMA GetSharedInv ==
    PageInv /\ GetShared => PageInv'
<1> SUFFICES ASSUME PageInv, GetShared PROVE PageInv'
  OBVIOUS
<1>1. page \in Page /\ Consistent(page) /\ Mine # Local
  BY PageAssumption DEF PageInv
<1> DEFINE p == [page EXCEPT !.owned = TRUE]
<1>2. PICK allowed \in BOOLEAN :
        LET s == SetTarget(AutoSelect(p, listed, allowed), Mine, listed, allowed)
        IN  page' = [s EXCEPT !.audio.left = @ \/ s.target = Local]
  BY DEF GetShared
<1> DEFINE q == AutoSelect(p, listed, allowed)
<1> DEFINE s == SetTarget(q, Mine, listed, allowed)
<1> DEFINE left == s.audio.left \/ s.target = Local
<1>3. page' = [s EXCEPT !.audio.left = left]
  BY <1>2
<1>4. p \in Page /\ Consistent(p) /\ Own(p) = Own(page) /\ p.chain = page.chain
  BY <1>1, WithOwned
<1> HIDE DEF p
<1>5. Preserved(p, q)
  BY <1>4, AutoSelectFacts
<1>6. q \in Page /\ Consistent(q) /\ q.chain = page.chain
  BY <1>4, <1>5 DEF Preserved
<1>7. kept' = IF page'.target = Local THEN None ELSE kept
  BY DEF GetShared
<1> HIDE DEF q
<1>8. /\ page' \in Page /\ Consistent(page') /\ page'.chain = page.chain
      /\ LocalQueueKept'
  <2>1. CASE Mine \in listed \/ q.target = Mine
    <3>1. Resolve(q, Mine, listed) = Mine
      BY <1>1, ResolveFacts
    <3>2. Preserved(q, s) /\ s.target = Mine
      BY <1>6, <2>1, <3>1, SetTargetFacts
    <3>3. s \in Page
      BY <3>2 DEF Preserved
    <3>4. s.audio.left \in BOOLEAN
      BY <3>3 DEF Page, Media
    <3>5. left = s.audio.left
      BY <1>1, <3>2, <3>4
    <3> HIDE DEF s, left
    <3>6. page' = s
      BY <1>3, <3>3, <3>4, <3>5, WithLeft
    <3>7. kept' = kept
      BY <1>1, <1>7, <3>2, <3>6
    <3>8. Own(page) # None => Own(page') = Own(page)
      BY <1>4, <1>5, <3>2, <3>6 DEF Preserved
    <3>9. LocalQueueKept'
      BY <3>7, <3>8, KeptAlong
    <3>10. QED
      BY <1>6, <3>2, <3>3, <3>6, <3>9 DEF Preserved
  <2>2. CASE ~(Mine \in listed \/ q.target = Mine)
    <3>1. /\ s \in Page /\ s.target = Local /\ s.chain = q.chain
          /\ s.speaking = None /\ s.shown \in Listing
      BY <1>6, <2>2, WipedFacts
    <3>2. left = TRUE
      BY <3>1
    <3> HIDE DEF s, left
    <3>3. page' \in Page /\ Beside(s, page') /\ page'.audio.left
      BY <1>3, <3>1, <3>2, WithLeft
    <3>4. Consistent(page')
      BY <3>1, <3>3 DEF Beside, Consistent
    <3>5. kept' = None
      BY <1>7, <3>1, <3>3 DEF Beside
    <3>6. LocalQueueKept'
      BY <3>5, KeptOwnNext
    <3>7. QED
      BY <1>6, <3>1, <3>3, <3>4, <3>6 DEF Beside
  <2>3. QED
    BY <2>1, <2>2
<1> DEFINE asked == page.target # Mine
<1>9. Ask(asked)
  BY DEF GetShared
<1> HIDE DEF asked
<1>10. NetInv'
  BY <1>9, AskNet DEF GetShared, PageInv, NetInv
<1>11. ReplyInv'
  BY <1>8, <1>9, AskReply DEF PageInv
<1>12. RowInv'
  BY SameRow DEF PageInv, GetShared
<1>13. QED
  BY <1>8, <1>10, <1>11, <1>12 DEF PageInv

\* A speaker that has let its player go returns to the own queue; its media are
\* still there.
LEMMA ReleasedFacts ==
    ASSUME NEW p \in Page, p.shown \in Listing, p.target = Mine, ~p.owned, NEW players
    PROVE  LET r == SetTarget(p, Local, players, TRUE)
           IN  /\ r \in Page /\ Consistent(r) /\ r.chain = p.chain
               /\ Own(p) # None => Own(r) = Own(p)
<1> DEFINE d == Depart(p, Local)
<1> DEFINE m == Watch(d, Mine, TRUE)
<1> DEFINE r == Arrive(m, Local)
<1>1. Mine # Local
  BY PageAssumption
<1>2. Resolve(p, Local, players) = Local
  BY DEF Resolve
<1>3. SetTarget(p, Local, players, TRUE) = Arrive(Leave(m, players, TRUE), Local)
  BY <1>1, <1>2 DEF SetTarget
<1>4. d \in Page /\ Departed(p, Local, d)
  BY DepartFacts
<1> HIDE DEF d
<1>5. m \in Page /\ Routed(d, m)
  BY <1>4, WatchFacts
<1>6. /\ m.target = Local /\ m.shown = p.shown /\ m.saved = p.saved
      /\ m.chain = p.chain /\ m.audio.left = TRUE
  BY <1>1, <1>4, <1>5 DEF Departed, Routed
<1> HIDE DEF m
<1>7. Leave(m, players, TRUE) = m
  BY <1>6 DEF Leave
<1>8. /\ r \in Page /\ r.target = Local /\ r.chain = p.chain /\ r.audio.left = TRUE
      /\ r.speaking = None /\ r.shown = IF p.saved = None THEN p.shown ELSE p.saved
  BY <1>5, <1>6, ArriveFacts
<1> HIDE DEF r
<1>9. r.shown \in Listing
  BY <1>8 DEF Page
<1>10. Consistent(r)
  BY <1>8, <1>9 DEF Consistent
<1>11. Own(p) # None => Own(r) = Own(p)
  BY <1>1, <1>8 DEF Own
<1>12. QED
  BY <1>3, <1>7, <1>8, <1>10, <1>11 DEF r

LEMMA GetReleasedInv ==
    PageInv /\ GetReleased => PageInv'
<1> SUFFICES ASSUME PageInv, GetReleased PROVE PageInv'
  OBVIOUS
<1> DEFINE p == [page EXCEPT !.owned = FALSE]
<1>1. page \in Page /\ Consistent(page)
  BY DEF PageInv
<1>2. page' = IF p.target = Mine THEN SetTarget(p, Local, listed, TRUE) ELSE p
  BY DEF GetReleased
<1>3. /\ p \in Page /\ ~p.owned /\ p.target = page.target /\ p.shown = page.shown
      /\ Own(p) = Own(page) /\ p.chain = page.chain
      /\ (page.target # Mine => Consistent(p))
  BY <1>1, WithOwned
<1> HIDE DEF p
<1>4. p.shown \in Listing
  BY <1>1, <1>3 DEF Consistent
<1>5. /\ page' \in Page /\ Consistent(page') /\ page'.chain = page.chain
      /\ (Own(page) # None => Own(page') = Own(page))
  <2>1. CASE p.target = Mine
    <3>1. page' = SetTarget(p, Local, listed, TRUE)
      BY <1>2, <2>1
    <3>2. QED
      BY <1>3, <1>4, <2>1, <3>1, ReleasedFacts
  <2>2. CASE p.target # Mine
    BY <1>2, <1>3, <2>2
  <2>3. QED
    BY <2>1, <2>2
<1>6. LocalQueueKept'
  BY <1>5, KeptAlong DEF GetReleased
<1>7. Ask(FALSE)
  BY DEF GetReleased
<1>8. NetInv'
  BY <1>7, AskNet DEF GetReleased, PageInv, NetInv
<1>9. ReplyInv'
  BY <1>5, <1>7, AskReply DEF PageInv
<1>10. RowInv'
  BY SameRow DEF PageInv, GetReleased
<1>11. QED
  BY <1>5, <1>6, <1>8, <1>9, <1>10 DEF PageInv

-----------------------------------------------------------------------------
(* The frames, the server and the other clients.                           *)

LEMMA ReceiveMineInv ==
    PageInv /\ ReceiveMine => PageInv'
<1> SUFFICES ASSUME PageInv, ReceiveMine PROVE PageInv'
  OBVIOUS
<1> DEFINE d == Head(frames)
<1> DEFINE f == [status |-> d.status, token |-> d.token, rev |-> d.rev]
<1> DEFINE p == IF d.reply THEN [page EXCEPT !.chain = Tail(@)] ELSE page
<1>1. page \in Page /\ Consistent(page) /\ page.chain \in Seq(Controls)
  BY DEF PageInv, Page
<1>2. frames \in Seq(Deliveries) /\ frames # <<>> /\ frames' = Tail(frames)
  BY DEF PageInv, NetInv, ReceiveMine
<1>3. d \in Deliveries /\ 1 \in DOMAIN frames /\ d = frames[1]
  BY <1>2
<1>4. PICK allowed \in BOOLEAN : page' = Accept(p, f, allowed)
  BY DEF ReceiveMine
<1> HIDE DEF d
<1>5. f \in Frames
  BY <1>3 DEF Deliveries, Frames, FrameType, FrameOK
<1> HIDE DEF f
<1>6. d.reply => page.chain # <<>>
  BY <1>3 DEF PageInv, ReplyInv, InFlight
<1>7. p \in Page /\ Consistent(p) /\ Own(p) = Own(page) /\ (~d.reply => p = page)
  <2>1. CASE d.reply
    <3> DEFINE chain == Tail(page.chain)
    <3>1. chain \in Seq(Controls)
      BY <1>1, <1>6, <2>1
    <3>2. p = [page EXCEPT !.chain = chain]
      BY <1>1, <2>1 DEF Page
    <3> HIDE DEF chain
    <3>3. QED
      BY <1>1, <2>1, <3>1, <3>2, WithChain DEF Keeps
  <2>2. CASE ~d.reply
    BY <1>1, <2>2
  <2>3. QED
    BY <2>1, <2>2
<1> HIDE DEF p
<1>8. page' \in Page /\ Consistent(page') /\ Routed(p, page')
  BY <1>4, <1>5, <1>7, AcceptFacts
<1>9. Own(page') = Own(page)
  BY <1>7, <1>8, RoutedOwn
<1>10. LocalQueueKept'
  BY <1>9, KeptAlong DEF ReceiveMine
<1>11. frames' \in Seq(Deliveries)
  BY <1>2
<1>12. NetInv'
  BY <1>11 DEF PageInv, NetInv, ReceiveMine
<1>13. ReplyInv'
  <2>1. /\ DOMAIN frames = 1..Len(frames) /\ DOMAIN frames' = 1..(Len(frames) - 1)
        /\ Len(frames) \in Nat /\ \A k \in DOMAIN frames' : frames'[k] = frames[k + 1]
    BY <1>2
  <2>2. \A k \in DOMAIN frames' : k \in Int /\ k + 1 \in DOMAIN frames /\ k + 1 # 1
    BY <2>1
  <2>3. \A j, k \in DOMAIN frames' : frames'[j].reply /\ frames'[k].reply => j = k
    <3> SUFFICES ASSUME NEW j \in DOMAIN frames', NEW k \in DOMAIN frames',
                        frames'[j].reply, frames'[k].reply
                 PROVE  j = k
      OBVIOUS
    <3>1. frames[j + 1].reply /\ frames[k + 1].reply
      BY <2>1
    <3>2. j + 1 = k + 1
      BY <2>2, <3>1 DEF PageInv, ReplyInv
    <3>3. QED
      BY <2>2, <3>2
  <2>4. InFlight' => page'.chain # <<>>
    <3> SUFFICES ASSUME NEW k \in DOMAIN frames', frames'[k].reply
                 PROVE  page'.chain # <<>>
      BY DEF InFlight
    <3>1. frames[k + 1].reply /\ k + 1 \in DOMAIN frames /\ k + 1 # 1
      BY <2>1, <2>2
    <3>2. ~d.reply
      BY <1>3, <3>1 DEF PageInv, ReplyInv
    <3>3. page.chain # <<>>
      BY <3>1 DEF PageInv, ReplyInv, InFlight
    <3>4. page'.chain = page.chain
      BY <1>7, <1>8, <3>2 DEF Routed
    <3>5. QED
      BY <3>3, <3>4
  <2>5. QED
    BY <2>3, <2>4 DEF ReplyInv
<1>14. RowInv'
  BY SameRow DEF PageInv, ReceiveMine
<1>15. QED
  BY <1>8, <1>10, <1>12, <1>13, <1>14 DEF PageInv

LEMMA SamePageInv ==
    ASSUME PageInv, RowInv', NetInv', ReplyInv', UNCHANGED <<page, kept>>
    PROVE  PageInv'
BY DEF PageInv, LocalQueueKept

LEMMA SteerInv ==
    PageInv /\ Steer => PageInv'
<1> SUFFICES ASSUME PageInv, Steer PROVE PageInv'
  OBVIOUS
<1> DEFINE f == Push(FALSE)
<1>1. RowInv'
  BY ControlRow DEF PageInv, Steer
<1>2. f \in Deliveries /\ ~f.reply
  BY <1>1, PushedFrame DEF Push
<1>3. frames' = Append(frames, f) \/ frames' = frames
  BY DEF Steer
<1> HIDE DEF f
<1>4. page' = page /\ NetInv /\ ReplyInv
  BY DEF PageInv, Steer
<1>5. ReplyInv'
  BY <1>2, <1>3, <1>4, ReplySame, ReplyMore
<1>6. frames' \in Seq(Deliveries)
  BY <1>2, <1>3, <1>4 DEF NetInv
<1>7. NetInv'
  BY <1>4, <1>6 DEF NetInv, Steer
<1>8. QED
  BY <1>1, <1>5, <1>7, SamePageInv DEF Steer

LEMMA ServeInv ==
    PageInv /\ Serve => PageInv'
<1> SUFFICES ASSUME PageInv, Serve PROVE PageInv'
  OBVIOUS
<1> DEFINE g == Push(TRUE)
<1> DEFINE f == Push(FALSE)
<1> DEFINE more == IF subscribed THEN <<f>> ELSE <<>>
<1>1. RowInv'
  BY ControlRow, ReportRow, SameRow DEF PageInv, Serve
<1>2. g \in Deliveries /\ f \in Deliveries /\ ~f.reply
  BY <1>1, PushedFrame DEF Push
<1>3. frames' = frames \o <<g>> \o more
  BY DEF Serve
<1> HIDE DEF g, f
<1>4. more \in Seq(Deliveries) /\ \A k \in DOMAIN more : more[k] = f
  BY <1>2
<1> HIDE DEF more
<1>5. frames \in Seq(Deliveries) /\ frames' \in Seq(Deliveries)
  BY <1>2, <1>3, <1>4 DEF PageInv, NetInv
<1>6. NetInv'
  BY <1>5 DEF PageInv, NetInv, Serve
<1>7. \A k \in DOMAIN frames' : frames'[k].reply => k = Len(frames) + 1
  <2> SUFFICES ASSUME NEW k \in DOMAIN frames', k # Len(frames) + 1
               PROVE  ~frames'[k].reply
    OBVIOUS
  <2> DEFINE n == Len(frames)
  <2>1. n \in Nat /\ Len(more) \in Nat /\ k \in 1..(n + 1 + Len(more)) /\ DOMAIN frames = 1..n
        /\ DOMAIN more = 1..Len(more)
    BY <1>2, <1>3, <1>4, <1>5
  <2>2. CASE k <= n
    <3>1. frames'[k] = frames[k] /\ k \in DOMAIN frames
      BY <1>2, <1>3, <1>4, <1>5, <2>1, <2>2
    <3>2. QED
      BY <3>1 DEF Serve, InFlight
  <2>3. CASE k > n + 1
    <3>1. frames'[k] = more[k - n - 1] /\ k - n - 1 \in DOMAIN more
      BY <1>2, <1>3, <1>4, <1>5, <2>1, <2>3
    <3>2. QED
      BY <1>2, <1>4, <3>1
  <2>4. QED
    BY <2>1, <2>2, <2>3
<1>8. ReplyInv'
  BY <1>7 DEF Serve, ReplyInv
<1>9. QED
  BY <1>1, <1>6, <1>8, SamePageInv DEF Serve

LEMMA AskShareInv ==
    PageInv /\ AskShare => PageInv'
<1> SUFFICES ASSUME PageInv, AskShare PROVE PageInv'
  OBVIOUS
<1>1. RowInv'
  <2>1. CASE Mine \in there
    BY <2>1, SameRow DEF PageInv, AskShare
  <2>2. CASE Mine \notin there
    BY <2>2 DEF PageInv, RowInv, AskShare
  <2>3. QED
    BY <2>1, <2>2
<1>2. NetInv'
  BY DEF PageInv, NetInv, AskShare
<1>3. ReplyInv'
  BY ReplySame DEF PageInv, AskShare
<1>4. QED
  BY <1>1, <1>2, <1>3, SamePageInv DEF AskShare

LEMMA AskReleaseInv ==
    PageInv /\ AskRelease => PageInv'
<1> SUFFICES ASSUME PageInv, AskRelease PROVE PageInv'
  OBVIOUS
<1>1. RowInv'
  BY SameRow DEF PageInv, AskRelease
<1>2. NetInv'
  BY DEF PageInv, NetInv, AskRelease, Drop
<1>3. ReplyInv'
  BY ReplySame DEF PageInv, AskRelease
<1>4. QED
  BY <1>1, <1>2, <1>3, SamePageInv DEF AskRelease

LEMMA WithdrawInv ==
    PageInv /\ Withdraw => PageInv'
<1> SUFFICES ASSUME PageInv, Withdraw PROVE PageInv'
  OBVIOUS
<1>1. RowInv'
  BY SameRow DEF PageInv, Withdraw
<1>2. NetInv'
  BY DEF PageInv, NetInv, Withdraw, Drop
<1>3. ReplyInv'
  BY ReplySame DEF PageInv, Withdraw
<1>4. QED
  BY <1>1, <1>2, <1>3, SamePageInv DEF Withdraw

LEMMA ChangeInv ==
    PageInv /\ Change => PageInv'
<1> SUFFICES ASSUME PageInv, Change PROVE PageInv'
  OBVIOUS
<1>1. RowInv'
  BY SameRow DEF PageInv, Change
<1>2. NetInv'
  BY DEF PageInv, NetInv, Change
<1>3. ReplyInv'
  BY ReplySame DEF PageInv, Change
<1>4. QED
  BY <1>1, <1>2, <1>3, SamePageInv DEF Change

-----------------------------------------------------------------------------
(* The specification.                                                      *)

LEMMA InitInv ==
    PageInit => PageInv
<1> SUFFICES ASSUME PageInit PROVE PageInv
  OBVIOUS
<1>1. RowInv
  <2>1. Shared!Init
    BY DEF PageInit
  <2>2. MaxTokens \in Nat
    BY PageAssumption
  <2>3. QED
    BY <2>1, <2>2 DEF Shared!Init, RowInv
<1>2. NetInv
  <2>1. /\ listed = {Theirs} /\ answer = "none" /\ subscribed = FALSE /\ frames = <<>>
        /\ there = {Theirs} \cup (IF page.owned THEN {Mine} ELSE {})
    BY DEF PageInit
  <2>2. there \subseteq {Mine, Theirs} /\ listed \subseteq {Mine, Theirs}
    BY <2>1
  <2>3. <<>> \in Seq(Deliveries)
    OBVIOUS
  <2>4. subscribed \in BOOLEAN /\ answer \in {"none", "shared", "released"}
    BY <2>1
  <2>5. frames \in Seq(Deliveries)
    BY <2>1, <2>3
  <2>6. QED
    BY <2>2, <2>4, <2>5 DEF NetInv
<1>3. ReplyInv
  BY DEF PageInit, ReplyInv, InFlight
<1>4. NoQueue \in Listing /\ NoMedia \in Media /\ NoMedia.src = None /\ NoMedia.paused
  BY NoQueueListing, NoMediaFacts DEF NoMedia
<1>5. NoQueue \in QueueType /\ "silent" \in Views /\ <<>> \in Seq(Controls)
  BY <1>4 DEF Listing, Views
<1>6. /\ page.target = Local /\ page.owned \in BOOLEAN /\ page.chosen = FALSE
      /\ page.shown = NoQueue /\ page.view = "silent" /\ page.saved = None
      /\ page.undo = None /\ page.remote = None /\ page.cache = None
      /\ page.speaking = None /\ page.audio = NoMedia /\ page.chain = <<>>
  BY DEF PageInit
<1>7. page \in Page
  BY <1>4, <1>5, <1>6 DEF PageInit, Page
<1>8. Consistent(page)
  BY <1>4, <1>6 DEF Consistent
<1>9. LocalQueueKept
  BY <1>6 DEF PageInit, LocalQueueKept
<1>10. QED
  BY <1>1, <1>2, <1>3, <1>7, <1>8, <1>9 DEF PageInv

LEMMA StutterInv ==
    PageInv /\ UNCHANGED pageVars => PageInv'
<1> SUFFICES ASSUME PageInv, UNCHANGED pageVars PROVE PageInv'
  OBVIOUS
<1>1. RowInv' /\ NetInv' /\ UNCHANGED <<page, kept>>
  BY SameRow, SameNet DEF PageInv, pageVars
<1>2. ReplyInv'
  BY ReplySame DEF PageInv, pageVars, netVars
<1>3. QED
  BY <1>1, <1>2, SamePageInv

LEMMA ActsInv ==
    PageInv /\ Acts => PageInv'
<1> SUFFICES ASSUME PageInv, Acts PROVE PageInv'
  OBVIOUS
<1>1. CASE \E id \in listed \cup {Local} : Select(id)
  BY <1>1, SelectInv
<1>2. CASE ~\E id \in listed \cup {Local} : Select(id)
  BY <1>2, LocalOpInv, ClickInv, HoldInv, BreakInv, ControlFailsInv, AskShareInv,
     AskReleaseInv, WithdrawInv, ChangeInv DEF Acts
<1>3. QED
  BY <1>1, <1>2

LEMMA CourseInv ==
    PageInv /\ Course => PageInv'
BY RefreshInv, GetSharedInv, GetReleasedInv, ReceiveMineInv, ReceiveTheirsInv, EventInv,
   MediaEndInv, TickInv, SteerInv, ServeInv DEF Course

LEMMA PageInvariance ==
    PageSpec => []PageInv
<1>1. PageInv /\ [PageNext]_pageVars => PageInv'
  BY ActsInv, CourseInv, StutterInv DEF PageNext
<1>2. QED
  BY <1>1, InitInv, PTL DEF PageSpec

\* Every variable has its shape, and the place in the queue lies within the
\* queue shown, for every library and every run of the tab.
THEOREM PageTypeCorrect ==
    PageSpec => []PageTypeOK
<1>1. PageInv => PageTypeOK
  <2> SUFFICES ASSUME PageInv PROVE PageTypeOK
    OBVIOUS
  <2>1. /\ there \subseteq {Mine, Theirs} /\ listed \subseteq {Mine, Theirs}
        /\ answer \in {"none", "shared", "released"} /\ subscribed \in BOOLEAN
    BY DEF PageInv, NetInv
  <2>2. ASSUME NEW k \in DOMAIN frames
        PROVE  /\ [status |-> frames[k].status, token |-> frames[k].token,
                   rev |-> frames[k].rev] \in FrameType
               /\ frames[k].reply \in BOOLEAN
    <3>1. frames[k] \in Deliveries
      BY DEF PageInv, NetInv
    <3>2. QED
      BY <3>1 DEF Deliveries, FrameType
  <2>3. page \in Page /\ page.shown \in Listing
    BY DEF PageInv, Consistent
  <2>4. page.shown \in QueueType /\ page.shown.index \in 0..Len(page.shown.queue)
    BY <2>3 DEF Listing, QueueType
  <2>5. /\ page.saved \in QueueType \cup {None}
        /\ page.undo = None \/ page.undo \in [shown : QueueType, view : Views]
        /\ page.remote \in FrameType \cup {None} /\ page.cache \in FrameType \cup {None}
    BY <2>3 DEF Page, Listing, Frames
  <2>6. /\ page.target \in {Local, Mine, Theirs}
        /\ page.owned \in BOOLEAN /\ page.chosen \in BOOLEAN /\ page.view \in Views
        /\ page.speaking \in (1..MaxTokens) \cup {None}
        /\ page.audio \in [src : Track \cup {Mine, Theirs, None} \cup 1..MaxTokens,
                           opened : BOOLEAN, paused : BOOLEAN,
                           health : {"fine", "over", "broken"},
                           tasks : Seq({"play", "pause", "ended", "error"}), left : BOOLEAN]
        /\ page.chain \in Seq([event : {"command", "playing", "paused", "completed", "failed"},
                               token : 0..MaxTokens])
    BY <2>3 DEF Page, Media, Sources, MediaEvents, Controls
  <2>7. QED
    BY <2>1, <2>2, <2>4, <2>5, <2>6 DEF PageTypeOK
<1>2. QED
  BY <1>1, PageInvariance, PTL

\* However the target changes, by the user's choice, with the catalogue or with
\* an answer of the server, the tab's own queue is there when it is back.
THEOREM OwnQueueIsKept ==
    PageSpec => []LocalQueueKept
<1>1. PageInv => LocalQueueKept
  BY DEF PageInv
<1>2. QED
  BY <1>1, PageInvariance, PTL

\* What is heard belongs to the selected output, but for the media that are
\* marked as left.
THEOREM OnlyOwnIsHeard ==
    PageSpec => []SoundsOwn
<1>1. PageInv => SoundsOwn
  <2> SUFFICES ASSUME Consistent(page), Sounding(page), ~page.audio.left PROVE
         \/ /\ page.target = Local /\ page.shown.index \in DOMAIN page.shown.queue
            /\ page.audio.src = page.shown.queue[page.shown.index]
         \/ page.target = Mine /\ page.owned /\ page.audio.src = page.speaking
    BY DEF PageInv, SoundsOwn
  <2>1. page.audio.src # None /\ ~page.audio.paused
    BY DEF Sounding
  <2>2. CASE page.target # Local
    BY <2>1, <2>2 DEF Consistent
  <2>3. CASE page.target = Local
    <3>1. Current(page.shown, page.audio.src)
      BY <2>1, <2>3, PageAssumption DEF Consistent, Own
    <3>2. QED
      BY <2>3, <3>1 DEF Current
  <2>4. QED
    BY <2>2, <2>3
<1>2. QED
  BY <1>1, PageInvariance, PTL
-----------------------------------------------------------------------------
(* What becomes of the media and of what the tab knows.                    *)

Holds(s, e) == \E k \in DOMAIN s : s[k] = e

\* Media that are broken or over were so before, and what waited to be told of
\* them still waits.
Continues(m, n) ==
    /\ n.health = "broken" =>
          /\ m.health = "broken" /\ n.src = m.src
          /\ Holds(m.tasks, "error") => Holds(n.tasks, "error")
    /\ n.health = "over" /\ ~n.paused =>
          /\ m.health = "over" /\ ~m.paused
          /\ Holds(m.tasks, "ended") => Holds(n.tasks, "ended")

\* The tab learns nothing new of the shared player.
Onward(p, q) ==
    /\ Continues(p.audio, q.audio)
    /\ q.remote \in {p.remote, p.cache, None}
    /\ q.cache \in {p.cache, None}

LEMMA HoldsMore ==
    ASSUME NEW S, NEW s \in Seq(S), NEW x \in S, NEW e
    PROVE  /\ Holds(s, e) => Holds(Append(s, x), e)
           /\ Holds(Append(s, x), x)
<1> DEFINE t == Append(s, x)
<1>1. /\ DOMAIN t = 1..(Len(s) + 1) /\ DOMAIN s = 1..Len(s) /\ Len(s) \in Nat
      /\ t[Len(s) + 1] = x /\ \A k \in DOMAIN s : t[k] = s[k]
  OBVIOUS
<1> HIDE DEF t
<1>2. Holds(s, e) => Holds(t, e)
  BY <1>1 DEF Holds
<1>3. Len(s) + 1 \in DOMAIN t
  BY <1>1
<1>4. Holds(t, x)
  BY <1>1, <1>3 DEF Holds
<1>5. QED
  BY <1>2, <1>4 DEF t

LEMMA HoldsRest ==
    ASSUME NEW S, NEW s \in Seq(S), s # <<>>, NEW e, e # Head(s), Holds(s, e)
    PROVE  Holds(Tail(s), e)
<1> DEFINE t == Tail(s)
<1>1. /\ DOMAIN t = 1..(Len(s) - 1) /\ DOMAIN s = 1..Len(s) /\ Len(s) \in Nat
      /\ Head(s) = s[1] /\ \A k \in DOMAIN t : t[k] = s[k + 1]
  OBVIOUS
<1> HIDE DEF t
<1>2. PICK k \in DOMAIN s : s[k] = e
  BY DEF Holds
<1>3. k # 1
  BY <1>1, <1>2
<1>4. k - 1 \in DOMAIN t
  BY <1>1, <1>2, <1>3
<1>5. t[k - 1] = s[(k - 1) + 1]
  BY <1>1, <1>4
<1>6. (k - 1) + 1 = k
  BY <1>1, <1>2
<1>7. t[k - 1] = e
  BY <1>2, <1>5, <1>6
<1>8. QED
  BY <1>4, <1>7 DEF Holds, t

LEMMA ContinuesTransitive ==
    ASSUME NEW m, NEW n, NEW o, Continues(m, n), Continues(n, o)
    PROVE  Continues(m, o)
BY DEF Continues

LEMMA OnwardSame ==
    ASSUME NEW p, NEW q, q.audio = p.audio,
           q.remote \in {p.remote, p.cache, None}, q.cache \in {p.cache, None}
    PROVE  Onward(p, q)
BY DEF Onward, Continues

LEMMA OnwardTransitive ==
    ASSUME NEW p, NEW q, NEW r, Onward(p, q), Onward(q, r)
    PROVE  Onward(p, r)
<1>1. Continues(p.audio, r.audio)
  BY ContinuesTransitive DEF Onward
<1>2. QED
  BY <1>1 DEF Onward

LEMMA FineContinues ==
    ASSUME NEW m, NEW n, n.health = "fine"
    PROVE  Continues(m, n)
BY DEF Continues

LEMMA PauseContinues ==
    ASSUME NEW p \in Page
    PROVE  Continues(p.audio, Pause(p).audio)
<1> DEFINE n == Pause(p).audio
<1>1. /\ n.paused /\ n.src = p.audio.src /\ n.health = p.audio.health
      /\ n.tasks = IF p.audio.paused THEN p.audio.tasks ELSE Append(p.audio.tasks, "pause")
  BY PauseFacts
<1> HIDE DEF n
<1>2. p.audio.tasks \in Seq(MediaEvents) /\ "pause" \in MediaEvents
  BY DEF Page, Media, MediaEvents
<1>3. Holds(p.audio.tasks, "error") => Holds(n.tasks, "error")
  BY <1>1, <1>2, HoldsMore
<1>4. QED
  BY <1>1, <1>3 DEF Continues, n

LEMMA ResumeContinues ==
    ASSUME NEW p \in Page
    PROVE  Continues(p.audio, Resume(p).audio)
<1>1. CASE p.audio.health = "broken"
  <2>1. Resume(p) = p
    BY <1>1, ResumeFacts
  <2>2. QED
    BY <2>1 DEF Continues
<1>2. CASE p.audio.health # "broken"
  BY <1>2, ResumeFacts, FineContinues
<1>3. QED
  BY <1>1, <1>2

LEMMA UnloadFine ==
    ASSUME NEW p \in Page
    PROVE  Unload(p).audio.health = "fine"
<1> DEFINE m == [NoMedia EXCEPT !.opened = p.audio.opened]
<1>1. m.health = "fine"
  BY NoMediaFacts DEF Media
<1>2. Unload(p) = [p EXCEPT !.audio = m]
  BY DEF Unload
<1> HIDE DEF m
<1>3. QED
  BY <1>1, <1>2 DEF Page

LEMMA DriveContinues ==
    ASSUME NEW p \in Page, NEW f \in Frames, NEW allowed \in BOOLEAN
    PROVE  /\ Continues(p.audio, Drive(p, f, allowed).audio)
           /\ allowed /\ f.status = "playing" =>
                 \/ ~Drive(p, f, allowed).audio.paused
                 \/ Drive(p, f, allowed).audio.health = "broken"
<1> DEFINE q0 == [p EXCEPT !.speaking = f.token]
<1> DEFINE q1 == Load(q0, f.token)
<1> DEFINE r == Drive(p, f, allowed)
<1>1. f.status \in {"stopped", "playing", "paused"}
      /\ (f.status = "playing" => f.token \in 1..MaxTokens)
  BY FrameFacts
<1>2. CASE f.status = "playing" /\ f.token # p.speaking
  <2>1. r = IF allowed THEN Resume(q1) ELSE q1
    BY <1>2 DEF Drive
  <2>2. f.token \in 1..MaxTokens /\ f.token \in Sources
    BY <1>1, <1>2 DEF Sources
  <2>3. q0 \in Page
    BY <2>2, WithSpeaking
  <2> HIDE DEF q0
  <2>4. q1 \in Page /\ q1.audio.health = "fine"
    BY <2>2, <2>3, LoadFacts
  <2> HIDE DEF q1
  <2>5. r.audio.health = "fine" /\ (allowed => ~r.audio.paused)
    BY <2>1, <2>4, ResumeFacts
  <2> HIDE DEF r
  <2>6. QED
    BY <2>5, FineContinues DEF r
<1>3. CASE f.status = "playing" /\ f.token = p.speaking
  <2>1. r = IF p.audio.paused /\ allowed THEN Resume(p) ELSE p
    BY <1>3 DEF Drive
  <2>2. Continues(p.audio, r.audio)
    <3>1. CASE p.audio.paused /\ allowed
      BY <2>1, <3>1, ResumeContinues
    <3>2. CASE ~(p.audio.paused /\ allowed)
      BY <2>1, <3>2 DEF Continues
    <3>3. QED
      BY <3>1, <3>2
  <2>3. allowed => ~r.audio.paused \/ r.audio.health = "broken"
    BY <2>1, ResumeFacts
  <2> HIDE DEF r
  <2>4. QED
    BY <2>2, <2>3 DEF r
<1>4. CASE f.status = "paused"
  <2>1. r = Pause(p)
    BY <1>4 DEF Drive
  <2> HIDE DEF r
  <2>2. QED
    BY <1>4, <2>1, PauseContinues DEF r
<1>5. CASE f.status = "stopped"
  <2> DEFINE s == Pause(p)
  <2>1. r = [s EXCEPT !.speaking = None]
    BY <1>5 DEF Drive
  <2>2. s \in Page /\ Continues(p.audio, s.audio)
    BY PauseFacts, PauseContinues
  <2> HIDE DEF s, r
  <2>3. r.audio = s.audio
    BY <2>1, <2>2, WithSpeaking
  <2>4. QED
    BY <1>5, <2>2, <2>3 DEF r
<1>6. QED
  BY <1>1, <1>2, <1>3, <1>4, <1>5

\* What the speaker is once it has been told f.
Obeys(q, f, allowed) ==
    /\ q.remote = f
    /\ f.status # "playing" => q.audio.paused
    /\ f.status = "playing" =>
          /\ q.speaking = f.token
          /\ allowed => ~q.audio.paused \/ q.audio.health = "broken"

LEMMA ApplyContinues ==
    ASSUME NEW p \in Page, NEW f \in Frames, NEW allowed \in BOOLEAN
    PROVE  LET r == Apply(p, f, allowed)
           IN  /\ Continues(p.audio, r.audio) /\ r.remote \in {p.remote, f}
               /\ p.target = Mine /\ p.owned /\ ~Stale(f, p.remote) => Obeys(r, f, allowed)
<1> DEFINE list == Shows(Mine)
<1> DEFINE q == [p EXCEPT !.remote = f, !.shown = list]
<1> DEFINE r == Apply(p, f, allowed)
<1>1. r = IF p.target # Mine \/ Stale(f, p.remote) THEN p
          ELSE IF p.owned THEN Drive(q, f, allowed) ELSE q
  BY DEF Apply
<1>2. q \in Page /\ q.audio = p.audio /\ q.remote = f
  <2>1. list \in Listing /\ list \in QueueType /\ f \in Frames \cup {None}
    BY ShowsFacts DEF Listing
  <2> HIDE DEF list
  <2>2. q \in Page /\ Told(p, q)
    BY <2>1, WithRemote
  <2>3. q.remote = f
    BY DEF Page
  <2> HIDE DEF q
  <2>4. QED
    BY <2>2, <2>3 DEF Told
<1> HIDE DEF q, r
<1>3. CASE p.target # Mine \/ Stale(f, p.remote)
  BY <1>1, <1>3 DEF Continues, r
<1>4. CASE ~(p.target # Mine \/ Stale(f, p.remote)) /\ ~p.owned
  BY <1>1, <1>2, <1>4 DEF Continues, r
<1>5. CASE ~(p.target # Mine \/ Stale(f, p.remote)) /\ p.owned
  <2>1. r = Drive(q, f, allowed)
    BY <1>1, <1>5
  <2>2. /\ Driven(q, r)
        /\ f.status = "playing" => r.speaking = f.token
        /\ f.status # "playing" => r.audio.paused
    BY <1>2, <2>1, DriveFacts
  <2>3. /\ Continues(p.audio, r.audio)
        /\ allowed /\ f.status = "playing" => ~r.audio.paused \/ r.audio.health = "broken"
    BY <1>2, <2>1, DriveContinues
  <2>4. r.remote = f
    BY <1>2, <2>2 DEF Driven
  <2>5. Obeys(r, f, allowed)
    BY <2>2, <2>3, <2>4 DEF Obeys
  <2>6. QED
    BY <2>3, <2>4, <2>5 DEF r
<1>6. QED
  BY <1>3, <1>4, <1>5

LEMMA AcceptContinues ==
    ASSUME NEW p \in Page, NEW f \in Frames, NEW allowed \in BOOLEAN
    PROVE  LET r == Accept(p, f, allowed)
           IN  /\ Continues(p.audio, r.audio)
               /\ r.remote \in {p.remote, f} /\ r.cache \in {p.cache, f}
               /\ p.target = Mine /\ p.owned /\ ~Stale(f, p.cache) /\ ~Stale(f, p.remote)
                    => Obeys(r, f, allowed)
<1> DEFINE q == [p EXCEPT !.cache = f]
<1> DEFINE r == Accept(p, f, allowed)
<1>1. /\ q \in Page /\ q.cache = f /\ q.remote = p.remote /\ q.audio = p.audio
      /\ q.target = p.target /\ q.owned = p.owned
  BY WithCache DEF Routed
<1>2. r = IF Stale(f, p.cache) THEN p ELSE Apply(q, f, allowed)
  BY DEF Accept
<1> HIDE DEF q, r
<1>3. CASE Stale(f, p.cache)
  BY <1>2, <1>3 DEF Continues, r
<1>4. CASE ~Stale(f, p.cache)
  <2>1. r = Apply(q, f, allowed)
    BY <1>2, <1>4
  <2>2. r.cache = f
    BY <1>1, <2>1, ApplyFacts
  <2>3. /\ Continues(p.audio, r.audio) /\ r.remote \in {p.remote, f}
        /\ p.target = Mine /\ p.owned /\ ~Stale(f, p.remote) => Obeys(r, f, allowed)
    BY <1>1, <2>1, ApplyContinues
  <2>4. QED
    BY <2>2, <2>3 DEF r
<1>5. QED
  BY <1>3, <1>4

LEMMA WatchOnward ==
    ASSUME NEW p \in Page, NEW from, NEW allowed \in BOOLEAN
    PROVE  Onward(p, Watch(p, from, allowed))
<1> DEFINE q == IF from = Mine THEN [p EXCEPT !.cache = None] ELSE p
<1> DEFINE r == Watch(p, from, allowed)
<1>1. q \in Page /\ q.audio = p.audio /\ q.remote = p.remote /\ q.cache \in {p.cache, None}
  <2>1. CASE from = Mine
    BY <2>1, WithCache
  <2>2. CASE from # Mine
    BY <2>2
  <2>3. QED
    BY <2>1, <2>2
<1>2. r = IF q.target = Mine /\ q.cache # None THEN Apply(q, q.cache, allowed) ELSE q
  BY DEF Watch
<1> HIDE DEF q, r
<1>3. CASE q.target = Mine /\ q.cache # None
  <2>1. q.cache \in Frames
    BY <1>1, <1>3 DEF Page
  <2>2. r = Apply(q, q.cache, allowed)
    BY <1>2, <1>3
  <2>3. Continues(q.audio, r.audio) /\ r.remote \in {q.remote, q.cache} /\ r.cache = q.cache
    BY <1>1, <2>1, <2>2, ApplyFacts, ApplyContinues
  <2>4. QED
    BY <1>1, <2>3 DEF Onward, r
<1>4. CASE ~(q.target = Mine /\ q.cache # None)
  BY <1>1, <1>2, <1>4, OnwardSame DEF r
<1>5. QED
  BY <1>3, <1>4

LEMMA DepartOnward ==
    ASSUME NEW p \in Page, NEW id \in {Local, Mine, Theirs}
    PROVE  Onward(p, Depart(p, id))
<1> DEFINE q == [p EXCEPT !.undo = None]
<1> DEFINE r == Depart(p, id)
<1>1. q \in Page /\ q.audio = p.audio /\ q.remote = p.remote /\ q.cache = p.cache
  BY DEF Page
<1>2. r = IF p.target # Local
          THEN [q EXCEPT !.target = id, !.audio.left = @ \/ p.target = Mine]
          ELSE [Pause(q) EXCEPT !.target = id, !.saved = p.shown, !.speaking = None]
  BY DEF Depart
<1> HIDE DEF q, r
<1>3. CASE p.target # Local
  <2> DEFINE b == q.audio.left \/ p.target = Mine
  <2> DEFINE m == [q.audio EXCEPT !.left = b]
  <2>1. q.audio \in Media
    BY <1>1 DEF Page
  <2>2. r = [q EXCEPT !.target = id, !.audio = m]
    BY <1>1, <1>2, <1>3 DEF Page
  <2> HIDE DEF b
  <2>3. m.src = q.audio.src /\ m.paused = q.audio.paused /\ m.health = q.audio.health
        /\ m.tasks = q.audio.tasks
    BY <2>1 DEF Media
  <2> HIDE DEF m
  <2>4. r.audio = m /\ r.remote = q.remote /\ r.cache = q.cache
    BY <1>1, <2>2 DEF Page
  <2>5. Continues(p.audio, r.audio)
    BY <1>1, <2>3, <2>4 DEF Continues
  <2>6. QED
    BY <1>1, <2>4, <2>5 DEF Onward, r
<1>4. CASE p.target = Local
  <2> DEFINE s == Pause(q)
  <2>1. s \in Page /\ Beside(q, s) /\ Continues(q.audio, s.audio)
    BY <1>1, PauseFacts, PauseContinues
  <2>2. r = [s EXCEPT !.target = id, !.saved = p.shown, !.speaking = None]
    BY <1>2, <1>4
  <2> HIDE DEF s
  <2>3. r.audio = s.audio /\ r.remote = s.remote /\ r.cache = s.cache
    BY <2>1, <2>2 DEF Page
  <2>4. QED
    BY <1>1, <2>1, <2>3 DEF Onward, Beside, r
<1>5. QED
  BY <1>3, <1>4

LEMMA ArriveOnward ==
    ASSUME NEW p \in Page, NEW id
    PROVE  Onward(p, Arrive(p, id))
<1> DEFINE q == Arrive(p, id)
<1>1. q.audio = p.audio
  BY ArriveFacts
<1>2. q.cache = p.cache /\ q.remote \in {p.remote, None}
  BY DEF Arrive, Page
<1> HIDE DEF q
<1>3. QED
  BY <1>1, <1>2, OnwardSame DEF q

LEMMA GoOnward ==
    ASSUME NEW p \in Page, p.shown \in Listing, NEW id \in {Local, Mine, Theirs}
    PROVE  Onward(p, Arrive(Depart(p, id), id))
BY DepartFacts, DepartOnward, ArriveOnward, OnwardTransitive

LEMMA NestedOnward ==
    ASSUME NEW p \in Page, Consistent(p), NEW id \in {Local, Mine, Theirs},
           NEW allowed \in BOOLEAN
    PROVE  Onward(p, Nested(p, id, allowed))
<1> DEFINE q == Arrive(Depart(p, id), id)
<1> DEFINE r == Watch(q, p.target, allowed)
<1>1. CASE p.target = id
  BY <1>1, OnwardSame DEF Nested
<1>2. CASE p.target # id
  <2>1. Nested(p, id, allowed) = r
    BY <1>2 DEF Nested
  <2>2. Preserved(p, q) /\ Onward(p, q)
    BY <1>2, GoFacts, GoOnward DEF Consistent
  <2> HIDE DEF q
  <2>3. Onward(q, r)
    BY <2>2, WatchOnward DEF Preserved
  <2> HIDE DEF r
  <2>4. QED
    BY <2>1, <2>2, <2>3, OnwardTransitive
<1>3. QED
  BY <1>1, <1>2

LEMMA LeaveOnward ==
    ASSUME NEW p \in Page, Consistent(p), NEW players, NEW allowed \in BOOLEAN
    PROVE  Onward(p, Leave(p, players, allowed))
<1> DEFINE r == Leave(p, players, allowed)
<1> DEFINE q == IF p.saved = None \/ p.saved.queue = <<>>
                THEN [p EXCEPT !.saved = p.shown] ELSE p
<1> DEFINE id == Resolve(q, Local, players)
<1> DEFINE d == Depart(q, id)
<1> DEFINE s == Arrive(d, id)
<1> DEFINE t == Pause(s)
<1> DEFINE w == Watch(t, p.target, allowed)
<1>1. r = IF p.target \in players \cup {Local} THEN p ELSE w
  BY DEF Leave
<1>2. q \in Page /\ q.shown \in Listing /\ Onward(p, q)
  <2>1. CASE q = p
    BY <2>1, OnwardSame DEF Consistent
  <2>2. CASE q # p
    <3>1. q = [p EXCEPT !.saved = p.shown]
      BY <2>2
    <3>2. p.shown \in Listing
      BY DEF Consistent
    <3> HIDE DEF q
    <3>3. /\ q \in Page /\ q.shown = p.shown /\ q.audio = p.audio
          /\ q.remote = p.remote /\ q.cache = p.cache
      BY <3>1, <3>2 DEF Page
    <3>4. QED
      BY <3>2, <3>3, OnwardSame
  <2>3. QED
    BY <2>1, <2>2
<1> HIDE DEF q
<1>3. id \in {Local, Mine, Theirs}
  BY ResolveFacts
<1> HIDE DEF id
<1>4. d \in Page
  BY <1>2, <1>3, DepartFacts
<1>5. s \in Page
  BY <1>4, ArriveFacts
<1>6. Onward(q, s)
  BY <1>2, <1>3, GoOnward
<1> HIDE DEF s
<1>7. t \in Page /\ Onward(s, t)
  BY <1>5, PauseFacts, PauseContinues DEF Onward, Beside
<1> HIDE DEF t
<1>8. Onward(t, w)
  BY <1>7, WatchOnward
<1> HIDE DEF w
<1>9. Onward(p, w)
  BY <1>2, <1>6, <1>7, <1>8, OnwardTransitive
<1>10. QED
  BY <1>1, <1>9, OnwardSame

LEMMA SetTargetOnward ==
    ASSUME NEW p \in Page, p.shown \in Listing, NEW wanted \in {Local, Mine, Theirs},
           NEW players, NEW allowed \in BOOLEAN,
           Consistent(p) \/ Resolve(p, wanted, players) = Local
    PROVE  Onward(p, SetTarget(p, wanted, players, allowed))
<1> DEFINE id == Resolve(p, wanted, players)
<1> DEFINE d == Depart(p, id)
<1> DEFINE q == Watch(d, p.target, allowed)
<1> DEFINE s == Leave(q, players, allowed)
<1> DEFINE r == SetTarget(p, wanted, players, allowed)
<1>1. r = IF p.target = id THEN p ELSE Arrive(s, id)
  BY DEF SetTarget
<1>2. id \in {Local, Mine, Theirs}
  BY ResolveFacts
<1>3. Consistent(p) \/ id = Local
  OBVIOUS
<1> SUFFICES Onward(p, r)
  OBVIOUS
<1> HIDE DEF id
<1>4. CASE p.target = id
  BY <1>1, <1>4, OnwardSame
<1>5. CASE p.target # id
  <2>1. d \in Page /\ d.target = id /\ Onward(p, d)
    BY <1>2, DepartFacts, DepartOnward DEF Departed
  <2> HIDE DEF d
  <2>2. q \in Page /\ q.target = id /\ Onward(d, q)
    BY <2>1, WatchFacts, WatchOnward DEF Routed
  <2>3. id # Local => Consistent(q)
    BY <1>2, <1>3, <1>5, MovedFacts DEF Preserved, d
  <2> HIDE DEF q
  <2>4. s \in Page /\ Onward(q, s)
    <3>1. CASE id = Local
      BY <2>2, <3>1, OnwardSame DEF Leave
    <3>2. CASE id # Local
      BY <2>2, <2>3, <3>2, LeaveFacts, LeaveOnward
    <3>3. QED
      BY <3>1, <3>2
  <2> HIDE DEF s
  <2>5. Onward(s, Arrive(s, id))
    BY <2>4, ArriveOnward
  <2>6. Onward(p, Arrive(s, id))
    BY <2>1, <2>2, <2>4, <2>5, OnwardTransitive
  <2>7. QED
    BY <1>1, <1>5, <2>6
<1>6. QED
  BY <1>4, <1>5

LEMMA AutoSelectOnward ==
    ASSUME NEW p \in Page, Consistent(p), NEW players, NEW allowed \in BOOLEAN
    PROVE  LET r == AutoSelect(p, players, allowed)
           IN  /\ Onward(p, r)
               /\ p.target = Mine => r.audio = p.audio /\ r.remote = p.remote
                                        /\ r.speaking = p.speaking
<1> DEFINE r == AutoSelect(p, players, allowed)
<1> DEFINE q == [p EXCEPT !.chosen = TRUE]
<1> DEFINE n == Nested(q, Mine, allowed)
<1>1. r = IF p.chosen \/ ~p.owned \/ Mine \notin players THEN p ELSE n
  BY DEF AutoSelect
<1>2. CASE p.chosen \/ ~p.owned \/ Mine \notin players
  BY <1>1, <1>2, OnwardSame
<1>3. CASE ~(p.chosen \/ ~p.owned \/ Mine \notin players)
  <2>1. q \in Page
    BY DEF Page
  <2>2. /\ q.target = p.target /\ q.owned = p.owned /\ q.shown = p.shown
        /\ q.saved = p.saved /\ q.audio = p.audio /\ q.speaking = p.speaking
        /\ q.remote = p.remote /\ q.cache = p.cache
    BY DEF Page
  <2> HIDE DEF q
  <2>3. Consistent(q) /\ Onward(p, q)
    BY <2>2, OnwardSame DEF Consistent, Own
  <2>4. Onward(q, n)
    BY <2>1, <2>3, NestedOnward
  <2>5. Onward(p, n)
    BY <2>3, <2>4, OnwardTransitive
  <2>6. q.target = Mine => n = q
    BY DEF Nested
  <2>7. r = n
    BY <1>1, <1>3
  <2> HIDE DEF n, r
  <2>8. QED
    BY <2>2, <2>5, <2>6, <2>7 DEF r
<1>4. QED
  BY <1>2, <1>3
-----------------------------------------------------------------------------
(* The own queue: a track that is loaded is fine.                          *)

LEMMA WithShown ==
    ASSUME NEW p \in Page, NEW list
    PROVE  [p EXCEPT !.shown = list].audio = p.audio
BY DEF Page

LEMMA OpenContinues ==
    ASSUME NEW p, Idle(p), NEW i
    PROVE  Continues(p.audio, OpenIndex(p, i).audio)
<1>1. CASE i \notin DOMAIN p.shown.queue
  BY <1>1 DEF OpenIndex, Continues
<1>2. CASE i \in DOMAIN p.shown.queue
  <2> DEFINE list == [queue |-> p.shown.queue, index |-> i]
  <2> DEFINE q == [p EXCEPT !.shown = list]
  <2> DEFINE media == p.shown.queue[i]
  <2> DEFINE l == Load(q, media)
  <2>1. p.shown.queue \in Seq(Entry) /\ i \in Nat
    <3>1. p.shown \in QueueType
      BY DEF Idle, Page
    <3>2. QED
      BY <1>2, <3>1, ListingFacts
  <2>2. list \in QueueType
    BY <2>1, ListFacts
  <2>3. OpenIndex(p, i) = Resume(l)
    BY <1>2, <2>1, WithIndex DEF OpenIndex
  <2> HIDE DEF list
  <2>4. q \in Page
    BY <2>2, WithList DEF Idle
  <2> HIDE DEF q
  <2>5. media \in Sources
    BY <1>2, <2>1 DEF Entry, Sources
  <2> HIDE DEF media
  <2>6. l \in Page /\ l.audio.health = "fine"
    BY <2>4, <2>5, LoadFacts
  <2> HIDE DEF l
  <2>7. Resume(l).audio.health = "fine"
    BY <2>6, ResumeFacts
  <2>8. QED
    BY <2>3, <2>7, FineContinues
<1>3. QED
  BY <1>1, <1>2

LEMMA StopContinues ==
    ASSUME NEW p, Idle(p)
    PROVE  Continues(p.audio, StopLocal(p).audio)
<1> DEFINE q == Unload(p)
<1>1. q \in Page /\ q.audio.health = "fine"
  BY UnloadFacts, UnloadFine DEF Idle
<1>2. StopLocal(p) = [q EXCEPT !.shown.index = 0, !.view = "silent"]
  BY DEF StopLocal
<1> HIDE DEF q
<1>3. StopLocal(p).audio = q.audio
  BY <1>1, <1>2 DEF Page
<1>4. QED
  BY <1>1, <1>3, FineContinues

LEMMA SameContinues ==
    ASSUME NEW m
    PROVE  Continues(m, m)
BY DEF Continues

LEMMA NextsContinues ==
    ASSUME NEW p, AtHome(p), NEW q \in Nexts(p)
    PROVE  Continues(p.audio, q.audio)
<1>1. q = p \/ q = StopLocal(p) \/ \E j : q = OpenIndex(p, j)
  BY DEF Nexts
<1>2. QED
  BY <1>1, AtHomeIdle, SameContinues, OpenContinues, StopContinues

LEMMA AdvancesContinues ==
    ASSUME NEW p, AtHome(p), NEW q \in Advances(p)
    PROVE  Continues(p.audio, q.audio)
<1>1. q \in Nexts(p) \/ q = OpenIndex(p, p.shown.index)
  BY DEF Advances
<1>2. QED
  BY <1>1, AtHomeIdle, NextsContinues, OpenContinues

LEMMA EndedContinues ==
    ASSUME NEW p \in Page, Consistent(p), NEW q \in Ended(p)
    PROVE  Continues(p.audio, q.audio)
<1> DEFINE r == [p EXCEPT !.view = "ended"]
<1>1. "ended" \in Views
  BY DEF Views
<1>2. r \in Page /\ r.target = p.target /\ Consistent(r) /\ r.audio = p.audio
  BY <1>1, WithView
<1>3. q = p \/ (p.target = Local /\ q \in Advances(r))
  BY DEF Ended
<1> HIDE DEF r
<1>4. CASE q = p
  BY <1>4, SameContinues
<1>5. CASE p.target = Local /\ q \in Advances(r)
  <2>1. AtHome(r)
    BY <1>2, <1>5 DEF AtHome
  <2>2. QED
    BY <1>2, <1>5, <2>1, AdvancesContinues
<1>6. QED
  BY <1>3, <1>4, <1>5

LEMMA RemovedContinues ==
    ASSUME NEW p, AtHome(p), NEW i \in DOMAIN p.shown.queue
    PROVE  Continues(p.audio, Removed(p, i).audio)
<1> DEFINE rest == RemoveAt(p.shown.queue, i)
<1> DEFINE q == [p EXCEPT !.shown.queue = rest]
<1> DEFINE same == [queue |-> rest, index |-> p.shown.index]
<1> DEFINE back == [q EXCEPT !.shown.index = p.shown.index - 1]
<1>1. \/ Removed(p, i) = StopLocal(q)
      \/ \E k : Removed(p, i) = OpenIndex(q, k)
      \/ Removed(p, i) = back
      \/ Removed(p, i) = q
  BY DEF Removed
<1>2. Idle(p) /\ p.shown.queue \in Seq(Entry) /\ i \in 1..Len(p.shown.queue)
      /\ p.shown.index \in Nat
  BY AtHomeIdle, ListingFacts DEF Listing
<1>3. rest \in Seq(Entry)
  BY <1>2, Removing
<1> HIDE DEF rest
<1>4. q = [p EXCEPT !.shown = same] /\ same \in QueueType
  BY <1>2, <1>3, WithTracks, ListFacts
<1> HIDE DEF same, q
<1>5. Idle(q) /\ q.audio = p.audio
  BY <1>2, <1>4, WithList
<1>6. back.audio = q.audio
  BY <1>5 DEF Idle, Page
<1> HIDE DEF back
<1>7. Continues(q.audio, Removed(p, i).audio)
  BY <1>1, <1>5, <1>6, StopContinues, OpenContinues, SameContinues
<1>8. QED
  BY <1>5, <1>7

LEMMA RestoredContinues ==
    ASSUME NEW q \in Page, NEW list \in Listing, NEW view \in Views
    PROVE  Continues(q.audio,
             (IF list.index \notin DOMAIN list.queue THEN q
              ELSE LET r == [Load(q, list.queue[list.index])
                               EXCEPT !.audio.left = q.shown # list]
                   IN  IF view = "playing" THEN Resume(r) ELSE r).audio)
<1> DEFINE media == list.queue[list.index]
<1> DEFINE l == Load(q, media)
<1> DEFINE b == q.shown # list
<1> DEFINE r == [l EXCEPT !.audio.left = b]
<1> DEFINE s == Resume(r)
<1> SUFFICES ASSUME list.index \in DOMAIN list.queue
             PROVE  Continues(q.audio, r.audio) /\ Continues(q.audio, s.audio)
  <2>1. Continues(q.audio, q.audio)
    BY SameContinues
  <2>2. QED
    BY <2>1, Zenon
<1>1. media \in Sources
  <2>1. list.queue \in Seq(Entry)
    BY ListingFacts DEF Listing
  <2>2. QED
    BY <2>1 DEF Entry, Sources
<1> HIDE DEF media
<1>2. l \in Page /\ l.audio.health = "fine"
  BY <1>1, LoadFacts
<1> HIDE DEF l
<1>3. b \in BOOLEAN
  OBVIOUS
<1> HIDE DEF b
<1>4. r \in Page
  BY <1>2, <1>3, WithLeft
<1>5. r.audio.health = "fine"
  BY <1>2 DEF Page, Media
<1> HIDE DEF r
<1>6. s.audio.health = "fine"
  BY <1>4, <1>5, ResumeFacts
<1>7. QED
  BY <1>5, <1>6, FineContinues

LEMMA UndoneContinues ==
    ASSUME NEW p, AtHome(p), p.undo # None, NEW q \in Undone(p)
    PROVE  Continues(p.audio, q.audio)
<1> DEFINE u == p.undo
<1> DEFINE e == Unload(p)
<1> DEFINE back == [e EXCEPT !.undo = None, !.shown = u.shown, !.view = p.view]
<1> DEFINE states == IF u.view = "ended" THEN Ended(back) ELSE {[back EXCEPT !.view = u.view]}
<1> DEFINE media(r) == IF u.shown.index \notin DOMAIN u.shown.queue THEN r
                       ELSE LET s == [Load(r, u.shown.queue[u.shown.index])
                                        EXCEPT !.audio.left = r.shown # u.shown]
                            IN  IF u.view = "playing" THEN Resume(s) ELSE s
<1>1. PICK r \in states : q = media(r)
  BY Zenon DEF Undone
<1>2. /\ p \in Page /\ p.target = Local /\ p.speaking = None /\ p.view \in Views
  BY AtHomeIdle DEF AtHome, Idle, Page
<1>3. u.shown \in Listing /\ u.view \in Views
  BY <1>2 DEF Page
<1>4. e \in Page /\ Beside(p, e) /\ e.audio.src = None /\ e.audio.health = "fine"
  BY <1>2, UnloadFacts, UnloadFine
<1> HIDE DEF u, e
<1>5. u.shown \in QueueType
  BY <1>3 DEF Listing
<1>6. back \in Page
  BY <1>2, <1>3, <1>4, <1>5 DEF Page
<1>7. /\ back.target = e.target /\ back.speaking = e.speaking
      /\ back.shown = u.shown /\ back.audio = e.audio
  BY <1>4 DEF Page
<1> HIDE DEF back
<1>8. AtHome(back)
  BY <1>2, <1>3, <1>4, <1>6, <1>7, IdleAtHome DEF Beside, Idle
<1>9. r \in Page /\ Continues(back.audio, r.audio)
  <2>1. CASE u.view = "ended"
    <3>1. r \in Ended(back)
      BY <2>1, <1>1
    <3>2. QED
      BY <1>8, <3>1, EndedContinues, EndedFacts DEF AtHome, Goes
  <2>2. CASE u.view # "ended"
    <3>1. r = [back EXCEPT !.view = u.view]
      BY <2>2, <1>1
    <3>2. r \in Page /\ r.audio = back.audio
      BY <1>3, <1>6, <3>1, WithView
    <3>3. QED
      BY <3>2, SameContinues
  <2>3. QED
    BY <2>1, <2>2
<1>10. Continues(r.audio, media(r).audio)
  BY <1>3, <1>9, RestoredContinues
<1>11. Continues(p.audio, back.audio)
  BY <1>4, <1>7, FineContinues
<1> HIDE DEF media
<1>12. QED
  BY <1>1, <1>9, <1>10, <1>11, ContinuesTransitive

LEMMA ToggledContinues ==
    ASSUME NEW p, AtHome(p)
    PROVE  Continues(p.audio, Toggled(p).audio)
<1>1. \/ Toggled(p) = Pause(p)
      \/ Toggled(p) = Resume(p)
      \/ Toggled(p) = OpenIndex(p, p.shown.index)
  BY DEF Toggled
<1>2. p \in Page /\ Idle(p)
  BY AtHomeIdle DEF AtHome
<1>3. QED
  BY <1>1, <1>2, PauseContinues, ResumeContinues, OpenContinues

LEMMA LocalOpsContinues ==
    ASSUME NEW p, AtHome(p), NEW q \in LocalOps(p)
    PROVE  Continues(p.audio, q.audio)
<1> DEFINE queue == p.shown.queue
<1> DEFINE i == p.shown.index
<1> DEFINE at == DOMAIN queue
<1> DEFINE r == Remember(p)
<1>1. p \in Page /\ Idle(p) /\ i \in Nat
  BY AtHomeIdle, ListingFacts DEF AtHome, Listing
<1>2. AtHome(r) /\ Idle(r) /\ r \in Page /\ r.shown = p.shown
  BY RememberFacts, AtHomeIdle DEF Goes, AtHome
<1>3. r.audio = p.audio
  BY <1>1 DEF Remember, Page
<1>4. \/ \E a \in Albums : \E k \in DOMAIN a : q = OpenIndex(WithQueue(r, a, i), k)
      \/ \E a \in Albums : q = WithQueue(r, queue \o a, IF i = 0 THEN 1 ELSE i)
      \/ \E t \in Track : q = WithQueue(r, InsertAt(queue, i + 1, t), IF i = 0 THEN 1 ELSE i)
      \/ \E k : q = OpenIndex(p, k)
      \/ \E k \in at : q = Removed(r, k)
      \/ \E k \in at : \E l \in at \ {k} : q = Moved(r, k, l)
      \/ q \in Nexts(p)
      \/ q = WithQueue(StopLocal(r), <<>>, 0)
      \/ p.undo # None /\ q \in Undone(p)
      \/ q = Toggled(p)
  BY LocalOpsKinds
<1> HIDE DEF r
<1>5. ASSUME NEW a, NEW j PROVE WithQueue(r, a, j).audio = r.audio
  BY <1>2, WithShown DEF WithQueue
<1>6. ASSUME NEW a \in Albums, NEW k, q = OpenIndex(WithQueue(r, a, i), k)
      PROVE  Continues(p.audio, q.audio)
  <2> DEFINE list == [queue |-> a, index |-> i]
  <2>1. a \in Seq(Entry)
    BY PageAssumption DEF Entry
  <2>2. list \in QueueType
    BY <1>1, <2>1, ListFacts
  <2>3. WithQueue(r, a, i) = [r EXCEPT !.shown = list]
    BY DEF WithQueue
  <2> HIDE DEF list
  <2>4. Idle(WithQueue(r, a, i))
    BY <1>2, <2>2, <2>3, WithList
  <2>5. WithQueue(r, a, i).audio = p.audio
    BY <1>3, <1>5
  <2>6. QED
    BY <1>6, <2>4, <2>5, OpenContinues
<1>7. ASSUME NEW k \in at, NEW l, q = Moved(r, k, l) PROVE q.audio = p.audio
  BY <1>3, <1>5, <1>7 DEF Moved
<1>8. ASSUME NEW k \in at, q = Removed(r, k) PROVE Continues(p.audio, q.audio)
  BY <1>2, <1>3, <1>8, RemovedContinues
<1>9. WithQueue(StopLocal(r), <<>>, 0).audio = StopLocal(r).audio
  <2>1. StopLocal(r) \in Page
    BY <1>2, StopFacts DEF AtHome
  <2>2. QED
    BY <2>1, WithShown DEF WithQueue
<1>10. Continues(p.audio, StopLocal(r).audio)
  BY <1>2, <1>3, StopContinues
<1>11. CASE q.audio = p.audio
  BY <1>11, SameContinues
<1>12. (\E k : q = OpenIndex(p, k)) => Continues(p.audio, q.audio)
  BY <1>1, OpenContinues
<1>13. q \in Nexts(p) => Continues(p.audio, q.audio)
  BY NextsContinues
<1>14. p.undo # None /\ q \in Undone(p) => Continues(p.audio, q.audio)
  BY UndoneContinues
<1>15. q = Toggled(p) => Continues(p.audio, q.audio)
  BY ToggledContinues
<1>16. QED
  BY <1>3, <1>4, <1>5, <1>6, <1>7, <1>8, <1>9, <1>10, <1>11, <1>12, <1>13, <1>14, <1>15

-----------------------------------------------------------------------------
(* The events: what the tab says of its media.                             *)

\* Reports may be added behind those that wait; each names the playback that
\* the tab was last told of.
Adds(p, q) ==
    /\ q.target = p.target /\ q.owned = p.owned
    /\ q.remote = p.remote /\ q.cache = p.cache
    /\ Len(p.chain) <= Len(q.chain)
    /\ \A k \in DOMAIN p.chain : q.chain[k] = p.chain[k]
    /\ \A k \in DOMAIN q.chain \ DOMAIN p.chain :
          p.remote # None /\ p.remote.token # 0 /\ q.chain[k].token = p.remote.token

LEMMA ChainFacts ==
    ASSUME NEW p \in Page
    PROVE  p.chain \in Seq(Controls) /\ DOMAIN p.chain = 1..Len(p.chain) /\ Len(p.chain) \in Nat
<1>1. p.chain \in Seq(Controls)
  BY DEF Page
<1>2. QED
  BY <1>1

LEMMA AddsNone ==
    ASSUME NEW p \in Page, NEW q, Aside(p, q), q.target = p.target
    PROVE  Adds(p, q)
<1>1. q.chain = p.chain /\ Len(p.chain) <= Len(q.chain)
  BY ChainFacts DEF Aside
<1>2. QED
  BY <1>1 DEF Adds, Aside

LEMMA AddsTransitive ==
    ASSUME NEW p \in Page, NEW q \in Page, NEW r \in Page, Adds(p, q), Adds(q, r)
    PROVE  Adds(p, r)
<1>1. /\ DOMAIN p.chain = 1..Len(p.chain) /\ Len(p.chain) \in Nat
      /\ DOMAIN q.chain = 1..Len(q.chain) /\ Len(q.chain) \in Nat
      /\ Len(r.chain) \in Nat
  BY ChainFacts
<1>2. Len(p.chain) <= Len(q.chain) /\ Len(q.chain) <= Len(r.chain)
  BY DEF Adds
<1>3. Len(p.chain) <= Len(r.chain) /\ DOMAIN p.chain \subseteq DOMAIN q.chain
  BY <1>1, <1>2
<1>4. \A k \in DOMAIN p.chain : r.chain[k] = p.chain[k]
  BY <1>3 DEF Adds
<1>5. \A k \in DOMAIN r.chain \ DOMAIN p.chain :
        p.remote # None /\ p.remote.token # 0 /\ r.chain[k].token = p.remote.token
  <2> SUFFICES ASSUME NEW k \in DOMAIN r.chain \ DOMAIN p.chain
               PROVE  p.remote # None /\ p.remote.token # 0 /\ r.chain[k].token = p.remote.token
    OBVIOUS
  <2>1. CASE k \in DOMAIN q.chain
    BY <2>1 DEF Adds
  <2>2. CASE k \notin DOMAIN q.chain
    BY <2>2 DEF Adds
  <2>3. QED
    BY <2>1, <2>2
<1>6. QED
  BY <1>3, <1>4, <1>5 DEF Adds

LEMMA TellAdds ==
    ASSUME NEW p \in Page, NEW event \in Reports
    PROVE  LET q == Tell(p, event)
           IN  /\ Adds(p, q) /\ q.audio = p.audio /\ q.speaking = p.speaking
               /\ Speaks(p) => /\ q.chain # <<>>
                               /\ Holds(q.chain, [event |-> event, token |-> p.remote.token])
<1> DEFINE c == [event |-> event, token |-> p.remote.token]
<1> DEFINE chain == Append(p.chain, c)
<1> DEFINE q == [p EXCEPT !.chain = chain]
<1>1. CASE Speaks(p)
  <2>1. p.remote \in Frames /\ p.remote # None /\ p.remote.token # 0
    BY <1>1 DEF Speaks, Page
  <2>2. c \in Controls
    BY <2>1, FrameFacts DEF Controls, Reports
  <2>3. c.token = p.remote.token
    OBVIOUS
  <2> HIDE DEF c
  <2>4. p.chain \in Seq(Controls)
    BY DEF Page
  <2>5. /\ DOMAIN p.chain = 1..Len(p.chain) /\ DOMAIN chain = 1..(Len(p.chain) + 1)
        /\ Len(p.chain) \in Nat /\ Len(chain) = Len(p.chain) + 1
        /\ \A k \in DOMAIN p.chain : chain[k] = p.chain[k]
        /\ chain[Len(p.chain) + 1] = c /\ chain # <<>>
    BY <2>2, <2>4
  <2>6. Holds(chain, c)
    BY <2>2, <2>4, HoldsMore
  <2>7. Tell(p, event) = q
    BY <1>1 DEF Tell, c
  <2> HIDE DEF chain
  <2>8. /\ q.chain = chain /\ q.audio = p.audio /\ q.speaking = p.speaking
        /\ q.target = p.target /\ q.owned = p.owned
        /\ q.remote = p.remote /\ q.cache = p.cache
    BY DEF Page
  <2> HIDE DEF q
  <2>9. Len(p.chain) <= Len(chain)
    BY <2>5
  <2>10. \A k \in DOMAIN chain \ DOMAIN p.chain : chain[k] = c
    BY <2>5
  <2>11. Adds(p, q)
    BY <2>1, <2>3, <2>5, <2>8, <2>9, <2>10 DEF Adds
  <2>12. QED
    BY <2>5, <2>6, <2>7, <2>8, <2>11 DEF c
<1>2. CASE ~Speaks(p)
  <2>1. Tell(p, event) = p
    BY <1>2 DEF Tell
  <2>2. Adds(p, p)
    BY AddsNone DEF Aside
  <2>3. QED
    BY <1>2, <2>1, <2>2
<1>3. QED
  BY <1>1, <1>2

\* The media go on as they are.
Says(p, q) ==
    /\ Stays(p, q) /\ Adds(p, q)
    /\ q.audio = p.audio /\ q.speaking = p.speaking

LEMMA SaysTransitive ==
    ASSUME NEW p \in Page, NEW q, NEW r, Says(p, q), Says(q, r)
    PROVE  Says(p, r)
<1>1. q \in Page /\ r \in Page
  BY DEF Says, Stays, Keeps
<1>2. Stays(p, r)
  BY StaysTransitive DEF Says
<1>3. Adds(p, r)
  BY <1>1, AddsTransitive DEF Says
<1>4. QED
  BY <1>2, <1>3 DEF Says

LEMMA SaysSpeaks ==
    ASSUME NEW p, NEW q, Says(p, q)
    PROVE  (Speaks(q) <=> Speaks(p)) /\ q.remote = p.remote
BY DEF Says, Adds, Speaks

LEMMA SaysNothing ==
    ASSUME NEW p \in Page, Consistent(p)
    PROVE  Says(p, p)
<1>1. Adds(p, p)
  BY AddsNone DEF Aside
<1>2. QED
  BY <1>1 DEF Says, Stays, Keeps

LEMMA TellSays ==
    ASSUME NEW p \in Page, Consistent(p), NEW event \in Reports
    PROVE  Says(p, Tell(p, event))
BY TellStays, TellAdds DEF Says

LEMMA SeesSays ==
    ASSUME NEW p \in Page, Consistent(p), NEW view \in Views
    PROVE  Says(p, Sees(p, view))
<1> DEFINE q == Sees(p, view)
<1>1. Stays(p, q)
  BY SeesStays
<1>2. Aside(p, q) /\ q.target = p.target /\ q.audio = p.audio /\ q.speaking = p.speaking
  BY WithView DEF Sees, Aside
<1> HIDE DEF q
<1>3. QED
  BY <1>1, <1>2, AddsNone DEF Says, q

LEMMA SilencedSays ==
    ASSUME NEW p \in Page, Consistent(p)
    PROVE  Says(p, Silenced(p))
<1>1. Says(p, Sees(p, "silent"))
  BY SeesSays DEF Views
<1>2. QED
  BY <1>1, SaysNothing DEF Silenced

LEMMA TickedSays ==
    ASSUME NEW p \in Page, Consistent(p), NEW q \in Ticked(p)
    PROVE  Says(p, q)
<1>1. q = p \/ q = Tell(p, "playing")
  BY DEF Ticked
<1>2. QED
  BY <1>1, SaysNothing, TellSays DEF Reports

\* Media that are stopped when they are over.
LEMMA StoppedFacts ==
    ASSUME NEW p \in Page, Consistent(p)
    PROVE  LET q == [Silenced(p) EXCEPT !.audio.paused = TRUE]
           IN  /\ Stays(p, q) /\ Adds(p, q) /\ q.speaking = p.speaking
               /\ q.audio.paused /\ q.audio.health = p.audio.health
               /\ q.audio.src = p.audio.src /\ q.audio.tasks = p.audio.tasks
<1> DEFINE s == Silenced(p)
<1> DEFINE m == [s.audio EXCEPT !.paused = TRUE]
<1> DEFINE q == [s EXCEPT !.audio.paused = TRUE]
<1>1. Says(p, s) /\ Stays(p, q)
  BY SilencedSays, StoppedStays
<1> HIDE DEF s
<1>2. s \in Page /\ s.audio = p.audio
  BY <1>1 DEF Says, Stays, Keeps
<1>3. q = [s EXCEPT !.audio = m]
  BY <1>2 DEF Page
<1>4. /\ m \in Media /\ m.src = p.audio.src /\ m.paused
      /\ m.health = p.audio.health /\ m.tasks = p.audio.tasks
  <2>1. s.audio \in Media
    BY <1>2 DEF Page
  <2>2. QED
    BY <1>2, <2>1 DEF Media
<1> HIDE DEF m
<1>5. q \in Page /\ q.audio = m /\ Beside(s, q)
  BY <1>2, <1>3, <1>4, WithAudio
<1> HIDE DEF q
<1>6. Adds(s, q)
  BY <1>2, <1>5, AddsNone DEF Beside, Aside
<1>7. Adds(p, q)
  BY <1>1, <1>2, <1>5, <1>6, AddsTransitive DEF Says
<1>8. q.speaking = p.speaking
  BY <1>1, <1>5 DEF Says, Beside
<1>9. QED
  BY <1>1, <1>4, <1>5, <1>7, <1>8 DEF q, s

\* What the handling of an event makes of the media and of what is reported.
Answers(p, event, q) ==
    /\ Adds(p, q) /\ Continues(p.audio, q.audio)
    /\ event = "ended" => q.audio.health # "over" \/ q.audio.paused
    /\ event = "error" /\ Speaks(p) =>
          Holds(q.chain, [event |-> "failed", token |-> p.remote.token])
    /\ p.target # Local =>
          /\ q.speaking = p.speaking /\ q.audio.health = p.audio.health
          /\ q.audio.tasks = p.audio.tasks
          /\ p.audio.paused => q.audio.paused
    /\ p.target # Local /\ Speaks(p) =>
          /\ q.audio.paused /\ ~p.audio.paused => q.chain # <<>>
          /\ event = "pause" /\ p.audio.health = "fine" => q.chain # <<>>

LEMMA SaysAnswers ==
    ASSUME NEW p \in Page, NEW q, Says(p, q), NEW event \in {"play", "pause"},
           event = "pause" /\ p.audio.health = "fine" /\ Speaks(p) => q.chain # <<>>
    PROVE  Answers(p, event, q)
BY SameContinues DEF Says, Answers

LEMMA PauseAnswers ==
    ASSUME NEW p \in Page, Consistent(p), NEW q \in Handled(p, "pause")
    PROVE  Answers(p, "pause", q)
<1>1. PICK r \in Ticked(p) : q = IF r.audio.health = "over" THEN Silenced(r)
                                 ELSE Tell(Silenced(r), "paused")
  BY DEF Handled
<1> DEFINE s == Silenced(r)
<1>2. Says(p, r)
  BY TickedSays
<1>3. r \in Page /\ Consistent(r) /\ r.audio = p.audio
  BY <1>2 DEF Says, Stays, Keeps
<1>4. Says(r, s)
  BY <1>3, SilencedSays
<1>5. q = IF r.audio.health = "over" THEN s ELSE Tell(s, "paused")
  BY <1>1
<1> HIDE DEF s
<1>6. Says(p, s) /\ s \in Page /\ Consistent(s)
  BY <1>2, <1>4, SaysTransitive DEF Says, Stays, Keeps
<1>7. Says(s, Tell(s, "paused"))
  BY <1>6, TellSays DEF Reports
<1>8. Says(p, q)
  BY <1>5, <1>6, <1>7, SaysTransitive
<1>9. p.audio.health = "fine" /\ Speaks(p) => q.chain # <<>>
  <2>1. SUFFICES ASSUME p.audio.health = "fine", Speaks(p) PROVE q.chain # <<>>
    OBVIOUS
  <2>2. q = Tell(s, "paused")
    BY <1>3, <1>5, <2>1
  <2>3. Speaks(s)
    BY <1>6, <2>1, SaysSpeaks
  <2>4. QED
    BY <1>6, <2>2, <2>3, TellAdds DEF Reports
<1>10. QED
  BY <1>8, <1>9, SaysAnswers

LEMMA ErrorAnswers ==
    ASSUME NEW p \in Page, Consistent(p)
    PROVE  Answers(p, "error", Tell(Sees(p, "silent"), "failed"))
<1> DEFINE s == Sees(p, "silent")
<1> DEFINE q == Tell(s, "failed")
<1>1. Says(p, s)
  BY SeesSays DEF Views
<1> HIDE DEF s
<1>2. s \in Page /\ Consistent(s)
  BY <1>1 DEF Says, Stays, Keeps
<1>3. Says(s, q)
  BY <1>2, TellSays DEF Reports
<1>4. Speaks(s) => Holds(q.chain, [event |-> "failed", token |-> s.remote.token])
  BY <1>2, TellAdds DEF Reports
<1> HIDE DEF q
<1>5. Says(p, q)
  BY <1>1, <1>3, SaysTransitive
<1>6. (Speaks(s) <=> Speaks(p)) /\ s.remote = p.remote
  BY <1>1, SaysSpeaks
<1>7. Answers(p, "error", q)
  BY <1>4, <1>5, <1>6, SameContinues DEF Says, Answers
<1>8. QED
  BY <1>7 DEF q, s

LEMMA EndAnswers ==
    ASSUME NEW p \in Page, Consistent(p), NEW q \in Handled(p, "ended")
    PROVE  Answers(p, "ended", q)
<1> DEFINE late == p.audio.health # "over" \/ p.audio.paused
<1> DEFINE still == [Silenced(p) EXCEPT !.audio.paused = TRUE]
<1> DEFINE stopped == IF late THEN p ELSE still
<1>1. PICK s \in Ticked(stopped) : \E r \in Ended(s) : q = Tell(r, "completed")
  BY DEF Handled
<1>2. PICK r \in Ended(s) : q = Tell(r, "completed")
  BY <1>1
<1>3. /\ Stays(p, stopped) /\ Adds(p, stopped) /\ stopped.speaking = p.speaking
      /\ stopped.audio.health = p.audio.health /\ stopped.audio.src = p.audio.src
      /\ stopped.audio.tasks = p.audio.tasks
      /\ stopped.audio.paused = p.audio.paused \/ stopped.audio.paused
      /\ stopped.audio.health # "over" \/ stopped.audio.paused
  <2>1. CASE late
    <3>1. stopped = p
      BY <2>1
    <3>2. Says(p, p)
      BY SaysNothing
    <3> HIDE DEF stopped
    <3>3. QED
      BY <2>1, <3>1, <3>2 DEF Says
  <2>2. CASE ~late
    <3>1. stopped = still
      BY <2>2
    <3>2. /\ Stays(p, still) /\ Adds(p, still) /\ still.speaking = p.speaking
          /\ still.audio.paused /\ still.audio.health = p.audio.health
          /\ still.audio.src = p.audio.src /\ still.audio.tasks = p.audio.tasks
      BY StoppedFacts
    <3> HIDE DEF stopped, still
    <3>3. QED
      BY <3>1, <3>2
  <2>3. QED
    BY <2>1, <2>2
<1> HIDE DEF stopped, late, still
<1>4. stopped \in Page /\ Consistent(stopped)
  BY <1>3 DEF Stays, Keeps
<1>5. Continues(p.audio, stopped.audio)
  BY <1>3 DEF Continues
<1>6. Says(stopped, s)
  BY <1>4, TickedSays
<1>7. s \in Page /\ Consistent(s) /\ s.audio = stopped.audio /\ Adds(p, s)
      /\ s.speaking = p.speaking /\ s.target = p.target
  <2>1. s \in Page /\ Consistent(s) /\ s.audio = stopped.audio /\ Adds(stopped, s)
        /\ s.speaking = stopped.speaking
    BY <1>6 DEF Says, Stays, Keeps
  <2>2. Adds(p, s)
    BY <1>3, <1>4, <2>1, AddsTransitive
  <2>3. QED
    BY <1>3, <2>1, <2>2 DEF Adds
<1>8. /\ (s.target = Local => Goes(s, r)) /\ (s.target # Local => r = s)
      /\ Continues(s.audio, r.audio)
  BY <1>7, EndedFacts, EndedContinues
<1>9. r \in Page /\ Consistent(r) /\ Adds(p, r)
  <2>1. CASE s.target # Local
    BY <1>7, <1>8, <2>1
  <2>2. CASE s.target = Local
    <3>1. r \in Page /\ Consistent(r) /\ Aside(s, r) /\ r.target = s.target
      BY <1>8, <2>2 DEF Goes, AtHome
    <3>2. Adds(s, r)
      BY <1>7, <3>1, AddsNone
    <3>3. QED
      BY <1>7, <3>1, <3>2, AddsTransitive
  <2>3. QED
    BY <2>1, <2>2
<1>10. Says(r, q) /\ (Speaks(r) => q.chain # <<>>)
  BY <1>2, <1>9, TellSays, TellAdds DEF Reports
<1>11. q \in Page /\ q.audio = r.audio /\ q.speaking = r.speaking /\ Adds(p, q)
  <2>1. q \in Page /\ q.audio = r.audio /\ q.speaking = r.speaking /\ Adds(r, q)
    BY <1>10 DEF Says, Stays, Keeps
  <2>2. QED
    BY <1>9, <2>1, AddsTransitive
<1>12. Continues(p.audio, q.audio)
  BY <1>5, <1>7, <1>8, <1>11, ContinuesTransitive
<1>13. q.audio.health # "over" \/ q.audio.paused
  BY <1>3, <1>7, <1>8, <1>11 DEF Continues
<1>14. Speaks(p) => Speaks(r)
  BY <1>9 DEF Adds, Speaks
<1>15. p.target # Local =>
         /\ q.speaking = p.speaking /\ q.audio.health = p.audio.health
         /\ q.audio.tasks = p.audio.tasks
         /\ p.audio.paused => q.audio.paused
  BY <1>3, <1>7, <1>8, <1>11
<1>16. QED
  BY <1>10, <1>11, <1>12, <1>13, <1>14, <1>15 DEF Answers

LEMMA HandledAnswers ==
    ASSUME NEW p \in Page, Consistent(p), NEW event \in MediaEvents, NEW q \in Handled(p, event)
    PROVE  Answers(p, event, q)
<1>1. CASE event = "play"
  <2> DEFINE s == Sees(p, "playing")
  <2>1. q = Tell(s, "playing")
    BY <1>1 DEF Handled
  <2>2. Says(p, s)
    BY SeesSays DEF Views
  <2> HIDE DEF s
  <2>3. Says(s, q)
    BY <2>1, <2>2, TellSays DEF Says, Stays, Keeps, Reports
  <2>4. Says(p, q)
    BY <2>2, <2>3, SaysTransitive
  <2>5. QED
    BY <1>1, <2>4, SaysAnswers
<1>2. CASE event = "pause"
  BY <1>2, PauseAnswers
<1>3. CASE event = "ended"
  BY <1>3, EndAnswers
<1>4. CASE event = "error"
  <2>1. q = Tell(Sees(p, "silent"), "failed")
    BY <1>4 DEF Handled
  <2>2. QED
    BY <1>4, <2>1, ErrorAnswers
<1>5. QED
  BY <1>1, <1>2, <1>3, <1>4 DEF MediaEvents

-----------------------------------------------------------------------------
(* The speaker.                                                            *)

\* A playback that is over for the row.
Dead(t) == t \in 1..rowTokens /\ t # rowToken

\* Only playbacks that were handed out are named.
Learnt(p, n) ==
    /\ p.remote # None => p.remote.token <= n
    /\ p.cache # None => p.cache.token <= n

Claims(chain, n) ==
    \A k \in DOMAIN chain :
        chain[k].token <= n /\ (chain[k].event = "failed" => chain[k].token # 0)

\* And where a report of a failure is answered, the playback has ended.
KnownInv ==
    /\ \A k \in DOMAIN frames : frames[k].token <= rowTokens
    /\ Learnt(page, rowTokens) /\ Claims(page.chain, rowTokens)
    /\ InFlight /\ page.chain[1].event = "failed" => Dead(page.chain[1].token)

OverInv ==
    page.audio.health = "over" /\ ~page.audio.paused => Holds(page.audio.tasks, "ended")

\* Media that failed are reported, unless their playback has ended by itself.
BrokenInv ==
    ~amiss /\ page.audio.health = "broken" =>
      \/ Holds(page.audio.tasks, "error")
      \/ Holds(page.chain, [event |-> "failed", token |-> page.audio.src])
      \/ Dead(page.audio.src)

TargetInv == page.target \in listed \cup {Local}

Following == ~amiss /\ page.target = Mine /\ page.owned /\ Mine \in there

\* The tab has done what the row says, or has yet to say that it did not.
Spoken(p) ==
    /\ p.remote = Frame
    /\ rowStatus # "playing" => p.audio.paused
    /\ rowStatus = "playing" =>
          /\ p.speaking = rowToken
          /\ p.audio.paused => \/ p.chain # <<>>
                               \/ Holds(p.audio.tasks, "pause") /\ p.audio.health = "fine"
                               \/ p.audio.health = "broken"

Same(f) == f.status = rowStatus /\ f.token = rowToken /\ f.rev = rowRev

\* The last frame on its way is the row's, and without one the tab is there.
FollowInv ==
    Following =>
      /\ subscribed
      /\ frames # <<>> => Same(frames[Len(frames)])
      /\ frames = <<>> => Spoken(page)

SpeakerInv == KnownInv /\ OverInv /\ BrokenInv /\ TargetInv /\ FollowInv

\* What a step of the row does to its playback.
RowMoves ==
    /\ rowTokens <= rowTokens'
    /\ rowToken' = rowToken \/ rowToken' = 0 \/ rowToken' > rowTokens

LEMMA RowRests ==
    ASSUME RowInv, UNCHANGED shareVars
    PROVE  RowMoves
BY DEF RowInv, RowMoves, shareVars

LEMMA DeadStays ==
    ASSUME RowInv, RowInv', RowMoves, NEW t, Dead(t)
    PROVE  Dead(t)'
BY DEF RowInv, RowMoves, Dead

LEMMA OverMoves ==
    ASSUME OverInv, Continues(page.audio, page'.audio)
    PROVE  OverInv'
BY DEF OverInv, Continues

LEMMA BrokenMoves ==
    ASSUME BrokenInv, RowInv, RowInv', RowMoves, Continues(page.audio, page'.audio),
           amiss => amiss',
           \A c : Holds(page.chain, c) => Holds(page'.chain, c)
    PROVE  BrokenInv'
<1> SUFFICES ASSUME ~amiss', page'.audio.health = "broken"
             PROVE  \/ Holds(page'.audio.tasks, "error")
                    \/ Holds(page'.chain, [event |-> "failed", token |-> page'.audio.src])
                    \/ (Dead(page.audio.src))'
  BY DEF BrokenInv
<1> DEFINE s == page.audio.src
<1>1. /\ page.audio.health = "broken" /\ page'.audio.src = s
      /\ (Holds(page.audio.tasks, "error") => Holds(page'.audio.tasks, "error"))
  BY DEF Continues
<1>2. \/ Holds(page.audio.tasks, "error")
      \/ Holds(page.chain, [event |-> "failed", token |-> s])
      \/ Dead(s)
  BY <1>1 DEF BrokenInv
<1>3. Dead(s) => (Dead(page.audio.src))'
  BY <1>1 DEF RowInv, RowMoves, Dead
<1>4. QED
  BY <1>1, <1>2, <1>3

\* The frames that go out with a change of the target.
LEMMA SnapshotFacts ==
    ASSUME RowInv, NetInv, NEW asked, Ask(asked)
    PROVE  /\ frames' = frames \/
              /\ DOMAIN frames' = 1..(Len(frames) + 1) /\ Len(frames') = Len(frames) + 1
              /\ frames' # <<>> /\ Same(frames'[Len(frames) + 1])
              /\ ~frames'[Len(frames) + 1].reply
              /\ \A k \in DOMAIN frames : frames'[k] = frames[k]
           /\ asked /\ Mine \in there => frames' # frames
<1> DEFINE f == [status |-> rowStatus, token |-> rowToken, rev |-> rowRev, reply |-> FALSE]
<1>1. f \in Deliveries /\ ~f.reply /\ Same(f)
  BY SentFrame DEF Same
<1>2. frames' = IF asked /\ Mine \in there THEN Append(frames, f) ELSE frames
  BY DEF Ask
<1> HIDE DEF f
<1>3. frames \in Seq(Deliveries)
  BY DEF NetInv
<1>4. CASE asked /\ Mine \in there
  <2>1. frames' = Append(frames, f)
    BY <1>2, <1>4
  <2>2. /\ DOMAIN frames' = 1..(Len(frames) + 1) /\ Len(frames') = Len(frames) + 1
        /\ frames'[Len(frames) + 1] = f /\ DOMAIN frames = 1..Len(frames)
        /\ Len(frames) \in Nat /\ \A k \in DOMAIN frames : frames'[k] = frames[k]
    BY <1>1, <1>3, <2>1
  <2>3. frames' # frames /\ frames' # <<>>
    BY <2>2
  <2>4. QED
    BY <1>1, <2>2, <2>3
<1>5. CASE ~(asked /\ Mine \in there)
  BY <1>2, <1>5
<1>6. QED
  BY <1>4, <1>5

\* Frames about the row, none of them an answer, keep what is known.
LEMMA FramesMove ==
    ASSUME RowInv, NetInv, KnownInv, UNCHANGED shareVars, NEW asked, Ask(asked)
    PROVE  /\ \A k \in DOMAIN frames' : frames'[k].token <= rowTokens'
           /\ InFlight' => InFlight
<1>1. \A k \in DOMAIN frames' :
         \/ k \in DOMAIN frames /\ frames'[k] = frames[k]
         \/ frames'[k].token = rowToken /\ ~frames'[k].reply
  <2>1. frames \in Seq(Deliveries)
    BY DEF NetInv
  <2>2. DOMAIN frames = 1..Len(frames) /\ Len(frames) \in Nat
    BY <2>1
  <2>3. QED
    BY <2>2, SnapshotFacts DEF Same
<1>2. rowToken <= rowTokens /\ rowTokens' = rowTokens
  BY DEF RowInv, shareVars
<1>3. QED
  BY <1>1, <1>2 DEF KnownInv, InFlight

LEMMA LearntOnward ==
    ASSUME NEW p, NEW q, Onward(p, q), NEW n, Learnt(p, n)
    PROVE  Learnt(q, n)
BY DEF Onward, Learnt

\* A step of the tab that learns nothing and reports nothing.
LEMMA OnwardKeeps ==
    ASSUME PageInv, SpeakerInv, UNCHANGED shareVars, Onward(page, page'),
           page'.chain = page.chain, amiss => amiss',
           \A k \in DOMAIN frames' : frames'[k].token <= rowTokens',
           InFlight' => InFlight
    PROVE  KnownInv' /\ OverInv' /\ BrokenInv'
<1>1. RowInv /\ RowInv' /\ RowMoves /\ rowTokens' = rowTokens /\ rowToken' = rowToken
  BY RowRests, SameRow DEF PageInv, shareVars
<1>2. Continues(page.audio, page'.audio)
  BY DEF Onward
<1>3. OverInv' /\ BrokenInv'
  BY <1>1, <1>2, OverMoves, BrokenMoves DEF SpeakerInv
<1>4. Learnt(page', rowTokens')
  BY <1>1, LearntOnward DEF SpeakerInv, KnownInv
<1>5. KnownInv'
  BY <1>1, <1>4 DEF SpeakerInv, KnownInv, Dead
<1>6. QED
  BY <1>3, <1>5

-----------------------------------------------------------------------------
(* The speaker where the target stays.                                     *)

\* Reports may be added, none of them about a playback that is not known.
LEMMA LongerKnown ==
    ASSUME PageInv, PageInv', KnownInv, UNCHANGED shareVars, frames' = frames,
           page'.remote = page.remote, page'.cache = page.cache,
           Len(page.chain) <= Len(page'.chain),
           \A k \in DOMAIN page.chain : page'.chain[k] = page.chain[k],
           \A k \in DOMAIN page'.chain \ DOMAIN page.chain :
              /\ page'.chain[k].token <= rowTokens
              /\ page'.chain[k].event = "failed" => page'.chain[k].token # 0
    PROVE  /\ KnownInv'
           /\ \A c : Holds(page.chain, c) => Holds(page'.chain, c)
           /\ page.chain # <<>> => page'.chain # <<>>
<1>1. /\ page.chain \in Seq(Controls) /\ DOMAIN page.chain = 1..Len(page.chain)
      /\ Len(page.chain) \in Nat
  BY ChainFacts DEF PageInv
<1>2. /\ page'.chain \in Seq(Controls) /\ DOMAIN page'.chain = 1..Len(page'.chain)
      /\ Len(page'.chain) \in Nat
  <2>1. page' \in Page
    BY DEF PageInv
  <2>2. QED
    BY <2>1, ChainFacts
<1>3. DOMAIN page.chain \subseteq DOMAIN page'.chain
  BY <1>1, <1>2
<1>4. \A c : Holds(page.chain, c) => Holds(page'.chain, c)
  BY <1>3 DEF Holds
<1>5. page.chain # <<>> => page'.chain # <<>>
  BY <1>1, <1>2
<1>6. rowTokens' = rowTokens /\ rowToken' = rowToken
  BY DEF shareVars
<1>7. Claims(page'.chain, rowTokens')
  <2> SUFFICES ASSUME NEW k \in DOMAIN page'.chain
               PROVE  /\ page'.chain[k].token <= rowTokens'
                      /\ page'.chain[k].event = "failed" => page'.chain[k].token # 0
    BY DEF Claims
  <2>1. CASE k \in DOMAIN page.chain
    BY <1>6, <2>1 DEF KnownInv, Claims
  <2>2. CASE k \notin DOMAIN page.chain
    BY <1>6, <2>2
  <2>3. QED
    BY <2>1, <2>2
<1>8. InFlight => page'.chain[1] = page.chain[1]
  <2>1. InFlight => 1 \in DOMAIN page.chain
    BY <1>1 DEF PageInv, ReplyInv
  <2>2. QED
    BY <2>1
<1>9. (InFlight <=> InFlight') /\ Learnt(page', rowTokens')
  BY <1>6 DEF InFlight, Learnt, KnownInv
<1>10. InFlight' /\ page'.chain[1].event = "failed" => (Dead(page.chain[1].token))'
  BY <1>6, <1>8, <1>9 DEF KnownInv, Dead
<1>11. \A k \in DOMAIN frames' : frames'[k].token <= rowTokens'
  BY <1>6 DEF KnownInv
<1>12. KnownInv'
  BY <1>7, <1>9, <1>10, <1>11 DEF KnownInv
<1>13. QED
  BY <1>4, <1>5, <1>12

\* Reports of the tab name what it was last told of.
LEMMA AddsKnown ==
    ASSUME PageInv, PageInv', KnownInv, UNCHANGED shareVars, frames' = frames,
           Adds(page, page')
    PROVE  /\ KnownInv'
           /\ \A c : Holds(page.chain, c) => Holds(page'.chain, c)
           /\ page.chain # <<>> => page'.chain # <<>>
<1>1. \A k \in DOMAIN page'.chain \ DOMAIN page.chain :
        /\ page'.chain[k].token <= rowTokens
        /\ page'.chain[k].event = "failed" => page'.chain[k].token # 0
  BY DEF Adds, KnownInv, Learnt
<1>2. QED
  BY <1>1, LongerKnown DEF Adds

\* What the speaker needs where the target stays.
LEMMA FollowStays ==
    ASSUME FollowInv, TargetInv, UNCHANGED shareVars, UNCHANGED netVars, amiss => amiss',
           page'.target = page.target, page'.owned = page.owned,
           Following /\ Spoken(page) => Spoken(page)'
    PROVE  TargetInv' /\ FollowInv'
<1>1. TargetInv'
  BY DEF TargetInv, netVars
<1>2. Following' => Following
  BY DEF Following, netVars
<1>3. subscribed' = subscribed /\ frames' = frames
  BY DEF netVars
<1>4. \A f : Same(f)' <=> Same(f)
  BY DEF Same, shareVars
<1>5. FollowInv'
  BY <1>2, <1>3, <1>4 DEF FollowInv, Same, shareVars
<1>6. QED
  BY <1>1, <1>5

LEMMA InFlightStays ==
    ASSUME frames' = frames
    PROVE  InFlight' => InFlight
BY DEF InFlight

\* The tab's own queue, and the queue of the other output.
LEMMA LocalOpFollows ==
    PageInv /\ PageInv' /\ SpeakerInv /\ LocalOp => SpeakerInv'
<1> SUFFICES ASSUME PageInv, SpeakerInv, LocalOp PROVE SpeakerInv'
  OBVIOUS
<1>1. AtHome(page) /\ page' \in LocalOps(page) /\ Mine # Local
  BY PageAssumption DEF LocalOp, PageInv, AtHome
<1>2. Goes(page, page') /\ Continues(page.audio, page'.audio)
  BY <1>1, LocalOpsFacts, LocalOpsContinues
<1>3. page'.target = Local /\ Onward(page, page') /\ page'.chain = page.chain
  BY <1>2 DEF Goes, AtHome, Aside, Onward
<1>4. frames' = frames /\ UNCHANGED shareVars /\ amiss' = amiss /\ rowTokens' = rowTokens
  BY DEF LocalOp, netVars, shareVars
<1>5. KnownInv' /\ OverInv' /\ BrokenInv'
  <2>1. \A k \in DOMAIN frames' : frames'[k].token <= rowTokens'
    BY <1>4 DEF SpeakerInv, KnownInv
  <2>2. QED
    BY <1>3, <1>4, <2>1, InFlightStays, OnwardKeeps
<1>6. TargetInv' /\ FollowInv'
  BY <1>1, <1>3 DEF TargetInv, FollowInv, Following
<1>7. QED
  BY <1>5, <1>6 DEF SpeakerInv

LEMMA TheirsFollows ==
    PageInv /\ SpeakerInv /\ ReceiveTheirs => SpeakerInv'
<1> SUFFICES ASSUME PageInv, SpeakerInv, ReceiveTheirs PROVE SpeakerInv'
  OBVIOUS
<1> DEFINE list == Shows(Theirs)
<1>1. page \in Page /\ page.target = Theirs /\ Mine # Theirs
  BY PageAssumption DEF PageInv, ReceiveTheirs
<1>2. page' = [page EXCEPT !.shown = list]
  BY DEF ReceiveTheirs
<1> HIDE DEF list
<1>3. /\ page'.target = page.target /\ page'.owned = page.owned /\ page'.audio = page.audio
      /\ page'.remote = page.remote /\ page'.cache = page.cache /\ page'.chain = page.chain
  BY <1>1, <1>2 DEF Page
<1>4. Onward(page, page')
  BY <1>3, OnwardSame
<1>5. frames' = frames /\ UNCHANGED shareVars /\ UNCHANGED netVars /\ amiss' = amiss
      /\ rowTokens' = rowTokens
  BY DEF ReceiveTheirs, netVars, shareVars
<1>6. KnownInv' /\ OverInv' /\ BrokenInv'
  <2>1. \A k \in DOMAIN frames' : frames'[k].token <= rowTokens'
    BY <1>5 DEF SpeakerInv, KnownInv
  <2>2. QED
    BY <1>3, <1>4, <1>5, <2>1, InFlightStays, OnwardKeeps
<1>7. TargetInv' /\ FollowInv'
  <2>1. ~Following
    BY <1>1 DEF Following
  <2>2. QED
    BY <1>3, <1>5, <2>1, FollowStays DEF SpeakerInv
<1>8. QED
  BY <1>6, <1>7 DEF SpeakerInv

LEMMA ClickFollows ==
    PageInv /\ PageInv' /\ SpeakerInv /\ Click => SpeakerInv'
<1> SUFFICES ASSUME PageInv, PageInv', SpeakerInv, Click PROVE SpeakerInv'
  OBVIOUS
<1> DEFINE c == [event |-> "command", token |-> 0]
<1> DEFINE chain == Append(page.chain, c)
<1>1. page \in Page /\ page.chain \in Seq(Controls) /\ c \in Controls
  BY PageAssumption DEF PageInv, Page, Controls
<1>2. page' = [page EXCEPT !.chain = chain]
  BY <1>1 DEF Click, Page
<1>3. c.token = 0 /\ c.event # "failed"
  OBVIOUS
<1> HIDE DEF c
<1>4. /\ DOMAIN page.chain = 1..Len(page.chain) /\ DOMAIN chain = 1..(Len(page.chain) + 1)
      /\ Len(page.chain) \in Nat /\ Len(chain) = Len(page.chain) + 1 /\ chain # <<>>
      /\ \A k \in DOMAIN page.chain : chain[k] = page.chain[k]
      /\ chain[Len(page.chain) + 1] = c
  BY <1>1
<1> HIDE DEF chain
<1>5. /\ page'.target = page.target /\ page'.owned = page.owned /\ page'.audio = page.audio
      /\ page'.remote = page.remote /\ page'.cache = page.cache /\ page'.chain = chain
      /\ page'.speaking = page.speaking
  BY <1>1, <1>2 DEF Page
<1>6. frames' = frames /\ UNCHANGED shareVars /\ UNCHANGED netVars /\ amiss' = amiss
  BY DEF Click, netVars
<1>7. Len(page.chain) <= Len(page'.chain)
      /\ \A k \in DOMAIN page.chain : page'.chain[k] = page.chain[k]
  BY <1>4, <1>5
<1>8. \A k \in DOMAIN page'.chain \ DOMAIN page.chain :
        /\ page'.chain[k].token <= rowTokens
        /\ page'.chain[k].event = "failed" => page'.chain[k].token # 0
  <2>1. \A k \in DOMAIN page'.chain \ DOMAIN page.chain : page'.chain[k] = c
    BY <1>4, <1>5
  <2>2. 0 <= rowTokens
    BY DEF PageInv, RowInv
  <2>3. QED
    BY <1>3, <2>1, <2>2
<1>9. /\ KnownInv'
      /\ \A e : Holds(page.chain, e) => Holds(page'.chain, e)
  BY <1>5, <1>6, <1>7, <1>8, LongerKnown DEF SpeakerInv
<1>10. OverInv' /\ BrokenInv'
  <2>1. Continues(page.audio, page'.audio)
    BY <1>5 DEF Continues
  <2>2. OverInv'
    BY <2>1, OverMoves DEF SpeakerInv
  <2>3. RowMoves
    BY <1>6, RowRests DEF PageInv
  <2>4. BrokenInv'
    BY <1>6, <1>9, <2>1, <2>3, BrokenMoves DEF SpeakerInv, PageInv
  <2>5. QED
    BY <2>2, <2>4
<1>11. TargetInv' /\ FollowInv'
  <2>1. Following /\ Spoken(page) => Spoken(page)'
    BY <1>4, <1>5, <1>6 DEF Spoken, Frame, shareVars
  <2>2. QED
    BY <1>5, <1>6, <2>1, FollowStays DEF SpeakerInv
<1>12. QED
  BY <1>9, <1>10, <1>11 DEF SpeakerInv

\* What the media element does by itself.
LEMMA TickFollows ==
    PageInv /\ PageInv' /\ SpeakerInv /\ Tick => SpeakerInv'
<1> SUFFICES ASSUME PageInv, PageInv', SpeakerInv, Tick PROVE SpeakerInv'
  OBVIOUS
<1>1. page \in Page /\ Consistent(page)
  BY DEF PageInv
<1>2. page' = Tell(page, "playing") /\ UNCHANGED <<shareVars, netVars, kept, amiss>>
  BY DEF Tick, Happens
<1>3. Says(page, page')
  BY <1>1, <1>2, TellSays DEF Reports
<1>4. frames' = frames /\ UNCHANGED shareVars /\ UNCHANGED netVars /\ amiss' = amiss
  BY <1>2 DEF netVars
<1>5. Adds(page, page') /\ page'.audio = page.audio /\ page'.speaking = page.speaking
  BY <1>3 DEF Says
<1>6. /\ KnownInv' /\ \A c : Holds(page.chain, c) => Holds(page'.chain, c)
      /\ page.chain # <<>> => page'.chain # <<>>
  BY <1>4, <1>5, AddsKnown DEF SpeakerInv
<1>7. Continues(page.audio, page'.audio) /\ RowMoves
  BY <1>4, <1>5, SameContinues, RowRests DEF PageInv
<1>8. OverInv' /\ BrokenInv'
  BY <1>4, <1>6, <1>7, OverMoves, BrokenMoves DEF SpeakerInv, PageInv
<1>9. Following /\ Spoken(page) => Spoken(page)'
  BY <1>4, <1>5, <1>6 DEF Spoken, Frame, shareVars, Adds
<1>10. TargetInv' /\ FollowInv'
  BY <1>4, <1>5, <1>9, FollowStays DEF SpeakerInv, Adds
<1>11. QED
  BY <1>6, <1>8, <1>10 DEF SpeakerInv

\* What a step of the media element needs to show.
LEMMA HappensFollows ==
    ASSUME PageInv, SpeakerInv, NEW q, Happens(q), Beside(page, q),
           q.audio.src = page.audio.src,
           (q.audio.health = "over" /\ ~q.audio.paused => Holds(q.audio.tasks, "ended")),
           (q.audio.health = "broken" => Holds(q.audio.tasks, "error")),
           page.audio.paused => q.audio.paused,
           q.audio.paused => \/ Holds(q.audio.tasks, "pause") /\ q.audio.health = "fine"
                             \/ q.audio.health = "broken"
    PROVE  SpeakerInv'
<1>1. page' = q /\ UNCHANGED <<shareVars, netVars, kept, amiss>>
  BY DEF Happens
<1>2. frames' = frames /\ UNCHANGED shareVars /\ UNCHANGED netVars /\ amiss' = amiss
      /\ rowTokens' = rowTokens /\ rowToken' = rowToken
  BY <1>1 DEF netVars, shareVars
<1>3. /\ page'.target = page.target /\ page'.owned = page.owned
      /\ page'.remote = page.remote /\ page'.cache = page.cache
      /\ page'.chain = page.chain /\ page'.speaking = page.speaking
  BY <1>1 DEF Beside
<1>4. KnownInv'
  BY <1>2, <1>3 DEF SpeakerInv, KnownInv, Learnt, InFlight, Dead
<1>5. OverInv' /\ BrokenInv'
  BY <1>1 DEF OverInv, BrokenInv
<1>6. Following /\ Spoken(page) => Spoken(page)'
  BY <1>1, <1>2, <1>3 DEF Spoken, Frame, shareVars
<1>7. TargetInv' /\ FollowInv'
  BY <1>2, <1>3, <1>6, FollowStays DEF SpeakerInv
<1>8. QED
  BY <1>4, <1>5, <1>7 DEF SpeakerInv

LEMMA HoldFollows ==
    PageInv /\ SpeakerInv /\ Hold => SpeakerInv'
<1> SUFFICES ASSUME PageInv, SpeakerInv, Hold PROVE SpeakerInv'
  OBVIOUS
<1> DEFINE q == Pause(page)
<1>1. page \in Page /\ ~page.audio.paused /\ page.audio.health = "fine"
  BY DEF PageInv, Hold, Sounding
<1>2. /\ Beside(page, q) /\ q.audio.paused /\ q.audio.src = page.audio.src
      /\ q.audio.health = "fine" /\ q.audio.tasks = Append(page.audio.tasks, "pause")
  BY <1>1, PauseFacts
<1>3. Happens(q)
  BY DEF Hold
<1> HIDE DEF q
<1>4. page.audio.tasks \in Seq(MediaEvents) /\ "pause" \in MediaEvents
  BY <1>1 DEF Page, Media, MediaEvents
<1>5. Holds(q.audio.tasks, "pause")
  BY <1>2, <1>4, HoldsMore
<1>6. QED
  BY <1>2, <1>3, <1>5, HappensFollows

\* The media fail or come to their end.
LEMMA MediaFollows ==
    ASSUME PageInv, SpeakerInv, NEW event \in {"ended", "error"},
           NEW health \in {"over", "broken"}, (event = "ended" <=> health = "over"),
           Happens([page EXCEPT !.audio.health = health,
                                !.audio.tasks = Append(page.audio.tasks, event)]),
           health = "over" => ~page.audio.paused
    PROVE  SpeakerInv'
<1> DEFINE tasks == Append(page.audio.tasks, event)
<1> DEFINE m == [page.audio EXCEPT !.health = health, !.tasks = tasks]
<1> DEFINE q == [page EXCEPT !.audio.health = health, !.audio.tasks = tasks]
<1>1. page \in Page /\ page.audio \in Media
  BY DEF PageInv, Page
<1>2. page.audio.tasks \in Seq(MediaEvents) /\ event \in MediaEvents
  BY <1>1 DEF Media, MediaEvents
<1>3. tasks \in Seq(MediaEvents) /\ Holds(tasks, event)
  BY <1>2, HoldsMore
<1>4. Happens(q)
  OBVIOUS
<1> HIDE DEF tasks
<1>5. q = [page EXCEPT !.audio = m]
  BY <1>1 DEF Page, Media
<1>6. /\ m \in Media /\ m.src = page.audio.src /\ m.paused = page.audio.paused
      /\ m.health = health /\ m.tasks = tasks
  BY <1>1, <1>3 DEF Media
<1> HIDE DEF m
<1>7. q.audio = m /\ Beside(page, q)
  BY <1>1, <1>5, <1>6, WithAudio
<1> HIDE DEF q
<1>8. /\ q.audio.health = "over" /\ ~q.audio.paused => Holds(q.audio.tasks, "ended")
      /\ q.audio.health = "broken" => Holds(q.audio.tasks, "error")
  BY <1>3, <1>6, <1>7
<1>9. QED
  BY <1>4, <1>6, <1>7, <1>8, HappensFollows

LEMMA MediaEndFollows ==
    PageInv /\ SpeakerInv /\ MediaEnd => SpeakerInv'
<1> SUFFICES ASSUME PageInv, SpeakerInv, MediaEnd PROVE SpeakerInv'
  OBVIOUS
<1>1. [page EXCEPT !.audio.health = "over", !.audio.tasks = Append(@, "ended")]
        = [page EXCEPT !.audio.health = "over",
                       !.audio.tasks = Append(page.audio.tasks, "ended")]
  BY DEF PageInv, Page, Media
<1>2. Happens([page EXCEPT !.audio.health = "over",
                           !.audio.tasks = Append(page.audio.tasks, "ended")])
  BY <1>1 DEF MediaEnd
<1>3. ~page.audio.paused
  BY DEF MediaEnd, Sounding
<1>4. QED
  BY <1>2, <1>3, MediaFollows

LEMMA BreakFollows ==
    PageInv /\ SpeakerInv /\ Break => SpeakerInv'
<1> SUFFICES ASSUME PageInv, SpeakerInv, Break PROVE SpeakerInv'
  OBVIOUS
<1>1. [page EXCEPT !.audio.health = "broken", !.audio.tasks = Append(@, "error")]
        = [page EXCEPT !.audio.health = "broken",
                       !.audio.tasks = Append(page.audio.tasks, "error")]
  BY DEF PageInv, Page, Media
<1>2. Happens([page EXCEPT !.audio.health = "broken",
                           !.audio.tasks = Append(page.audio.tasks, "error")])
  BY <1>1 DEF Break
<1>3. QED
  BY <1>2, MediaFollows

\* A control that fails leaves the tab behind.
LEMMA ControlFailsFollows ==
    PageInv /\ SpeakerInv /\ ControlFails => SpeakerInv'
<1> SUFFICES ASSUME PageInv, SpeakerInv, ControlFails PROVE SpeakerInv'
  OBVIOUS
<1> DEFINE chain == Tail(page.chain)
<1>1. page \in Page /\ page.chain \in Seq(Controls) /\ page.chain # <<>>
  BY DEF PageInv, Page, ControlFails
<1>2. page' = [page EXCEPT !.chain = chain]
  BY <1>1 DEF ControlFails, Page
<1>3. /\ DOMAIN page.chain = 1..Len(page.chain) /\ DOMAIN chain = 1..(Len(page.chain) - 1)
      /\ Len(page.chain) \in Nat /\ \A k \in DOMAIN chain : chain[k] = page.chain[k + 1]
  BY <1>1
<1> HIDE DEF chain
<1>4. /\ page'.target = page.target /\ page'.audio = page.audio
      /\ page'.remote = page.remote /\ page'.cache = page.cache /\ page'.chain = chain
  BY <1>1, <1>2 DEF Page
<1>5. frames' = frames /\ UNCHANGED shareVars /\ UNCHANGED netVars /\ amiss' = TRUE
      /\ ~InFlight /\ rowTokens' = rowTokens
  BY DEF ControlFails, netVars, shareVars
<1>6. \A k \in DOMAIN chain : k + 1 \in DOMAIN page.chain
  BY <1>3
<1>7. Claims(chain, rowTokens)
  BY <1>3, <1>6 DEF SpeakerInv, KnownInv, Claims
<1>8. KnownInv'
  BY <1>4, <1>5, <1>7 DEF SpeakerInv, KnownInv, Learnt, InFlight
<1>9. OverInv' /\ BrokenInv' /\ TargetInv' /\ FollowInv'
  BY <1>4, <1>5 DEF SpeakerInv, OverInv, BrokenInv, TargetInv, FollowInv, Following, netVars
<1>10. QED
  BY <1>8, <1>9 DEF SpeakerInv

-----------------------------------------------------------------------------
(* The speaker and the events of its media.                                *)

LEMMA EventFollows ==
    PageInv /\ PageInv' /\ SpeakerInv /\ Event => SpeakerInv'
<1> SUFFICES ASSUME PageInv, PageInv', SpeakerInv, Event PROVE SpeakerInv'
  OBVIOUS
<1> DEFINE e == Head(page.audio.tasks)
<1> DEFINE rest == Tail(page.audio.tasks)
<1> DEFINE p == [page EXCEPT !.audio.tasks = Tail(@)]
<1> DEFINE m == [page.audio EXCEPT !.tasks = rest]
<1>1. page \in Page /\ Consistent(page) /\ page.audio \in Media
  BY DEF PageInv, Page
<1>2. page.audio.tasks \in Seq(MediaEvents) /\ page.audio.tasks # <<>>
  BY <1>1 DEF Media, Event
<1>3. e \in MediaEvents /\ rest \in Seq(MediaEvents)
      /\ \A x : x # e /\ Holds(page.audio.tasks, x) => Holds(rest, x)
  BY <1>2, HoldsRest
<1>4. p = [page EXCEPT !.audio = m]
  BY <1>1 DEF Page
<1>5. page' \in Handled(p, e)
  BY DEF Event
<1>6. amiss' = (amiss \/ (e = "error" /\ ~(Speaks(p) /\ p.remote.token = p.audio.src)))
  BY DEF Event
<1> HIDE DEF e, rest
<1>7. /\ m \in Media /\ m.src = page.audio.src /\ m.left = page.audio.left
      /\ m.paused = page.audio.paused /\ m.health = page.audio.health /\ m.tasks = rest
  BY <1>1, <1>3 DEF Media
<1> HIDE DEF m
<1>8. Stays(page, p) /\ p.audio = m /\ Beside(page, p)
  BY <1>1, <1>4, <1>7, MediaStays, WithAudio
<1> HIDE DEF p
<1>9. Answers(p, e, page')
  BY <1>3, <1>5, <1>8, HandledAnswers DEF Stays, Keeps
<1>10. Adds(page, page')
  BY <1>8, <1>9 DEF Beside, Adds, Answers
<1>11. frames' = frames /\ UNCHANGED shareVars /\ UNCHANGED netVars
       /\ rowTokens' = rowTokens /\ rowToken' = rowToken
  BY DEF Event, netVars, shareVars
<1>12. /\ KnownInv' /\ \A c : Holds(page.chain, c) => Holds(page'.chain, c)
       /\ page.chain # <<>> => page'.chain # <<>>
  BY <1>10, <1>11, AddsKnown DEF SpeakerInv
<1>13. Continues(p.audio, page'.audio)
  BY <1>9 DEF Answers
<1>14. OverInv'
  <2> SUFFICES ASSUME page'.audio.health = "over", ~page'.audio.paused
               PROVE  Holds(page'.audio.tasks, "ended")
    BY DEF OverInv
  <2>1. /\ m.health = "over" /\ ~m.paused
        /\ Holds(m.tasks, "ended") => Holds(page'.audio.tasks, "ended")
    BY <1>8, <1>13 DEF Continues
  <2>2. Holds(page.audio.tasks, "ended")
    BY <1>7, <2>1 DEF SpeakerInv, OverInv
  <2>3. e # "ended"
    BY <1>9 DEF Answers
  <2>4. QED
    BY <1>3, <1>7, <2>1, <2>2, <2>3
<1>15. BrokenInv'
  <2> SUFFICES ASSUME ~amiss', page'.audio.health = "broken"
               PROVE  \/ Holds(page'.audio.tasks, "error")
                      \/ Holds(page'.chain, [event |-> "failed", token |-> page'.audio.src])
                      \/ (Dead(page.audio.src))'
    BY DEF BrokenInv
  <2> DEFINE s == page.audio.src
  <2>1. /\ m.health = "broken" /\ page'.audio.src = s
        /\ Holds(m.tasks, "error") => Holds(page'.audio.tasks, "error")
    BY <1>7, <1>8, <1>13 DEF Continues
  <2>2. \/ Holds(page.audio.tasks, "error")
        \/ Holds(page.chain, [event |-> "failed", token |-> s])
        \/ Dead(s)
    BY <1>6, <1>7, <2>1 DEF SpeakerInv, BrokenInv
  <2>3. CASE Holds(page.audio.tasks, "error") /\ e # "error"
    BY <1>3, <1>7, <2>1, <2>3
  <2>4. CASE e = "error"
    <3>1. Speaks(p) /\ p.remote.token = s
      BY <1>6, <1>7, <1>8, <2>4
    <3>2. Holds(page'.chain, [event |-> "failed", token |-> p.remote.token])
      BY <1>9, <2>4, <3>1 DEF Answers
    <3>3. QED
      BY <2>1, <3>1, <3>2
  <2>5. CASE Holds(page.chain, [event |-> "failed", token |-> s])
    BY <1>12, <2>1, <2>5
  <2>6. CASE Dead(s)
    BY <1>11, <2>1, <2>6 DEF Dead
  <2>7. QED
    BY <2>2, <2>3, <2>4, <2>5, <2>6
<1>16. Following /\ Spoken(page) => Spoken(page)'
  <2> SUFFICES ASSUME Following, Spoken(page) PROVE Spoken(page)'
    OBVIOUS
  <2>1. page.target = Mine /\ page.owned /\ Mine # Local
    BY PageAssumption DEF Following
  <2>2. p.target = Mine /\ p.owned /\ p.remote = page.remote /\ p.speaking = page.speaking
        /\ p.chain = page.chain
    BY <1>8, <2>1 DEF Beside
  <2>3. /\ page'.speaking = page.speaking /\ page'.audio.health = page.audio.health
        /\ page'.audio.tasks = rest /\ (page.audio.paused => page'.audio.paused)
    BY <1>7, <1>8, <1>9, <2>1, <2>2 DEF Answers
  <2>4. page'.remote = page.remote /\ page.remote = Frame
    BY <1>10 DEF Adds, Spoken
  <2>5. Frame' = Frame /\ rowStatus' = rowStatus
    BY <1>11 DEF Frame, shareVars
  <2>6. ASSUME rowStatus = "playing", page'.audio.paused
        PROVE  \/ page'.chain # <<>>
               \/ Holds(page'.audio.tasks, "pause") /\ page'.audio.health = "fine"
               \/ page'.audio.health = "broken"
    <3>1. Speaks(p)
      <4>1. Frame # None
        <5>1. rowStatus \in {"stopped", "playing", "paused"} /\ rowToken \in 0..MaxTokens /\ rowRev \in Nat
          BY PageAssumption DEF PageInv, RowInv
        <5>2. Frame \in FrameType
          BY <5>1 DEF Frame, FrameType
        <5>3. QED
          BY <5>2, PageAssumption
      <4>2. Frame.token = rowToken /\ rowToken # 0
        BY <2>6 DEF Frame, PageInv, RowInv
      <4>3. QED
        BY <2>2, <2>4, <4>1, <4>2 DEF Speaks
    <3>2. CASE ~page.audio.paused
      BY <1>7, <1>8, <1>9, <2>1, <2>2, <2>6, <3>1, <3>2 DEF Answers
    <3>3. CASE page.audio.paused
      <4>1. \/ page.chain # <<>>
            \/ Holds(page.audio.tasks, "pause") /\ page.audio.health = "fine"
            \/ page.audio.health = "broken"
        BY <2>6, <3>3 DEF Spoken
      <4>2. CASE page.chain # <<>>
        BY <1>12, <4>2
      <4>3. CASE page.audio.health = "broken"
        BY <2>3, <4>3
      <4>4. CASE Holds(page.audio.tasks, "pause") /\ page.audio.health = "fine"
        <5>1. CASE e = "pause"
          BY <1>7, <1>8, <1>9, <2>1, <2>2, <3>1, <4>4, <5>1 DEF Answers
        <5>2. CASE e # "pause"
          BY <1>3, <2>3, <4>4, <5>2
        <5>3. QED
          BY <5>1, <5>2
      <4>5. QED
        BY <4>1, <4>2, <4>3, <4>4
    <3>4. QED
      BY <3>2, <3>3
  <2>7. rowStatus # "playing" => page'.audio.paused
    BY <2>3 DEF Spoken
  <2>8. rowStatus = "playing" => page'.speaking = rowToken'
    BY <1>11, <2>3 DEF Spoken
  <2>9. QED
    BY <2>4, <2>5, <2>6, <2>7, <2>8 DEF Spoken
<1>17. TargetInv' /\ FollowInv'
  <2>1. page'.target = page.target /\ page'.owned = page.owned /\ (amiss => amiss')
    BY <1>6, <1>10 DEF Adds
  <2>2. QED
    BY <1>11, <1>16, <2>1, FollowStays DEF SpeakerInv
<1>18. QED
  BY <1>12, <1>14, <1>15, <1>17 DEF SpeakerInv

-----------------------------------------------------------------------------
(* The speaker while the server and other clients change the row.          *)

\* What such a step needs to show.
LEMMA RowKeeps ==
    ASSUME PageInv, RowInv', SpeakerInv, RowMoves, page' = page, listed' = listed,
           amiss => amiss'
    PROVE  /\ OverInv' /\ BrokenInv' /\ TargetInv'
           /\ Learnt(page', rowTokens') /\ Claims(page'.chain, rowTokens')
           /\ \A n \in Int : n <= rowTokens => n <= rowTokens'
<1>1. Continues(page.audio, page'.audio)
  BY DEF Continues
<1>2. OverInv' /\ BrokenInv'
  BY <1>1, OverMoves, BrokenMoves DEF PageInv, SpeakerInv
<1>3. TargetInv'
  BY DEF SpeakerInv, TargetInv
<1>4. rowTokens \in Int /\ rowTokens' \in Int /\ rowTokens <= rowTokens'
  BY DEF PageInv, RowInv, RowMoves
<1>5. \A n \in Int : n <= rowTokens => n <= rowTokens'
  BY <1>4
<1>6. page.remote # None => page.remote.token \in Int
  BY FrameFacts DEF PageInv, Page
<1>7. page.cache # None => page.cache.token \in Int
  BY FrameFacts DEF PageInv, Page
<1>8. \A k \in DOMAIN page.chain : page.chain[k].token \in Int
  <2>1. page.chain \in Seq(Controls)
    BY DEF PageInv, Page
  <2>2. \A k \in DOMAIN page.chain : page.chain[k] \in Controls
    BY <2>1
  <2>3. \A c \in Controls : c.token \in Int
    BY PageAssumption DEF Controls
  <2>4. QED
    BY <2>2, <2>3
<1>9. Learnt(page', rowTokens')
  BY <1>5, <1>6, <1>7 DEF SpeakerInv, KnownInv, Learnt
<1>10. Claims(page'.chain, rowTokens')
  BY <1>5, <1>8 DEF SpeakerInv, KnownInv, Claims
<1>11. QED
  BY <1>2, <1>3, <1>5, <1>9, <1>10

LEMMA FrameTokens ==
    ASSUME NetInv
    PROVE  /\ frames \in Seq(Deliveries) /\ DOMAIN frames = 1..Len(frames)
           /\ Len(frames) \in Nat
           /\ \A k \in DOMAIN frames : frames[k].token \in Int
<1>1. frames \in Seq(Deliveries)
  BY DEF NetInv
<1>2. DOMAIN frames = 1..Len(frames) /\ Len(frames) \in Nat
      /\ \A k \in DOMAIN frames : frames[k] \in Deliveries
  BY <1>1
<1>3. \A d \in Deliveries : d.token \in Int
  BY PageAssumption DEF Deliveries
<1>4. QED
  BY <1>1, <1>2, <1>3

LEMMA RowKnown ==
    ASSUME PageInv, RowInv', SpeakerInv, RowMoves, page' = page, listed' = listed,
           amiss => amiss', frames' = frames
    PROVE  KnownInv'
<1>1. Learnt(page', rowTokens') /\ Claims(page'.chain, rowTokens')
  BY RowKeeps
<1>2. \A k \in DOMAIN frames' : frames'[k].token <= rowTokens'
  BY RowKeeps, FrameTokens DEF PageInv, SpeakerInv, KnownInv
<1>3. ASSUME InFlight', page'.chain[1].event = "failed"
      PROVE  (Dead(page.chain[1].token))'
  <2>1. Dead(page.chain[1].token)
    BY <1>3, InFlightStays DEF SpeakerInv, KnownInv
  <2>2. QED
    BY <2>1, DeadStays DEF PageInv, RowMoves, Dead
<1>4. QED
  BY <1>1, <1>2, <1>3 DEF KnownInv

LEMMA AskShareFollows ==
    PageInv /\ PageInv' /\ SpeakerInv /\ AskShare => SpeakerInv'
<1> SUFFICES ASSUME PageInv, PageInv', SpeakerInv, AskShare PROVE SpeakerInv'
  OBVIOUS
<1>1. RowMoves
  <2>1. CASE Mine \in there
    BY <2>1, RowRests DEF PageInv, AskShare
  <2>2. CASE Mine \notin there
    BY <2>2 DEF PageInv, RowInv, AskShare, RowMoves
  <2>3. QED
    BY <2>1, <2>2
<1>2. page' = page /\ listed' = listed /\ amiss' = amiss /\ frames' = frames /\ RowInv'
      /\ subscribed' = subscribed
  BY DEF AskShare, PageInv
<1>3. KnownInv' /\ OverInv' /\ BrokenInv' /\ TargetInv'
  BY <1>1, <1>2, RowKeeps, RowKnown
<1>4. FollowInv'
  <2>1. ~Following'
    <3>1. page.target = Mine /\ page.owned => Mine \in listed
      BY PageAssumption DEF SpeakerInv, TargetInv
    <3>2. QED
      BY <1>2, <3>1 DEF Following, AskShare
  <2>2. QED
    BY <2>1 DEF FollowInv
<1>5. QED
  BY <1>3, <1>4 DEF SpeakerInv

\* The row stays, and the frames on their way.
LEMMA ThereFollows ==
    ASSUME PageInv, PageInv', SpeakerInv, UNCHANGED <<shareVars, frames, listed, page>>,
           amiss => amiss', Following' => Following /\ subscribed' = subscribed
    PROVE  SpeakerInv'
<1>1. RowMoves /\ RowInv'
  BY RowRests DEF PageInv
<1>2. KnownInv' /\ OverInv' /\ BrokenInv' /\ TargetInv'
  BY <1>1, RowKeeps, RowKnown
<1>3. FollowInv'
  BY DEF SpeakerInv, FollowInv, Same, Spoken, Frame, shareVars
<1>4. QED
  BY <1>2, <1>3 DEF SpeakerInv

LEMMA AskReleaseFollows ==
    PageInv /\ PageInv' /\ SpeakerInv /\ AskRelease => SpeakerInv'
<1> SUFFICES ASSUME PageInv, PageInv', SpeakerInv, AskRelease PROVE SpeakerInv'
  OBVIOUS
<1>1. (amiss => amiss') /\ (Following' => Following /\ subscribed' = subscribed)
  <2>1. page' = page
    BY DEF AskRelease
  <2>2. CASE Drop
    BY <2>1, <2>2 DEF Drop, Following
  <2>3. CASE UNCHANGED <<there, subscribed, amiss>>
    BY <2>1, <2>3 DEF Following
  <2>4. QED
    BY <2>2, <2>3 DEF AskRelease
<1>2. UNCHANGED <<shareVars, frames, listed, page>>
  BY DEF AskRelease
<1>3. QED
  BY <1>1, <1>2, ThereFollows

LEMMA WithdrawFollows ==
    PageInv /\ PageInv' /\ SpeakerInv /\ Withdraw => SpeakerInv'
<1> SUFFICES ASSUME PageInv, PageInv', SpeakerInv, Withdraw PROVE SpeakerInv'
  OBVIOUS
<1>1. (amiss => amiss') /\ (Following' => Following /\ subscribed' = subscribed)
  BY DEF Withdraw, Drop, Following
<1>2. UNCHANGED <<shareVars, frames, listed, page>>
  BY DEF Withdraw
<1>3. QED
  BY <1>1, <1>2, ThereFollows

LEMMA ChangeFollows ==
    PageInv /\ PageInv' /\ SpeakerInv /\ Change => SpeakerInv'
<1> SUFFICES ASSUME PageInv, PageInv', SpeakerInv, Change PROVE SpeakerInv'
  OBVIOUS
<1>1. (amiss => amiss') /\ (Following' => Following /\ subscribed' = subscribed)
  BY PageAssumption DEF Change, Following
<1>2. UNCHANGED <<shareVars, frames, listed, page>>
  BY DEF Change
<1>3. QED
  BY <1>1, <1>2, ThereFollows

\* A command or a report gives the player another playback or none.
LEMMA ControlMoves ==
    ASSUME RowInv, Control \/ (\E event : ReportChanges(event))
    PROVE  RowMoves
<1>1. CASE Shared!StartPlayback
  BY <1>1 DEF RowInv, RowMoves, Shared!StartPlayback
<1>2. CASE Shared!PausePlayback \/ Shared!StopPlayback \/ Shared!EndPlayback
  BY <1>2 DEF RowInv, RowMoves, Shared!PausePlayback, Shared!StopPlayback,
              Shared!EndPlayback
<1>3. CASE Shared!Adjust \/ Shared!Observe
  BY <1>3 DEF RowInv, RowMoves, Shared!Adjust, Shared!Observe
<1>4. QED
  BY <1>1, <1>2, <1>3 DEF Control, ReportChanges

LEMMA SteerFollows ==
    PageInv /\ PageInv' /\ SpeakerInv /\ Steer => SpeakerInv'
<1> SUFFICES ASSUME PageInv, PageInv', SpeakerInv, Steer PROVE SpeakerInv'
  OBVIOUS
<1> DEFINE f == Push(FALSE)
<1>1. RowMoves /\ RowInv'
  BY ControlMoves DEF PageInv, Steer
<1>2. page' = page /\ listed' = listed /\ amiss' = amiss /\ there' = there
      /\ subscribed' = subscribed
  BY DEF Steer
<1>3. /\ f \in Deliveries /\ ~f.reply /\ f.token = rowToken'
      /\ f.status = rowStatus' /\ f.rev = rowRev'
  BY <1>1, PushedFrame DEF Push
<1>4. frames' = IF subscribed THEN Append(frames, f) ELSE frames
  BY DEF Steer
<1> HIDE DEF f
<1>5. OverInv' /\ BrokenInv' /\ TargetInv'
      /\ Learnt(page', rowTokens') /\ Claims(page'.chain, rowTokens')
      /\ \A n \in Int : n <= rowTokens => n <= rowTokens'
  BY <1>1, <1>2, RowKeeps
<1>6. /\ DOMAIN frames = 1..Len(frames) /\ Len(frames) \in Nat
      /\ subscribed => /\ DOMAIN frames' = 1..(Len(frames) + 1)
                       /\ Len(frames') = Len(frames) + 1 /\ frames'[Len(frames')] = f
                       /\ \A k \in DOMAIN frames : frames'[k] = frames[k]
  BY <1>3, <1>4, FrameTokens DEF PageInv
<1>7. \A k \in DOMAIN frames' : \/ k \in DOMAIN frames /\ frames'[k] = frames[k]
                                \/ frames'[k] = f
  BY <1>4, <1>6
<1>8. \A k \in DOMAIN frames : frames[k].token \in Int /\ frames[k].token <= rowTokens
  BY FrameTokens DEF PageInv, SpeakerInv, KnownInv
<1>9. rowToken' <= rowTokens'
  BY <1>1 DEF RowInv
<1>10. \A k \in DOMAIN frames' : frames'[k].token <= rowTokens'
  BY <1>3, <1>5, <1>7, <1>8, <1>9
<1>11. InFlight' => InFlight
  BY <1>3, <1>7 DEF InFlight
<1>12. ASSUME InFlight', page'.chain[1].event = "failed"
       PROVE  (Dead(page.chain[1].token))'
  <2>1. Dead(page.chain[1].token)
    BY <1>2, <1>11, <1>12 DEF SpeakerInv, KnownInv
  <2>2. QED
    BY <1>1, <1>2, <2>1, DeadStays DEF PageInv, RowMoves, Dead
<1>13. KnownInv'
  BY <1>5, <1>10, <1>12 DEF KnownInv
<1>14. FollowInv'
  <2> SUFFICES ASSUME Following'
               PROVE  subscribed' /\ frames' # <<>> /\ Same(frames[Len(frames)])'
    BY DEF FollowInv
  <2>1. subscribed
    BY <1>2 DEF Following, SpeakerInv, FollowInv
  <2>2. frames'[Len(frames')] = f /\ frames' # <<>>
    BY <1>6, <2>1
  <2>3. QED
    BY <1>2, <1>3, <2>1, <2>2 DEF Same
<1>15. QED
  BY <1>5, <1>13, <1>14 DEF SpeakerInv

LEMMA ServeFollows ==
    PageInv /\ PageInv' /\ SpeakerInv /\ Serve => SpeakerInv'
<1> SUFFICES ASSUME PageInv, PageInv', SpeakerInv, Serve PROVE SpeakerInv'
  OBVIOUS
<1> DEFINE g == Push(TRUE)
<1> DEFINE f == Push(FALSE)
<1> DEFINE c == Head(page.chain)
<1>1. RowMoves /\ RowInv'
  BY ControlMoves, RowRests DEF PageInv, Serve
<1>2. page' = page /\ listed' = listed /\ amiss' = amiss /\ there' = there
      /\ subscribed' = subscribed
  BY DEF Serve
<1>3. /\ f \in Deliveries /\ g \in Deliveries
      /\ f.token = rowToken' /\ f.status = rowStatus' /\ f.rev = rowRev'
      /\ g.token = rowToken'
  BY <1>1, PushedFrame DEF Push
<1>4. frames' = frames \o <<g>> \o (IF subscribed THEN <<f>> ELSE <<>>)
  BY DEF Serve
<1> HIDE DEF f, g
<1>5. OverInv' /\ BrokenInv' /\ TargetInv'
      /\ Learnt(page', rowTokens') /\ Claims(page'.chain, rowTokens')
      /\ \A n \in Int : n <= rowTokens => n <= rowTokens'
  BY <1>1, <1>2, RowKeeps
<1>6. frames \in Seq(Deliveries) /\ DOMAIN frames = 1..Len(frames) /\ Len(frames) \in Nat
  BY FrameTokens DEF PageInv
<1>7. \A k \in DOMAIN frames' : \/ k \in DOMAIN frames /\ frames'[k] = frames[k]
                                \/ frames'[k] \in {f, g}
  <2>1. CASE subscribed
    <3>1. frames' = frames \o <<g>> \o <<f>>
      BY <1>4, <2>1
    <3>2. DOMAIN frames' = 1..(Len(frames) + 2) /\ frames'[Len(frames) + 1] = g
          /\ frames'[Len(frames) + 2] = f
          /\ \A k \in DOMAIN frames : frames'[k] = frames[k]
      BY <1>3, <1>6, <3>1
    <3>3. QED
      BY <1>6, <3>2
  <2>2. CASE ~subscribed
    <3>1. frames' = frames \o <<g>>
      BY <1>3, <1>4, <1>6, <2>2
    <3>2. DOMAIN frames' = 1..(Len(frames) + 1) /\ frames'[Len(frames) + 1] = g
          /\ \A k \in DOMAIN frames : frames'[k] = frames[k]
      BY <1>3, <1>6, <3>1
    <3>3. QED
      BY <1>6, <3>2
  <2>3. QED
    BY <2>1, <2>2
<1>8. subscribed => frames' # <<>> /\ frames'[Len(frames')] = f
  <2> SUFFICES ASSUME subscribed PROVE frames' # <<>> /\ frames'[Len(frames')] = f
    OBVIOUS
  <2>1. frames' = frames \o <<g>> \o <<f>>
    BY <1>4
  <2>2. QED
    BY <1>3, <1>6, <2>1
<1>9. \A k \in DOMAIN frames : frames[k].token \in Int /\ frames[k].token <= rowTokens
  BY FrameTokens DEF PageInv, SpeakerInv, KnownInv
<1>10. rowToken' <= rowTokens'
  BY <1>1 DEF RowInv
<1>11. \A k \in DOMAIN frames' : frames'[k].token <= rowTokens'
  BY <1>3, <1>5, <1>7, <1>9, <1>10
<1>12. c = page.chain[1] /\ 1 \in DOMAIN page.chain /\ c.token \in Nat
  <2>1. page.chain \in Seq(Controls) /\ page.chain # <<>>
    BY DEF PageInv, Page, Serve
  <2>2. c = page.chain[1] /\ 1 \in DOMAIN page.chain /\ c \in Controls
    BY <2>1
  <2>3. QED
    BY <2>2, PageAssumption DEF Controls
<1>13. \/ c.event = "command"
       \/ c.event # "command" /\ c.token = rowToken /\ ReportChanges(c.event)
       \/ c.token # rowToken /\ UNCHANGED shareVars
  BY DEF Serve
<1> HIDE DEF c
<1>14. c.event = "failed" => Dead(c.token)'
  <2> SUFFICES ASSUME c.event = "failed" PROVE Dead(c.token)'
    OBVIOUS
  <2>1. c.token # 0 /\ c.token \in 1..rowTokens
    BY <1>12 DEF SpeakerInv, KnownInv, Claims, PageInv, RowInv
  <2>2. CASE c.token = rowToken /\ ReportChanges(c.event)
    <3>1. rowToken' = 0 /\ rowTokens' = rowTokens
      BY <2>2 DEF ReportChanges, Shared!EndPlayback
    <3>2. QED
      BY <1>2, <2>1, <3>1 DEF Dead, c
  <2>3. CASE c.token # rowToken /\ UNCHANGED shareVars
    BY <1>2, <2>1, <2>3 DEF Dead, shareVars, c
  <2>4. QED
    BY <1>13, <2>2, <2>3
<1>15. page'.chain[1].event = "failed" => (Dead(page.chain[1].token))'
  BY <1>2, <1>12, <1>14 DEF c
<1>16. KnownInv'
  BY <1>5, <1>11, <1>15 DEF KnownInv
<1>17. FollowInv'
  <2> SUFFICES ASSUME Following'
               PROVE  subscribed' /\ frames' # <<>> /\ Same(frames[Len(frames)])'
    BY DEF FollowInv
  <2>1. subscribed
    BY <1>2 DEF Following, SpeakerInv, FollowInv
  <2>2. QED
    BY <1>2, <1>3, <1>8, <2>1 DEF Same
<1>18. QED
  BY <1>5, <1>16, <1>17 DEF SpeakerInv

-----------------------------------------------------------------------------
(* The speaker where the target changes.                                   *)

\* What such a step needs to show: a tab that comes to its player asks for a
\* snapshot, and one that stays there goes on as it is.
LEMMA TargetFollows ==
    ASSUME PageInv, SpeakerInv, UNCHANGED <<shareVars, there>>, Onward(page, page'),
           page'.chain = page.chain, amiss => amiss', TargetInv',
           NEW asked, Ask(asked),
           page.target # Mine /\ page'.target = Mine => asked,
           page.target = Mine /\ Following' =>
              /\ page.owned /\ page'.remote = page.remote /\ page'.speaking = page.speaking
              /\ page'.audio.paused = page.audio.paused
              /\ page'.audio.health = page.audio.health
              /\ page'.audio.tasks = page.audio.tasks
    PROVE  SpeakerInv'
<1>1. RowInv /\ NetInv /\ SpeakerInv
  BY DEF PageInv
<1>2. /\ \A k \in DOMAIN frames' : frames'[k].token <= rowTokens'
      /\ InFlight' => InFlight
  BY <1>1, FramesMove DEF SpeakerInv
<1>3. KnownInv' /\ OverInv' /\ BrokenInv'
  BY <1>2, OnwardKeeps
<1>4. FollowInv'
  <2> SUFFICES ASSUME Following'
               PROVE  /\ subscribed'
                      /\ frames' # <<>> => Same(frames[Len(frames)])'
                      /\ frames' = <<>> => Spoken(page)'
    BY DEF FollowInv
  <2>1. page'.target = Mine /\ page'.owned /\ Mine \in there
    BY DEF Following
  <2>2. frames' # frames =>
          /\ DOMAIN frames' = 1..(Len(frames) + 1) /\ Len(frames') = Len(frames) + 1
          /\ frames' # <<>> /\ Same(frames'[Len(frames) + 1])
    BY <1>1, SnapshotFacts
  <2>3. \A f : Same(f)' <=> Same(f)
    BY DEF Same, shareVars
  <2>4. frames' # frames => frames' # <<>> /\ Same(frames[Len(frames)])'
    BY <2>2 DEF Same, shareVars
  <2>5. CASE page.target # Mine
    <3>1. subscribed'
      BY <2>1, <2>5 DEF Ask
    <3>2. frames' # frames
      BY <1>1, <2>1, <2>5, SnapshotFacts
    <3>3. QED
      BY <2>4, <3>1, <3>2
  <2>6. CASE page.target = Mine
    <3>1. Following
      BY <2>1, <2>6 DEF Following
    <3>2. subscribed' = subscribed
      BY <2>1, <2>6 DEF Ask
    <3>3. CASE frames' # frames
      BY <2>4, <3>1, <3>2, <3>3 DEF SpeakerInv, FollowInv
    <3>4. CASE frames' = frames
      <4>1. frames' # <<>> => Same(frames[Len(frames)])'
        BY <3>1, <3>4 DEF SpeakerInv, FollowInv, Same, shareVars
      <4>2. frames' = <<>> => Spoken(page)'
        BY <2>6, <3>1, <3>4 DEF SpeakerInv, FollowInv, Spoken, Frame, shareVars
      <4>3. QED
        BY <3>1, <3>2, <4>1, <4>2 DEF SpeakerInv, FollowInv
    <3>5. QED
      BY <3>3, <3>4
  <2>7. QED
    BY <2>5, <2>6
<1>5. QED
  BY <1>3, <1>4 DEF SpeakerInv

LEMMA SelectFollows ==
    ASSUME PageInv, SpeakerInv, NEW id \in listed \cup {Local}, Select(id)
    PROVE  SpeakerInv'
<1>1. page \in Page /\ Consistent(page) /\ id \in {Local, Mine, Theirs}
  BY DEF PageInv, NetInv
<1>2. PICK allowed \in BOOLEAN : page' = SetTarget(page, id, listed, allowed)
  BY DEF Select
<1>3. Preserved(page, page') /\ page'.target = Resolve(page, id, listed)
  BY <1>1, <1>2, SetTargetFacts
<1>4. page.shown \in Listing
  BY <1>1 DEF Consistent
<1>5. Onward(page, page')
  BY <1>1, <1>2, <1>4, SetTargetOnward
<1>6. TargetInv'
  <2>1. page'.target \in listed \cup {Local}
    BY <1>3 DEF Resolve
  <2>2. QED
    BY <2>1 DEF TargetInv, Select
<1> DEFINE asked == page'.target = Mine
<1>7. Ask(asked) /\ (page'.target = Mine => asked)
  BY DEF Select
<1> HIDE DEF asked
<1>8. UNCHANGED <<shareVars, there>> /\ amiss' = amiss /\ page'.target # page.target
  BY DEF Select
<1>9. page'.chain = page.chain
  BY <1>3 DEF Preserved
<1>10. ~(page.target = Mine /\ Following')
  BY <1>8 DEF Following
<1>11. QED
  BY <1>5, <1>6, <1>7, <1>8, <1>9, <1>10, TargetFollows

LEMMA RefreshFollows ==
    PageInv /\ SpeakerInv /\ Refresh => SpeakerInv'
<1> SUFFICES ASSUME PageInv, SpeakerInv, Refresh PROVE SpeakerInv'
  OBVIOUS
<1>1. page \in Page /\ Consistent(page) /\ Mine # Local
  BY PageAssumption DEF PageInv
<1>2. PICK allowed \in BOOLEAN :
         page' = Leave(AutoSelect(page, there, allowed), there, allowed)
  BY DEF Refresh
<1> DEFINE q == AutoSelect(page, there, allowed)
<1>3. /\ Preserved(page, q) /\ (q = page \/ (q.target = Mine /\ Mine \in there))
      /\ Onward(page, q)
      /\ page.target = Mine => q.audio = page.audio /\ q.remote = page.remote
                                 /\ q.speaking = page.speaking
  BY <1>1, AutoSelectFacts, AutoSelectOnward
<1>4. page' = Leave(q, there, allowed)
  BY <1>2
<1> HIDE DEF q
<1>5. q \in Page /\ Consistent(q) /\ q.chain = page.chain /\ q.owned = page.owned
  BY <1>3 DEF Preserved
<1>6. /\ page'.chain = page.chain /\ page'.owned = page.owned
      /\ (q.target \in there \cup {Local} => page' = q)
      /\ (q.target \notin there \cup {Local} => page'.target = Resolve(q, Local, there))
  BY <1>4, <1>5, LeaveFacts
<1>7. Onward(page, page')
  BY <1>3, <1>4, <1>5, LeaveOnward, OnwardTransitive
<1>8. TargetInv'
  <2>1. page'.target \in there \cup {Local}
    BY <1>6 DEF Resolve
  <2>2. QED
    BY <2>1 DEF TargetInv, Refresh
<1> DEFINE asked == page'.target = Mine /\ page.target # Mine
<1>9. Ask(asked) /\ (page.target # Mine /\ page'.target = Mine => asked)
  BY DEF Refresh
<1> HIDE DEF asked
<1>10. UNCHANGED <<shareVars, there>> /\ amiss' = amiss
  BY DEF Refresh
<1>11. page.target = Mine /\ Following' =>
         /\ page.owned /\ page'.remote = page.remote /\ page'.speaking = page.speaking
         /\ page'.audio.paused = page.audio.paused
         /\ page'.audio.health = page.audio.health
         /\ page'.audio.tasks = page.audio.tasks
  <2> SUFFICES ASSUME page.target = Mine, Following'
               PROVE  page.owned /\ page'.remote = page.remote
                      /\ page'.speaking = page.speaking /\ page'.audio = page.audio
    OBVIOUS
  <2>1. Mine \in there /\ page'.owned
    BY <1>10 DEF Following
  <2>2. q.target = Mine
    BY <1>3
  <2>3. QED
    BY <1>3, <1>6, <2>1, <2>2
<1>12. QED
  BY <1>6, <1>7, <1>8, <1>9, <1>10, <1>11, TargetFollows

LEMMA GetSharedFollows ==
    PageInv /\ SpeakerInv /\ GetShared => SpeakerInv'
<1> SUFFICES ASSUME PageInv, SpeakerInv, GetShared PROVE SpeakerInv'
  OBVIOUS
<1>1. page \in Page /\ Consistent(page) /\ Mine # Local
  BY PageAssumption DEF PageInv
<1> DEFINE p == [page EXCEPT !.owned = TRUE]
<1>2. PICK allowed \in BOOLEAN :
        LET s == SetTarget(AutoSelect(p, listed, allowed), Mine, listed, allowed)
        IN  page' = [s EXCEPT !.audio.left = @ \/ s.target = Local]
  BY DEF GetShared
<1> DEFINE q == AutoSelect(p, listed, allowed)
<1> DEFINE s == SetTarget(q, Mine, listed, allowed)
<1> DEFINE left == s.audio.left \/ s.target = Local
<1> DEFINE m == [s.audio EXCEPT !.left = left]
<1>3. page' = [s EXCEPT !.audio.left = left]
  BY <1>2
<1>4. /\ p \in Page /\ Consistent(p) /\ p.chain = page.chain /\ p.target = page.target
      /\ p.audio = page.audio
  BY <1>1, WithOwned
<1>5. p.remote = page.remote /\ p.cache = page.cache /\ p.speaking = page.speaking
      /\ p.owned
  BY <1>1 DEF Page
<1> HIDE DEF p
<1>6. Onward(page, p)
  BY <1>4, <1>5, OnwardSame
<1>7. /\ Preserved(p, q) /\ (q = p \/ (q.target = Mine /\ Mine \in listed))
      /\ Onward(p, q)
      /\ p.target = Mine => q.audio = p.audio /\ q.remote = p.remote
                              /\ q.speaking = p.speaking
  BY <1>4, AutoSelectFacts, AutoSelectOnward
<1> HIDE DEF q
<1>8. q \in Page /\ Consistent(q) /\ q.chain = page.chain /\ q.shown \in Listing
  BY <1>4, <1>7 DEF Preserved, Consistent
<1>9. Onward(q, s)
  BY <1>8, SetTargetOnward
<1>10. Resolve(q, Mine, listed) = Mine
  BY <1>1, ResolveFacts
<1>11. s \in Page /\ s.chain = q.chain /\ s.target \in listed \cup {Local}
       /\ (q.target = Mine => s = q)
  <2>1. CASE Mine \in listed \/ q.target = Mine
    <3>1. Preserved(q, s) /\ s.target = Mine
      BY <1>8, <1>10, <2>1, SetTargetFacts
    <3>2. Mine \in listed
      BY <1>1, <1>4, <1>7, <2>1 DEF SpeakerInv, TargetInv
    <3>3. q.target = Mine => s = q
      BY <1>10 DEF SetTarget
    <3> HIDE DEF s
    <3>4. QED
      BY <3>1, <3>2, <3>3 DEF Preserved
  <2>2. CASE ~(Mine \in listed \/ q.target = Mine)
    <3>1. s \in Page /\ s.target = Local /\ s.chain = q.chain
      BY <1>8, <2>2, WipedFacts
    <3> HIDE DEF s
    <3>2. QED
      BY <2>2, <3>1
  <2>3. QED
    BY <2>1, <2>2
<1> HIDE DEF s
<1>12. s.audio \in Media
  BY <1>11 DEF Page
<1>13. page' = [s EXCEPT !.audio = m]
  BY <1>3, <1>11 DEF Page
<1> HIDE DEF left
<1>14. /\ m.src = s.audio.src /\ m.paused = s.audio.paused
       /\ m.health = s.audio.health /\ m.tasks = s.audio.tasks
  BY <1>12 DEF Media
<1> HIDE DEF m
<1>15. /\ page'.audio = m /\ page'.target = s.target /\ page'.owned = s.owned
       /\ page'.remote = s.remote /\ page'.cache = s.cache
       /\ page'.speaking = s.speaking /\ page'.chain = s.chain
  BY <1>11, <1>13 DEF Page
<1>16. Onward(s, page')
  BY <1>14, <1>15 DEF Onward, Continues
<1>17. Onward(page, page')
  BY <1>6, <1>7, <1>9, <1>16, OnwardTransitive
<1>18. TargetInv'
  BY <1>11, <1>15 DEF TargetInv, GetShared
<1> DEFINE asked == page.target # Mine
<1>19. Ask(asked) /\ (page.target # Mine => asked)
  BY DEF GetShared
<1> HIDE DEF asked
<1>20. UNCHANGED <<shareVars, there>>
  BY DEF GetShared
<1>21. amiss' = (amiss \/ (page.target = Mine /\ ~page.owned))
  BY DEF GetShared
<1>22. page.target = Mine /\ Following' =>
         /\ page.owned /\ page'.remote = page.remote /\ page'.speaking = page.speaking
         /\ page'.audio.paused = page.audio.paused
         /\ page'.audio.health = page.audio.health
         /\ page'.audio.tasks = page.audio.tasks
  <2> SUFFICES ASSUME page.target = Mine, Following'
               PROVE  /\ page.owned /\ page'.remote = page.remote
                      /\ page'.speaking = page.speaking
                      /\ page'.audio.paused = page.audio.paused
                      /\ page'.audio.health = page.audio.health
                      /\ page'.audio.tasks = page.audio.tasks
    OBVIOUS
  <2>1. page.owned
    BY <1>21 DEF Following
  <2>2. s = q
    BY <1>4, <1>7, <1>11
  <2>3. s.audio = page.audio /\ s.remote = page.remote /\ s.speaking = page.speaking
    BY <1>4, <1>5, <1>7, <2>2
  <2>4. QED
    BY <1>14, <1>15, <2>1, <2>3
<1>23. page'.chain = page.chain /\ (amiss => amiss')
  BY <1>8, <1>11, <1>15, <1>21
<1>24. QED
  BY <1>17, <1>18, <1>19, <1>20, <1>22, <1>23, TargetFollows

LEMMA GetReleasedFollows ==
    PageInv /\ SpeakerInv /\ GetReleased => SpeakerInv'
<1> SUFFICES ASSUME PageInv, SpeakerInv, GetReleased PROVE SpeakerInv'
  OBVIOUS
<1> DEFINE p == [page EXCEPT !.owned = FALSE]
<1>1. page \in Page /\ Consistent(page) /\ Mine # Local
  BY PageAssumption DEF PageInv
<1>2. page' = IF p.target = Mine THEN SetTarget(p, Local, listed, TRUE) ELSE p
  BY DEF GetReleased
<1>3. /\ p \in Page /\ ~p.owned /\ p.target = page.target /\ p.shown = page.shown
      /\ p.chain = page.chain /\ p.audio = page.audio
  BY <1>1, WithOwned
<1>4. p.remote = page.remote /\ p.cache = page.cache
  BY <1>1 DEF Page
<1> HIDE DEF p
<1>5. p.shown \in Listing /\ Onward(page, p)
  BY <1>1, <1>3, <1>4, OnwardSame DEF Consistent
<1>6. /\ Onward(page, page') /\ page'.chain = page.chain
      /\ page'.target # Mine /\ page'.target \in {page.target, Local}
  <2>1. CASE p.target = Mine
    <3>1. page' = SetTarget(p, Local, listed, TRUE)
      BY <1>2, <2>1
    <3>2. Resolve(p, Local, listed) = Local
      BY <1>3 DEF Resolve
    <3>3. page'.chain = p.chain
      BY <1>3, <1>5, <2>1, <3>1, ReleasedFacts
    <3>4. Onward(p, page')
      BY <1>3, <1>5, <3>1, <3>2, SetTargetOnward
    <3>5. Onward(page, page')
      BY <1>5, <3>4, OnwardTransitive
    <3> DEFINE w == Leave(Watch(Depart(p, Local), p.target, TRUE), listed, TRUE)
    <3>6. page' = Arrive(w, Local)
      BY <1>1, <2>1, <3>1, <3>2 DEF SetTarget
    <3>7. w \in Page /\ w.target = Local
      <4> DEFINE d == Depart(p, Local)
      <4> DEFINE x == Watch(d, p.target, TRUE)
      <4>1. d \in Page /\ d.target = Local
        BY <1>3, <1>5, DepartFacts DEF Departed
      <4> HIDE DEF d
      <4>2. x \in Page /\ x.target = Local
        BY <4>1, WatchFacts DEF Routed
      <4>3. w = x
        BY <4>2 DEF Leave, d
      <4>4. QED
        BY <4>2, <4>3
    <3> HIDE DEF w
    <3>8. page'.target = Local
      BY <3>6, <3>7, ArriveFacts
    <3>9. QED
      BY <1>1, <1>3, <3>3, <3>5, <3>8
  <2>2. CASE p.target # Mine
    BY <1>2, <1>3, <1>5, <2>2
  <2>3. QED
    BY <2>1, <2>2
<1>7. TargetInv'
  BY <1>6 DEF SpeakerInv, TargetInv, GetReleased
<1>8. Ask(FALSE) /\ UNCHANGED <<shareVars, there>> /\ amiss' = amiss
  BY DEF GetReleased
<1>9. ~Following'
  BY <1>6 DEF Following
<1>10. QED
  BY <1>6, <1>7, <1>8, <1>9, TargetFollows

-----------------------------------------------------------------------------
(* The speaker and the frames.                                             *)

LEMMA ReceiveMineFollows ==
    PageInv /\ PageInv' /\ SpeakerInv /\ ReceiveMine => SpeakerInv'
<1> SUFFICES ASSUME PageInv, PageInv', SpeakerInv, ReceiveMine PROVE SpeakerInv'
  OBVIOUS
<1> DEFINE d == Head(frames)
<1> DEFINE f == [status |-> d.status, token |-> d.token, rev |-> d.rev]
<1> DEFINE p == IF d.reply THEN [page EXCEPT !.chain = Tail(@)] ELSE page
<1>1. page \in Page /\ Consistent(page) /\ page.chain \in Seq(Controls)
  BY DEF PageInv, Page
<1>2. frames \in Seq(Deliveries) /\ frames # <<>> /\ frames' = Tail(frames)
  BY DEF PageInv, NetInv, ReceiveMine
<1>3. d \in Deliveries /\ 1 \in DOMAIN frames /\ d = frames[1]
  BY <1>2
<1>4. PICK allowed \in BOOLEAN :
        /\ page' = Accept(p, f, allowed)
        /\ amiss' = (amiss \/ page' # Accept(p, f, TRUE)
                          \/ Stale(f, p.cache) \/ Stale(f, p.remote))
  BY DEF ReceiveMine
<1> HIDE DEF d
<1>5. f \in Frames /\ f.token = d.token /\ f.status = d.status /\ f.rev = d.rev
  BY <1>3 DEF Deliveries, Frames, FrameType, FrameOK
<1>6. f = [status |-> d.status, token |-> d.token, rev |-> d.rev]
  OBVIOUS
<1> HIDE DEF f
<1>7. /\ DOMAIN frames = 1..Len(frames) /\ DOMAIN frames' = 1..(Len(frames) - 1)
      /\ Len(frames) \in Nat /\ Len(frames') = Len(frames) - 1
      /\ \A k \in DOMAIN frames' : frames'[k] = frames[k + 1] /\ k + 1 \in DOMAIN frames
                                     /\ k + 1 # 1
  BY <1>2
<1>8. d.reply => page.chain # <<>> /\ InFlight
  BY <1>3 DEF PageInv, ReplyInv, InFlight
<1>9. /\ p \in Page /\ p.audio = page.audio /\ p.remote = page.remote
      /\ p.cache = page.cache /\ p.target = page.target /\ p.owned = page.owned
      /\ p.chain = (IF d.reply THEN Tail(page.chain) ELSE page.chain)
      /\ Consistent(p)
  <2>1. CASE d.reply
    <3> DEFINE chain == Tail(page.chain)
    <3>1. chain \in Seq(Controls)
      BY <1>1, <1>8, <2>1
    <3>2. p = [page EXCEPT !.chain = chain]
      BY <1>1, <2>1 DEF Page
    <3>3. chain = Tail(page.chain)
      OBVIOUS
    <3> HIDE DEF chain
    <3>4. p \in Page /\ Consistent(p)
      BY <1>1, <3>1, <3>2, WithChain DEF Keeps
    <3> HIDE DEF p
    <3>5. /\ p.audio = page.audio /\ p.remote = page.remote
          /\ p.cache = page.cache /\ p.target = page.target /\ p.owned = page.owned
          /\ p.chain = chain
      BY <1>1, <3>2 DEF Page
    <3>6. QED
      BY <2>1, <3>3, <3>4, <3>5
  <2>2. CASE ~d.reply
    BY <1>1, <2>2
  <2>3. QED
    BY <2>1, <2>2
<1> HIDE DEF p
<1>10. /\ Continues(page.audio, page'.audio)
       /\ page'.remote \in {page.remote, f} /\ page'.cache \in {page.cache, f}
  BY <1>4, <1>5, <1>9, AcceptContinues
<1>11. page'.target = page.target /\ page'.owned = page.owned /\ page'.chain = p.chain
  BY <1>4, <1>5, <1>9, AcceptFacts DEF Routed
<1>12. /\ UNCHANGED shareVars /\ listed' = listed /\ there' = there /\ subscribed' = subscribed
       /\ rowTokens' = rowTokens /\ rowToken' = rowToken
  BY DEF ReceiveMine, shareVars
<1>13. OverInv' /\ TargetInv'
  BY <1>10, <1>11, <1>12, OverMoves DEF SpeakerInv, TargetInv
<1>14. f.token <= rowTokens
  BY <1>3, <1>5 DEF SpeakerInv, KnownInv
<1>15. Learnt(page', rowTokens')
  BY <1>10, <1>12, <1>14 DEF SpeakerInv, KnownInv, Learnt
<1>16. d.reply =>
         /\ DOMAIN p.chain = 1..(Len(page.chain) - 1) /\ DOMAIN page.chain = 1..Len(page.chain)
         /\ Len(page.chain) \in Nat
         /\ \A k \in DOMAIN p.chain : p.chain[k] = page.chain[k + 1] /\ k + 1 \in DOMAIN page.chain
  BY <1>1, <1>8, <1>9
<1>17. Claims(page'.chain, rowTokens')
  BY <1>9, <1>11, <1>12, <1>16 DEF SpeakerInv, KnownInv, Claims
<1>18. \A k \in DOMAIN frames' : frames'[k].token <= rowTokens'
  BY <1>7, <1>12 DEF SpeakerInv, KnownInv
<1>19. InFlight' => ~d.reply /\ InFlight
  <2> SUFFICES ASSUME NEW k \in DOMAIN frames', frames'[k].reply
               PROVE  ~d.reply /\ InFlight
    BY DEF InFlight
  <2>1. frames[k + 1].reply /\ k + 1 \in DOMAIN frames /\ k + 1 # 1
    BY <1>7
  <2>2. ~d.reply
    BY <1>3, <2>1 DEF PageInv, ReplyInv
  <2>3. QED
    BY <2>1, <2>2 DEF InFlight
<1>20. KnownInv'
  <2>1. ASSUME InFlight', page'.chain[1].event = "failed"
        PROVE  (Dead(page.chain[1].token))'
    <3>1. page'.chain = page.chain /\ InFlight
      BY <1>9, <1>11, <1>19, <2>1
    <3>2. QED
      BY <1>12, <2>1, <3>1 DEF SpeakerInv, KnownInv, Dead
  <2>2. QED
    BY <1>15, <1>17, <1>18, <2>1 DEF KnownInv
<1>21. BrokenInv'
  <2> SUFFICES ASSUME ~amiss', page'.audio.health = "broken"
               PROVE  \/ Holds(page'.audio.tasks, "error")
                      \/ Holds(page'.chain, [event |-> "failed", token |-> page'.audio.src])
                      \/ (Dead(page.audio.src))'
    BY DEF BrokenInv
  <2> DEFINE s == page.audio.src
  <2> DEFINE c == [event |-> "failed", token |-> s]
  <2>1. /\ page.audio.health = "broken" /\ page'.audio.src = s
        /\ Holds(page.audio.tasks, "error") => Holds(page'.audio.tasks, "error")
    BY <1>10 DEF Continues
  <2>2. \/ Holds(page.audio.tasks, "error") \/ Holds(page.chain, c) \/ Dead(s)
    <3>1. ~amiss
      BY <1>4
    <3>2. QED
      BY <2>1, <3>1 DEF SpeakerInv, BrokenInv
  <2>3. CASE Holds(page.audio.tasks, "error")
    BY <2>1, <2>3
  <2>4. CASE Dead(s)
    BY <1>12, <2>1, <2>4 DEF Dead
  <2>5. CASE Holds(page.chain, c)
    <3>1. CASE ~d.reply
      BY <1>9, <1>11, <2>1, <2>5, <3>1
    <3>2. CASE d.reply /\ c # Head(page.chain)
      <4>1. Holds(Tail(page.chain), c)
        BY <1>1, <1>8, <2>5, <3>2, HoldsRest
      <4>2. QED
        BY <1>9, <1>11, <2>1, <3>2, <4>1
    <3>3. CASE d.reply /\ c = Head(page.chain)
      <4>1. page.chain[1] = c /\ InFlight
        BY <1>1, <1>8, <3>3
      <4>2. Dead(s)
        BY <4>1 DEF SpeakerInv, KnownInv
      <4>3. QED
        BY <1>12, <2>1, <4>2 DEF Dead
    <3>4. QED
      BY <3>1, <3>2, <3>3
  <2>6. QED
    BY <2>2, <2>3, <2>4, <2>5
<1>22. FollowInv'
  <2> SUFFICES ASSUME Following'
               PROVE  /\ subscribed'
                      /\ frames' # <<>> => Same(frames[Len(frames)])'
                      /\ frames' = <<>> => Spoken(page)'
    BY DEF FollowInv
  <2>1. Following
    BY <1>4, <1>11, <1>12 DEF Following
  <2>2. subscribed /\ Same(frames[Len(frames)])
    BY <1>2, <2>1 DEF SpeakerInv, FollowInv
  <2>3. frames' # <<>> => Same(frames[Len(frames)])'
    <3> SUFFICES ASSUME frames' # <<>> PROVE Same(frames[Len(frames)])'
      OBVIOUS
    <3>1. frames'[Len(frames')] = frames[Len(frames)]
      BY <1>2
    <3>2. QED
      BY <1>12, <2>2, <3>1 DEF Same, shareVars
  <2>4. frames' = <<>> => Spoken(page)'
    <3> SUFFICES ASSUME frames' = <<>> PROVE Spoken(page)'
      OBVIOUS
    <3>1. Len(frames) = 1
      <4>1. Len(frames') = 0
        OBVIOUS
      <4>2. Len(frames') = Len(frames) - 1 /\ Len(frames) \in Nat
        BY <1>7
      <4>3. QED
        BY <4>1, <4>2
    <3>2. Same(d)
      BY <1>3, <2>2, <3>1
    <3>3. f = Frame
      BY <1>6, <3>2 DEF Same, Frame
    <3>4. ~amiss' /\ page.target = Mine /\ page.owned
      BY <2>1 DEF Following
    <3>5. page' = Accept(p, f, TRUE) /\ ~Stale(f, p.cache) /\ ~Stale(f, p.remote)
      BY <1>4, <3>4
    <3>6. Obeys(page', f, TRUE)
      BY <1>5, <1>9, <3>4, <3>5, AcceptContinues
    <3>7. f.status = rowStatus /\ f.token = rowToken
      BY <3>3 DEF Frame
    <3>8. QED
      BY <1>12, <3>3, <3>6, <3>7 DEF Obeys, Spoken, Frame, shareVars
  <2>5. QED
    BY <1>12, <2>2, <2>3, <2>4
<1>23. QED
  BY <1>13, <1>20, <1>21, <1>22 DEF SpeakerInv

-----------------------------------------------------------------------------

LEMMA InitFollows ==
    PageInit => SpeakerInv
<1> SUFFICES ASSUME PageInit PROVE SpeakerInv
  OBVIOUS
<1>1. /\ page.target = Local /\ page.remote = None /\ page.cache = None
      /\ page.audio = NoMedia /\ page.chain = <<>> /\ frames = <<>>
  BY DEF PageInit
<1>2. NoMedia.health = "fine"
  BY DEF NoMedia
<1>3. KnownInv
  BY <1>1 DEF KnownInv, Learnt, Claims, InFlight
<1>4. OverInv /\ BrokenInv
  BY <1>1, <1>2 DEF OverInv, BrokenInv
<1>5. TargetInv /\ FollowInv
  BY <1>1, PageAssumption DEF TargetInv, FollowInv, Following
<1>6. QED
  BY <1>3, <1>4, <1>5 DEF SpeakerInv

LEMMA StutterFollows ==
    PageInv /\ PageInv' /\ SpeakerInv /\ UNCHANGED pageVars => SpeakerInv'
<1> SUFFICES ASSUME PageInv, PageInv', SpeakerInv, UNCHANGED pageVars PROVE SpeakerInv'
  OBVIOUS
<1>1. UNCHANGED <<shareVars, frames, listed, page>> /\ amiss' = amiss
      /\ subscribed' = subscribed /\ there' = there
  BY DEF pageVars, netVars
<1>2. Following' => Following
  BY <1>1 DEF Following
<1>3. QED
  BY <1>1, <1>2, ThereFollows

LEMMA SpeakerInvariance ==
    PageSpec => [](PageInv /\ SpeakerInv)
<1>1. PageInv /\ PageInv' /\ SpeakerInv /\ [PageNext]_pageVars => SpeakerInv'
  <2> SUFFICES ASSUME PageInv, PageInv', SpeakerInv, [PageNext]_pageVars PROVE SpeakerInv'
    OBVIOUS
  <2>1. CASE Acts
    <3>1. CASE \E id \in listed \cup {Local} : Select(id)
      BY <3>1, SelectFollows
    <3>2. CASE ~\E id \in listed \cup {Local} : Select(id)
      BY <2>1, <3>2, LocalOpFollows, ClickFollows, HoldFollows, BreakFollows,
         ControlFailsFollows, AskShareFollows, AskReleaseFollows, WithdrawFollows,
         ChangeFollows DEF Acts
    <3>3. QED
      BY <3>1, <3>2
  <2>2. CASE Course
    BY <2>2, RefreshFollows, GetSharedFollows, GetReleasedFollows, ReceiveMineFollows,
       TheirsFollows, EventFollows, MediaEndFollows, TickFollows, SteerFollows,
       ServeFollows DEF Course
  <2>3. CASE UNCHANGED pageVars
    BY <2>3, StutterFollows
  <2>4. QED
    BY <2>1, <2>2, <2>3 DEF PageNext
<1>2. QED
  BY <1>1, InitFollows, PageInvariance, PTL DEF PageSpec

\* Once nothing is on its way, the tab that is the speaker knows the row of its
\* player, whoever changed it last, and sounds exactly when the row says that it
\* plays, with the playback that the row names; a failure or an end that it has
\* not told of, or a frame that came too late, would leave it behind.
THEOREM SpeakerIsHeard ==
    PageSpec => []SpeakerFollows
<1>1. PageInv /\ SpeakerInv => SpeakerFollows
  <2> SUFFICES ASSUME PageInv, SpeakerInv, TabQuiet, ~amiss
               PROVE  /\ page.remote = Frame
                      /\ Sounding(page) <=> rowStatus = "playing"
                      /\ rowStatus = "playing" => page.audio.src = rowToken
    BY DEF SpeakerFollows
  <2>1. /\ page.target = Mine /\ page.owned /\ page.chain = <<>> /\ frames = <<>>
        /\ page.audio.tasks = <<>> /\ listed = there
    BY DEF TabQuiet
  <2>2. Mine \in there
    BY <2>1, PageAssumption DEF SpeakerInv, TargetInv
  <2>3. Spoken(page)
    BY <2>1, <2>2 DEF SpeakerInv, FollowInv, Following
  <2>4. ~Holds(page.audio.tasks, "error") /\ ~Holds(page.audio.tasks, "ended")
        /\ ~Holds(page.audio.tasks, "pause") /\ \A c : ~Holds(page.chain, c)
    BY <2>1 DEF Holds
  <2>5. rowStatus # "playing" => ~Sounding(page)
    BY <2>3 DEF Spoken, Sounding
  <2>6. rowStatus = "playing" => Sounding(page) /\ page.audio.src = rowToken
    <3> SUFFICES ASSUME rowStatus = "playing"
                 PROVE  Sounding(page) /\ page.audio.src = rowToken
      OBVIOUS
    <3>1. page.speaking = rowToken /\ rowToken # None
      BY <2>3, PageAssumption DEF Spoken, PageInv, RowInv
    <3>2. page.audio.src = rowToken
      BY <3>1 DEF PageInv, Consistent
    <3>3. page.audio.health # "broken"
      BY <2>4, <3>2 DEF SpeakerInv, BrokenInv, Dead
    <3>4. ~page.audio.paused
      BY <2>1, <2>3, <2>4, <3>3 DEF Spoken
    <3>5. page.audio.health # "over"
      BY <2>4, <3>4 DEF SpeakerInv, OverInv
    <3>6. page.audio.health \in {"fine", "over", "broken"}
      BY DEF PageInv, Page, Media
    <3>7. QED
      BY <3>1, <3>2, <3>3, <3>4, <3>5, <3>6 DEF Sounding
  <2>7. QED
    BY <2>3, <2>5, <2>6 DEF Spoken
<1>2. QED
  BY <1>1, SpeakerInvariance, PTL
=============================================================================
