---------------------------- MODULE WebPlayback ----------------------------
(***************************************************************************)
(* The playback store of a browser tab (stores/playback.tsx).  The tab     *)
(* plays a queue of its own, controls another output, or is itself the     *)
(* speaker of a player it shares, and changes between these:               *)
(*                                                                         *)
(*  - each function of the store is an operator from page to page, and a   *)
(*    handler that runs to its end is one action;                          *)
(*  - the media element queues its events as tasks, drops them when it is  *)
(*    given a new source, and may refuse to play;                          *)
(*  - reports go through one chain of promises: the next is sent when the  *)
(*    answer to the one before has been accepted;                          *)
(*  - the shared player's row is a PlayerContract.  Its frames arrive in   *)
(*    the order of their revisions (StateFeed has the other cases).        *)
(*                                                                         *)
(* Positions, volumes and titles are left out.  A player's queue stands    *)
(* for all its items as one entry that bears the player's name, and        *)
(* repeat and shuffle are open at each use.                                *)
(***************************************************************************)
EXTENDS Integers, Sequences, SequencesExt

CONSTANTS
    Track,          \* tracks of the library
    Albums,         \* lists of tracks that the tab is asked to play or append, not empty
    Mine,           \* the player this tab shares
    Theirs,         \* the player of another output
    Local,          \* the target that means this tab's own queue
    None,           \* no player, no media, no playback id
    MaxTokens,      \* bound: playback ids handed out
    MaxChanges,     \* bound: the row changes below this revision
    MaxPending,     \* bound: frames, reports and events on their way when one is added
    MaxQueue,       \* bound: length of the tab's own queue
    MaxActs         \* bound: what users do to the targets, and faults

\* What a tab shows: a queue and the place in it, 0 for none.
QueueType == [queue : Seq(Track \cup {Mine, Theirs}), index : Nat]

\* What a tab is told of the shared player.
FrameType == [status : {"stopped", "playing", "paused"}, token : 0..MaxTokens, rev : Nat]

ASSUME PageAssumption ==
    /\ Mine # Theirs /\ Local \notin {Mine, Theirs}
    /\ None \notin Track \cup {Mine, Theirs, Local} \cup Nat \cup QueueType \cup FrameType
    /\ Albums \subseteq Seq(Track) \ {<<>>}
    /\ {MaxTokens, MaxChanges, MaxPending, MaxQueue, MaxActs} \subseteq Nat

VARIABLES
    rowStatus, rowToken, rowTokens, rowRev, rowSent,    \* the shared player's row
    there,      \* the shared players of the server
    subscribed, \* whether the server sends the row's frames to this tab
    frames,     \* frames on their way to the tab
    answer,     \* the answer to sharing or releasing that is on its way
    listed,     \* the players of the tab's catalogue
    page,       \* the tab's signals and variables: see TypeOK
    acts,       \* how much of that has happened
    kept,       \* history: the own queue as it was last left, None when wiped
    amiss       \* history: whether the speaker may be out of step, see SpeakerFollows

shareVars == <<rowStatus, rowToken, rowTokens, rowRev, rowSent>>
netVars == <<there, subscribed, frames, answer, listed>>
pageVars == <<shareVars, netVars, page, acts, kept, amiss>>

Shared == INSTANCE PlayerContract
            WITH status <- rowStatus, token <- rowToken, tokens <- rowTokens,
                 rev <- rowRev, sent <- rowSent

Frame == [status |-> rowStatus, token |-> rowToken, rev |-> rowRev]
Push(reply) == [status |-> rowStatus', token |-> rowToken', rev |-> rowRev', reply |-> reply]

-----------------------------------------------------------------------------
(* The media element.                                                      *)

\* Room for one more frame, report or event.
Room(p) == Len(frames) + Len(p.chain) + Len(p.audio.tasks) < MaxPending

\* `left' is history: these media outlived the tab's speaking for its player,
\* or the queue they are from, or an undo loaded them and went elsewhere.
NoMedia == [src |-> None, opened |-> FALSE, paused |-> TRUE, health |-> "fine",
            tasks |-> <<>>, left |-> FALSE]

Sounding(p) == p.audio.src # None /\ ~p.audio.paused /\ p.audio.health = "fine"

\* A new source ends what was playing and takes its pending events along.
Load(p, media) ==
    [p EXCEPT !.audio = [NoMedia EXCEPT !.src = media, !.opened = TRUE]]

\* Without a source; `currentSrc' goes on naming the last one.
Unload(p) == [p EXCEPT !.audio = [NoMedia EXCEPT !.opened = p.audio.opened]]

Resume(p) ==
    IF p.audio.health = "broken" THEN p
    ELSE [p EXCEPT !.audio = [p.audio EXCEPT !.paused = FALSE, !.health = "fine",
             !.tasks = IF p.audio.paused THEN Append(@, "play") ELSE @]]

Pause(p) ==
    IF p.audio.paused THEN p
    ELSE [p EXCEPT !.audio = [p.audio EXCEPT !.paused = TRUE, !.tasks = Append(@, "pause")]]

-----------------------------------------------------------------------------
(* Reports and frames of the shared player.                                *)

\* outputContext: whether the tab speaks for a playback, going by what it was
\* last told and not by what it plays.
Speaks(p) == p.target = Mine /\ p.owned /\ p.remote # None /\ p.remote.token # 0

Tell(p, event) ==
    IF Speaks(p)
    THEN [p EXCEPT !.chain = Append(@, [event |-> event, token |-> p.remote.token])]
    ELSE p

\* Mutant: a new playback is loaded only after a stop.
DriveOnce(p, f, allowed) ==
    CASE f.status = "playing" /\ p.speaking = None ->
            LET q == Load([p EXCEPT !.speaking = f.token], f.token)
            IN  IF allowed THEN Resume(q) ELSE q
      [] f.status = "playing" /\ p.speaking # None ->
            IF p.audio.paused /\ allowed THEN Resume(p) ELSE p
      [] f.status = "paused" -> Pause(p)
      [] OTHER -> [Pause(p) EXCEPT !.speaking = None]

\* driveOwnerAudio; `allowed' is the browser's answer to play().
Drive(p, f, allowed) ==
    CASE f.status = "playing" /\ f.token # p.speaking ->
            LET q == Load([p EXCEPT !.speaking = f.token], f.token)
            IN  IF allowed THEN Resume(q) ELSE q
      [] f.status = "playing" /\ f.token = p.speaking ->
            IF p.audio.paused /\ allowed THEN Resume(p) ELSE p
      [] f.status = "paused" -> Pause(p)
      [] OTHER -> [Pause(p) EXCEPT !.speaking = None]

Shows(player) == [queue |-> <<player>>, index |-> 1]
NoQueue == [queue |-> <<>>, index |-> 0]

Stale(f, known) == known # None /\ f.rev < known.rev

\* applyRemote, for the shared player.
Apply(p, f, allowed) ==
    IF p.target # Mine \/ Stale(f, p.remote) THEN p
    ELSE LET q == [p EXCEPT !.remote = f, !.shown = Shows(Mine)]
         IN  IF p.owned THEN Drive(q, f, allowed) ELSE q

\* PlayerStateStore.accept: whatever comes is cached, watched or not.
Accept(p, f, allowed) ==
    IF Stale(f, p.cache) THEN p ELSE Apply([p EXCEPT !.cache = f], f, allowed)

-----------------------------------------------------------------------------
(* Targets.                                                                *)

\* resolveOutputTarget: this tab as a target means its share, if it has one.
Resolve(p, id, players) ==
    IF id = Local /\ p.owned /\ Mine \in players THEN Mine ELSE id

\* Mutant: the own queue plays on.
DepartPlaying(p, id) ==
    LET q == [p EXCEPT !.undo = None]
    IN  IF p.target # Local
        THEN [q EXCEPT !.target = id, !.audio.left = @ \/ p.target = Mine]
        ELSE [q EXCEPT !.target = id, !.saved = p.shown, !.speaking = None]

\* Mutant: the own queue is saved the first time only.
DepartOnce(p, id) ==
    LET q == [p EXCEPT !.undo = None]
    IN  IF p.target # Local
        THEN [q EXCEPT !.target = id, !.audio.left = @ \/ p.target = Mine]
        ELSE [Pause(q) EXCEPT !.target = id, !.speaking = None,
                              !.saved = IF @ = None THEN p.shown ELSE @]

\* setTarget up to the new target, with what the tab remembers of its queue.
Depart(p, id) ==
    LET q == [p EXCEPT !.undo = None]
    IN  IF p.target # Local
        THEN [q EXCEPT !.target = id, !.audio.left = @ \/ p.target = Mine]
        ELSE [Pause(q) EXCEPT !.target = id, !.saved = p.shown, !.speaking = None]

\* The effect on the target: the watcher of the old one is released, and the
\* new one's cached state is delivered at once.
Watch(p, from, allowed) ==
    LET q == IF from = Mine THEN [p EXCEPT !.cache = None] ELSE p
    IN  IF q.target = Mine /\ q.cache # None THEN Apply(q, q.cache, allowed) ELSE q

\* The rest of setTarget.
Arrive(p, id) ==
    IF id = Local
    THEN [p EXCEPT !.speaking = None, !.view = "silent",
                   !.shown = IF p.saved = None THEN @ ELSE p.saved]
    ELSE [p EXCEPT !.shown = NoQueue, !.remote = None, !.view = "silent"]

\* setTarget inside an effect: the effect on the target waits for its end.
Nested(p, id, allowed) ==
    IF p.target = id THEN p ELSE Watch(Arrive(Depart(p, id), id), p.target, allowed)

\* The effect for a target that is not listed.  Its players' queue is adopted
\* if there is no own one to go back to.
Leave(p, players, allowed) ==
    LET q == IF p.saved = None \/ p.saved.queue = <<>>
             THEN [p EXCEPT !.saved = p.shown] ELSE p
        id == Resolve(q, Local, players)
    IN  IF p.target \in players \cup {Local} THEN p
        ELSE Watch(Pause(Arrive(Depart(q, id), id)), p.target, allowed)

\* setTarget called by a handler: the effects run before its second half.
SetTarget(p, wanted, players, allowed) ==
    LET id == Resolve(p, wanted, players)
        moved == Watch(Depart(p, id), p.target, allowed)
    IN  IF p.target = id THEN p
        ELSE Arrive(Leave(moved, players, allowed), id)

\* The effect that makes an own share the target when it first appears.
AutoSelect(p, players, allowed) ==
    IF p.chosen \/ ~p.owned \/ Mine \notin players THEN p
    ELSE Nested([p EXCEPT !.chosen = TRUE], Mine, allowed)

-----------------------------------------------------------------------------
(* The tab's own queue.                                                    *)

OpenIndex(p, i) ==
    IF i \notin DOMAIN p.shown.queue THEN p
    ELSE Resume(Load([p EXCEPT !.shown.index = i], p.shown.queue[i]))

StopLocal(p) == [Unload(p) EXCEPT !.shown.index = 0, !.view = "silent"]

Remember(p) == [p EXCEPT !.undo = [shown |-> p.shown, view |-> p.view]]

\* next(): in order, shuffled, or from the start again, or the end of it.
Nexts(p) ==
    LET n == Len(p.shown.queue)
        i == p.shown.index
    IN  IF n = 0 THEN {p}
        ELSE {OpenIndex(p, j) : j \in {k \in 1..n : n > 1 /\ k # i /\ k # i + (IF i = 0 THEN 1 ELSE 0)}}
             \cup (IF i < n THEN {OpenIndex(p, i + 1)} ELSE {OpenIndex(p, 1), StopLocal(p)})

\* advanceAfterEnd
Advances(p) ==
    Nexts(p) \cup (IF p.shown.index > 0 THEN {OpenIndex(p, p.shown.index)} ELSE {})

\* The effect on the status: the end of a track advances the own queue.
Ended(p) ==
    IF p.target # Local THEN {p}
    ELSE IF p.view = "ended" THEN {p}
    ELSE Advances([p EXCEPT !.view = "ended"])

WithQueue(p, queue, index) == [p EXCEPT !.shown = [queue |-> queue, index |-> index]]

\* Mutant: removing an earlier track leaves the index where it is.
RemovedStill(p, i) ==
    LET old == p.shown
        rest == RemoveAt(old.queue, i)
        q == [p EXCEPT !.shown.queue = rest]
    IN  CASE i = old.index /\ rest = <<>> -> StopLocal(q)
          [] i = old.index /\ rest # <<>> -> OpenIndex(q, IF i > Len(rest) THEN Len(rest) ELSE i)
          [] OTHER -> q

Removed(p, i) ==
    LET old == p.shown
        rest == RemoveAt(old.queue, i)
        q == [p EXCEPT !.shown.queue = rest]
    IN  CASE i = old.index /\ rest = <<>> -> StopLocal(q)
          [] i = old.index /\ rest # <<>> -> OpenIndex(q, IF i > Len(rest) THEN Len(rest) ELSE i)
          [] i < old.index -> [q EXCEPT !.shown.index = old.index - 1]
          [] OTHER -> q

Moved(p, from, to) ==
    LET cur == p.shown.index
    IN  WithQueue(p, InsertAt(RemoveAt(p.shown.queue, from), to, p.shown.queue[from]),
            CASE from = cur -> to
              [] from < cur /\ to >= cur -> cur - 1
              [] from > cur /\ to <= cur -> cur + 1
              [] OTHER -> cur)

\* undoQueue: the source is replaced after the queue and the status, the second
\* of which may have moved on to another track.
Undone(p) ==
    LET u == p.undo
        back == [Unload(p) EXCEPT !.undo = None, !.shown = u.shown, !.view = p.view]
        shown == IF u.view = "ended" THEN Ended(back) ELSE {[back EXCEPT !.view = u.view]}
        media(q) == IF u.shown.index \notin DOMAIN u.shown.queue THEN q
                    ELSE LET r == [Load(q, u.shown.queue[u.shown.index])
                                     EXCEPT !.audio.left = q.shown # u.shown]
                         IN  IF u.view = "playing" THEN Resume(r) ELSE r
    IN  {media(q) : q \in shown}

\* What the user can do with the own queue.
LocalOps(p) ==
    LET queue == p.shown.queue
        i == p.shown.index
        at == DOMAIN queue
        r == Remember(p)
    IN  (UNION {{OpenIndex(WithQueue(r, a, i), k) : k \in DOMAIN a} : a \in Albums})
        \cup {WithQueue(r, queue \o a, IF i = 0 THEN 1 ELSE i) : a \in Albums}
        \cup {WithQueue(r, InsertAt(queue, i + 1, t), IF i = 0 THEN 1 ELSE i) : t \in Track}
        \cup {OpenIndex(p, k) : k \in at}
        \cup {Removed(r, k) : k \in at}
        \cup (UNION {{Moved(r, k, l) : l \in at \ {k}} : k \in at})
        \cup (IF at = {} THEN {} ELSE Nexts(p) \cup {WithQueue(StopLocal(r), <<>>, 0)})
        \cup (IF i > 1 THEN {OpenIndex(p, i - 1)} ELSE {})
        \cup (IF p.undo = None THEN {} ELSE Undone(p))
        \cup {CASE ~p.audio.paused -> Pause(p)
                [] p.audio.paused /\ p.audio.opened -> Resume(p)
                [] OTHER -> OpenIndex(p, i)}

-----------------------------------------------------------------------------
(* The tab's handlers.                                                     *)

Act == acts < MaxActs /\ acts' = acts + 1

\* The own queue as the handler leaves it, when it does not change the target.
Keep ==
    kept' = IF page'.target # Local \/ page'.shown = page.shown THEN kept ELSE page'.shown

LocalOp ==
    /\ Act
    /\ page.target = Local
    /\ page' \in {p \in LocalOps(page) : Len(p.shown.queue) <= MaxQueue}
    /\ Keep
    /\ UNCHANGED <<shareVars, netVars, amiss>>

\* A control of the shared player, by the user of its own tab.
Click ==
    /\ Act
    /\ page.target = Mine /\ Room(page)
    /\ page' = [page EXCEPT !.chain = Append(@, [event |-> "command", token |-> 0])]
    /\ UNCHANGED <<shareVars, netVars, kept, amiss>>

\* What goes out when the target becomes, or stops being, the shared player:
\* the subscription with its snapshot, and the request for a snapshot.
Ask(asked) ==
    /\ subscribed' = IF page'.target = page.target THEN subscribed
                     ELSE page'.target = Mine /\ Mine \in there
    /\ frames' = IF asked /\ Mine \in there
                 THEN Append(frames, [status |-> rowStatus, token |-> rowToken,
                                      rev |-> rowRev, reply |-> FALSE])
                 ELSE frames

Select(id) ==
    /\ Act
    /\ \E allowed \in BOOLEAN : page' = SetTarget(page, id, listed, allowed)
    /\ page'.target # page.target
    /\ Ask(page'.target = Mine)
    /\ UNCHANGED <<shareVars, there, answer, listed, kept, amiss>>

\* The catalogue has been fetched again.
Refresh ==
    /\ answer = "none" /\ listed # there
    /\ listed' = there
    /\ LET adopts == page.saved = None \/ page.saved.queue = <<>>
       IN  /\ \E allowed \in BOOLEAN :
                 page' = Leave(AutoSelect(page, there, allowed), there, allowed)
           /\ kept' = IF adopts /\ page.target \notin there \cup {Local}
                      THEN page'.saved ELSE kept
    /\ Ask(page'.target = Mine /\ page.target # Mine)
    /\ UNCHANGED <<shareVars, there, answer, acts, amiss>>

\* The answer to sharing: the player becomes the target, listed or not.
GetShared ==
    /\ answer = "shared" /\ answer' = "none"
    /\ \E allowed \in BOOLEAN :
          LET p == SetTarget(AutoSelect([page EXCEPT !.owned = TRUE], listed, allowed),
                             Mine, listed, allowed)
          IN  page' = [p EXCEPT !.audio.left = @ \/ p.target = Local]
    /\ Ask(page.target # Mine)
    /\ kept' = IF page'.target = Local THEN None ELSE kept
    /\ amiss' = (amiss \/ (page.target = Mine /\ ~page.owned))
    /\ UNCHANGED <<shareVars, there, listed, acts>>

\* releaseDevice goes on the same way whether or not the server agreed.
GetReleased ==
    /\ answer = "released" /\ answer' = "none"
    /\ LET p == [page EXCEPT !.owned = FALSE]
       IN  page' = IF p.target = Mine THEN SetTarget(p, Local, listed, TRUE) ELSE p
    /\ Ask(FALSE)
    /\ UNCHANGED <<shareVars, there, listed, acts, kept, amiss>>

\* A frame about the shared player; the answer to a control lets the chain go on.
ReceiveMine ==
    /\ frames # <<>>
    /\ frames' = Tail(frames)
    /\ LET d == Head(frames)
           f == [status |-> d.status, token |-> d.token, rev |-> d.rev]
           p == IF d.reply THEN [page EXCEPT !.chain = Tail(@)] ELSE page
       IN  \E allowed \in BOOLEAN :
              /\ page' = Accept(p, f, allowed)
              /\ amiss' = (amiss \/ page' # Accept(p, f, TRUE)
                                \/ Stale(f, p.cache) \/ Stale(f, p.remote))
    /\ UNCHANGED <<shareVars, there, subscribed, answer, listed, acts, kept>>

\* A frame about the other output: its queue is shown.
ReceiveTheirs ==
    /\ page.target = Theirs
    /\ page' = [page EXCEPT !.shown = Shows(Theirs)]
    /\ UNCHANGED <<shareVars, netVars, acts, kept, amiss>>

-----------------------------------------------------------------------------
(* What the media element does, and its events.                            *)

Happens(q) ==
    /\ page' = q
    /\ UNCHANGED <<shareVars, netVars, kept, amiss>>

MediaEnd ==
    /\ Sounding(page) /\ Room(page)
    /\ UNCHANGED acts
    /\ Happens([page EXCEPT !.audio.health = "over", !.audio.tasks = Append(@, "ended")])

\* Fetching or decoding fails, whether or not the media are playing.
Break ==
    /\ page.audio.src # None /\ page.audio.health = "fine" /\ Room(page)
    /\ Act
    /\ Happens([page EXCEPT !.audio.health = "broken", !.audio.tasks = Append(@, "error")])

Hold == Sounding(page) /\ Room(page) /\ Act /\ Happens(Pause(page))
Tick == Sounding(page) /\ Room(page) /\ UNCHANGED acts /\ Happens(Tell(page, "playing"))

\* A pause tells its position first, which may be a new one.
Ticked(p) ==
    {p} \cup (IF Room(p) THEN {Tell(p, "playing")} ELSE {})

\* What the tab shows of its own playback.
Sees(p, view) == IF p.target = Local THEN [p EXCEPT !.view = view] ELSE p

Silenced(p) == IF p.view = "ended" THEN p ELSE Sees(p, "silent")

\* What the handlers of the event may make of the page.
Handled(p, event) ==
    CASE event = "play" -> {Tell(Sees(p, "playing"), "playing")}
      [] event = "pause" -> {IF q.audio.health = "over" THEN Silenced(q)
                             ELSE Tell(Silenced(q), "paused") : q \in Ticked(p)}
      [] event = "ended" ->
            LET stopped == IF p.audio.health # "over" \/ p.audio.paused THEN p
                           ELSE [Silenced(p) EXCEPT !.audio.paused = TRUE]
            IN  UNION {{Tell(r, "completed") : r \in Ended(q)} : q \in Ticked(stopped)}
      [] event = "error" -> {Tell(Sees(p, "silent"), "failed")}

Event ==
    /\ page.audio.tasks # <<>>
    /\ LET e == Head(page.audio.tasks)
           p == [page EXCEPT !.audio.tasks = Tail(@)]
       IN  /\ page' \in Handled(p, e)
           /\ amiss' = (amiss \/ (e = "error" /\ ~(Speaks(p) /\ p.remote.token = p.audio.src)))
    /\ Keep
    /\ UNCHANGED <<shareVars, netVars, acts>>

-----------------------------------------------------------------------------
(* The server and the other clients.                                       *)

Control ==
    /\ rowRev < MaxChanges
    /\ \/ rowTokens < MaxTokens /\ Shared!StartPlayback
       \/ Shared!PausePlayback
       \/ Shared!StopPlayback
       \/ Shared!Adjust /\ rowSent' = "none"

\* What a report about the current playback does to the row.
ReportChanges(event) ==
    /\ rowRev < MaxChanges
    /\ CASE event = "completed" -> (rowTokens < MaxTokens /\ Shared!StartPlayback) \/ Shared!EndPlayback
         [] event = "failed" -> Shared!EndPlayback
         [] OTHER -> Shared!Observe /\ rowStatus' = event

\* Another client controls the shared player.
Steer ==
    /\ Mine \in there /\ Room(page)
    /\ Control
    /\ frames' = IF subscribed THEN Append(frames, Push(FALSE)) ELSE frames
    /\ UNCHANGED <<there, subscribed, answer, listed, page, acts, kept, amiss>>

InFlight == \E k \in DOMAIN frames : frames[k].reply

\* The control that is first in the chain reaches the server.
Serve ==
    /\ page.chain # <<>> /\ ~InFlight /\ Mine \in there
    /\ LET c == Head(page.chain)
       IN  \/ c.event = "command" /\ Control
           \/ c.event # "command" /\ c.token = rowToken /\ ReportChanges(c.event)
           \/ c.event # "command" /\ c.token # rowToken /\ UNCHANGED shareVars
    /\ frames' = frames \o <<Push(TRUE)>> \o (IF subscribed THEN <<Push(FALSE)>> ELSE <<>>)
    /\ UNCHANGED <<there, subscribed, answer, listed, page, acts, kept, amiss>>

\* The control fails: the player is gone, or another writer was faster.
ControlFails ==
    /\ Act
    /\ page.chain # <<>> /\ ~InFlight
    /\ page' = [page EXCEPT !.chain = Tail(@)]
    /\ amiss' = TRUE
    /\ UNCHANGED <<shareVars, netVars, kept>>

\* Sharing: a share that was removed comes back with a new row.
AskShare ==
    /\ Act
    /\ answer = "none" /\ ~(page.owned /\ Mine \in listed)
    /\ answer' = "shared" /\ there' = there \cup {Mine}
    /\ IF Mine \in there THEN UNCHANGED shareVars
       ELSE rowStatus' = "stopped" /\ rowToken' = 0 /\ rowRev' = 0 /\ rowSent' = "none" /\ UNCHANGED rowTokens
    /\ UNCHANGED <<subscribed, frames, listed, page, kept, amiss>>

\* The player goes, and with it the subscription; nobody is told.
Drop ==
    /\ there' = there \ {Mine} /\ subscribed' = FALSE
    /\ amiss' = (amiss \/ page.target = Mine)

AskRelease ==
    /\ Act
    /\ answer = "none" /\ page.owned /\ Mine \in listed
    /\ answer' = "released"
    /\ Drop \/ UNCHANGED <<there, subscribed, amiss>>
    /\ UNCHANGED <<shareVars, frames, listed, page, kept>>

\* Another tab of the owner removes the share.
Withdraw ==
    /\ Act
    /\ Mine \in there /\ Drop
    /\ UNCHANGED <<shareVars, frames, answer, listed, page, kept>>

\* The other output connects or disconnects.
Change ==
    /\ Act
    /\ there' = IF Theirs \in there THEN there \ {Theirs} ELSE there \cup {Theirs}
    /\ UNCHANGED <<shareVars, subscribed, frames, answer, listed, page, kept, amiss>>

-----------------------------------------------------------------------------

PageInit ==
    /\ Shared!Init
    /\ listed = {Theirs}
    /\ page \in [target : {Local}, owned : BOOLEAN, chosen : {FALSE}, shown : {NoQueue},
                 view : {"silent"}, saved : {None}, undo : {None}, remote : {None},
                 cache : {None}, speaking : {None}, audio : {NoMedia}, chain : {<<>>}]
    /\ there = {Theirs} \cup (IF page.owned THEN {Mine} ELSE {})
    /\ subscribed = FALSE
    /\ frames = <<>>
    /\ answer = "none"
    /\ acts = 0
    /\ kept = NoQueue
    /\ amiss = FALSE

\* What users do, and faults.
Acts == LocalOp \/ Click \/ Hold \/ Break \/ ControlFails
        \/ AskShare \/ AskRelease \/ Withdraw \/ Change
        \/ \E id \in listed \cup {Local} : Select(id)

\* What comes of it, and what other clients do to the shared player.
Course == Refresh \/ GetShared \/ GetReleased \/ ReceiveMine \/ ReceiveTheirs
          \/ Event \/ MediaEnd \/ Tick \/ Steer \/ Serve

PageNext == Acts \/ Course

PageSpec == PageInit /\ [][PageNext]_pageVars

-----------------------------------------------------------------------------
(* Properties.                                                             *)

Views == {"playing", "ended", "silent"}

\* Every variable has its shape, and the index lies within the queue shown.
PageTypeOK ==
    /\ there \subseteq {Mine, Theirs} /\ listed \subseteq {Mine, Theirs}
    /\ answer \in {"none", "shared", "released"}
    /\ subscribed \in BOOLEAN
    /\ \A k \in DOMAIN frames :
          /\ [status |-> frames[k].status, token |-> frames[k].token, rev |-> frames[k].rev] \in FrameType
          /\ frames[k].reply \in BOOLEAN
    /\ page.target \in {Local, Mine, Theirs}
    /\ page.owned \in BOOLEAN /\ page.chosen \in BOOLEAN
    /\ page.shown \in QueueType /\ page.shown.index \in 0..Len(page.shown.queue)
    /\ page.view \in Views
    /\ page.saved \in QueueType \cup {None}
    /\ page.undo = None \/ page.undo \in [shown : QueueType, view : Views]
    /\ page.remote \in FrameType \cup {None} /\ page.cache \in FrameType \cup {None}
    /\ page.speaking \in (1..MaxTokens) \cup {None}
    /\ page.audio \in [src : Track \cup {Mine, Theirs, None} \cup 1..MaxTokens,
                       opened : BOOLEAN, paused : BOOLEAN, health : {"fine", "over", "broken"},
                       tasks : Seq({"play", "pause", "ended", "error"}), left : BOOLEAN]
    /\ page.chain \in Seq([event : {"command", "playing", "paused", "completed", "failed"},
                           token : 0..MaxTokens])

\* However the target changes, the tab's own queue and its place in it are
\* there when it is back, as they were last left; only sharing a player that
\* is not listed yet wipes it.
LocalQueueKept ==
    kept # None => kept = IF page.target = Local THEN page.shown ELSE page.saved

\* Only what belongs to the selected output is heard: the current track of the
\* own queue, or the playback the shared player was last told to play.  Known
\* exceptions (left): media that were loaded when the tab left its player or
\* lost its queue, and the track that undoing an edit made between the end of a
\* track and the start of the next one loads after it has moved on.
SoundsOwn ==
    Sounding(page) =>
       \/ /\ page.target = Local /\ page.shown.index \in DOMAIN page.shown.queue
          /\ page.audio.src = page.shown.queue[page.shown.index]
       \/ page.target = Mine /\ page.owned /\ page.audio.src = page.speaking
       \/ page.audio.left

TabQuiet ==
    /\ page.target = Mine /\ page.owned
    /\ page.chain = <<>> /\ frames = <<>> /\ page.audio.tasks = <<>>
    /\ answer = "none" /\ listed = there

\* Once nothing is on its way, the tab that is the speaker knows the row and
\* sounds exactly when it says so, with the playback that it names.  Known
\* exceptions (amiss): the browser refused to play; a control was dropped; an
\* error was not reported, or for the wrong playback; the share was removed,
\* and its new row counts its revisions from 0; the tab came to own the player
\* it was already showing, which starts nothing.
SpeakerFollows ==
    TabQuiet /\ ~amiss =>
       /\ page.remote = Frame
       /\ Sounding(page) <=> rowStatus = "playing"
       /\ rowStatus = "playing" => page.audio.src = rowToken
=============================================================================
