------------------------------ MODULE Sharing -------------------------------
(***************************************************************************)
(* A browser turned into an output that others may use: a share.  Its      *)
(* owner enables it from one or more tabs, chooses who may use it, blocks  *)
(* accounts and removes it (handlers/mod.rs).  Who is its speaker is kept  *)
(* in memory (Presence); the rest is rows.  Every connection serves its    *)
(* frames one after the other, each statement being a step, and others run *)
(* in between.                                                             *)
(*                                                                         *)
(* Browsers keep a list of the players they may use (PlayerCatalogStore,   *)
(* server-data.ts) and fetch it again when the server announces that it    *)
(* changed (ChangeHub); here it is whether the list has the share.         *)
(***************************************************************************)
EXTENDS Naturals, FiniteSets

CONSTANTS Owner,        \* the account the share belongs to
          Other,        \* other accounts, with one connection each
          Tab,          \* connections of the owner
          Watcher,      \* the connections whose list is looked at
          MaxRequests   \* bound: requests, but those for the list

Conn == Tab \cup Other
Who(c) == IF c \in Tab THEN Owner ELSE c

ASSUME AccountAssumption == Owner \notin Other /\ Tab \cap Other = {}
ASSUME WatcherAssumption == Watcher \subseteq Conn
ASSUME RequestsAssumption == MaxRequests \in Nat

VARIABLES
  row,        \* whether the share's row exists
  access,     \* "open" without a row of its own, "everyone" or "selected"
  listed,     \* the accounts on its checklist
  blocked,    \* the accounts its owner blocks
  default,    \* the setting share_default_access
  presence,   \* the connections that are its speaker
  task,       \* [Conn -> ...]: the frame each connection serves
  client,     \* [Conn -> ...]: the browser at its end
  requests,   \* how many requests there were
  claimed,    \* history: connections told that they are the speaker
  raced,      \* history: enabling and removing the share have overlapped
  late,       \* history: accounts put on the checklist while blocked
  chosen,     \* history: who decided on the access
  silent      \* history: a change was not announced

share == <<row, access, listed>>
notes == <<claimed, raced, late, chosen, silent>>
vars == <<share, blocked, default, presence, task, client, requests, notes>>

Op == {"idle", "find", "create", "default", "close", "attach",
       "delete", "absent", "check", "info", "unlist", "announce",
       "list", "filter", "reply"}
Task == [op: Op, mode: {"everyone", "selected"}, ids: SUBSET Other,
         todo: SUBSET Other, seen: BOOLEAN]
Idle == [op |-> "idle", mode |-> "everyone", ids |-> {}, todo |-> {}, seen |-> FALSE]
Client == [up: BOOLEAN,       \* connected, and watching for changes
           shown: BOOLEAN,    \* the share is on the list
           asked: BOOLEAN,    \* a refresh of the list is under way
           queued: BOOLEAN,   \* and another is to follow it
           news: BOOLEAN,     \* announcements are on their way
           missed: BOOLEAN]   \* history: the last refresh failed

TypeOK ==
  /\ row \in BOOLEAN /\ access \in {"open", "everyone", "selected"}
  /\ listed \subseteq Other /\ blocked \subseteq Other
  /\ ~row => access = "open" /\ listed = {}
  /\ default \in {"everyone", "private"}
  /\ presence \subseteq {c \in Tab : client[c].up}
  /\ task \in [Conn -> Task] /\ client \in [Conn -> Client]
  /\ requests \in 0..MaxRequests
  /\ claimed \subseteq Tab /\ raced \in BOOLEAN /\ late \subseteq Other
  /\ chosen \in {"nobody", "default", "owner", "cut off"} /\ silent \in BOOLEAN

(* owned_share_allows *)
Allows(a) ==
  \/ a = Owner
  \/ a \in Other \ blocked /\ (access = "selected" => a \in listed)

(* list_players: what the list of c should have now. *)
Visible(c) == row /\ presence # {} /\ Allows(Who(c))

Init ==
  /\ row = FALSE /\ access = "open" /\ listed = {} /\ blocked = {}
  /\ default \in {"everyone", "private"} /\ presence = {}
  /\ task = [c \in Conn |-> Idle]
  /\ client = [c \in Conn |-> [up |-> TRUE, shown |-> FALSE, asked |-> FALSE,
                               queued |-> FALSE, news |-> FALSE, missed |-> FALSE]]
  /\ requests = 0
  /\ claimed = {} /\ raced = FALSE /\ late = {} /\ chosen = "nobody" /\ silent = FALSE

(* ChangeHub::publish *)
Told == [d \in Conn |-> IF d \in Watcher THEN [client[d] EXCEPT !.news = @ \/ client[d].up]
                                         ELSE client[d]]

(* c goes on with op. *)
Goes(c, op) == task' = [task EXCEPT ![c].op = op]
Ends(c) == task' = [task EXCEPT ![c] = Idle]

Request(c, t) ==
  /\ client[c].up /\ task[c] = Idle /\ requests < MaxRequests
  /\ task' = [task EXCEPT ![c] = t]
  /\ requests' = requests + 1
  /\ UNCHANGED <<share, default, presence, client>>

Step == UNCHANGED <<default, client, requests>>

-----------------------------------------------------------------------------
(* enable_share *)

AskEnable(c) ==
  /\ c \in Tab /\ Request(c, [Idle EXCEPT !.op = "find"])
  /\ UNCHANGED <<blocked, notes>>

(* A share that exists already is taken over as it is. *)
FindShare(c) ==
  /\ task[c].op = "find"
  /\ Goes(c, IF row THEN "attach" ELSE "create")
  /\ Step /\ UNCHANGED <<share, blocked, presence, notes>>

CreateShare(c) ==
  /\ task[c].op = "create"
  /\ row' = TRUE
  /\ chosen' = IF row THEN chosen ELSE "nobody"
  /\ Step /\ UNCHANGED <<access, listed, blocked, presence, claimed, raced, late>>
  /\ silent' = (silent \/ \E v \in Conn : Visible(v)' # Visible(v))
  /\ Goes(c, "default")

\* Mutant: an unset access is taken for the default.
ReadNoDefault(c) ==
  /\ task[c].op = "default"
  /\ chosen' = IF default = "everyone" THEN "default" ELSE chosen
  /\ Goes(c, "attach")
  /\ Step /\ UNCHANGED <<share, blocked, presence, claimed, raced, late, silent>>

ReadDefault(c) ==
  /\ task[c].op = "default"
  /\ chosen' = IF default = "everyone" THEN "default" ELSE chosen
  /\ Goes(c, IF default = "private" THEN "close" ELSE "attach")
  /\ Step /\ UNCHANGED <<share, blocked, presence, claimed, raced, late, silent>>

(* set_share_access(selected, nobody): it refers to the row. *)
CloseShare(c) ==
  /\ task[c].op = "close" /\ row
  /\ access' = "selected" /\ listed' = {}
  /\ Step /\ UNCHANGED <<row, blocked, presence, claimed, raced, late, chosen>>
  /\ silent' = (silent \/ \E v \in Conn : Visible(v)' # Visible(v))
  /\ Goes(c, "attach")

(* The request has succeeded: the connection becomes the speaker.           *)
Attach(c) ==
  /\ task[c].op = "attach"
  /\ presence' = presence \cup {c} /\ claimed' = claimed \cup {c}
  /\ raced' = (raced \/ ~row)
  /\ IF presence = {} THEN Goes(c, "announce") ELSE Ends(c)
  /\ Step /\ UNCHANGED <<share, blocked, late, chosen, silent>>

-----------------------------------------------------------------------------
(* disable_share *)

AskDisable(c) ==
  /\ c \in Tab /\ row /\ Request(c, [Idle EXCEPT !.op = "delete"])
  /\ UNCHANGED <<blocked, notes>>

DeleteShare(c) ==
  /\ task[c].op = "delete"
  /\ row' = FALSE /\ access' = "open" /\ listed' = {} /\ claimed' = {}
  /\ Goes(c, "absent")
  /\ Step /\ UNCHANGED <<blocked, presence, raced, late, chosen, silent>>

DropPresence(c) ==
  /\ task[c].op = "absent"
  /\ presence' = {}
  /\ raced' = (raced \/ row)
  /\ Goes(c, "announce")
  /\ Step /\ UNCHANGED <<share, blocked, claimed, late, chosen, silent>>

-----------------------------------------------------------------------------
(* set_share_access, block_account and unblock_account *)

AskAccess(c, mode, ids) ==
  /\ c \in Tab /\ row
  /\ Request(c, [Idle EXCEPT !.op = "check", !.mode = mode, !.ids = ids, !.todo = ids])
  /\ UNCHANGED <<blocked, notes>>

(* Each account is looked up; a blocked one refuses the request.            *)
CheckAccount(c, a) ==
  /\ task[c].op = "check" /\ a \in task[c].todo
  /\ IF a \in blocked THEN Ends(c) ELSE task' = [task EXCEPT ![c].todo = @ \ {a}]
  /\ Step /\ UNCHANGED <<share, blocked, presence, notes>>

WriteAccess(c) ==
  /\ task[c].op = "check" /\ task[c].todo = {} /\ row
  /\ access' = task[c].mode /\ listed' = task[c].ids
  /\ late' = late \cup (task[c].ids \cap blocked)
  /\ chosen' = "owner"
  /\ Goes(c, "info")
  /\ Step /\ UNCHANGED <<row, blocked, presence, claimed, raced, silent>>

\* Mutant: the checklists are cleaned first.
BlockAfter(c, a) ==
  /\ c \in Tab /\ Request(c, [Idle EXCEPT !.op = "announce"])
  /\ a \in Other /\ blocked' = blocked \cup {a}
  /\ UNCHANGED notes

Block(c, a) ==
  /\ c \in Tab /\ Request(c, [Idle EXCEPT !.op = "unlist", !.ids = {a}])
  /\ blocked' = blocked \cup {a}
  /\ UNCHANGED notes

(* remove_account_from_owned_shares, a statement of its own. *)
Unlist(c) ==
  /\ task[c].op = "unlist"
  /\ listed' = listed \ task[c].ids
  /\ late' = late \ task[c].ids
  /\ Goes(c, "announce")
  /\ Step /\ UNCHANGED <<row, access, blocked, presence, claimed, raced, chosen, silent>>

Unblock(c, a) ==
  /\ c \in Tab /\ Request(c, [Idle EXCEPT !.op = "announce"])
  /\ a \in blocked /\ blocked' = blocked \ {a}
  /\ UNCHANGED notes

(* An administrator changes the default, which changes no share. *)
SetDefault ==
  /\ requests < MaxRequests /\ requests' = requests + 1
  /\ default' \in {"everyone", "private"} \ {default}
  /\ client' = Told
  /\ UNCHANGED <<share, blocked, presence, task, notes>>

(* The request has succeeded.  set_share_access reads its answer anew       *)
(* before that (share_access_info), and may fail there.                     *)
Announce(c) ==
  /\ task[c].op \in {"info", "announce"}
  /\ client' = Told
  /\ silent' = FALSE
  /\ Ends(c)
  /\ UNCHANGED <<share, blocked, default, presence, requests, claimed, raced, late, chosen>>

(* A statement fails and with it the request: what was done stays done, and *)
(* nothing is announced.                                                    *)
Fail(c) ==
  /\ task[c].op \in {"find", "create", "default", "close", "delete", "check",
                    "info", "unlist"}
  /\ chosen' = IF task[c].op \in {"default", "close"} THEN "cut off" ELSE chosen
  /\ late' = IF task[c].op = "unlist" THEN late \cup task[c].ids ELSE late
  /\ silent' = (silent \/ task[c].op \in {"info", "unlist"})
  /\ Ends(c)
  /\ Step /\ UNCHANGED <<share, blocked, presence, claimed, raced>>

-----------------------------------------------------------------------------
(* The list of players in the browser *)

(* A refresh that comes while one is under way is made after it.            *)
Refreshed(k) == IF k.asked THEN [k EXCEPT !.queued = TRUE] ELSE [k EXCEPT !.asked = TRUE]

\* Mutant: the refresh under way is taken to be good enough.
HearIdly(c) ==
  /\ client[c].news
  /\ client' = [client EXCEPT ![c].news = FALSE, ![c].asked = TRUE]
  /\ UNCHANGED <<share, blocked, default, presence, task, requests, notes>>

(* The browser hears that the players have changed. *)
Hear(c) ==
  /\ client[c].news
  /\ client' = [client EXCEPT ![c] = Refreshed([@ EXCEPT !.news = FALSE])]
  /\ UNCHANGED <<share, blocked, default, presence, task, requests, notes>>

(* list_players reads the rows and then, for each, who may use it.          *)
ReadRows(c) ==
  /\ client[c].up /\ client[c].asked /\ task[c] = Idle
  /\ task' = [task EXCEPT ![c] = [Idle EXCEPT !.op = "filter", !.seen = row]]
  /\ UNCHANGED <<share, blocked, default, presence, client, requests, notes>>

Filter(c) ==
  /\ task[c].op = "filter"
  /\ task' = [task EXCEPT ![c].op = "reply",
                          ![c].seen = @ /\ presence # {} /\ Allows(Who(c))]
  /\ UNCHANGED <<share, blocked, default, presence, client, requests, notes>>

(* The answer arrives, or an error; then the refresh that was put off.      *)
Reconcile(c, ok) ==
  LET k == client[c] IN
  /\ task[c].op = "reply"
  /\ client' = [client EXCEPT ![c] =
       [k EXCEPT !.shown = IF ok THEN task[c].seen ELSE @, !.missed = ~ok,
                 !.asked = k.queued, !.queued = FALSE]]
  /\ Ends(c)
  /\ UNCHANGED <<share, blocked, default, presence, requests, notes>>

\* Mutant: the connection stays in the presence of what it spoke for.
CutKeepingSpeaker(c) ==
  /\ client[c].up /\ task[c] = Idle
  /\ client' = [client EXCEPT ![c].up = FALSE, ![c].asked = FALSE,
                              ![c].queued = FALSE, ![c].news = FALSE]
  /\ UNCHANGED <<share, blocked, default, presence, task, requests, notes>>

\* Mutant: all speakers go with one of them.
CutAll(c) ==
  /\ client[c].up /\ task[c] = Idle
  /\ presence' = (IF c \in presence THEN {} ELSE presence) /\ claimed' = claimed \ {c}
  /\ client' = [Told EXCEPT ![c] = [client[c] EXCEPT !.up = FALSE, !.asked = FALSE,
                                                    !.queued = FALSE, !.news = FALSE]]
  /\ silent' = FALSE
  /\ UNCHANGED <<share, blocked, default, task, requests, raced, late, chosen>>

(* The connection is lost, once the frame it serves is done; a speaker that *)
(* was the last is announced.                                               *)
Cut(c) ==
  LET last == c \in presence /\ presence = {c} IN
  /\ client[c].up /\ task[c] = Idle
  /\ presence' = presence \ {c} /\ claimed' = claimed \ {c}
  /\ client' = [(IF last THEN Told ELSE client) EXCEPT
       ![c] = [client[c] EXCEPT !.up = FALSE, !.asked = FALSE,
                                !.queued = FALSE, !.news = FALSE]]
  /\ silent' = (silent /\ ~last)
  /\ UNCHANGED <<share, blocked, default, task, requests, raced, late, chosen>>

(* connectionReady: the browser watches for changes, then fetches the list. *)
Reopen(c) ==
  /\ ~client[c].up
  /\ client' = [client EXCEPT ![c].up = TRUE, ![c].asked = c \in Watcher]
  /\ UNCHANGED <<share, blocked, default, presence, task, requests, notes>>

-----------------------------------------------------------------------------
Serve(c) ==
  \/ FindShare(c) \/ CreateShare(c) \/ ReadDefault(c) \/ CloseShare(c) \/ Attach(c)
  \/ DeleteShare(c) \/ DropPresence(c) \/ WriteAccess(c) \/ Unlist(c) \/ Announce(c)
  \/ (\E a \in Other : CheckAccount(c, a)) \/ Fail(c)

Browse(c) == \/ Hear(c) \/ ReadRows(c) \/ Filter(c) \/ Reconcile(c, TRUE)

Next ==
  \/ \E c \in Conn : Serve(c) \/ Browse(c) \/ Reconcile(c, FALSE) \/ Cut(c) \/ Reopen(c)
  \/ \E c \in Conn : AskEnable(c) \/ AskDisable(c)
  \/ \E c \in Conn, mode \in {"everyone", "selected"}, ids \in SUBSET Other :
       AskAccess(c, mode, ids)
  \/ \E c \in Conn, a \in Other : Block(c, a) \/ Unblock(c, a)
  \/ SetDefault

(* A frame that is served is served to its end, and what has arrived at a   *)
(* browser is handled.  Nobody has to reconnect.                            *)
Fairness == /\ \A c \in Conn : WF_vars(Serve(c))
            /\ \A c \in Watcher : WF_vars(Browse(c))

Spec == Init /\ [][Next]_vars /\ Fairness

-----------------------------------------------------------------------------
(* Properties *)

(* Blocking an account takes it off the checklist for good: it is on it     *)
(* only until the request's second statement, or when that failed, or when  *)
(* a list that was checked before the block was written after it.           *)
ChecklistClean ==
  \A a \in listed \cap blocked :
    a \in late \/ \E c \in Conn : task[c].op = "unlist" /\ a \in task[c].ids

(* A share is open to others only when its owner chose so or the default    *)
(* was "everyone": otherwise it is still being made, or that was cut off.   *)
OpenByChoice ==
  row /\ access # "selected" /\ chosen = "nobody" =>
    \E c \in Conn : task[c].op \in {"default", "close"}

(* A tab that was told it is the speaker is so until it is closed or the    *)
(* share is removed, unless another tab was removing it at that very time.  *)
SpeakerStays == claimed \subseteq presence \/ raced

(* Every browser comes to show the share exactly when it may use it, unless *)
(* a change was not announced: a block or a new access whose request failed *)
(* after it was written, a share that is made private or comes back while   *)
(* another tab is its speaker already.                                      *)
ListsCatchUp ==
  \A c \in Watcher :
    []<>(~client[c].up \/ client[c].shown = Visible(c) \/ silent \/ client[c].missed)
=============================================================================
