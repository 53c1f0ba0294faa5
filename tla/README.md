# A TLA+ project for ichoi

Ichoi is a music server that is also a *distributed jukebox*: a **core** keeps the
library and the shared players, **satellites** (and browsers that share their speaker)
are the outputs, and any permitted client may control any shared player at the same
time. This directory holds specifications of the parts where the order of events
matters, the TLC configurations that check them, and TLAPS proofs.

Paths below are relative to `src/server/crates/ichoi/src/` unless they begin with
`src/`. "Row" means the `player_state` row of one player where nothing else is said.

    tlasany M.tla                          parse a module
    tlc -workers 2 -config X.cfg M         check a configuration
    tlapm PlayerProofs.tla                 check proofs (likewise every other *Proofs module)

| Module | What it is | Configurations |
|---|---|---|
| `PlayerContract` | what a player promises its controllers and its output | (used by `Player`, `Jukebox`, `WebPlayback`) |
| `Player` | one player: row, queue, undo snapshot, every command and report | `MCPlayerPlayback`, `MCSharedPlayer` |
| `Jukebox` | concurrent handlers, the NodeHub, sessions, one satellite, core restarts | `MCOutputs`, `MCJukeboxOrder`, `MCJukeboxReconnect` |
| `SharedPlayer` | `Player` behind the handlers, the hub and the satellite of `Jukebox` | `MCSharedPlayer` |
| `WebPlayback` | the web client's playback store: its own queue, its targets, the tab as a speaker | `MCOutputs` |
| `StateFeed` | how the state reaches the clients that watch it | `MCStateFeed`, `MCStateFeedDrop` |
| `PlaylistStore` | what the server promises about saved playlists | (used by the next) |
| `Deletion` | files, rows and staging of playlists; saves, deletions, stops and starts | `MCDeletion` |
| `Accounts` | logins, roles, administrators, sessions, connections | `MCAccounts`, `MCAccountsLast` |
| `Sharing` | a browser as a shared output: access, blocks, presence, the list of players | `MCSharing` |
| `Library` | the music directory and its index: imports, scans, removals | `MCTransfers` |
| `MediaStream` | producers, cancel entries and the decoder of a stream | `MCTransfers` |
| `PlayerProofs` | theorems about `Player` and `SharedPlayer` | none |
| `StateFeedProofs`, `DeletionProofs`, `AccountsProofs`, `SharingProofs`, `JukeboxProofs`, `WebPlaybackProofs` | theorems about the module of that name | none |
| `TransferProofs` | theorems about `MediaStream` and `Library` | none |

Deadlock is not checked (CHECK_DEADLOCK FALSE): a server that nobody talks to rests, and the
bounds end every behaviour. Distinct states of the passing runs:

`MCSharedPlayer` 2,324,641 (176,462 of them without the satellite); `MCPlayerPlayback` 160,902; `MCOutputs` 1,533,210 (10,145 of them
with the tab's own queue alone); `MCStateFeed` 1,544,637; `MCDeletion` 1,324,102; `MCAccounts`
659,294 (up to symmetry); `MCSharing` 962,115; `MCTransfers` 3,151,230 (up to symmetry; 434,871
of them with streams, the others with the library).

Each takes under four minutes on two workers.

`PROJECT.json` lists the components, runs, mutants, the source lines each definition
stands for, findings, hazards and theorems.


## 1. The system

### Components

| Component | State it keeps | Operations | Correct when |
|---|---|---|---|
| **Player engine** (`handlers/mod.rs` `apply_player_command`, `record_node_report`; `db/store.rs`) | per player: row, queue rows, one undo snapshot | 17 commands (queue, transport, settings, undo), the reports of browser outputs and of nodes | the current item is the item at the stored index; a playback id in the row stands for the current item; a late report changes nothing; undo brings back what was there; a playback counts as one listen |
| **Live control** (`publish_player_transition`, `NodeHub`, `reconcile_player_output`, `server/tcp.rs`) | NodeHub: player → listening connections; one mailbox per connection | publish a directive, subscribe, reconcile, unsubscribe | a connected output does what the row says |
| **Satellite runtime** (`satellite.rs`, `audio.rs`) | current playback per output, decoder, media map | connect, obey, report progress/completed/failed, reconnect | it plays what it was told last, and says so |
| **State feed** (`SubHub`, `load_player_state`, web `PlayerStateStore`) | SubHub: player → connections; mailbox; client cache | subscribe, push, reply, fetch, reconnect | a client that watches ends up with the current revision and queue |
| **Media streaming** (`server/tcp.rs`, `media/`) | producers and cancel flags by stream id, stream map of the satellite | open, feed, end, cancel | frames of a stream come from its newest producer; every stream ends once |
| **Presence, shares, access** (`handlers/mod.rs`, `db/store.rs`) | presence by connection, shares, access lists, blocks, device groups | announce, enable, disable, allow, block, subscribe | nobody is sent, or controls, a player they may not see; connections of different transports never mix |
| **Accounts and login** (`auth.rs`, `auth/`, `autosignin.rs`, `server/http.rs`) | accounts, sessions, login attempts, exchanges, bootstrap token | log in, exchange, promote, demote, delete | one first administrator; an attempt or exchange is used once; at least one administrator remains |
| **Deletion** (`deletion.rs`) | staged files and metadata next to the database rows | stage, delete rows, clean up, recover at start | a deletion happens entirely or not at all, whenever the process stops |
| **Federation imports** (`federation.rs`) | transfers with their reserved paths and files | begin, chunk, finish, cancel | a destination appears complete or not at all, and is never overwritten |
| **Library scan** (`scan.rs`, `app.rs`) | one "scan running" flag, track rows | start, finish | one scan at a time, and always another one afterwards |
| **Playlists, HTTP endpoints** (`server/http.rs`) | M3U files and their rows | save, read, rename | a file and its row name each other |
| **Progress, listens, reports** (`handlers/mod.rs`) | last-writer-wins rows, listen rows | record | one listen per playback |
| **Web client** (`src/server/web/themes/default/src/`) | player state store, playback store, server switcher | watch, release, command, play its own queue, change targets, be the speaker of a share | it shows the state of the server it talks to; its own queue survives changes of target; one output is heard at a time; as a speaker it does what the row says |
| **Persistence, configuration, TLS, CLI, generated clients, mobile shells, website** | | | not concurrent in themselves |

### How they interact

Handlers run concurrently, one per request, on a shared SQLite database. A handler
commits its transaction first and *afterwards*, with no lock held since, publishes a
directive to the NodeHub (outputs) and a frame to the SubHub (watchers). Both hubs put
messages into per-connection mailboxes. The task of a connection handles one incoming
request or frame at a time and drains its mailbox in between. Satellites open the
connection to the core; everything that is not persisted (hubs, presence, mailboxes) is
lost with the process.

### What is hard here

1. **Commit and publication are two steps**, so outputs and watchers may hear about
   revisions in another order than they were committed, or never (a crash in between).
2. **Reports travel against commands.** A satellite's `completed` may arrive after the
   row has moved on, twice, or after an undo brought the old item back.
3. **Connections end on one side first.** A satellite can reconnect while the core
   still keeps its previous session; what was in flight is partly lost.
4. **Reads outside transactions.** `load_player_state` reads the row, the queue and the
   undo row one after another when it is called outside a transaction.
5. **Ids that come back**: stream ids, share ids and connection numbers are reused or
   shared between transports while something else still refers to the old holder.
6. **Files next to a database** (deletion, imports, playlists): no transaction covers
   both.
7. **A browser tab is a client and an output at once.** It changes between its own queue
   and shared players, while media events, frames and the answers to its own controls are
   still on their way.

The list with lines and with the properties that cover each item is "hazards" in
`PROJECT.json`; the few with a note instead of a property are taken up in section 13.

One convention holds in all modules. Where the code lets something go wrong in a
particular way, the way is recorded in a **history variable**, and the property names it as
its only excuse. So a property says two things: that these ways exist (the runs reach
them), and that there is no other. Guards do not read them (the one exception: in `Player` the playbacks ever
issued are the range from which late reports are drawn).


## 2. `Player` and `PlayerContract`

**Correspondence.** One action is one committed SQLite transaction of
`apply_player_command` or of a report. A request that the code rejects rolls back, which
is a stuttering step and has no action. `state` is the row, `queue` the
`player_queue_items` rows in position order, `undo` the snapshot tables, `nextItem` the
AUTOINCREMENT sequence, and `directive` what the handler returns for the output.
`issued` and `listens` are history: the item each playback id was drawn for (a fresh UUID
in the code, the next number here) and the playbacks counted as listens.

| Code | Definition |
|---|---|
| `normalize_current_item`, `set_current_item` | `Normalize`, `SetCurrent` |
| `select_next_index` | `SelectNext` (the *set* of positions that shuffle may choose) |
| `begin_playback`, `load_directive` | `BeginPlayback`, `Start`, `LoadDirective` |
| `save_player_undo`, `restore_player_undo`, the undo arm | `SaveUndo`, `Snapshot`, `Restored`, `Undo` |
| `remove_queue_item`, queue arms | `RemoveQueueItem`, `Enqueue`, `EnqueueNext`, `Remove`, `Reorder`, `MoveItem`, `Clear`, `ReplaceAndPlay` |
| transport arms | `Play`, `PlayRequested`, `Pause`, `SkipNext`, `Previous`, `Seek`, `SetVolume`, `SetRepeat`, `SetShuffle` |
| `matches_playback`, report arms, `record_node_report` | `Matches`, `Completed`, `Failed`, `Observed`, `NodeState` |

Reports are taken from *every* playback ever started and *every* item id ever handed out,
at any time and any number of times, so delay, duplication and reordering of reports are
all included.

`PlayerContract` is the abstract specification: five variables (status, playback token,
tokens handed out, revision, kind of directive) and six steps. It says that playing starts
under a new token together with a load, that a command that silences the player tells the
output so, and that only a report about the current token changes the status silently.
`Player` implements it (`KeepsContract`, a refinement mapping with INSTANCE ... WITH), and
`Jukebox` and `WebPlayback` build on it, so that the queue does not have to be multiplied with
the network. That nothing is lost by this is what `SharedPlayer` shows (section 3).

**Properties.** `CurrentItem` (index and id agree after every edit, undo, skip and report),
`PlaybackOfCurrentItem` (a report that matches speaks about the current item),
`ItemIdentity` (ids are unique and an undo brings back the same items), `ListenOnce`,
`PlaybackIdsFresh` (an id that left the row never returns, not even by undo), `ItemIdsFresh`,
`EditsDoNotInterrupt`, `KeepsContract`. `KeepsContract` includes that a silenced
output is told so, which `StopsAreSent` states on its own; `StartsAreLoaded` says that a new
playback is sent as it is stored. `PlayerProofs` proves these two as well, and no run repeats
them: what they are for at the output is `SatellitePlaysCurrent` (section 3).

**Bounds.** The queue edits are checked by `MCSharedPlayer` with `used` = "alone": two tracks,
a queue and an id space of three, two playbacks and six transactions (`MaxAlone`), enough to fill the queue, edit at both ends, remove the current
and the last item, undo, and edit again. The playback run has one track, an account and
nobody, two positions, two repeat modes, three playbacks and five transactions: enough to
start, complete, undo, start again and be sent every stale report. Bounds cut *transactions*
that would exceed them; nothing is clipped to a bound.

**Abstracted.** Titles and artists, the wording of errors, wall-clock time (a completion is
a report, not a timer), positions and volumes other than the few that are told apart.


## 3. `Jukebox`

**Correspondence.** `Command` is a `control` call up to its commit; `Publish` is
`publish_player_transition`; `Receive` is `record_node_report` up to its commit, `Attach`
the `NodeHub.subscribe` that follows every report in `handle_binary_conn`, `Reconcile`
the read in `reconcile_player_output` that follows for the first listener. `Close` is the
orderly end of `handle_binary_conn` and `CloseOnError` the `?` that leaves it before
`unsubscribe_conn`. `Connect`, `Obey`, `Progress`, `Finish`, `Fail` and `Cut` are
`satellite.rs`; `Restart` is the core's process. `down` and `up` are the two directions of
the TCP connection: a cut loses any suffix of the reports and all directives. `Dropped` is
a report whose transaction SQLite refuses (another writer committed in between), which
`transport.rs` discards.

A decoder runs on a thread of its own and learns that it is to stop from a flag
(`satellite.rs:605-617`). It looks at the flag, waits for the sound device, and then reports
without looking again (`satellite.rs:772`, `828`, `830-838`; likewise `563` and `584` at its
end). So a playback that is given up may have one report still to come: `LateAfter` puts it into
`node.late`, or does not, and `LateReport` sends it, after the report of whatever replaced or
paused the playback.

`published`, `loaded` and `disturbed` are history. They name the five ways in which row and
output come apart, and only these are excuses in the properties: **overtaken** (two
publications changed places), **raced** (a reconciliation read the row, and its load came
after a newer directive, or repeated a load), **unreconciled** (the session found an old
session in the listener list), **dropped** (a report was discarded), **late** (a decoder that
was to stop reported its position, while its playback was still the one in the row: after a
pause the core takes that for news and the row plays again). Losing the connection
clears all five, because the next session starts over.

**What the runs show.**

* `MCOutputs` (with `used` = "satellite" or "decoders", see section 10): with none of the five, a quiet satellite does exactly what the row says (`OutputFollowsRow`), and row and satellite are in agreement again and again
  (`OutputCatchesUp`), through stale reports, pauses that cross completions, cuts, leaked
  sessions and core restarts. `OutputFollowsRow` is also proved for every instance.
* `MCJukeboxOrder` (a violation): two commands commit in one order and publish in the
  other. The comment at `handlers/mod.rs:1723` takes live packets for ordered.
* `MCJukeboxReconnect` (a violation): a satellite that reconnects while its old session is
  still listed is not sent the persisted state, against the same comment.

**Bounds.** `MCOutputs` has one controller next to the two session handlers, which is
enough for publications to change places (command against completion). Two sessions are a
connection and its successor. Two playbacks and commands below revision 2 let one load
replace another; reports commit beyond that revision. One unread progress report at a time
lets a report cross every directive. A behaviour has either two sessions and decoders that stop
promptly ("satellite"), or one session and decoders that report late ("decoders"): a cut silences
the late ones, so what they do to a second session is what they do to a first. Both at
once were checked by hand (6.2 million distinct states), and hold.

**Fairness.** Weak fairness on `Publish`, on the core's work for a session (`Core`) and on
`Obey`: tokio keeps polling a task that can go on, and nothing competes for these steps.
None on commands, progress, the end of a track, cuts, reconnections or restarts: nobody
has to do any of these.

**Abstracted.** Volume values, positions, media chunks; a satellite has one output.

### The queue behind it: `SharedPlayer`

`Jukebox` leaves open which of the contract's steps a command takes, and its reports and loads
go by playback ids alone. `SharedPlayer` puts `Player` in place of that row. `Control` is a
`control` call with the command it carries (`Commanded`: every command of `Player`), `Receive`
a report with what `record_node_report` does about it (`Reported`: it compares the playback id
*and* the queue item, which the satellite repeats from the load), and `Reconcile` builds its
load from the row and the queue that it reads (`LoadDirective`). All other steps are those of
`Jukebox`, taken from the instance `Box`, whose row is the player's (a refinement mapping:
`token` is `state.pb`, `tokens` the ids issued, `sent` the kind of the last directive).
`named` is history: the playback, the item and the track that each load named.

* `KeepsProtocol`: every step of `SharedPlayer` is a step of `Jukebox`. So the abstraction of
  `Jukebox` is sound: comparing playback ids only decides no report differently, a reconciliation
  of a playing row always finds its item and has something to load, and nothing an edit or an
  undo does to row and output is outside the contract. It is proved (section 11), and was checked
  by hand on 1.0 million states.
* `SatellitePlaysCurrent`: at rest, and with none of Jukebox's five excuses, a satellite sounds
  exactly when the row says playing, and every load that ever named its playback named the item
  that is current in the queue *now*, and its track, however the queue was edited, undone or
  reordered since, and whichever connection the load went over. Neither `Player` (which ends at
  the directive) nor `Jukebox` (which knows no items) can state it.

`MCSharedPlayer` checks it with two commands and two playbacks on top of the reports
and reconciliations, over two sessions or in one with late decoders, as above. `MaxRevision` is set so high that it blocks nothing. There is no fairness here: the liveness
of the row and its satellite is `OutputCatchesUp` of `Jukebox`.


## 4. `StateFeed`

**Correspondence.** `Write` is another connection's command or a report that changes the
row; `Look` is a report that changes nothing, which still publishes what
`load_player_state` reads (`ReadRow`, then `ReadQueue`, outside a transaction). `Publish` is
`SubHub.publish` and, for a client's own command, the reply. `TakeSubscribe`, `Attach`,
`ReadRow`, `ReadQueue` are the steps of a subscription in `transport.rs`: check and first
snapshot, subscribe, second snapshot as the reply, which overtakes what is already in the
mailbox. `Drain` is the connection's mailbox between two requests. `Watch`, `Release`,
`Accept` and `Reconnect` are `PlayerStateStore` with its reference counts, its revision
filter and its re-subscription. `Remove` and `ComeBack` are `disable_share`/`enable_share`
for a share (the row starts again at revision 0) and `set_device_access` for a device (the
row stays).

A frame is the row's revision and the version of the queue, numbered by the revision that
wrote it, so that a torn read is a frame whose two numbers do not belong together.

**What the runs show.**

* `MCStateFeed`: once nothing is under way a watching client shows the current revision
  *with the current queue* (`Converged`), and it never stays behind for good (`CatchesUp`).
  Torn reads do happen and are repaired: the transition that tore them publishes its own
  frame, with a higher revision, later. The only excuse is `missed`: the player was removed
  meanwhile, or the subscription was refused because it was away.
* `MCStateFeedDrop` (a violation): without that excuse the property fails. Removing a player
  drops its subscriptions, and nothing tells clients that go on watching.

**Bounds.** One client and one other writer (the client's own handler is the second
writer), two transitions, one request on the wire, requests only while no frame is
unread, one removal. Two transitions are what a torn read and an overtaken frame need.
Clients do not interact except through the row, so one client against a writer shows
what a client can see.

**Fairness.** Weak fairness on `Publish`, `Read`, `Serve`, `Drain` and `Accept`, for the same
reason; none on asking, writing, reconnecting or on the return of a player.


## 5. `Deletion` and `PlaylistStore`

**Correspondence.** A playlist is a row and a file. `ChooseName`, `WriteFile` and
`InsertRow` are `save_playlist` (`server/http.rs`): the first free file name, the file, the
row. A deletion (`deletion.rs`) goes through `WriteMeta` and `MoveAway` for each listed
playlist (`stage_playlist_file`), then `Commit`, then `DropStaged` and `DropMeta`
(`finish_staged`), or `PutBack` and `DropMeta` (`restore_staged`) when a rename or the
transaction failed. Each of them is one file operation or one transaction and may fail.
The metadata is written by `std::fs::write`, which creates the file first: `StageFails`
may leave it **torn**, with a part of its text or none (a full disk, or a stop that follows at once).
`Crash` stops the process between any two steps; `Settle` and `SettleMeta` are
`reconcile_playlist_staging` at the next start. A start ends without serving when it meets torn
metadata (`Refuse`: it cannot be parsed, and stays) or when one of its operations fails
(`AbortStart`); it can be tried again.

| Variable | In the code |
|---|---|
| `account`, `row` | tables `accounts` and `playlists`; the foreign key from one to the other is a guard of `InsertRow` and `Commit` |
| `file` | the files in `playlists/`, by the writer of their text |
| `meta`, `torn`, `staged` | the staging directory: `<uuid>.json`, which of them are not whole, and the moved file of each item |
| `del`, `save` | the program counters and local variables of the requests |
| `phase`, `settling` | whether the server is up, down, at the start-up clean-up, or ended by an operation of that which failed |
| `reused` | history: names that a save chose while an earlier playlist of that name was still being saved or removed |

`PlaylistStore` is the abstract specification: a save fills a free name at once, a deletion
takes one playlist at once, an account goes with exactly its own playlists, and nothing
else changes anything. `StoreSpec` is the refinement. Its mapping (`Kept`) is what a start
*would make* of each name at this moment: the file if there is one, else the staged file.
So moving a file away and back are stutters, and `Commit` is the one step that deletes.
A reused name maps to `Mixed`, of which nothing is promised: the code reserves no name
between choosing and writing it, and moving a file into staging frees its name.

**What the run shows.** With two deletions, one save, any step failing and one stop:
`StoreSpec`; `StagedIsNoted` (a staged file always has whole metadata, which the next start goes
by); `RowHasFile` (a listed playlist has its text, in place or in staging); and
`RestartClears`: a server that is started again comes up with nothing left in staging, unless an
operation of the start fails or metadata is torn. Torn metadata never belongs to a file that was
moved, but it ends every start until somebody removes it (section 12).

**Bounds.** Two deletions interfere with each other (the same file staged twice, an account
and one of its playlists), one save interferes with both, one stop separates what is left
behind from what is done afterwards. Two accounts and two names tell "its own playlists"
from "all playlists".

**Fairness.** Weak fairness on `Restart` alone, which is the start and its clean-up:
`RestartClears` is about a server that is started again. Nothing is assumed of requests, of
failures or of stops.

**Abstracted.** File names and M3U text; directories other than the staging directory; the
rows of an account other than its playlists.


## 6. `Accounts`

**Correspondence.** A login is `Start`, then the callback `finish_linkkeys_login`
(`server/http.rs`): `ReadAttempt` and `TakeAttempt` (one deferred transaction:
SQLite lets the write go through only while what was read is current), `CountAccounts`,
`Enter` (`upsert_linkkeys_account`), `Grant` for the first account, `Issue`. `ReadCode`,
`ClaimCode` and `Mint` are `authenticate` with an exchange code, `CheckBootstrap` and
`Bootstrap` with the bootstrap token. `Connect` is `hello`, which reads the role once for as
long as the connection lives. `SetRole`, `AskErase`, `CountAdmins` and `Erase` are
`set_role` and `delete_account`. `AskRole` and `GuestSetRole` are `set_role` for a caller without
a login, whom `require_admin_or_guest_instance` (`handlers/mod.rs:396`) lets in while there is no
account: that is one statement and the change of the role another, by which time there may be
accounts. `Abandon` ends a request between any two statements.

`taken` and `redeemed` count what was granted; `ownerless` records how an instance may
come to have accounts and no administrator, of which there are four: the first account was
inserted and its role never set (`Abandon` or `Grant`); an administrator took the role of the
last one (`SetRole`); a caller without a login did, who was let in before the first account was
there (`GuestSetRole`); the administrators changed between the checks of a deletion and its
transaction (`raced`, `Erase`).

**What the runs show.** `MCAccounts`: `UsedOnce`, `AdminRemains`, `RolesAreGiven` (nobody's
role changes but by an administrator's connection, by a request without a login that was
let in while there was no account, or to administrator on the first login or the bootstrap). Several first logins may each become administrator; the property says
exactly that. `MCAccountsLast` (a violation): `docs/PLAY_STORE_COMPLIANCE.md:383` says that
the deletion "refuses to delete the last admin".

**Bounds.** Two users and the bootstrap account, two attempts, two requests at a time and
two open connections: two requests are what every race here needs (two first logins, a
login and the bootstrap, two deletions), two connections two administrators who delete each
other, and one of two attempts can be sent twice while the other is used. Users, attempts
and threads are interchangeable, so the run uses their permutations as symmetry; no liveness
is checked under it. There is no fairness: nothing here has to happen.

**Abstracted.** Signatures, nonces and the provider's answer (`CountAccounts` takes any user
that the provider may name); session expiry; guests, who differ from members in no way
that matters here.


## 7. `Sharing`

**Correspondence.** `AskEnable`, `FindShare`, `CreateShare`, `ReadDefault`, `CloseShare`,
`Attach` are `enable_share` up to the PresenceHub; `AskDisable`, `DeleteShare`,
`DropPresence` are `disable_share`; `AskAccess`, `CheckAccount`, `WriteAccess` are
`set_share_access`; `Block`, `Unlist`, `Unblock` are `block_account` and
`unblock_account`; `SetDefault` is the administrator's setting. Each is one statement, since
these handlers use no transaction; `Fail` ends a request at any of them. After its write
`set_share_access` still reads its answer (`share_access_info`, `handlers/mod.rs:2157`); when
that fails the change is there, but `transport.rs:556` announces nothing. `Announce` is
`ChangeHub::publish`. `Hear`, `ReadRows`, `Filter` and `Reconcile` are the browser's
`PlayerCatalogStore` with its coalesced refresh (`src/server/web/themes/default/src/stores/
server-data.ts`) and the two reads of `list_players`. `Cut` and `Reopen` are connections;
a connection ends between frames, because its task handles a frame to its end.

The history variables: `claimed` (connections told that they are the speaker), `late`
(accounts put on the checklist by a request that had checked them before they were
blocked, or left there by a block that failed half way), `chosen` (who decided on the
access), `raced` (enabling and removing overlapped), `silent` (a change that nobody was
told of), `missed` (a refresh that failed).

**What the run shows.** `ChecklistClean`, `OpenByChoice`, `SpeakerStays` and the liveness
`ListsCatchUp`: every browser's list comes to have the share exactly when its account may
use it, unless a change was not announced. A share that is made private while it is created,
one that comes back under a second tab, and a block or a new access whose request failed after
its write are such changes.

**Bounds.** Two tabs of the owner (an enable against a disable, the second speaker), one
other account (on the checklist, blocked, looking at the list), three requests of any kind,
connections lost at any time. Every race of this module is between two requests, and the
third leads up to it.

**Fairness.** Weak fairness on the frame a connection serves and on what has arrived at the
browser. None on requests, on failures, or on reconnecting.

**Abstracted.** Device groups and the access of an administrator's outputs (checks of rows
without interaction), share names, several shares (they have no state in common).


## 8. `Library`

**Correspondence.** Imports (`federation.rs`): `Begin` checks the manifest and places the
track, by its stored hash where the library has one; `Look` decides per file whether it is
already there; `Open` puts the transfer into the locked table, `Chunk` and `Cancel` work on
it, `Finish` takes it out; `Link` makes the hard links, `Index` and `SetHash` the
rows; `LinkFails`, `IndexFails`, `Undo`, `UndoFails`, `Undone` are the way back, on which errors
are swallowed (`federation.rs:536`, `544`, `582`). The scan (`scan.rs`,
the flag in `app.rs`): `StartScan`, `Meet` and `IndexMet` for each song of the walk,
`ListRows`, `Probe` and `Prune` for the reconciliation, with the failures of each. A music scan
leaves out the directory of the audiobooks, if there is one by then (`Excluded`,
`scan.excluded`): its songs are not met, and their rows are pruned whether or not the files are
there. The scan of a start goes on to fetch covers (`art.rs`): `SeekCover` finds an album
without one, `SaveCover` writes what the archive answered, perhaps much later, over whatever is
at its path by then. `Remove` is whoever owns the disk.

History: `gone` (files removed, from outside or by an import's `Undo`, or replaced by a cover
that was fetched), `left` (files that a failed import could not remove), `unsure` (songs
that changed while the scan runs), `doomed` (songs whose row the scan found without a file
just before the file came, or leaves out), `by` (who linked a file).

**What the run shows.** `NothingOverwritten`: an import that looked for a file an hour ago
does not write over one that appeared since; the one thing that is ever replaced is a cover, by a
fetched one, and only if an import brought it in after the album was found without.
`AllOrNothing`: an import that succeeded brought in everything and no scan takes it away again,
but for files in `gone` and rows in `doomed`; one that failed left nothing but what is in `left`.
`ScanVouches`: after a scan, rows and files agree on every song nobody touched meanwhile, and a
song that the scan leaves out has no row.

**Bounds.** Two imports over two folders with two contents, one of them already there; one
scan at a time, any number one after the other; one removal from outside; one folder below the
audiobooks; one picture in the archive. Two imports are what a common destination needs, and a
scan against an import and a removal needs one of each. A folder's song and cover stand for all
files; two songs of one folder are as independent as songs of two folders. A behaviour has one
of three ways to disturb the imports (`used`, see `MCTransfers`): "disk" (removals from
outside), "books" (a scan that leaves a folder out) or "covers" (fetched covers), the latter two
with undos that fail. The proofs are about all of them at once.


## 9. `MediaStream`

**Correspondence.** `Load` and `Halt` are the satellite's directives (`satellite.rs`),
`Receive` with `Header`, `ChunkFrame`, `End`, `Fail` its `handle_media_event`; `TakeControl` with
`OpenStream` and `Stop` and `Forward` are the connection's loop in `server/tcp.rs` with
`media_cancels` (`entry`) and `media_rx` (`queue`); `SendHeader`, `Check`, `SendChunk`,
`SendEnd`, `GiveUp`, `SendFail`, `Close` are the producer thread; `Disconnect` is the end of
the connection, which producers notice only when they send. `reopened` records the
streams that were opened while an earlier producer of the same id still had its entry:
everything goes by the stream's id, so its frames and its end can be taken for the newer
one's.

**What the run shows.** `FedInOrder` (one producer's chunks, in order, and all of them
before the end), `EntryIsLive` (entries do not pile up) and
`NoStreamHangs` (once all is quiet the decoder is over). All three are proved for any number
of streams, openings and chunks (section 11), and so are the types of the module's variables (`StreamTypeOK`), which no run
checks.

**Bounds.** Two streams, two openings, two chunks: two openings of one stream or of two are
the cases in which producers meet; two chunks tell order and completeness apart.

`MCTransfers` checks `Library` and `MediaStream`, which have no state in common: the
variable `used` is chosen at the start and says which of them runs ("media" is the stream), so
the state space is the sum of them. It extends both, which is why the names of the second say "stream" where
the first has the plain ones. Imports and streams are interchangeable, hence the symmetry;
neither module states fairness.


## 10. `WebPlayback`

**Correspondence.** The playback store (`stores/playback.tsx`, below
`src/server/web/themes/default/src/`) keeps its signals and variables in one record, `page`.
Every function of the store is an operator from page to page, and a handler that the
browser runs to its end is one action; where it can go several ways (shuffle, repeat, a
browser that refuses to play) it is an operator to a set of pages.

| Code | Definition |
|---|---|
| `HTMLMediaElement` | `Load`, `Unload`, `Resume`, `Pause`; `MediaEnd`, `Break`, `Hold` and `Tick` are what it does by itself, `audio.tasks` the events it has queued |
| `outputContext`, `reportOutputState` with its promise chain | `Speaks`, `Tell`; `chain` is what has not been answered |
| `driveOwnerAudio`, `applyRemote`, `PlayerStateStore.accept` | `Drive`, `Apply`, `Accept` |
| `resolveOutputTarget`, `setTarget` | `Resolve`, `Depart`, `Arrive`, `SetTarget`; `Nested` where an effect calls it |
| the effects on the target, on the list of players and on an own share | `Watch`, `Leave`, `AutoSelect` |
| `playNow`, `append`, `playNext`, `removeAt`, `move`, `next`, `previous`, `undoQueue`, `togglePlay`, ... | `LocalOps` and the operators above it |
| listeners of `play`, `pause`, `ended`, `error`, `timeupdate` | `Handled`, `Event`, `Tick` |
| `enableShare` (`routes/JukeboxPage.tsx`), `releaseDevice` | `AskShare`, `GetShared`; `AskRelease`, `GetReleased` |
| the server: `control`, `enable_share`, `disable_share` | `Steer`, `Serve`, `ControlFails`; `AskShare`, `AskRelease`, `Withdraw` |

An assignment to a signal runs the effects that read it before the next statement, unless
it happens inside an effect; the module follows this, since the second half of `setTarget`
then sees a page that its first half has changed. The row of the shared player is a
`PlayerContract`; its queue counts as one entry.

History: `kept` is the own queue as the user last left it, `audio.left` marks media that
were loaded when the tab left its player or lost its queue, or that an undo loaded after its
effects had gone on to another track, and `amiss` collects what may put a speaker out
of step (listed at `SpeakerFollows`).

**What the run shows.** `LocalQueueKept`: whatever happens to the targets, the own queue and
the place in it come back as they were left, except when a device is shared that is not
listed yet (section 12). (An own queue that was empty takes over what was shown of an output
that disappears.) `SoundsOwn`: nothing is heard but the current track of the own
queue or the playback that the shared player names, except media that are `left`. `SpeakerFollows`: with nothing on its
way, a tab that is the speaker sounds exactly when the row says so, with the row's
playback.

**Bounds.** Two playbacks and row changes below revision 3 let a playback replace another
and be paused or stopped; two frames, reports or events on their way let each kind cross
each other; an own queue of two; two acts (`MaxVisits`), which are what users do to targets,
queues and shares, and faults (a pause by the browser, a medium that breaks, a control that
fails). A tab that stays with its own queue (`used` = "queue") may do five (`MaxActs`): an undo
needs an edit before it, which needs a queue, and what goes wrong with it (section 12) takes
four. `OwnQueueIsKept`, `OnlyOwnIsHeard` and `SpeakerIsHeard` hold without any of these bounds. An
album without tracks is not modelled (`PageAssumption`): the store takes over an empty list
and leaves the place where it was. There is
no fairness and no liveness: nobody has to answer a tab, and one that stays is covered by
`CatchesUp` of `StateFeed`.

**Abstracted.** Positions, volume, seeking, titles; satellite mode of the page; losing the
connection, over which the store keeps what it has and then takes frames again; and the server
switcher. Frames arrive in the order of their revisions, because `StateFeed` has the other orders.

## 11. What is proved

Every theorem is about the specification of its module, for every value of the constants.
The assumptions are those that the module itself states of its constants (`PlayerAssumption`,
`StateFeedAssumption`, `DistinctAssumption` and `CrashesAssumption` of `Deletion`,
`NoneAssumption` and `ConnsAssumption`, `AccountAssumption`, `WatcherAssumption` and
`RequestsAssumption`, `DistinctAssumption`, `RemovalsAssumption`, `FoundAssumption` and
`ManifestAssumption` of `Library`, `MediaAssumption`, `JukeboxAssumption`, `PageAssumption`,
`SharedAssumption`):
types, that "nobody" is not somebody, that a manifest names a song, and that an album that is
played or appended has tracks.

**`PlayerProofs`.** The invariants are not inductive alone: an undo restores a queue and a
row from the snapshot, so what the live row and queue satisfy must also be recoverable
from every snapshot. `PlayerInv` therefore says

    TypeOK
    the current item is the item at the stored index       (CurrentOK)
    a playback id in the row was issued for that item      (PlaybackOK)
    queue ids are distinct and below nextItem              (QueueOK)
    every snapshot can be restored, and agrees with the
    live queue on every id they share                      (SnapshotOK, Agree)

The argument has three layers. Lemmas about the list operations (`Splice`, `RemoveAt`,
`MoveTo`) say what they return and that they keep distinct ids distinct. One lemma per
action shows that it is a `Transaction`: it ends either `Settled` or `Started`, with tables
that fit (`NextIsTransaction`). `TransactionInv` then preserves `PlayerInv` for the two
forms, instead of once per action. `ListenOnce` needs its own strengthening (`ListenInv`):
the playback in the row has not been listened to yet, because a completion always takes
its id out of the row and ids never return. `EditsDoNotInterrupt` comes down to one fact: an
item that is still queued after an edit was the current one before it (`SurvivorIsCurrent`),
so the row was normalised to it and carried its playback along (`FollowUntouched`); a
replaced queue holds new ids only, and a removed item is not in what is left.

*The player and its satellite.* `SharedPlayer` has no invariant built up from nothing: it is
reduced to the two modules that it joins. `ControlStep`, `ReceiveStep` and `ReconcileStep` show
that each of its steps is one of `Player` (so `SharedIsPlayer`: it has all of `Player`'s
theorems) and one of `Jukebox` (`ProtocolKept`). Both directions need `PlayerInv`: that ids
suffice to match a report is `PlaybackOK`, and that a playing row can be loaded is `CurrentOK`.
`BoxP` instantiates the *theorems* of `JukeboxProofs` with the player's row; its invariant then
holds of `SharedPlayer` (`HubInvariance`), which is why `Invariance` there is stated for the steps
alone, without fairness. What is left is what joins the two, `NamedInv`:

    whatever a load named is a playback that was handed out
    loads of the row's playback named what is current now
    the row's playback, if it has one, was named by a load

It survives an edit because a playback that stays in the row keeps its item (`PlaybackOK` before
and after), and an item that stays in the queue keeps its track: a new queue is made from the
old one and from new ids, or comes from the snapshot, which agrees with it (`NameStays`).
`SatellitePlaysCurrent` is then `RestAgrees` of `JukeboxProofs` with `NamedInv` put in.

**`DeletionProofs`.** `StagedIsNoted` holds because of where each deletion is: `Steps` ties
the program counter to the item in hand, and keeps torn metadata away from whatever is moved
(`Untouched`: the file moves only after the write has returned), `Resting` says that a server
that is not up neither saves nor deletes, `Settling` what the start-up clean-up holds (together
`NotedInv`). None of it depends on a start that succeeds. `RowHasFile`
adds that a name that was not reused has at most one holder: `Place` (a text in its
place or with exactly one deletion), `Saves` (what a save in flight knows of its name)
and `Lists` (what a listed name may have become). From these, `KeptIsRow` computes the
refinement mapping for every name that is not mixed, and `DeletionIsAtomic` goes through the
actions: all but `InsertRow`, `Commit` and a reuse keep every `Kept`.

**`AccountsProofs`.** `UsedOnce` needs that an attempt that was taken is gone and that of the
requests that hold it only one can have got through (`LoginInv`). `RolesAreGiven` needs that
a request about to grant counted no account when it read (`GrantsAreFirst`); a request without
a login is its own excuse. `AdminRemains`
needs what a deletion that has counted may rely on, unless it was told that the
administrators changed (`AdminInv`).

**`SharingProofs`.** `TypeInv` adds to the types what a request that is being served implies
about its connection (`Serving`), `SpeakerInv` what was told to a tab against what the
PresenceHub has.

**`TransferProofs`, the library.** `TypeInv` adds to the types that an import at work knows its destination
and its manifest. `NothingOverwritten` follows from it action by action; for the fetched cover it
needs that the album in hand still has none, or one that an import brought (`CoverInv`).
`AllOrNothing`
needs `ImportInv`: how far each import has come (`Progress`: the files that it saw or linked
are there with its content, or were removed), which files count as linked by it (`Blame`:
none before it links, later only those it may have to take back, and after it failed only those
in `left`), and
that the row the scan is about to prune is already `doomed` (`PruneIsDoomed`). Two imports with one destination are where it is not obvious:
what one linked the other has only seen, and an `Undo` of the first is recorded in `gone`.
`ScanVouches` needs `ScanInv`, what the walk has met so far and which rows it has yet to
probe.

**`StateFeedProofs`.** `Converged` says nothing about the way there, so the invariant is in
two parts. `FrameInv`: unless a share was removed, every frame anywhere (unpublished, read
by a handler, in a mailbox, on a wire, cached) is `Past`: its revision is at most the
row's, and with the row's revision it has the row's queue. That is where a torn read is
harmless: its queue can be newer than its revision only when the row is ahead of it.
`ServeInv`: a client that watches has missed a removal, or has a `subscribe` on its way with
no `unsubscribe` after it, or is being attached, or is subscribed and `Covered`: the current
revision is in its cache, or on its wire or mailbox, or with a handler that has yet to
publish it, or its own handler has yet to read the row. When nothing is under way only the
cache is left, and `FrameInv` makes it the row.

**`TransferProofs`, the stream.** `FedInOrder` speaks of the decoder only, but what it is fed was put
into the queue long before, so the invariant follows each frame on its way. `Sources` says
where frames come from and that a producer's last message is its last; `Entries` that a
stream that was never reopened too early has the entry of the one producer that is at work
or queued. `InLine` says of every chunk and end, on the wire or in the queue, that the frame
of its stream before it is the preceding chunk or the header, or that the decoder awaits
exactly it (`Hit`, `Clear`, `Awaited`); and of every producer the same for the chunk it is
about to read. Frames of cancelled producers are exempt in the queue, because the connection
drops them. `NoStreamHangs` needs `Underway`: for the stream that plays, the last that
the satellite asked is to open it and that is still to be taken, or nothing of it is asked
and it is in one of the six places from `Failing` to `Played`. Of these only `Played` is
without a frame on its way or a producer at work, so it is what is left when all is quiet.

**`JukeboxProofs`.** `OutputFollowsRow` speaks of a state at rest, and what makes it true is
spread over the row, the handlers, two queues and the satellite, so the invariant says of each
of them what is still to come. It has four parts, and each step preserves a part with the help
of the ones before it:

    types; the tables are functions                                     (TypeInv)
    loads wait in the order of their revisions, and the newest that
    nothing was published after is what the row plays                   (RowInv)
    only the satellite's session is open; who is not a listener has
    heard of nothing; after a reconciliation nobody else may speak      (LinkInv)
    while nothing has gone wrong and nothing under way must (InOrder):
      the satellite hears of each load before it plays it, and has
      given up what came before what it plays                           (Heard)
      a report of playing is still true, or its end is reported later   (ReportsEnd)
      what the row plays sounds, or has ended, or will be loaded, or
      the session is about to read the row                              (RowIsHeard)
      what sounds is what the row plays, or more is to be told          (SoundIsMeant)
      the last load that the satellite is told is what the row plays    (LoadIsMeant)

`InOrder` excludes more than the disturbances that have happened: also those that a waiting
directive is bound to cause when it is published, because the step that records one comes
later than the commit that makes it inevitable. `InOrder` after a step gives `InOrder` before
it, but for the first subscription of a session, which has heard of nothing (`LinkInv`). A late
decoder is harmless while `Heard` holds: what it reports was given up, so either the row has
replaced it, or the row is about to be told its end, or it is the position after a pause, which
is recorded (`LateFollow`). At
rest only `Sounds` is left of `RowIsHeard` and only the row of `SoundIsMeant`.

**`WebPlaybackProofs`.** A handler is a chain of store functions, and in between the page need
not make sense: `setTarget` calls effects that call `setTarget`, and an undo puts a queue back
before its media. So there is one lemma per function, about any page, and the lemma of a
handler composes them. What they keep is `Consistent`:

    the place is in the queue shown
    what the tab was told to speak is what is loaded, while it is not at its own queue
    away from its own queue it is silent, or speaks for its player, or its media are left
    media that are not left are the current track of the own queue, shown or put aside,
    or belong to the shared player

The last line is what makes coming back safe, and it has to be said of the queue that is put
aside as well, because the media stay loaded. A function either keeps the target
(`Keeps`, `Goes`) or moves it, and then it is `Preserved`: whatever effects have run in between,
an own queue that was there is still there. Three places are not of this form and have
lemmas of their own: sharing a player that is not listed (`WipedFacts`), giving one back
(`ReleasedFacts`), and the effect that adopts the queue of an output that disappears
(`LeaveFacts`). The lists need `FrontPart`, `BackPart`, `Removing`, `Inserting` and `Moving`: what
an edit does to the track at the place. That reports can be typed needs `ReplyInv`: at most one
answer is on its way, and only while a control waits for it.

`SpeakerFollows` speaks of a state at rest, like `OutputFollowsRow`, and its invariant
`SpeakerInv` says of everything on its way what will come of it:

    frames, reports and the tab name no playback that was not handed out; where the
    report of a failure is answered, that playback has ended            (KnownInv)
    media that are over will tell so                                    (OverInv)
    media that are broken will tell so, or have told, or their playback
    has ended by itself                                                 (BrokenInv)
    the target is listed                                                (TargetInv)
    while nothing is amiss and the tab speaks for a player that exists:
      it is subscribed; the last frame on its way is the row, and if
      there is none the tab has done what the row says, or something
      that it will tell of keeps it from it                             (FollowInv)

At rest nothing is left to be told, so the tab sounds what the row plays. `BrokenInv` is the part
that does not follow from the order of the frames: a failure that is reported for a playback
which has been replaced meanwhile changes nothing, and it is `Dead` in `KnownInv` that says the
replaced one cannot be what the row plays. The lemmas about the store's functions are of two
forms: `Continues` (no function makes media fail, or drops what waits to be told of them) and
`Onward` (no function teaches the tab anything about the row but a frame); `Adds` and `Answers`
are the same for what the handlers of the media's events report.

| Theorem | Statement |
|---|---|
| `PlayerProofs`: `Invariance`, `TypeCorrect` | `Spec => []PlayerInv`, `Spec => []TypeOK` |
| `CurrentItemHolds`, `PlaybackHolds`, `ItemIdentityHolds`, `ListenOnceHolds` | the four invariants of the runs |
| `PlaybackIdsFreshHolds`, `StartsAreLoadedHolds`, `StopsAreSentHolds`, `ItemIdsFreshHolds`, `EditsDoNotInterruptHolds` | the action properties |
| `Refinement` | `Spec => KeepsContract`: `Player` implements `PlayerContract` |
| `SharedIsPlayer`, `ProtocolKept` | `SharedSpec => Spec` (of `Player`), `SharedSpec => KeepsProtocol` |
| `SharedInvariance`, `SharedTypes`, `SatellitePlaysCurrentHolds` | `SharedSpec => []SharedInv`, `[]SharedTypeOK`, `[]SatellitePlaysCurrent` |
| `DeletionProofs`: `TypeCorrect`, `NothingLost`, `FilesStay` | `TypeOK`, `StagedIsNoted`, `RowHasFile` |
| `DeletionIsAtomic` | `Spec => StoreSpec`: `Deletion` implements `PlaylistStore` |
| `AccountsProofs`: `TypeCorrect`, `OneUse`, `RolesGiven`, `AdminStays` | `TypeOK`, `UsedOnce`, `RolesAreGiven`, `AdminRemains` |
| `SharingProofs`: `TypeCorrect`, `ChecklistKept`, `OpenOnlyByChoice`, `SpeakerKept` | `TypeOK`, `ChecklistClean`, `OpenByChoice`, `SpeakerStays` |
| `TransferProofs`: `TypeCorrect`, `NeverOverwritten`, `AllOrNothingHolds`, `ScanVouchesHolds` | `TypeOK`, `NothingOverwritten`, `AllOrNothing`, `ScanVouches` |
| `StateFeedProofs`: `TypeCorrect`, `ConvergedHolds` | `TypeOK`, `Converged` |
| `TransferProofs`: `StreamTypeCorrect`, `EntriesLive`, `FedByOne`, `NoneHangs` | `StreamTypeOK`, `EntryIsLive`, `FedInOrder`, `NoStreamHangs` |
| `JukeboxProofs`: `Invariance`, `TypeCorrect`, `OutputFollows` | `Init /\ [][Next]_vars => []JukeboxInv`; `Spec => []TypeOK`, `Spec => []OutputFollowsRow` |
| `WebPlaybackProofs`: `PageTypeCorrect`, `OwnQueueIsKept`, `OnlyOwnIsHeard`, `SpeakerIsHeard` | `PageTypeOK`, `LocalQueueKept`, `SoundsOwn`, `SpeakerFollows` |

**Only model-checked:** the liveness properties (`OutputCatchesUp`, `CatchesUp`,
`RestartClears`, `ListsCatchUp`), which are outside what the prover does. The invariants and the
action properties of the passing runs are all proved.

## 12. Findings

Four runs end in a violation, each of something a comment or a document of the repository says.

1. `handlers/mod.rs:1713`: a directive is published after its commit without order; an
   output may be left playing a playback the row has replaced, and its reports are then
   ignored until the next command.
2. `server/tcp.rs:161`: persisted state is sent only to the *first* listener, and a session
   that ended in an error stays a listener for ever (`server/tcp.rs:124`).
3. `handlers/mod.rs:2106`: removing a player drops its subscriptions; clients that go on
   watching receive nothing after it has come back, and a re-enabled share counts from
   revision 0, below what they have cached.
4. `deletion.rs:152`: the number of administrators is read before the transaction and not
   again in it; two administrators who delete their accounts at the same time both go, and
   so does a member who is promoted between the check and the transaction.

The excuses of the other properties (the history variables above) name further behaviours
that no document of the repository speaks about, among them: a stream id that is reopened
too early can end its new producer's stream (section 9); a save may take the name of a
playlist that is being deleted, and a failed deletion then puts the old text back over
the new (section 5); metadata of a deletion that was cut off half way ends every start of the
server until it is removed by hand (`deletion.rs:97`, `223`, `app.rs:27`; section 5); a position
that a decoder reports after its pause sets the row back to playing while the satellite is
silent (`satellite.rs:830`; section 3); a fetched cover may replace the one that an import has
just brought (`art.rs:71`; section 8); a failed import may leave files that could not be removed
(`federation.rs:582`; section 8); a caller without a login whose request was let in while there
was no account may change a role afterwards (`handlers/mod.rs:2998`; section 6); a change of a
share's access is not announced when reading the answer fails (`handlers/mod.rs:2157`; section
7); a first login that stops between its two statements leaves an instance
with an account and no administrator (section 6); a share that is private by default is open
while, or if, its creation stops half way (section 7). In the web client (section 10):

* sharing a device makes it the target before the list of players has it, so the tab falls
  back to its own queue, of which the first half of the change has saved nothing, and shows
  it empty (`routes/JukeboxPage.tsx:76` against `stores/playback.tsx:669`);
* coming back from a shared player to the own queue leaves the shared playback loaded, and
  the play button resumes it under the title of the own track;
* leaving an own share for another output lets the audio play on, and reports nothing;
* a medium of the own queue that breaks while the target is the own share is reported as the
  failure of the shared playback;
* an undo between the end of a track and the start of the next puts back the queue and the
  status, whose effect advances to another track, and only then the media: the queue shows one
  track and the player holds another (`stores/playback.tsx:1083`);
* a tab that comes to own the player it already shows starts nothing until the next frame,
  and a share that was created again counts from revision 0, below what the tab has cached.


## 13. Not modelled, and what is left

| What | Why |
|---|---|
| Satellite mode of the web page, volume and seeking of the playback store, server switcher | the same media element under the directives of `Jukebox`; values that nothing depends on; a switch between servers is not followed |
| Connection numbers (`server/tcp.rs:24`) | the two number ranges meet after 9,999 WebSocket sessions; a search cannot reach them and the modules take connections to be distinct |
| Devices disabled and enabled while their satellite plays (`handlers/mod.rs:3256`) | the listener list of `Jukebox` would have to be tied to the device table; `feed_removed` shows the half that concerns watchers |
| Two imports of one content under two paths (`federation.rs:364`) | `docs/FEDERATION.md:59` says no second copy is written; two transfers that begin before either ends both find no stored hash. It follows at once from the order of `Begin` and `SetHash` |
| Import stopped by the end of the process | nothing cleans up linked files; the next scan indexes what is there, like any file that appeared |
| Device groups, access lists of an administrator's outputs, listening history, audiobook positions, content reports | single statements on rows that nothing else reads meanwhile |
| HTTP range endpoint, reading cover art, tag reading, transcoding and decoding | pure input and output; a failing decoder is `Fail` in `MediaStream` |
| Local identity file, Windows automatic sign-in, LinkKeys cryptography | external to this code or one platform's API |
| Configuration, TLS, command line, installer | run once, at the start |
| Generated clients, mobile shells, website, release jobs | generated, or without state of their own |

The generated codecs and types (`generated/rust-client`, `generated/rust-server`) are about
half of the lines that the components name, and nothing in them is a design decision; for
that reason the share of lines that `map` covers stays low.

No invariant and no action property is left to prove.
