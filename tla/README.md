# Marga: a TLA+ model of the relay and the chat client

Marga is a terminal chat client for several networks at once (Discord through a
relay, Matrix and IRC directly) and a reference implementation of that relay.
These modules model the parts of both whose correctness depends on the order of
concurrent events; TLC checks them on small instances and TLAPS proves
their safety for every instance.

Paths are relative to `src/internal/` unless they begin with `cmd/` or `docs/`.

## 1. The system

| Part | State it keeps | Operations | Talks to |
|---|---|---|---|
| Relay hub, `relay/hub.go` | connections, subscribers per channel, a name and a send buffer per connection | register, identify, subscribe, unsubscribe, unregister, four broadcasts, two pumps per connection | WebSocket peers; called by the REST handlers |
| Relay REST API, `relay/server.go`, `backend.go`, `store.go` | the messages table; the channel list, in memory | publish, edit, history pages, delete, prune | hub (broadcast), SQLite |
| Relay program, `cmd/relay/main.go` | none | start, prune on a timer, stop | the two above |
| Relay client, `wsclient/client.go` | the connection, five bounded channels, `done` | dial, reconnect, read, subscribe, close | relay; adapter |
| Discord adapter, `network/discordrelay` | the event stream | fan-in, disconnect, REST calls | client, webhook, fetcher; TUI |
| Matrix adapter, `network/matrix` | sync token, rooms, history tokens, crypto and sync stores | sync loop, history, verification | homeserver; TUI |
| IRC adapter, `network/irc` | joined channels, connection state | connection callbacks, join, send | server; TUI |
| TUI, `tui/` | network and channel on screen, messages, badges, listeners, timers, dialogs | one `Update` per message; commands in goroutines | every adapter, local store, plugins |
| Local store, `db/store.go` | messages, channels, notifications | insert, update, read | TUI |
| Plugin host, `plugin/` | running plugins and their call queues | hooks, timeouts, effects, close | Lua interpreters; TUI |
| Demo network, `network/demo` | its place in a script | one goroutine | TUI |
| Login and configuration, `auth/discord`, `config`, `credstore`, `cmd/marga` | the configuration file, the keyring, Discord's tokens | load, save, refresh, authenticate, migrate, log out | Discord, keyring; user |
| Setup, `setup/wizard.go`, `tui/setup_wizard.go` | the step, the selected server | prompts, requests, save | relay, Discord; user |
| Side panels, `tui/panels`, `tui/panel.go` | the last items of each panel | fetch, wait, fetch again | HTTP sources; TUI |
| Commands, input, palette, rendering, logging | text and layout of the moment | sequential | user |

What is hard here:

* **relay hub** — broadcasts run under a read lock that is released between the
  parts of one operation; `close(c.send)` must not meet a sender; slow clients
  must not stall others; the pumps must end each other.
* **relay store** — rows appear and disappear between the pages of a reader, a
  page is cut before it is filtered, the process restarts.
* **client** — connection state in one goroutine, close in another, subscriptions
  restored by a third party that learns of the reconnect through two bounded
  channels, one of which drops what does not fit.
* **TUI** — answers of calls made for one network or channel arrive when another
  is on screen; the event streams of the networks are kept alive by re-arming
  one listener each; pickers and edits keep indexes, pointers and copies of a list
  that moves under them.
* **local store** — every write and read is a goroutine that nobody waits for, so an
  edit can be written before its message, and what was read before a write can be
  shown after it.
* **networks** — handlers and a loop send on one bounded channel that is closed
  while they may be blocked on it; a table of subscriptions is written by
  goroutines of the TUI while a reconnect copies it.
* **plugins** — one interpreter answers callers that time out, while it is closed.
* **starts of the client** — a file and a keyring are written in several calls, any
  of which can fail or be the last; refresh tokens are good for one use.

Section 7 lists what is left; `PROJECT.json` has the hazards at
their lines.

## 2. The modules

| Module | Models | Runs |
|---|---|---|
| `RelayHub` | the hub: registry, subscriptions, broadcasts, pumps | `hub_safety`, `hub_liveness` |
| `RelayStore` | publishing, history, retention, deletion, restart | `store_history`, `store_since` |
| `EventStream` | what every adapter promises of its events (abstract) | through the adapters |
| `WsClient` | relay client, Discord adapter and the TUI's re-subscription, composed | `client_reconnect` |
| `IrcAdapter` | IRC: loop, handlers, subscriptions, nick lists | `networks` |
| `MatrixAdapter`, `MatrixEvents` | Matrix: sync loop, handlers; what becomes of each kind of event | `networks` |
| `DemoAdapter` | the scripted network | `networks` |
| `PluginHost` | interpreters, calls, effects, close | `networks` |
| `MatrixHistory` | paging backwards through a Matrix room, adapter, TUI and local store | `networks`, `matrix_paging` |
| `MatrixLogin` | Matrix' tokens, device and encryption over starts | `client_parts` |
| `TuiSession` | the TUI's session: networks, channels, messages, badges, listeners, ticker | `tui_session`, `tui_stale` |
| `MessageView` | replies, edits, pickers over a moving list | `client_parts`, `picker_crash` |
| `LocalStore` | a message on the screen and in the local store, with edits and reactions | `tui_session` |
| `Mentions` | the list of mentions and its table over starts of the program | `tui_session` |
| `SidePanels` | the panels beside the chat and their fetches | `tui_session` |
| `Verification` | device verification: modal, shim, event channel | `client_parts`, `verify_modal` |
| `ClientStart` | configuration file, keyring and Discord's tokens over starts | `client_parts` |
| `SetupWizard` | the wizard in the terminal and the overlay in the TUI | `client_parts` |

`RelayHubProofs`, `RelayStoreProofs`, `WsClientProofs`, `VerificationProofs` and
`IrcProofs` have the theorems about one module each. `NetworksProofs` has those about
the Matrix adapter, the demo, the plugin host and `MatrixHistory`, `ClientProofs` about
`SetupWizard`, `MatrixLogin`, `ClientStart` and `MessageView`, `TuiSessionProofs` about
`TuiSession`, `Mentions`, `LocalStore` and `SidePanels`; each of the three ends with
its parts side by side, as a run checks them. The `MC` modules give TLC the
constants that a configuration cannot write down. `MCNetworks`, `MCClient` and
`MCTui` also put modules that share no state side by side: a behaviour exercises one of
them and the others are absent or stay as they started, so one run asks the
questions of several small parts and its size is the sum of theirs.

### RelayHub

A process is a goroutine that calls the hub. `pc` says where it is; `todo` holds
the connections that a loop under `h.mu.RLock` has still to visit, so a process
holds the read lock exactly while its `todo` is not empty, and a section under
`h.mu.Lock` is a step guarded by `LockFree`. `conns`, `channels`, `username`,
`subs`, `sendq` and `closed` are the fields of `Hub` and `conn`; `writer` and
`ws` are the write pump and the socket. `subscribe`, `unsubscribe` and
`unregister` take two steps each because they release one lock before they take
the next or close the channel. `broadcastTerminalOnline` takes its snapshot in
one loop and sends in another. A connection that comes back is a new one.

### RelayStore

One SQL statement is one step; `Publish` is `Stamp`, `Insert`, `Announce`.
`Query` and `ApplyRetention` are the two halves of `handleHistory`, between which
the clock, the pruner and other handlers move. The reader (`history/fetcher.go`
and what the TUI does with its pages) opens the channel, pages backwards with the
oldest timestamp it has and catches up with the newest. `Restart` keeps `rows`
only. `request.dead` and `request.newer`, `opened`, `aired` and `erased` record
the past for the properties. A since request is made with a limit (the client's
is 50).

### WsClient

`loop` is `ConnectWithRetry` with its `readLoop`; a dial holds `c.connMu`, which
`ConnFree` says. `fan` is the goroutine `fanIn`, `closer` the caller of
`Disconnect`, `Update` and `Subscribe` the part of the TUI that turns a
`connected` event into a subscription. The four event channels of the client are
one, since each send to them drops when full. `unheard` remembers that a
`connected` status was dropped. `RelayIsStream` maps the adapter to `EventStream`:
what `fanIn` holds is the event being offered, and `done` or a cancelled context is
the request to stop.

### TuiSession

One handler of `Update` is one action. `calls` are the commands in flight with
the page they bring, `armed` and `held` the listeners waiting and the events they
took, `disk` the local store, which keeps messages by channel name only. Messages
are numbered by the clock; system messages have no network. Channels are numbers
in the order of their names, because the code picks the first of a sorted list.
`SortedByTime` is the `sort.Slice` of `mergeMessages`; it leaves lines of the same time
as they were, as Go does in a list of up to twelve, which the lists of the runs are.
The proofs use no more of it than that the result has the same lines and is ordered by time.
`Refresh(answered)` is the poll of the refresh timer; the fetcher turns an answer
other than 200 into an empty page.

### Verification

mautrix's verification helper is external: `helper` and `confirms` are its state of
each transaction, `lock` its mutex together with the callback that runs under it.
The goroutine that syncs brings the other device's steps (`OtherRequests` to
`OtherCancels`); every other call is a member of `tasks`, a goroutine started by
the shim or by a key. A callback is two steps: the call takes the lock, `Emit`
(or `EmitCancelled`, `EmitPanics`) puts the prompt into `a.events`, starts the
follow-up goroutine and returns. `modal` is `m.verify`. `compared` and `over`
record the past for the properties. `Disconnect`, `SyncLoopReturns` and
`ProgramExits` are the end of the adapter and of the program.

### EventStream and the adapters

`EventStream` states what `network/interface.go` says of `Events()`: an event that
the adapter has begun to send arrives, in order, however slow the reader; only a
request to stop gives events up or closes the channel, and nothing is sent after
that. Each adapter implements it by a refinement mapping (`RelayIsStream`,
`IrcIsStream`, `MatrixIsStream`, `DemoIsStream`): its events channel is the queue,
the event that its loop or a handler is blocked with is the one on offer.

`IrcAdapter`: `ircLoop` is `run` with `dial`, the session and the backoff;
`ircHandler` the one handler that girc runs at a time, with the copy of `a.subs` that
`onConnected` is joining; `Subscribe` and `Unsubscribe` are two steps, the table and
the command, as the code releases `a.mu` in between. The server is external: a
command on a session that is up takes effect, on another it is lost.
`ircHeard`, `ircRaced` and `ircMissed` record the past for the properties.

`MatrixAdapter`: `mxLoop` is `syncLoop`; a sync runs the handlers one at a time, and
`MatrixEvents` says what they make of each kind of event. `DemoAdapter` is one
goroutine with a script.

`MatrixHistory` joins `FetchHistory` with the TUI that calls it: `mhToken` is
`a.histTokens` of the room, which a call reads before its request and writes
after it, `mhCalls` the calls under way, and `mhScreen` the list on screen, which the
local store fills when the room is opened again. `mhStray` records positions that
were read before the room was last opened, and where a page from one of them ended.

### PluginHost

`plRuns` is what a plugin's `loop` executes, `plQueued` its `p.effects`, `plCalls` the
goroutines that ask (`run`), one handler after the other, `plAnswer` the buffered
`respCh`. A caller gives up only through `p.done`; a handler that hangs is ended by
its own timeout, `HandlerEnds`. Effects reach the update loop in any order, since
a batch is concurrent. `plAsked` records how many effects each handler of a call asked
for.

### MessageView

`mvPick` and `mvIdx` are the picker and its index into `m.msgs`, `mvReply` the pointer
`m.replyTo`, which ctrl+r takes into the slice and the picker to a copy.
`OnMessageHere` inserts in place or into a new array, which decides what a pointer
sees afterwards. `mvDraft` remembers which message the input was filled from, and
`mvMixed` the messages in whose edit the text of another was put back.
`MovePickUp` is the one step that can index out of range, `mvCrashed`.

### LocalStore, Mentions, SidePanels

`LocalStore` follows what a message says: `lsShown` is its line in `m.msgs`, `lsRows`
its row, `lsWrites` and `lsReads` the commands that have been issued. A message is a
number of texts, the first and its edits, and a number of reactions. The network
tells of a text by a live event, by the answer of an edit or by a page, and a page
may be older than what is on screen; `lsTold` is what it said last, `lsDisturbed` and
`lsBlurred` record which messages had two operations under way. A write that is
under way shares the slice of reactions with the list, so that it may write what
was counted since.

`Mentions` has the list `m.notifications`, its table and the commands between them;
`StartAgain` drops what was under way and reads the list from the table. The update
notice shares the empty message id, so that there is one row of it at most.

`SidePanels` has one chain of commands per panel: fetch, answer, wait. The answer's
handler finds the panel by its id and starts the next wait. Two entries for one
source share an id and so a place in `spData`.

### ClientStart, SetupWizard, MatrixLogin

`ClientStart` follows a Discord user through starts of the program: `Load` with the
migration of old keyring names, `EnsureUserConfig`, `Refresh`, `Authenticate`, the
prompts and the TUI's saves. `Save` is four steps (truncate, write, access token,
refresh token) and can be cut off between any two. A pair of tokens is a number; the
refresh token of a pair is good for one use. A file that was cut short either cannot
be parsed or is refused by `Validate`, after the keyring has been read and migrated.
`csCut`, `csLost` and `csFailed` record what went wrong since `cfg` last took over a
pair. `MatrixLogin` does the same for the
token, device and pickle key of Matrix and the database that fits only one device
and key. `SetupWizard` is the state machine of `RunSetup` with the selected and the
previous server, and the overlay, whose list may arrive after it was closed and
opened again.

## 3. What the runs show

| Run | Properties | Result |
|---|---|---|
| `hub_safety` | `NoSendOnClosed`, `RegistryConsistent`, `NoDeliveryAfterLeaving` | hold |
| `hub_liveness` | `NoStall`, `PumpsEndTogether` | hold under `Fairness` |
| `store_history` | `AnnouncedIsKept`, `StaleNeverServed`, `PagingComplete` | hold |
| `store_since` | `EmptySinceIsCaughtUp` | violated: the page is cut before it is filtered |
| `client_reconnect` | `NoSocketLeak`, `RelayIsStream`, `Resubscribed`, `ShutdownCompletes` | hold, the last two under `Fairness` |
| `tui_session` | `TuiTypeOK`, `ViewWellFormed`, `AlwaysListening`, `OneTicker`, `EventsInOrder`, `NothingVanishes`, `BadgeKept`, `LastWordKept`, `SidebarKept` (`MentionsKept` and `PanelsFollow`) | hold |
| `tui_stale` | `ScreenShowsActive` | violated: answers carry no network |
| `networks` | `NetTypeOK`, `JoinedIsSubscribed`, `NoNickAcrossSessions`, `EffectsOfTheCall`, `PagesJoin`, `IrcIsStream`, `OthersAreStreams`, `NetworksClose`, `CallsReturn` | hold, the last two under fairness |
| `client_parts` | `ClientTypeOK`, `VerifiedMeansCompared`, `NoGhost`, `LockFreed`, `EditsAreOwn`, `PickedReplyKept`, `TokensSurvive`, `RefusedForACause`, `AddedWasConfirmed`, `EncryptionKept` | hold, `LockFreed` under `Fairness` |
| `matrix_paging` | `AllLoadedMeansAll` | violated: a filtered page is taken for the last |
| `picker_crash` | `PickerStaysInList` | violated: the picker's index outlives its list |
| `verify_modal` | `WaitsForOther` | violated: events are not matched with the modal |

The five violations are disagreements between the code and its documents or
comments:

1. `EmptySinceIsCaughtUp` — the oldest newer rows are past the window and fill
   the page; nothing is left of it, although younger rows exist. It needs a
   reader away for longer than the window and the pruner's next sweep to come.
2. `ScreenShowsActive` — fetch at `#general` on one network, switch to another
   that has a `#general`: the first network's page is merged into the view.
3. `AllLoadedMeansAll` — `FetchHistory` of Matrix drops what is no chat message
   from a page, the TUI takes any page shorter than its limit for the last one, and
   stops asking for older messages although the token for the next page is there.
4. `PickerStaysInList` — open a picker, switch the channel with alt+1 to alt+9 or
   the palette, press up: the index is past the end of the new list.
5. `WaitsForOther` — the modal waits for one device; an event of another
   verification replaces it, or closes it when it is final. The first verification
   has no modal any more.

Some passing properties except a case that the code does not order or has no way back
from. A history variable says which, for as short a time as the code allows; what
comes before it, beside it and after it is checked, so a fault that outlasts the case
is found. The exceptions are part of the result:

* `JoinedIsSubscribed`: two calls of the TUI for one channel that overlap, or one that
  overlaps the join of an older copy of the table, can leave a channel joined that was
  left (`ircRaced`). That channel is excepted until the next reconnect, or until the
  next call for it that is alone.
* `PagesJoin`: a token that was read before the room was opened and is answered last
  (`mhStray`), until a page from the newest message is answered after it. Calls that
  cross, and a scroll before the first page, are covered otherwise.
* `EditsAreOwn`: the message in whose edit the text of another one was put back
  (`mvMixed`), as long as that edit or a call of it lasts; an answer is not compared with
  the message under edit. For the same reason a late success ends an edit that was
  opened since, and what is in the input then goes out as a new message. The model has
  that step (`OnEdited`); no document says what should happen, so nothing is claimed.
* `TokensSurvive`: from a failed keyring call, or a crash or failed write while a pair is
  on its way to the keyring, to the next pair (`csFailed`, `csCut`). `RefusedForACause`
  lists these and a pair that was issued and given up, because the profile request
  failed (`csLost`), as what may make a start fail, and again only up to the next pair.
* `AddedWasConfirmed`: the one server that was selected when the list could not be had
  and the wizard went on (`swSkipped`); it is written, also if it was declined.
* `EncryptionKept`: what a failed reading of the keyring or half a login leaves behind
  (`mlMisread`, `mlCut`). This lasts for good: the database of the old device stays.
* `LastWordKept`: of the screen, a message that was being read, or was read again, while
  the store lagged (`lsBlurred`); of the store, one about which two writes, or a write and
  a read, were under way at once, or a write failed (`lsDisturbed`). Both until the
  network brings the message with nothing under way. The screen of a message whose
  writes overtake each other or fail is covered.
* `MentionsKept`: of the table, a mention that came or was on its way while it was
  cleared, or whose write or clear failed or was cut off (`mnDisturbed`), until the next
  clear or until it comes again; of the list, one that a start read from such a row
  (`mnMisread`). `PanelsFollow` says what a panel shows only where no other entry has its
  source.
* `NetworksClose`: an IRC `Disconnect` that fell between the loop's look at the context
  and the dial (`ircMissed`): the session that follows is not ended.
* `Resubscribed`: a `connected` status that found `statusCh` full (`unheard`).

`Verification` also reaches `EmitPanics`: after `Disconnect` the sync loop closes
the event channel while a goroutine of the shim may still emit. No run counts it
as an error, because no document says what should happen then.

Every property of a passing run has a fault operator next to the definition it
would break (marked `[fault]`); replacing the definition by it makes the run fail.
The fault operators are not part of the model.

## 4. Bounds

* `RelayHub`: two connections that are interchangeable, one publisher, one user,
  one channel, a buffer of one frame, three client actions and one post. One
  frame makes a full buffer as common as room; every pairing the code can go
  wrong with is of two processes. The liveness run has one client action (no
  symmetry, which would be unsound there).
* `RelayStore`: two publishers, four clock readings, a window of one, pages of
  one message, one restart: enough for a page cursor with rows on both sides that
  are pruned, deleted or added between two requests. `store_since` adds a channel
  and drops a publisher.
* `WsClient`: three sessions, one frame, buffers of one; `StatusBuffer` is two, as
  many as a lost connection emits (the code's is 16).
* `TuiSession`: two networks, two channels, pages of one. `Budgets` bounds posts,
  connection changes and user actions; a behaviour of `tui_session` starts with one
  of five budgets, each of which brings out one group of hazards.
* The other parts of `TuiSession.cfg`. Local store: one message, since no operator
  relates two, with one edit and one reaction; two writes in flight, which is one
  crossing; one switch, to the same channel or an empty one. Mentions: two, two
  commands in flight, two clears and one more start, so that a clear can cross an
  insert and be cut off by the end. Panels: none, one github panel beside an entry
  that cannot be built, or two entries for one feed; two versions of a source and four
  fetches, enough for an old answer of one chain to come after a new one of another.
* `Networks.cfg`: channels of one event, so that every send can block. IRC: two
  channels, one nick, two sessions, and either two calls or one call and two lines:
  a nick list needs a subscription and a line in each of two sessions. A room of
  three events, one of them no message, opened twice, with pages of one. Matrix:
  three events of every kind the handlers tell apart, two failed syncs. Demo: its
  whole opening and a script that is repeated. Plugins: two, once both with a hook,
  once one with two hooks, a command and a key; two calls with one effect per
  handler, the least with which a call can meet another's left-overs.
* `Client.cfg`: verification with one transaction of each direction and an event
  channel of two, the smallest in which order matters and which fills up; three
  messages (own, another's, own but not editable) in a list cut to two, four keys
  and one line; three starts with three pairs of tokens and two faults; seven answers
  to the wizard with two servers and two failures, enough to choose, decline, choose
  again and lose the list; four starts with Matrix, three devices and three faults.
* `MatrixPaging.cfg` and `Picker.cfg` are small, as they only have to reach the
  violation.

Counters that only bound the search are named `Max...` and `Budgets`. Deadlock is
not checked: a bounded instance stops when its bounds are used up, and the relay
and the client at rest are not errors.

## 5. Fairness

`RelayHub`: a runnable goroutine runs, so weak fairness for the broadcasts and for
the steps of the pumps that need no lock. `Unregister` needs the write lock, which
readers take and release: strong fairness, because Go's `RWMutex` blocks new
readers once a writer waits. Reads fail by their deadline, writes by theirs.
Nothing makes a client act or a peer vanish.

`WsClient`: the loop, the fan-in and the TUI run; a `select` whose cases are ready
again and again takes each in the end (strong fairness for `FanTakeStatus`); a
mutex is not starved (strong fairness for `CloseConn` and `Subscribe`, which wait
for a dial to end). A dial ends, but nothing says that it ever succeeds.

`IrcAdapter`: `run`, the handlers and a `Disconnect` that has begun go on (weak
fairness for `IrcRun`, `IrcHandle`, `IrcClose`). The server, the network and the TUI
owe nothing, so `NetworksClose` holds with a reader that has gone. `MatrixAdapter`:
the goroutine of `syncLoop` runs, and a sync whose context is cancelled returns.
`DemoAdapter`: the goroutine runs; when the timer and the context are both ready,
`select` takes the context in the end (strong fairness for `DemoReturns`).

`PluginHost`: a handler ends, by its timeout if not before; answers are taken. Of
several callers at one interpreter, each is taken in the end (strong fairness for
`Ask`), as Go's channels queue them.

`Verification`: a callback that can emit does, the TUI handles its events while it
runs, a cancelled context is noticed, and the program exits once it has
disconnected. The devices, the user and the calls in `tasks` need not act.

## 6. Proofs

Every invariant and every action property that a passing run checks, and the four
adapters' refinements of `EventStream`, are statements of theorems; only liveness is
left to TLC. The theorems hold for every value of the constants that the `ASSUME` of
the module allows: numbers of connections, channels, sessions, starts, handlers or
messages are arbitrary.

### The relay

`RelayHubProofs`: `TypeCorrect`, `SendSafe`, `TablesAgree` and the action property
`LeavingStops`, from `Invariance`. The invariants are not inductive alone. What a loop
has left to visit must be known to be registered (`todo[p]` within `conns`, and for a
message within the channel's subscribers): that is true when the loop starts and stays
true because every section that removes a connection needs the lock that the loop
holds. A connection is in `conns` only between registration and `Unregister`, and its
send channel is closed only after it; so what is in `conns` is not closed, and
`SendSafe` follows. `TablesAgree` needs that the channel in hand of a subscribe or
unsubscribe (`arg`) is the only one about which the two tables may differ.

`RelayStoreProofs`:

* `AnnouncedKept`, `StaleNotServed`. No timestamp is ahead of the clock, so the next
  one is new and a message enters the table once; what was erased stays erased. A
  message that is about to be announced was stored before, and a restart, which
  forgets publishers, leaves the table alone. For `StaleNeverServed` the invariant
  follows the request: what was dead when it was made is erased or expired at every
  later time, the query cannot return what is erased, and the filter removes from the
  page what is expired.
* `TypeCorrect` has one conjunct that is more than a type: a page is no longer than
  the limit. `NewestOf` and `OldestOf` say so by counting what lies beyond each
  message, so the proof takes the message of a page that is furthest in (`Least`,
  `Greatest`: the numbers are well-founded), beyond which lie all the others of the
  page and fewer than the limit. That needs different messages to have different
  timestamps, which `StampsInv` adds.
* `PagingLosesNothing`. `NoHole`: a message there was at the opening is read, dead, or
  older than all that is read. A message older than the cursor is on the page, expired
  or older than a full page (`PageInv`, from `LeftOut`: what a limit leaves out is older
  than the page, and the page is full), so a short page means that nothing is left.
  `OpenedInv` says that nobody is about to insert what the reader opened.

### The relay's client and verification

`WsClientProofs`: `TypeCorrect`, `NoneLeftBehind`, `RelayStreams`, for channels of
every capacity. The loop holds a connection only while it is connected or reading, and
every dialed socket but that one is closed; `Hangup`, which both the loop and `Close`
run, is the one place where a socket is given up. `RelayStreams` is the refinement: the
initial state is one of `EventStream`, and each action is a step of it or changes
nothing that it sees. It needs an invariant about `fanIn` alone, that what it holds is
an event whenever it is sending and nothing otherwise.

`VerificationProofs`: `TypeCorrect`, `ComparedFirst` and `GhostFree`, for any number of
transactions. A confirmation on its way to the helper, and one the helper has, belongs
to a transaction in `compared`, and a transaction is done only with ours. Steps are
grouped by what they change (`Untouched`, `Moved`, `Confirmed`), so most actions are one
line. For `GhostFree` the helper never leaves the end of a transaction (`EndedStays`), so
nothing of it is emitted after its last prompt: of what has been handled nothing is
queued or in the callback (`QuietInv`), and behind a last prompt nothing of its
transaction (`LastInv`).

### The session and what stands beside it

`TuiSessionProofs`:

* `Listening`, `HandledInOrder`, `SingleTicker`. Each network's listener either waits
  with nothing in hand, or has the one event that follows the last one handled, and
  the queued events are numbered on from there. Only four kinds of step touch the
  streams (`StreamMoves`), and each keeps this. The ticker is an invariant of its own.
* `BadgesStay` needs no invariant: only what brings a channel on screen removes a badge,
  `SwitchChannel` and the answer with the list of channels.
* `ListInOrder`, `NothingIsLost`, `SessionTypeCorrect`. `SessInv` says that every
  message in an event, a call's page or the store comes from the log of a network, and
  none of these is ahead of the clock. Every step leaves the list, clears
  it, adds a line of the program at its end, inserts a message or merges a page
  (`ListMoves`), and `ViewInv` (ordered by time, no message twice, nothing ahead of the
  clock) survives each: `InsertSorted` puts the message before the first later line,
  and `SortedByTime` gives each line the place that the count of the lines before it
  says. That these places are a permutation is the only real lemma about sorting: the
  counts are different and within the length, and an injection of a finite set into
  itself is onto.
* `MentionsStay`. For an undisturbed mention: an insert under way is due and crosses no
  clear, a clear under way means it is not due, and otherwise table and what is due agree
  (`MnFollows`). The list is changed together with what is due, so it follows for all but
  those that a start read from a disturbed row (`MnListed`).
* `LastWord`. For an undisturbed message: at most one write of it is under way, none
  while its channel is being read, what a write carries and what a read has got is what
  the network told last, with the reactions on screen or none (`LsFollows`). For one
  that is not blurred, which may have many writes under way: the screen and what a read
  has got is what the network told last, and so is all that a read under way may still
  find, row or write (`ScreenFollows`). The second needs the first when a channel comes on
  screen again. The
  operators on tables and lists of commands (`With`, `RemoveAt`) have lemmas of their
  own.
* `PanelsShowTheNewest`. Chain `k` belongs to panel `k` and never ends, because the
  handler finds the panel by its id; if no other panel has the id, only this chain
  writes its place, the sources only count up, and so an answer is never older than what
  is shown (`ChainInv`). `PickedIs` says what the appending loops build, again by
  counting.
* `TuiTypeCorrect` and `SidebarStays` put the four parts together: a step of
  `TuiSpec` is a step of one part and a stutter of the others (`TuiStep`).

### The networks

`IrcProofs`: `NobodyCarriedOver` follows from where `resetMembers` stands: the table is
empty from there to the session (`MembersInv`). `JoinedWhatIsSubscribed` needs who
runs when (`SessionInv`, `HandlerInv`) and that, of a channel whose calls have not
overlapped since the last reconnect, the call under way and the copy that the handler joins agree with the table,
and any difference between session and table has one of them to mend it
(`JoinedInv`). `IrcStreams` is the refinement, as `RelayStreams`.

`NetworksProofs`:

* `OthersStream`: the refinements of the Matrix adapter and the demo.
* `NoGapBetweenPages`. For every position that is not stray, the token or one that a call
  under way goes on from, what is newer is on screen or in an answer on its way there
  (`JoinInv`); `ChunkIsWhole` says that a chunk has every message between its two ends.
* `EffectsAreTheCalls`. A loop that runs a handler has queued what the handler asked for
  since it began, an answer that is ready has all of it (`RunsInv`, `AnswersInv`), and of
  the handlers a call is past each is settled, with all its effects or, where its plugin
  was closed, none; what was got is ordered by handler and call (`CallInv`).
* `NetTypeCorrect`, for the five modules together.

### The client program

`ClientProofs`:

* `AddedConfirmed`: past the confirmation the selected server is one that was confirmed,
  or the one with which the wizard went on without a list (`WizardInv`).
* `EncryptionNotLost`: the keyring has a login whole or not at all, the database is of
  that device and key, and each step of `Connect` knows what the keyring has
  (`LoginInv`), save between the two writes of a login.
* `TokensLast` and `RefusalHasACause`, from `StartInvariance`: where each of the steps of
  a start stands, `StartParts` says what file, keyring and `cfg` have in common: the two
  tokens are of one pair, a pair that is saved is usable, and a file with a scope goes
  with a pair that `Refresh` can use. All that is said only while nothing has gone wrong
  since the last pair; `Underway` is what holds of a start whatever went wrong before,
  and enough to begin again when the next pair is taken over (`ApplyStep`).
* `ReplyReachesPicked`: a reply chosen in the picker is a copy, not a pointer into the
  list (`ReplyInv`).
* `OwnMessagesEdited`, from `WritingInvariance`: the message in the input was the user's
  own when it was taken there (`EditInv`); indexes and pointers into the list stay
  within it, or the program has crashed (`MvTypes`), through insertions, pages, edits
  and the cut to the newest.
* `ClientTypeCorrect`, for the five modules together.

### How the proofs are made

The inductive invariants that are not conjunctions of checked properties were given to
TLC before they were proved. Theorems that need "the first such element" take it from
the well-foundedness of the natural numbers (`LeastNumber`, `LeastIndex`, `Least`); this
stands in for induction, whose library theorems take an operator. Three operators
were written so that they can be reasoned about, each checked to give what the form
before gave: `SortedByTime` and `Picked` in place of `SortSeq` and `SelectSeq`, which are
recursive or take an operator, and the effects of a handler in
`EffectsOfTheCall`, a set with an order (`QueuedBefore`) in place of a selection.

The proofs rest on the named assumption of each module (`HubAssumption`,
`StoreAssumption`, `ClientAssumption`, `VerificationAssumption`, `SessionAssumption`,
`MentionsAssumption`, ...), which TLC evaluates in the runs. They ask for numbers where
a bound or a capacity is one, finite sets of plugins and non-empty sets to
choose from, `Limit` and `EventBuffer` above 0 and the like.

Only model-checked are the liveness properties, which are out of the prover's reach
because they rest on fairness and so on ENABLED: `NoStall`, `PumpsEndTogether`,
`Resubscribed`, `ShutdownCompletes`, `LockFreed`, `NetworksClose`, `CallsReturn`. The
violations that the runs with findings show are counterexamples of TLC and need no proof.
The theorems about one part of a composed run are stated of that part's own
specification; `NetTypeCorrect`, `ClientTypeCorrect`, `TuiTypeCorrect` and `SidebarStays`
carry the step from the parts to the whole, which share no variable.

## 7. What is left

1. `RelaySystem` — hub, store and a client composed, with an abstract
   publish/subscribe specification that hub and store implement together.
2. Re-subscription with several networks: `WsClient` has one network and the TUI,
   `TuiSession` several networks without their subscriptions; a reconnect while
   another network is on screen (`tui/events.go:153`) needs both in one module.
3. The keyboard focus of the mentions panel. Read, not modelled: ctrl+] with a
   mention in the list sets `notifFocused` (`tui/tui.go:972`), nothing sets it back,
   and with it Enter jumps to the mention instead of sending (`tui/tui.go:1096`) for
   the rest of the session.
4. Scrolling, completion and the palette's ranking as operators against reference
   definitions.

Theorems planned: what the composed specifications of `networks`, `client_parts` and
`tui_session` inherit from their parts, stated of `NetSpec`, `ClientSpec` and `TuiSpec`
(the steps `PartSteps` and `TuiStep` are there); the safety half of `Resubscribed`, that a
session without its subscription has a status on its way or one that was dropped; and
the refinement of 1.

## 8. Not modelled

* Rendering, input editing, markdown, images, styles, the palette: no state that
  outlives a frame and nothing concurrent.
* The parsing of commands, the commands that only print, defaults, environment
  variables and the validation of single fields, logging: sequential code over text.
* The outbound webhook, sends, media, the walk over Matrix' spaces, the relay's guild
  endpoints: single requests that leave nothing behind in the program.
* Migrations and the full-text search of the local store: one statement each.
* Encryption, SQLite, WebSocket and HTTP libraries, girc, mautrix, the Lua
  interpreter: external; modelled by what the code relies on.
* Two messages with the same nanosecond timestamp, on which the history cursors
  have no tie-break; clock steps backwards.
* Clocks that differ: a line of the program is stamped by the client (`time.Now()`), a
  message by its network. `TuiSession` has one clock, so that `ViewWellFormed` does not say
  where a line of the program stands among messages of a network that is ahead or behind.
