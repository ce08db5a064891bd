----------------------------- MODULE TuiSession -----------------------------
(***************************************************************************)
(* The TUI's session state (internal/tui): the network and channel on      *)
(* screen, the message list, unread badges, the listeners that feed every  *)
(* network's events into the update loop, the reconnect ticker, and the    *)
(* history and channel-list calls whose answers come back later.           *)
(*                                                                         *)
(* Update handles one message at a time, so a handler is one step.  The    *)
(* commands it returns run in goroutines of their own: a listener takes    *)
(* the next event of its network, a call is answered at some later time,   *)
(* and answers are handled in any order.  Two equal calls in flight are    *)
(* one.  A call reads its page when it is made and a message is stored     *)
(* when it is handled, the two ends of what the goroutines may do.  Left   *)
(* out: sends, edits and reactions (the messages are those of others),     *)
(* replies, panels, plugins, scrolling, the cap of 1000 messages, and the  *)
(* subscribe commands, so that whether a message comes live is left open   *)
(* (WsClient has the subscriptions).                                       *)
(***************************************************************************)
EXTENDS Integers, FiniteSets, Sequences, SequencesExt

CONSTANTS
  Networks,     \* the connected networks
  Relay,        \* the network with catch-up polling (network.SinceFetcher)
  NumChannels,  \* channels are numbered in the order of their names
  Home,         \* the channel on screen at the start
  None,         \* no network: the sender of system messages
  PageSize,     \* the limit of a history request
  Budgets       \* bound: how many messages are posted, connection states
                \* change, and actions the user and the refresh timer take;
                \* a behaviour keeps to one of them

Channels  == 1..NumChannels
NoChannel == 0

ASSUME SessionAssumption ==
  /\ Relay \in Networks
  /\ None \notin Networks
  /\ NumChannels \in Nat
  /\ Home \in Channels
  /\ PageSize \in Nat \ {0}
  /\ Budgets \subseteq [posts : Nat, changes : Nat, acts : Nat]

VARIABLES
  log,        \* the messages the networks hold (external)
  clock,      \* the timestamp of the newest of them, and the local time
  events,     \* each adapter's Events()
  armed,      \* listeners waiting for each network's next event
  held,       \* events taken by a listener and not yet handled
  handled,    \* the number of the last event of each network handled
  active,     \* m.active
  channel,    \* m.channel
  channels,   \* m.channels
  msgs,       \* m.msgs
  historyLoaded, allHistoryLoaded, loadingHistory,
  unread,     \* the (network, channel) pairs with an unread badge
  status,     \* m.status
  ticking,    \* m.reconnectTicking
  ticks,      \* reconnect ticks scheduled
  calls,      \* calls in flight
  disk,       \* the local message store
  budget      \* what is left of the budget

servers   == <<log, clock>>
streams   == <<events, armed, held, handled>>
screen    == <<active, channel, channels, msgs>>
history   == <<historyLoaded, allHistoryLoaded, loadingHistory>>
reconnect == <<status, ticking, ticks>>
vars == <<servers, streams, screen, history, unread, reconnect, calls, disk,
          budget>>

Message == [net : Networks, ch : Channels, ts : Nat]
System  == [net |-> None, ch |-> NoChannel, ts |-> clock]
State   == {"connected", "disconnected"}

Kinds == {"channels", "local", "latest", "older", "since"}

TypeOK ==
  /\ log \subseteq Message
  /\ clock \in Nat
  /\ \A n \in Networks :
       /\ \A e \in ToSet(events[n]) \cup held[n] :
            IF e.kind = "message" THEN e.body \in Message ELSE e.body.state \in State
  /\ armed \in [Networks -> Nat]
  /\ active \in Networks
  /\ channel \in Channels \cup {NoChannel}
  /\ channels \subseteq Channels
  /\ \A i \in DOMAIN msgs : msgs[i].net = None \/ msgs[i] \in Message
  /\ {historyLoaded, allHistoryLoaded, loadingHistory, ticking} \subseteq BOOLEAN
  /\ unread \subseteq Networks \X Channels
  /\ status \in State
  /\ ticks \in Nat
  /\ \A c \in calls :
       /\ c.kind \in Kinds
       /\ c.ch \in Channels \cup {NoChannel}
       /\ c.page \subseteq Message
  /\ disk \subseteq Message

\* The page a history call brings.  The network is the one that is active when
\* the call is made; the local store looks at the channel's name only.  The
\* page is read at once and arrives at any later time.
Page(kind, net, ch, cursor) ==
  LET there == {m \in log : m.net = net /\ m.ch = ch}
      newest(S) == {m \in S : Cardinality({o \in S : o.ts > m.ts}) < PageSize}
  IN CASE kind = "channels" -> {}
       [] kind = "local"  -> {m \in disk : m.ch = ch}
       [] kind = "latest" -> newest(there)
       [] kind = "older"  -> newest({m \in there : m.ts < cursor})
       [] kind = "since"  -> {m \in there : m.ts > cursor}

Call(kind, net, ch, cursor) ==
  [kind |-> kind, ch |-> ch, page |-> Page(kind, net, ch, cursor)]

\* Every channel switch loads the local page and the network's latest page.
LoadsOf(net, ch) == {Call("local", net, ch, 0), Call("latest", net, ch, 0)}

\* New and Init; the local store may know channels already.
Init ==
  /\ log = {}
  /\ clock = 0
  /\ events = [n \in Networks |-> <<>>]
  /\ armed = [n \in Networks |-> 1]
  /\ held = [n \in Networks |-> {}]
  /\ handled = [n \in Networks |-> 0]
  /\ active = Relay
  /\ channel = Home
  /\ channels \in {{Home} \cup stored : stored \in SUBSET Channels}
  /\ msgs = <<>>
  /\ historyLoaded = FALSE
  /\ allHistoryLoaded = FALSE
  /\ loadingHistory = FALSE
  /\ unread = {}
  /\ status = "disconnected"
  /\ ticking = FALSE
  /\ ticks = 0
  /\ disk = {}
  /\ calls = LoadsOf(Relay, Home) \cup {Call("channels", Relay, NoChannel, 0)}
  /\ budget \in Budgets

Spend(what) ==
  /\ budget[what] > 0
  /\ budget' = [budget EXCEPT ![what] = @ - 1]

First(S) == CHOOSE x \in S : \A y \in S : x <= y

-----------------------------------------------------------------------------
(* The message list.                                                       *)

Newer(a, b) == a.ts > b.ts
Older(a, b) == a.ts < b.ts

\* [fault] an insert that does not look for the message first.
InsertBlindly(s, m) ==
  LET i == SelectInSeq(s, LAMBDA e : Newer(e, m))
  IN IF i = 0 THEN Append(s, m) ELSE InsertAt(s, i, m)

\* insertSorted: nothing if the message is there, else before the first newer.
InsertSorted(s, m) ==
  LET i == SelectInSeq(s, LAMBDA e : Newer(e, m))
  IN CASE m \in ToSet(s) -> s
       [] m \notin ToSet(s) /\ i = 0 -> Append(s, m)
       [] OTHER -> InsertAt(s, i, m)

\* [fault] the page replaces what is on screen.
ReplaceMessages(s, page) == SetToSortSeq(page, Older)

\* sort.Slice by the timestamp; equal ones stay in order, as Go leaves them in a
\* slice of up to twelve.
SortedByTime(s) ==
  LET before(i, j) == Older(s[i], s[j]) \/ (s[i].ts = s[j].ts /\ i < j)
      place(i) == Cardinality({j \in DOMAIN s : before(j, i)}) + 1
  IN  [k \in DOMAIN s |-> s[CHOOSE i \in DOMAIN s : place(i) = k]]

\* mergeMessages: what is not there yet is added, then all is sorted.
MergeMessages(s, page) == SortedByTime(s \o SetToSeq(page \ ToSet(s)))

-----------------------------------------------------------------------------
(* The networks.                                                           *)

Emit(n, kind, body) ==
  /\ events' = [events EXCEPT ![n] =
       Append(@, [seq |-> handled[n] + Cardinality(held[n]) + Len(@) + 1,
                  kind |-> kind, body |-> body])]
  /\ UNCHANGED <<armed, held, handled>>

\* Somebody posts; a message the adapter does not deliver live is found by
\* history calls only.
Post(n, ch, live) ==
  LET m == [net |-> n, ch |-> ch, ts |-> clock + 1] IN
  /\ Spend("posts")
  /\ clock' = clock + 1
  /\ log' = log \cup {m}
  /\ IF live THEN Emit(n, "message", m) ELSE UNCHANGED streams
  /\ UNCHANGED <<screen, history, unread, reconnect, calls, disk>>

ChangeState(n, s) ==
  /\ Spend("changes")
  /\ Emit(n, "status", [state |-> s])
  /\ UNCHANGED <<servers, screen, history, unread, reconnect, calls, disk>>

-----------------------------------------------------------------------------
(* Events.                                                                 *)

\* listenNetwork receives the next event.
Take(n) ==
  /\ armed[n] > 0
  /\ events[n] # <<>>
  /\ armed' = [armed EXCEPT ![n] = @ - 1]
  /\ held' = [held EXCEPT ![n] = @ \cup {Head(events[n])}]
  /\ events' = [events EXCEPT ![n] = Tail(@)]
  /\ UNCHANGED <<servers, handled, screen, history, unread, reconnect,
                 calls, disk, budget>>

\* [fault] a listener for the network on screen instead of the event's own.
RearmActive(n) == [armed EXCEPT ![active] = @ + 1]

\* listenNetwork for the network whose event was handled.
Rearm(n) == [armed EXCEPT ![n] = @ + 1]

Finish(n, e) ==
  /\ held' = [held EXCEPT ![n] = @ \ {e}]
  /\ handled' = [handled EXCEPT ![n] = e.seq]
  /\ armed' = Rearm(n)
  /\ UNCHANGED events

\* onMessageEvent: the message is stored; the network on screen learns of its
\* channel; the message is shown if its channel is on screen, else it leaves
\* an unread badge.
OnMessage(n, e) ==
  LET m == e.body
      onScreen == m.net = active /\ m.ch = channel
  IN
  /\ e \in held[n]
  /\ e.kind = "message"
  /\ channels' = IF m.net = active THEN channels \cup {m.ch} ELSE channels
  /\ msgs' = IF onScreen THEN InsertSorted(msgs, m) ELSE msgs
  /\ unread' = IF onScreen THEN unread ELSE unread \cup {<<m.net, m.ch>>}
  /\ disk' = disk \cup {m}
  /\ Finish(n, e)
  /\ UNCHANGED <<servers, active, channel, history, reconnect, calls, budget>>

\* [fault] every status other than "connected" schedules a tick.
OnStatusTicks(n, e) ==
  /\ e \in held[n]
  /\ e.kind = "status"
  /\ status' = e.body.state
  /\ ticks' = IF e.body.state # "connected" THEN ticks + 1 ELSE ticks
  /\ ticking' = (ticking \/ e.body.state # "connected")
  /\ Finish(n, e)
  /\ UNCHANGED <<servers, screen, history, unread, calls, disk, budget>>

\* onStatusEvent: the status of whichever network changed last; the countdown
\* of a lost connection needs one tick per second.
OnStatus(n, e) ==
  LET start == e.body.state # "connected" /\ ~ticking IN
  /\ e \in held[n]
  /\ e.kind = "status"
  /\ status' = e.body.state
  /\ ticking' = (ticking \/ start)
  /\ ticks' = IF start THEN ticks + 1 ELSE ticks
  /\ Finish(n, e)
  /\ UNCHANGED <<servers, screen, history, unread, calls, disk, budget>>

\* reconnectTickMsg: schedules the next tick, or stops once connected.
OnTick ==
  /\ ticks > 0
  /\ status = "connected"
  /\ ticks' = ticks - 1
  /\ ticking' = FALSE
  /\ UNCHANGED <<servers, streams, screen, history, unread, status, calls,
                 disk, budget>>

-----------------------------------------------------------------------------
(* The user.                                                               *)

\* A channel comes on screen with its messages still to load.  rest are the
\* calls that stay in flight.
Show(ch, rest) ==
  /\ channel' = ch
  /\ msgs' = <<System>>
  /\ historyLoaded' = FALSE
  /\ allHistoryLoaded' = FALSE
  /\ calls' = rest \cup LoadsOf(active, ch)
  /\ UNCHANGED loadingHistory

\* [fault] badges looked up by the channel's name on every network.
ClearedEverywhere(ch) == {badge \in unread : badge[2] # ch}

\* clearUnread: the badge of a channel of the network on screen.
Cleared(ch) == unread \ {<<active, ch>>}

\* SwitchChannelMsg: /join, a number key, the palette, a notification.
SwitchChannel(ch) ==
  /\ Spend("acts")
  /\ Show(ch, calls)
  /\ channels' = channels \cup {ch}
  /\ unread' = Cleared(ch)
  /\ UNCHANGED <<servers, streams, active, reconnect, disk>>

\* nextChannel and prevChannel; a channel that is not listed counts as the first.
Neighbours ==
  LET list == SetToSortSeq(channels, <)
      here == IF channel \in channels THEN SelectInSeq(list, LAMBDA c : c = channel) ELSE 1
      n    == Len(list)
  IN {list[((here - 1 + step) % n) + 1] : step \in {1, n - 1}}

\* ctrl+n and ctrl+p: the neighbour's name is all that changes on screen.
CycleChannel(ch) ==
  /\ Spend("acts")
  /\ channels # {}
  /\ ch \in Neighbours
  /\ channel' = ch
  /\ UNCHANGED <<servers, streams, active, channels, msgs, history, unread,
                 reconnect, calls, disk>>

\* DeleteChannelMsg: /leave, with another channel left.
LeaveChannel(ch) ==
  /\ Spend("acts")
  /\ ch \in channels
  /\ channels # {ch}
  /\ channels' = channels \ {ch}
  /\ IF ch = channel
     THEN Show(First(channels'), calls)
     ELSE /\ msgs' = Append(msgs, System)
          /\ UNCHANGED <<channel, history, calls>>
  /\ UNCHANGED <<servers, streams, active, unread, reconnect, disk>>

\* switchNetwork: nothing is on screen until the channel list is there.
SwitchNetwork(n) ==
  /\ Spend("acts")
  /\ n # active
  /\ active' = n
  /\ channel' = NoChannel
  /\ channels' = {}
  /\ msgs' = <<System>>
  /\ historyLoaded' = FALSE
  /\ allHistoryLoaded' = FALSE
  /\ loadingHistory' = FALSE
  /\ calls' = calls \cup {Call("channels", n, NoChannel, 0)}
  /\ UNCHANGED <<servers, streams, unread, reconnect, disk>>

\* /history and scrolling to the top.
LoadOlder ==
  /\ Spend("acts")
  /\ ~loadingHistory
  /\ ~allHistoryLoaded
  /\ msgs # <<>>
  /\ loadingHistory' = TRUE
  /\ calls' = calls \cup {Call("older", active, channel, Head(msgs).ts)}
  /\ UNCHANGED <<servers, streams, screen, historyLoaded, allHistoryLoaded,
                 unread, reconnect, disk>>

\* FetchSince; the fetcher makes an empty page of an answer other than 200.
Poll(answered) ==
  LET poll == Call("since", active, channel, Last(msgs).ts)
  IN IF answered THEN poll ELSE [poll EXCEPT !.page = {}]

\* periodicRefreshMsg, on a network with catch-up polling.
Refresh(answered) ==
  /\ Spend("acts")
  /\ active = Relay
  /\ historyLoaded
  /\ msgs # <<>>
  /\ calls' = calls \cup {Poll(answered)}
  /\ UNCHANGED <<servers, streams, screen, history, unread, reconnect, disk>>

-----------------------------------------------------------------------------
(* Answers.                                                                *)

\* FetchResultMsg: dropped unless it is for the channel now on screen.
Dropped(c) == c.ch # channel /\ c.ch # NoChannel

OnStaleHistory(c) ==
  /\ c.kind \in {"latest", "older", "since"}
  /\ Dropped(c)
  /\ calls' = calls \ {c}
  /\ UNCHANGED <<servers, streams, screen, history, unread, reconnect, disk,
                 budget>>

OnHistoryError(c) ==
  /\ c.kind \in {"latest", "older", "since"}
  /\ ~Dropped(c)
  /\ calls' = calls \ {c}
  /\ loadingHistory' = FALSE
  /\ UNCHANGED <<servers, streams, screen, historyLoaded, allHistoryLoaded,
                 unread, reconnect, disk, budget>>

\* [fault] all that is on screen is stored, system messages too.
StoredWithScreen(page) == disk \cup page \cup ToSet(msgs)

\* persistMessage for each message of the page.
Stored(page) == disk \cup page

\* A page of fewer than PageSize messages ends the paging, and a since page,
\* which asks for fewer, always does.
OnHistory(c) ==
  /\ c.kind \in {"latest", "older", "since"}
  /\ ~Dropped(c)
  /\ calls' = calls \ {c}
  /\ loadingHistory' = FALSE
  /\ allHistoryLoaded' = (\/ allHistoryLoaded
                          \/ c.kind = "since"
                          \/ Cardinality(c.page) < PageSize)
  /\ historyLoaded' = (historyLoaded \/ c.page # {})
  /\ msgs' = IF c.page = {} THEN msgs ELSE MergeMessages(msgs, c.page)
  /\ disk' = Stored(c.page)
  /\ UNCHANGED <<servers, streams, active, channel, channels, unread, reconnect,
                 budget>>

\* localHistoryMsg, also with an error; an empty channel list becomes the
\* channel on screen and those the local store had.
OnLocal(c, ok, stored) ==
  LET fits == c.ch = channel /\ ok IN
  /\ c.kind = "local"
  /\ calls' = calls \ {c}
  /\ channels' = IF fits /\ channels = {} THEN {channel} \cup stored ELSE channels
  /\ msgs' = IF fits /\ c.page # {} THEN MergeMessages(msgs, c.page) ELSE msgs
  /\ historyLoaded' = (historyLoaded \/ (fits /\ c.page # {}))
  /\ UNCHANGED <<servers, streams, active, channel, allHistoryLoaded,
                 loadingHistory, unread, reconnect, disk, budget>>

\* ChannelsResultMsg with an error.
OnChannelsError(c) ==
  /\ c.kind = "channels"
  /\ calls' = calls \ {c}
  /\ UNCHANGED <<servers, streams, screen, history, unread, reconnect, disk,
                 budget>>

\* ChannelsResultMsg: the list is whatever the network answers.  When the
\* channel on screen is not in it, its first channel takes the place.
OnChannels(c, list) ==
  /\ c.kind = "channels"
  /\ channels' = list
  /\ IF list = {} \/ channel \in list
     THEN /\ calls' = calls \ {c}
          /\ UNCHANGED <<channel, msgs, history, unread>>
     ELSE /\ Show(First(list), calls \ {c})
          /\ unread' = Cleared(First(list))
  /\ UNCHANGED <<servers, streams, active, reconnect, disk, budget>>

-----------------------------------------------------------------------------
Next ==
  \/ \E n \in Networks :
       \/ \E ch \in Channels, live \in BOOLEAN : Post(n, ch, live)
       \/ \E s \in State : ChangeState(n, s)
       \/ Take(n)
       \/ \E e \in held[n] : OnMessage(n, e)
       \/ \E e \in held[n] : OnStatus(n, e)
       \/ SwitchNetwork(n)
  \/ OnTick
  \/ \E ch \in Channels :
       \/ SwitchChannel(ch)
       \/ CycleChannel(ch)
       \/ LeaveChannel(ch)
  \/ LoadOlder
  \/ \E answered \in BOOLEAN : Refresh(answered)
  \/ \E c \in calls :
       \/ OnStaleHistory(c)
       \/ OnHistoryError(c)
       \/ OnHistory(c)
       \/ \E ok \in BOOLEAN, stored \in SUBSET Channels : OnLocal(c, ok, stored)
       \/ OnChannelsError(c)
       \/ \E list \in SUBSET Channels : OnChannels(c, list)

Spec == Init /\ [][Next]_vars

-----------------------------------------------------------------------------
(* Properties.                                                             *)

\* The message list is in the order of time and shows no message twice,
\* although the same message may come live, in a page, in a catch-up poll and
\* from the local store, in any order and repeatedly.
ViewWellFormed ==
  \A i, j \in DOMAIN msgs :
    i < j => /\ msgs[i].ts <= msgs[j].ts
             /\ msgs[i] = msgs[j] => msgs[i].net = None

\* The events of a network are applied in the order its adapter emitted them
\* and none is skipped, whatever is on screen: each has exactly one listener.
EventsInOrder ==
  [][\A n \in Networks : handled'[n] # handled[n] => handled'[n] = handled[n] + 1]_vars

\* No network is left without a listener while it has events to give.
AlwaysListening == \A n \in Networks : armed[n] + Cardinality(held[n]) = 1

\* At most one reconnect ticker runs, and one runs while the flag says so:
\* statuses of several networks in any order neither start a second chain of
\* ticks nor lose the flag.
OneTicker == ticks = IF ticking THEN 1 ELSE 0

\* A message on screen stays there while its channel does: late pages, polls
\* and local history only add.
NothingVanishes ==
  [][(active' = active /\ channel' = channel /\ msgs' # <<System>>)
       => ToSet(msgs) \subseteq ToSet(msgs')]_vars

\* A badge is cleared only for the channel that has just come on screen, on
\* the network it belongs to.
BadgeKept == [][unread \ unread' \subseteq {<<active', channel'>>}]_vars

\* Only messages of the network on screen are in the message list: events.go,
\* "Only the active network feeds the visible channel list and message view".
ScreenShowsActive == \A i \in DOMAIN msgs : msgs[i].net \in {None, active}
=============================================================================
