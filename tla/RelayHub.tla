------------------------------ MODULE RelayHub ------------------------------
(***************************************************************************)
(* The reference relay's hub (internal/relay/hub.go): the registry of      *)
(* WebSocket connections, the per-channel subscriptions, and the fan-out   *)
(* of event frames to bounded per-connection send buffers.                 *)
(*                                                                         *)
(* A process is a goroutine that calls the hub: the read pump of a         *)
(* connection (its identity is the connection) or an HTTP handler that     *)
(* publishes (a poster).  The write pump of a connection has the variable  *)
(* writer.  One step is the code between two points where another          *)
(* goroutine can interfere: a section under h.mu.Lock is one step that     *)
(* needs the lock free, a section under c.mu is one step, and a loop under *)
(* h.mu.RLock takes one step per connection it visits, since other readers *)
(* run beside it.  A process holds the read lock exactly while todo is not *)
(* empty: the connections the loop has still to visit.                     *)
(***************************************************************************)
EXTENDS Naturals, FiniteSets, Sequences

CONSTANTS
  Conns,       \* connections; a reconnecting client is a new one
  Posters,     \* HTTP handler goroutines that publish messages
  Users,       \* usernames clients identify with
  Channels,    \* channel names
  None,        \* the empty string: no username, no channel
  Buffer,      \* wsSendBuffer, the capacity of a send channel
  MaxActions,  \* bound: client actions handled in all
  MaxPosts     \* bound: messages published in all

ASSUME HubAssumption ==
  /\ Conns \cap Posters = {}
  /\ None \notin Users
  /\ Buffer \in Nat \ {0}
  /\ MaxActions \in Nat
  /\ MaxPosts \in Nat

VARIABLES
  conns,     \* h.conns: the registered connections
  channels,  \* h.channels: the subscribers of each channel ({}: no entry)
  username,  \* c.username (None until the client identifies)
  subs,      \* c.subs: the connection's own record of its channels
  sendq,     \* c.send: the frames buffered in the send channel
  closed,    \* connections whose send channel is closed
  pc,        \* where each process is
  todo,      \* connections a loop under h.mu.RLock has still to visit
  frame,     \* the frame a process is building or sending
  arg,       \* the channel of the subscribe or unsubscribe in hand
  writer,    \* the write pump: "absent", "running", "done"
  ws,        \* the socket: "open", "broken" (peer lost), "closed" (by us)
  online,    \* the last terminal_online set the client received (external)
  actions,   \* client actions handled, bounded by MaxActions
  posted     \* messages published, bounded by MaxPosts

registry == <<conns, channels, username, subs>>
pumps    == <<writer, ws, online>>
vars == <<registry, sendq, closed, pc, todo, frame, arg, pumps, actions, posted>>

Proc == Conns \cup Posters

\* wsEvent: each type carries only the fields its client reads; a message is
\* its publish number.
MessageFrame == [type : {"message"}, channel : Channels, id : Nat]
OnlineFrame  == [type : {"terminal_online"}, users : SUBSET Users]
StatusFrame  == [type : {"status_update"}, username : Users]
Frame        == MessageFrame \cup OnlineFrame \cup StatusFrame
NoFrame      == [type |-> "none"]

ReaderStates == {"absent", "reading", "subscribing", "unsubscribing",
                 "report", "failed", "closing"}
ProcStates   == ReaderStates \cup {"idle", "snapshot", "announce", "fan", "gone"}

TypeOK ==
  /\ conns \in SUBSET Conns
  /\ channels \in [Channels -> SUBSET Conns]
  /\ username \in [Conns -> Users \cup {None}]
  /\ subs \in [Conns -> SUBSET Channels]
  /\ sendq \in [Conns -> Seq(Frame)]
  /\ \A c \in Conns : Len(sendq[c]) <= Buffer
  /\ closed \in SUBSET Conns
  /\ pc \in [Proc -> ProcStates]
  /\ todo \in [Proc -> SUBSET Conns]
  /\ frame \in [Proc -> Frame \cup {NoFrame}]
  /\ arg \in [Conns -> Channels \cup {None}]
  /\ writer \in [Conns -> {"absent", "running", "done"}]
  /\ ws \in [Conns -> {"open", "broken", "closed"}]
  /\ online \in [Conns -> SUBSET Users]
  /\ actions \in Nat
  /\ posted \in Nat

Init ==
  /\ conns = {}
  /\ channels = [ch \in Channels |-> {}]
  /\ username = [c \in Conns |-> None]
  /\ subs = [c \in Conns |-> {}]
  /\ sendq = [c \in Conns |-> <<>>]
  /\ closed = {}
  /\ pc = [p \in Proc |-> IF p \in Conns THEN "absent" ELSE "idle"]
  /\ todo = [p \in Proc |-> {}]
  /\ frame = [p \in Proc |-> NoFrame]
  /\ arg = [c \in Conns |-> None]
  /\ writer = [c \in Conns |-> "absent"]
  /\ ws = [c \in Conns |-> "open"]
  /\ online = [c \in Conns |-> {}]
  /\ actions = 0
  /\ posted = 0

Goto(p, from, to) ==
  /\ pc[p] = from
  /\ pc' = [pc EXCEPT ![p] = to]

\* [fault] a section that changes a table without taking h.mu.
LockIgnoresReaders == TRUE

\* h.mu.Lock() succeeds: no process is inside a section under h.mu.RLock.
LockFree == \A p \in Proc : todo[p] = {}

-----------------------------------------------------------------------------
(* The read pump of connection c.                                          *)

\* ServeWS: upgrade, register and start the two pumps.
ServeWS(c) ==
  /\ LockFree
  /\ Goto(c, "absent", "reading")
  /\ conns' = conns \cup {c}
  /\ writer' = [writer EXCEPT ![c] = "running"]
  /\ UNCHANGED <<channels, username, subs, sendq, closed, todo, frame, arg,
                 ws, online, actions, posted>>

\* One frame read, while there is any: also once the peer is lost or the write
\* pump has closed the socket, for what has come is still in the read buffer.
ReadAction(c, to) ==
  /\ actions < MaxActions
  /\ actions' = actions + 1
  /\ Goto(c, "reading", to)

\* handleAction "identify": the name is set under c.mu alone, so it can land
\* in the middle of another goroutine's snapshot.
Identify(c, u) ==
  /\ ReadAction(c, "report")
  /\ username' = [username EXCEPT ![c] = u]
  /\ UNCHANGED <<conns, channels, subs, sendq, closed, todo, frame, arg,
                 pumps, posted>>

\* handleAction "status_update": BroadcastStatus to every connection.
StatusUpdate(c, u) ==
  /\ ReadAction(c, "announce")
  /\ frame' = [frame EXCEPT ![c] = [type |-> "status_update", username |-> u]]
  /\ UNCHANGED <<registry, sendq, closed, todo, arg, pumps, posted>>

\* subscribe, first half: the hub's table, under h.mu.
Subscribe(c, ch) ==
  /\ LockFree
  /\ ReadAction(c, "subscribing")
  /\ channels' = [channels EXCEPT ![ch] = @ \cup {c}]
  /\ arg' = [arg EXCEPT ![c] = ch]
  /\ UNCHANGED <<conns, username, subs, sendq, closed, todo, frame, pumps, posted>>

\* subscribe, second half: the connection's own record, under c.mu.
SubscribeRecord(c) ==
  /\ Goto(c, "subscribing", "reading")
  /\ subs' = [subs EXCEPT ![c] = @ \cup {arg[c]}]
  /\ arg' = [arg EXCEPT ![c] = None]
  /\ UNCHANGED <<conns, channels, username, sendq, closed, todo, frame, pumps,
                 actions, posted>>

Unsubscribe(c, ch) ==
  /\ LockFree
  /\ ReadAction(c, "unsubscribing")
  /\ channels' = [channels EXCEPT ![ch] = @ \ {c}]
  /\ arg' = [arg EXCEPT ![c] = ch]
  /\ UNCHANGED <<conns, username, subs, sendq, closed, todo, frame, pumps, posted>>

UnsubscribeRecord(c) ==
  /\ Goto(c, "unsubscribing", "reading")
  /\ subs' = [subs EXCEPT ![c] = @ \ {arg[c]}]
  /\ arg' = [arg EXCEPT ![c] = None]
  /\ UNCHANGED <<conns, channels, username, sendq, closed, todo, frame, pumps,
                 actions, posted>>

\* ReadMessage returns an error: the peer is lost, the pong deadline passed,
\* or our own write pump closed the socket.
ReadFails(c) ==
  /\ ws[c] # "open"
  /\ Goto(c, "reading", "failed")
  /\ UNCHANGED <<registry, sendq, closed, todo, frame, arg, pumps, actions, posted>>

\* [fault] unregister leaves the channel tables alone.
ChannelsKept(c) == channels

\* The channel tables without c, found through c's own record.
ChannelsWithout(c) ==
  [ch \in Channels |-> IF ch \in subs[c] THEN channels[ch] \ {c} ELSE channels[ch]]

\* unregister under h.mu (and c.mu): out of every table.
Unregister(c) ==
  /\ LockFree
  /\ Goto(c, "failed", "closing")
  /\ conns' = conns \ {c}
  /\ channels' = ChannelsWithout(c)
  /\ subs' = [subs EXCEPT ![c] = {}]
  /\ UNCHANGED <<username, sendq, closed, todo, frame, arg, pumps, actions, posted>>

\* unregister after the unlock: close(c.send).
CloseSend(c) ==
  /\ Goto(c, "closing", "report")
  /\ closed' = closed \cup {c}
  /\ UNCHANGED <<registry, sendq, todo, frame, arg, pumps, actions, posted>>

-----------------------------------------------------------------------------
(* Broadcasting, by any process p.                                         *)

\* broadcastTerminalOnline takes the read lock and starts its loop.
SnapshotBegin(p) ==
  /\ Goto(p, "report", "snapshot")
  /\ todo' = [todo EXCEPT ![p] = conns]
  /\ frame' = [frame EXCEPT ![p] = [type |-> "terminal_online", users |-> {}]]
  /\ UNCHANGED <<registry, sendq, closed, arg, pumps, actions, posted>>

\* One connection's name, read under its own c.mu; the last releases the lock.
SnapshotStep(p, c) ==
  /\ pc[p] = "snapshot"
  /\ c \in todo[p]
  /\ todo' = [todo EXCEPT ![p] = @ \ {c}]
  /\ frame' = [frame EXCEPT ![p].users = @ \cup ({username[c]} \ {None})]
  /\ UNCHANGED <<registry, sendq, closed, pc, arg, pumps, actions, posted>>

SnapshotEnd(p) ==
  /\ todo[p] = {}
  /\ Goto(p, "snapshot", "announce")
  /\ UNCHANGED <<registry, sendq, closed, todo, frame, arg, pumps, actions, posted>>

\* Publish calls BroadcastMessage once the message is stored.
Publish(p, ch) ==
  /\ posted < MaxPosts
  /\ Goto(p, "idle", "announce")
  /\ posted' = posted + 1
  /\ frame' = [frame EXCEPT ![p] = [type |-> "message", channel |-> ch, id |-> posted']]
  /\ UNCHANGED <<registry, sendq, closed, todo, arg, pumps, actions>>

\* broadcastChannel and broadcastAll: whom the frame is for.
Audience(f) == IF f.type = "message" THEN channels[f.channel] ELSE conns

\* They take the read lock and start the fan-out.
FanBegin(p) ==
  /\ Goto(p, "announce", "fan")
  /\ todo' = [todo EXCEPT ![p] = Audience(frame[p])]
  /\ UNCHANGED <<registry, sendq, closed, frame, arg, pumps, actions, posted>>

\* [fault] enqueue without the default branch's bound.
EnqueueUnbounded(q, f) == Append(q, f)

\* enqueue: a non-blocking send, dropped when the buffer is full.
Enqueue(q, f) == IF Len(q) < Buffer THEN Append(q, f) ELSE q

\* [fault] enqueue without the default branch: the send waits for room.
FanStepBlocking(p, c) ==
  /\ pc[p] = "fan"
  /\ c \in todo[p]
  /\ Len(sendq[c]) < Buffer
  /\ todo' = [todo EXCEPT ![p] = @ \ {c}]
  /\ sendq' = [sendq EXCEPT ![c] = Append(@, frame[p])]
  /\ UNCHANGED <<registry, closed, pc, frame, arg, pumps, actions, posted>>

FanStep(p, c) ==
  /\ pc[p] = "fan"
  /\ c \in todo[p]
  /\ todo' = [todo EXCEPT ![p] = @ \ {c}]
  /\ sendq' = [sendq EXCEPT ![c] = Enqueue(@, frame[p])]
  /\ UNCHANGED <<registry, closed, pc, frame, arg, pumps, actions, posted>>

\* The broadcast returns: to the handler's end, to the read loop, or, when it
\* was unregister's, to the end of the read pump, which closes the socket.
FanEnd(p) ==
  /\ pc[p] = "fan"
  /\ todo[p] = {}
  /\ frame' = [frame EXCEPT ![p] = NoFrame]
  /\ \/ /\ p \in Posters
        /\ pc' = [pc EXCEPT ![p] = "idle"]
        /\ UNCHANGED ws
     \/ /\ p \in Conns
        /\ p \notin closed
        /\ pc' = [pc EXCEPT ![p] = "reading"]
        /\ UNCHANGED ws
     \/ /\ p \in Conns
        /\ p \in closed
        /\ pc' = [pc EXCEPT ![p] = "gone"]
        /\ ws' = [ws EXCEPT ![p] = "closed"]
  /\ UNCHANGED <<registry, sendq, closed, todo, arg, writer, online, actions, posted>>

-----------------------------------------------------------------------------
(* The write pump of connection c, and its peer.                           *)

\* One frame written; a frame written to a lost peer is swallowed.
WriteFrame(c) ==
  /\ writer[c] = "running"
  /\ sendq[c] # <<>>
  /\ ws[c] # "closed"
  /\ sendq' = [sendq EXCEPT ![c] = Tail(@)]
  /\ online' = IF ws[c] = "open" /\ Head(sendq[c]).type = "terminal_online"
               THEN [online EXCEPT ![c] = Head(sendq[c]).users]
               ELSE online
  /\ UNCHANGED <<registry, closed, pc, todo, frame, arg, writer, ws, actions, posted>>

\* [fault] the write pump ends without its deferred ws.Close.
WriteFailsSocketLeft(c) ==
  /\ writer[c] = "running"
  /\ writer' = [writer EXCEPT ![c] = "done"]
  /\ UNCHANGED <<registry, sendq, closed, pc, todo, frame, arg, ws, online, actions, posted>>

\* A frame or a ping cannot be written (error or write deadline): the pump
\* closes the socket and ends, leaving the connection registered.
WriteFails(c) ==
  /\ writer[c] = "running"
  /\ writer' = [writer EXCEPT ![c] = "done"]
  /\ ws' = [ws EXCEPT ![c] = "closed"]
  /\ UNCHANGED <<registry, sendq, closed, pc, todo, frame, arg, online, actions, posted>>

\* The send channel is closed and drained: the close frame, then the end.
WriteClosed(c) ==
  /\ writer[c] = "running"
  /\ c \in closed
  /\ sendq[c] = <<>>
  /\ writer' = [writer EXCEPT ![c] = "done"]
  /\ ws' = [ws EXCEPT ![c] = "closed"]
  /\ UNCHANGED <<registry, sendq, closed, pc, todo, frame, arg, online, actions, posted>>

PeerLost(c) ==
  /\ writer[c] # "absent"
  /\ ws[c] = "open"
  /\ ws' = [ws EXCEPT ![c] = "broken"]
  /\ UNCHANGED <<registry, sendq, closed, pc, todo, frame, arg, writer, online,
                 actions, posted>>

-----------------------------------------------------------------------------

ReaderStep(c) ==
  \/ ServeWS(c)
  \/ \E u \in Users : Identify(c, u) \/ StatusUpdate(c, u)
  \/ \E ch \in Channels : Subscribe(c, ch) \/ Unsubscribe(c, ch)
  \/ SubscribeRecord(c)
  \/ UnsubscribeRecord(c)
  \/ ReadFails(c)
  \/ Unregister(c)
  \/ CloseSend(c)

BroadcastStep(p) ==
  \/ SnapshotBegin(p)
  \/ \E c \in Conns : SnapshotStep(p, c)
  \/ SnapshotEnd(p)
  \/ FanBegin(p)
  \/ \E c \in Conns : FanStep(p, c)
  \/ FanEnd(p)

WriterStep(c) == WriteFrame(c) \/ WriteFails(c) \/ WriteClosed(c)

Next ==
  \/ \E c \in Conns : ReaderStep(c)
  \/ \E p \in Posters, ch \in Channels : Publish(p, ch)
  \/ \E p \in Proc : BroadcastStep(p)
  \/ \E c \in Conns : WriterStep(c)
  \/ \E c \in Conns : PeerLost(c)

Spec == Init /\ [][Next]_vars

(* A runnable goroutine runs.  Unregister needs the write lock, which      *)
(* sync.RWMutex does not starve: a waiting Lock excludes later RLocks.     *)
(* ReadFails is the read deadline; nothing makes a client act, a peer      *)
(* vanish or a write fail.                                                 *)
Fairness ==
  /\ \A p \in Proc : WF_vars(BroadcastStep(p))
  /\ \A c \in Conns :
       /\ WF_vars(SubscribeRecord(c) \/ UnsubscribeRecord(c)
                    \/ ReadFails(c) \/ CloseSend(c))
       /\ SF_vars(Unregister(c))
       /\ WF_vars(WriteFrame(c) \/ WriteClosed(c) \/ (ws[c] = "closed" /\ WriteFails(c)))

FairSpec == Spec /\ Fairness

-----------------------------------------------------------------------------
(* Properties.                                                             *)

(* A broadcast never sends on a closed channel, which would panic and take *)
(* the whole relay down: whatever a fan-out still has to visit (enqueue,   *)
(* hub.go:267) has not been through unregister's close(c.send).            *)
NoSendOnClosed ==
  \A p \in Proc : \A c \in todo[p] : c \notin closed

(* The two tables agree.  Only registered connections are subscribed, so a *)
(* departed client leaves nothing behind in h.channels; and between two    *)
(* actions of a connection h.channels and c.subs say the same, although    *)
(* they are written under different locks (hub.go:142-173).                *)
RegistryConsistent ==
  \A c \in Conns, ch \in Channels :
    /\ c \in channels[ch] => c \in conns
    /\ pc[c] \notin {"subscribing", "unsubscribing"} =>
         (c \in channels[ch] <=> ch \in subs[c])

(* No message of a channel is queued to a connection that has left the     *)
(* channel: RELAY.md's "Stop receiving that channel's events" holds from   *)
(* the moment unsubscribe or unregister releases h.mu, even for a          *)
(* broadcast that started earlier.                                         *)
NoDeliveryAfterLeaving ==
  [][\A c \in Conns :
       Len(sendq'[c]) > Len(sendq[c]) =>
         LET f == sendq'[c][Len(sendq'[c])]
         IN  f.type = "message" => c \in channels[f.channel]]_vars

(* One slow or dead client never stalls the hub: every loop under the read *)
(* lock ends, whatever the write pumps do (hub.go:264-266).                *)
NoStall == \A p \in Proc : todo[p] # {} ~> todo[p] = {}

(* The two pumps of a connection end together: once either is finished, or *)
(* the socket is lost, the connection is unregistered, its send channel is *)
(* closed and no goroutine of it is left.                                  *)
PumpsEndTogether ==
  \A c \in Conns :
    ws[c] # "open" \/ writer[c] = "done" ~>
      pc[c] = "gone" /\ writer[c] = "done" /\ c \notin conns
=============================================================================
