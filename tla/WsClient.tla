------------------------------ MODULE WsClient ------------------------------
(***************************************************************************)
(* The client's side of the relay connection: the reconnect loop and the   *)
(* read loop of internal/wsclient/client.go, the goroutine of the adapter  *)
(* internal/network/discordrelay that fans the client's channels into the  *)
(* one event stream, and the part of the TUI that subscribes the channel   *)
(* on screen again after a reconnect (internal/tui/events.go, actions.go); *)
(* TuiSession models the TUI itself.                                       *)
(*                                                                         *)
(* c.connMu is held for a whole dial; every other section under it is one  *)
(* step that needs the dial to be over.  A session is one WebSocket        *)
(* connection, numbered in the order of the dials.  The frames of the four *)
(* event types travel through four channels in the same way, with a send   *)
(* that drops the frame when the channel is full; they are one channel     *)
(* here.                                                                   *)
(***************************************************************************)
EXTENDS Naturals, FiniteSets, Sequences

CONSTANTS
  StatusBuffer,  \* capacity of statusCh
  FrameBuffer,   \* capacity of msgCh, typingCh, presenceCh, termUsersCh
  EventBuffer,   \* capacity of the adapter's events channel
  MaxSessions,   \* bound: successful dials
  MaxFrames      \* bound: frames the relay sends

ASSUME ClientAssumption ==
  /\ {StatusBuffer, FrameBuffer, EventBuffer} \subseteq Nat \ {0}
  /\ {MaxSessions, MaxFrames} \subseteq Nat

VARIABLES
  loop,       \* where ConnectWithRetry and its readLoop are
  conn,       \* c.conn: a session number, 0 for nil
  sessions,   \* how many dials have succeeded
  sock,       \* each session's socket
  subscribed, \* sessions on which the relay has the channel on screen (external)
  statusCh,   \* c.statusCh
  frameCh,    \* c.msgCh and the other three
  done,       \* c.done and a.done are closed (Disconnect)
  closer,     \* where Disconnect is
  ctx,        \* the context is still live
  fan,        \* fanIn: "select", the event it is sending, or "ended"
  events,     \* a.events
  asking,     \* a subscribe command of the TUI is in flight
  unheard,    \* a "connected" status was dropped because statusCh was full
  frames      \* bounded by MaxFrames

link    == <<loop, conn, sessions, sock>>
adapter == <<fan, events>>
vars == <<link, subscribed, statusCh, frameCh, done, closer, ctx, adapter,
          asking, unheard, frames>>

Sessions == 1..MaxSessions
Status == {"connected", "disconnected", "reconnecting"}
Event  == Status \cup {"frame"}

LoopStates == {"start", "dialing", "connected", "reading", "lost", "retrying",
               "backoff", "stopped"}

TypeOK ==
  /\ loop \in LoopStates
  /\ conn \in 0..MaxSessions
  /\ sessions \in 0..MaxSessions
  /\ sock \in [Sessions -> {"unused", "open", "broken", "closed"}]
  /\ subscribed \subseteq Sessions
  /\ statusCh \in Seq(Status) /\ Len(statusCh) <= StatusBuffer
  /\ frameCh \in Seq({"frame"}) /\ Len(frameCh) <= FrameBuffer
  /\ events \in Seq(Event) /\ Len(events) <= EventBuffer
  /\ done \in BOOLEAN
  /\ closer \in {"none", "closing", "returned"}
  /\ ctx \in BOOLEAN
  /\ fan \in Event \cup {"select", "ended"}
  /\ asking \in BOOLEAN
  /\ unheard \in BOOLEAN
  /\ frames \in 0..MaxFrames

Init ==
  /\ loop = "start"
  /\ conn = 0
  /\ sessions = 0
  /\ sock = [s \in Sessions |-> "unused"]
  /\ subscribed = {}
  /\ statusCh = <<>>
  /\ frameCh = <<>>
  /\ done = FALSE
  /\ closer = "none"
  /\ ctx = TRUE
  /\ fan = "select"
  /\ events = <<>>
  /\ asking = FALSE
  /\ unheard = FALSE
  /\ frames = 0

\* c.connMu can be taken: no dial holds it.
ConnFree == loop # "dialing"

\* A write or a read on c.conn can succeed.
Connected == conn # 0 /\ sock[conn] = "open"

\* [fault] a send without a default case, into an unbounded channel.
SendAlways(q, x, cap) == Append(q, x)

\* A non-blocking send: dropped when the channel is full.
Offer(q, x, cap) == IF Len(q) < cap THEN Append(q, x) ELSE q

\* emitStatus, for one status.
Emit(status) ==
  /\ statusCh' = Offer(statusCh, status, StatusBuffer)
  /\ unheard' = (unheard \/ (status = "connected" /\ Len(statusCh) = StatusBuffer))

-----------------------------------------------------------------------------
(* ConnectWithRetry and readLoop.                                          *)

\* [fault] the wait before a retry ends with the timer alone, and so does the
\* loop's look at the context.
DialRegardless ==
  /\ loop \in {"start", "backoff"}
  /\ loop' = "dialing"
  /\ UNCHANGED <<conn, sessions, sock, subscribed, statusCh, frameCh, done,
                 closer, ctx, adapter, asking, unheard, frames>>

\* The loop begins or its backoff is over.  Whether the timer or the context
\* ended the wait, a dead context stops it; c.done is not looked at.
StartDial ==
  /\ loop \in {"start", "backoff"}
  /\ loop' = IF ctx THEN "dialing" ELSE "stopped"
  /\ UNCHANGED <<conn, sessions, sock, subscribed, statusCh, frameCh, done,
                 closer, ctx, adapter, asking, unheard, frames>>

DialSucceeds ==
  /\ loop = "dialing"
  /\ sessions < MaxSessions
  /\ sessions' = sessions + 1
  /\ conn' = sessions'
  /\ sock' = [sock EXCEPT ![sessions'] = "open"]
  /\ loop' = "connected"
  /\ UNCHANGED <<subscribed, statusCh, frameCh, done, closer, ctx, adapter,
                 asking, unheard, frames>>

DialFails ==
  /\ loop = "dialing"
  /\ loop' = "backoff"
  /\ Emit("reconnecting")
  /\ UNCHANGED <<conn, sessions, sock, subscribed, frameCh, done, closer, ctx,
                 adapter, asking, frames>>

\* [fault] only the first connection is announced.
AnnounceFirst ==
  /\ loop = "connected"
  /\ loop' = "reading"
  /\ IF sessions = 1 THEN Emit("connected") ELSE UNCHANGED <<statusCh, unheard>>
  /\ UNCHANGED <<conn, sessions, sock, subscribed, frameCh, done, closer, ctx,
                 adapter, asking, frames>>

\* The status goes out, then identify writes to the socket.
Announce ==
  /\ loop = "connected"
  /\ loop' = "reading"
  /\ Emit("connected")
  /\ UNCHANGED <<conn, sessions, sock, subscribed, frameCh, done, closer, ctx,
                 adapter, asking, frames>>

\* readLoop gets a frame; the relay sends one only on a subscribed channel.
ReadFrame ==
  /\ loop = "reading"
  /\ Connected
  /\ conn \in subscribed
  /\ frames < MaxFrames
  /\ frames' = frames + 1
  /\ frameCh' = Offer(frameCh, "frame", FrameBuffer)
  /\ UNCHANGED <<link, subscribed, statusCh, done, closer, ctx, adapter, asking,
                 unheard>>

\* The socket of c.conn is closed and c.conn set to nil.
Hangup ==
  /\ conn' = 0
  /\ sock' = IF conn = 0 THEN sock ELSE [sock EXCEPT ![conn] = "closed"]

\* [fault] a read loop that returns on c.done leaves the socket to Close.
ReleaseUnlessDone ==
  /\ loop = "reading"
  /\ done \/ ~Connected
  /\ IF done THEN UNCHANGED <<conn, sock>> ELSE Hangup
  /\ loop' = IF done THEN "stopped" ELSE "lost"
  /\ UNCHANGED <<sessions, subscribed, statusCh, frameCh, done, closer, ctx,
                 adapter, asking, unheard, frames>>

\* readLoop returns, because c.done is closed, c.conn is nil or the read failed;
\* its deferred function hangs up, then the loop looks at c.done.
Release ==
  /\ loop = "reading"
  /\ done \/ ~Connected
  /\ Hangup
  /\ loop' = IF done THEN "stopped" ELSE "lost"
  /\ UNCHANGED <<sessions, subscribed, statusCh, frameCh, done, closer, ctx,
                 adapter, asking, unheard, frames>>

\* Two statuses are emitted for a lost connection, one after the other.
ReportLoss ==
  /\ \/ loop = "lost" /\ loop' = "retrying" /\ Emit("disconnected")
     \/ loop = "retrying" /\ loop' = "backoff" /\ Emit("reconnecting")
  /\ UNCHANGED <<conn, sessions, sock, subscribed, frameCh, done, closer, ctx,
                 adapter, asking, frames>>

-----------------------------------------------------------------------------
(* The adapter.                                                            *)

\* fanIn receives from any channel that has something.
FanTakeStatus ==
  /\ fan = "select"
  /\ statusCh # <<>>
  /\ fan' = Head(statusCh)
  /\ statusCh' = Tail(statusCh)
  /\ UNCHANGED <<link, subscribed, frameCh, done, closer, ctx, events, asking,
                 unheard, frames>>

FanTakeFrame ==
  /\ fan = "select"
  /\ frameCh # <<>>
  /\ fan' = Head(frameCh)
  /\ frameCh' = Tail(frameCh)
  /\ UNCHANGED <<link, subscribed, statusCh, done, closer, ctx, events, asking,
                 unheard, frames>>

\* [fault] the send has a default case, and an event that finds a.events full is
\* lost.
FanSendOrDrop ==
  /\ fan \in Event
  /\ events' = Offer(events, fan, EventBuffer)
  /\ fan' = "select"
  /\ UNCHANGED <<link, subscribed, statusCh, frameCh, done, closer, ctx, asking,
                 unheard, frames>>

\* emit: the send blocks while the TUI lags.
FanSend ==
  /\ fan \in Event
  /\ Len(events) < EventBuffer
  /\ events' = Append(events, fan)
  /\ fan' = "select"
  /\ UNCHANGED <<link, subscribed, statusCh, frameCh, done, closer, ctx, asking,
                 unheard, frames>>

\* a.done or the context ends fanIn, also out of a blocked send; the events
\* channel is closed.
FanEnds ==
  /\ done \/ ~ctx
  /\ fan # "ended"
  /\ fan' = "ended"
  /\ UNCHANGED <<link, subscribed, statusCh, frameCh, done, closer, ctx,
                 events, asking, unheard, frames>>

\* Disconnect closes a.done, then Close closes c.done.
Disconnect ==
  /\ closer = "none"
  /\ closer' = "closing"
  /\ done' = TRUE
  /\ UNCHANGED <<link, subscribed, statusCh, frameCh, ctx, adapter, asking,
                 unheard, frames>>

\* Close goes on once it has c.connMu.
CloseConn ==
  /\ closer = "closing"
  /\ ConnFree
  /\ Hangup
  /\ closer' = "returned"
  /\ UNCHANGED <<loop, sessions, subscribed, statusCh, frameCh, done, ctx,
                 adapter, asking, unheard, frames>>

\* cmd/marga cancels the context after Disconnect.
Cancel ==
  /\ closer = "returned"
  /\ ctx
  /\ ctx' = FALSE
  /\ UNCHANGED <<link, subscribed, statusCh, frameCh, done, closer, adapter,
                 asking, unheard, frames>>

-----------------------------------------------------------------------------
(* The TUI and the network.                                                *)

\* onStatusEvent: "connected" starts subscribeCmd for the channel on screen.
Update ==
  /\ events # <<>>
  /\ events' = Tail(events)
  /\ asking' = (asking \/ Head(events) = "connected")
  /\ UNCHANGED <<link, subscribed, statusCh, frameCh, done, closer, ctx, fan,
                 unheard, frames>>

\* The goroutine of subscribeCmd: Subscribe of the client.  Without a
\* connection it fails and nothing retries it.  Several in flight are one.
Subscribe ==
  /\ asking
  /\ ConnFree
  /\ asking' = FALSE
  /\ subscribed' = IF Connected THEN subscribed \cup {conn} ELSE subscribed
  /\ UNCHANGED <<link, statusCh, frameCh, done, closer, ctx, adapter, unheard,
                 frames>>

\* The network or the relay breaks a session.
Break(s) ==
  /\ sock[s] = "open"
  /\ sock' = [sock EXCEPT ![s] = "broken"]
  /\ UNCHANGED <<loop, conn, sessions, subscribed, statusCh, frameCh, done,
                 closer, ctx, adapter, asking, unheard, frames>>

-----------------------------------------------------------------------------
LoopStep ==
  \/ StartDial
  \/ DialSucceeds
  \/ DialFails
  \/ Announce
  \/ ReadFrame
  \/ Release
  \/ ReportLoss

FanStep == FanTakeStatus \/ FanTakeFrame \/ FanSend \/ FanEnds

Next ==
  \/ LoopStep
  \/ FanStep
  \/ Disconnect
  \/ CloseConn
  \/ Cancel
  \/ Update
  \/ Subscribe
  \/ \E s \in Sessions : Break(s)

Spec == Init /\ [][Next]_vars

\* Goroutines run, and a select whose cases stay ready takes each in the end.
\* Nothing says that a dial ever succeeds, that the network breaks or that the
\* user acts.  Cancel follows a Disconnect that has returned.
Fairness ==
  /\ WF_vars(LoopStep)
  /\ WF_vars(FanSend)
  /\ SF_vars(FanTakeStatus)
  /\ WF_vars(FanEnds)
  /\ SF_vars(CloseConn)
  /\ WF_vars(Cancel)
  /\ WF_vars(Update)
  /\ SF_vars(Subscribe)

FairSpec == Spec /\ Fairness

-----------------------------------------------------------------------------
(* Properties.                                                             *)

\* No socket is ever left behind: one that the client has opened and not yet
\* closed is the one c.conn holds, and none is held once the loop has stopped,
\* however Disconnect, the read loop's return and a dial that was under way
\* interleave.
NoSocketLeak ==
  /\ \A s \in Sessions : sock[s] \in {"open", "broken"} => s = conn
  /\ loop = "stopped" => conn = 0

\* After every reconnect the channel on screen is subscribed again on the new
\* session, as long as the session lasts: the relay forgets subscriptions with
\* the connection and only the "connected" status restores them.  (A status
\* that finds statusCh full is dropped, and with it this promise.)
Resubscribed ==
  \A s \in Sessions :
    (sock[s] = "open" /\ conn = s)
      ~> (s \in subscribed \/ sock[s] # "open" \/ unheard \/ done)

\* Disconnect followed by the cancellation of the context stops every
\* goroutine, also when it falls into a dial or a backoff or finds fanIn
\* blocked on a TUI that no longer reads.
ShutdownCompletes == (done /\ ~ctx) ~> (loop = "stopped" /\ fan = "ended")

\* What the TUI gets of the relay's adapter.
Relay == INSTANCE EventStream
  WITH Events <- Event,
       NoEvent <- "none",
       Capacity <- EventBuffer,
       queue <- events,
       offered <- IF fan \in Event THEN fan ELSE "none",
       open <- fan # "ended",
       stopping <- done \/ ~ctx

\* fanIn is an event stream: whatever it has taken from one of the client's
\* channels reaches the TUI in order, however long a.events was full, unless the
\* adapter was asked to stop; it is closed once and nothing is sent after that.
RelayIsStream == Relay!StreamSpec
=============================================================================
