--------------------------- MODULE WsClientProofs ---------------------------
(***************************************************************************)
(* Proofs about WsClient, for channels of every capacity and any number of *)
(* sessions and frames.                                                    *)
(***************************************************************************)
EXTENDS WsClient, TLAPS

\* What the loop's state says of the connection it holds.
ConnInv ==
  /\ loop \in LoopStates
  /\ sessions \in 0..MaxSessions
  /\ conn \in 0..sessions
  /\ conn # 0 => loop \in {"connected", "reading"}

\* Sessions not dialed yet are unused, and only the one held is not closed.
SockInv ==
  /\ sock \in [Sessions -> {"unused", "open", "broken", "closed"}]
  /\ \A s \in Sessions : sessions < s => sock[s] = "unused"
  /\ \A s \in Sessions : sock[s] \in {"open", "broken"} => s = conn

IInv == ConnInv /\ SockInv

-----------------------------------------------------------------------------

LEMMA InitInv == Init => IInv
  BY ClientAssumption DEF Init, IInv, ConnInv, SockInv, LoopStates, Sessions

\* Whoever hangs up, the loop or Close, leaves no socket open.
LEMMA HangupCloses ==
  ASSUME IInv, Hangup
  PROVE  /\ conn' = 0
         /\ sock' \in [Sessions -> {"unused", "open", "broken", "closed"}]
         /\ \A s \in Sessions : sessions < s => sock'[s] = "unused"
         /\ \A s \in Sessions : sock'[s] \notin {"open", "broken"}
<1> USE ClientAssumption DEF IInv, ConnInv, SockInv, Sessions
<1>1. CASE conn = 0
  BY <1>1 DEF Hangup
<1>2. CASE conn # 0
  <2>1. conn \in Sessions /\ sock' = [sock EXCEPT ![conn] = "closed"] /\ conn' = 0
    BY <1>2 DEF Hangup
  <2>2. QED
    BY <2>1
<1>3. QED
  BY <1>1, <1>2

\* Every step keeps the invariant.
LEMMA StepInv == IInv /\ [Next]_vars => IInv'
<1> SUFFICES ASSUME IInv, [Next]_vars PROVE IInv'
  OBVIOUS
<1> USE ClientAssumption DEF link, adapter
<1>1. CASE StartDial
  BY <1>1 DEF StartDial, IInv, ConnInv, SockInv, LoopStates
<1>2. CASE DialSucceeds
  <2>1. conn = 0 /\ sessions + 1 \in Sessions
    BY <1>2 DEF DialSucceeds, IInv, ConnInv, Sessions
  <2>2. /\ sessions' = sessions + 1 /\ conn' = sessions + 1 /\ loop' = "connected"
        /\ sock' = [sock EXCEPT ![sessions + 1] = "open"]
    BY <1>2 DEF DialSucceeds
  <2>3. ConnInv'
    BY <2>1, <2>2 DEF IInv, ConnInv, LoopStates, Sessions
  <2>4. SockInv'
    BY <2>1, <2>2 DEF IInv, ConnInv, SockInv, Sessions
  <2>5. QED
    BY <2>3, <2>4 DEF IInv
<1>3. CASE DialFails \/ Announce \/ ReportLoss
  BY <1>3 DEF DialFails, Announce, ReportLoss, IInv, ConnInv, SockInv, LoopStates
<1>4. CASE Release
  <2>1. Hangup /\ loop' \in {"stopped", "lost"} /\ sessions' = sessions
    BY <1>4 DEF Release
  <2>2. QED
    BY <2>1, HangupCloses DEF IInv, ConnInv, SockInv, LoopStates
<1>5. CASE CloseConn
  <2>1. Hangup /\ UNCHANGED <<loop, sessions>>
    BY <1>5 DEF CloseConn
  <2>2. QED
    BY <2>1, HangupCloses DEF IInv, ConnInv, SockInv
<1>6. ASSUME NEW s \in Sessions, Break(s) PROVE IInv'
  BY <1>6 DEF Break, IInv, ConnInv, SockInv
<1>7. CASE UNCHANGED link
  BY <1>7 DEF IInv, ConnInv, SockInv
<1>8. QED
  BY <1>1, <1>2, <1>3, <1>4, <1>5, <1>6, <1>7
  DEF Next, LoopStep, FanStep, vars, ReadFrame, FanTakeStatus, FanTakeFrame,
      FanSend, FanEnds, Disconnect, Cancel, Update, Subscribe

\* The inductive invariant.
THEOREM Invariance == Spec => []IInv
  BY InitInv, StepInv, PTL DEF Spec

\* No socket is left behind, whatever Disconnect, the read loop's return and a
\* dial under way do to c.conn (client.go:95-138, 234-270, 301-334).
THEOREM NoneLeftBehind == Spec => []NoSocketLeak
<1>1. IInv => NoSocketLeak
  BY DEF IInv, ConnInv, SockInv, NoSocketLeak
<1>2. QED
  BY Invariance, <1>1, PTL

-----------------------------------------------------------------------------
(* What travels: types, and the event stream.                              *)

\* The channels and who moves what is in them.
QueueInv ==
  /\ statusCh \in Seq(Status) /\ Len(statusCh) <= StatusBuffer
  /\ frameCh \in Seq({"frame"}) /\ Len(frameCh) <= FrameBuffer
  /\ events \in Seq(Event) /\ Len(events) <= EventBuffer
  /\ fan \in Event \cup {"select", "ended"}
  /\ frames \in 0..MaxFrames
  /\ closer \in {"none", "closing", "returned"}

FlagInv ==
  /\ done \in BOOLEAN
  /\ ctx \in BOOLEAN
  /\ asking \in BOOLEAN
  /\ unheard \in BOOLEAN

\* A send that drops keeps a channel within its capacity.
LEMMA OfferFits ==
  ASSUME NEW S, NEW q \in Seq(S), NEW x \in S, NEW cap \in Nat, Len(q) <= cap
  PROVE  Offer(q, x, cap) \in Seq(S) /\ Len(Offer(q, x, cap)) <= cap
  BY DEF Offer

\* The queues but for the one step of each that moves them.
LEMMA QueueStep == QueueInv /\ [Next]_vars => QueueInv'
<1> SUFFICES ASSUME QueueInv, [Next]_vars PROVE QueueInv'
  OBVIOUS
<1> USE ClientAssumption
<1>1. CASE UNCHANGED <<statusCh, frameCh, events, fan, frames>> /\ closer' = closer
  BY <1>1 DEF QueueInv
<1>2. CASE DialFails \/ Announce \/ ReportLoss
  <2>1. PICK x \in Status : statusCh' = Offer(statusCh, x, StatusBuffer)
    BY <1>2 DEF DialFails, Announce, ReportLoss, Emit, Status
  <2>2. statusCh' \in Seq(Status) /\ Len(statusCh') <= StatusBuffer
    BY <2>1, OfferFits DEF QueueInv
  <2>3. QED
    BY <1>2, <2>2 DEF QueueInv, DialFails, Announce, ReportLoss, adapter
<1>3. CASE ReadFrame
  <2>1. frameCh' \in Seq({"frame"}) /\ Len(frameCh') <= FrameBuffer
    BY <1>3, OfferFits DEF ReadFrame, QueueInv
  <2>2. frames' \in 0..MaxFrames
    BY <1>3 DEF ReadFrame, QueueInv
  <2>3. QED
    BY <1>3, <2>1, <2>2 DEF QueueInv, ReadFrame, adapter
<1>4. CASE FanTakeStatus
  BY <1>4 DEF FanTakeStatus, QueueInv, Event, link
<1>5. CASE FanTakeFrame
  BY <1>5 DEF FanTakeFrame, QueueInv, Event, link
<1>6. CASE FanSend
  BY <1>6 DEF FanSend, QueueInv, Event, Status, link
<1>7. CASE FanEnds
  BY <1>7 DEF FanEnds, QueueInv, link
<1>8. CASE Disconnect \/ CloseConn
  BY <1>8 DEF Disconnect, CloseConn, QueueInv, adapter, link
<1>9. CASE Update
  BY <1>9 DEF Update, QueueInv, link
<1>10. QED
  BY <1>1, <1>2, <1>3, <1>4, <1>5, <1>6, <1>7, <1>8, <1>9
  DEF Next, LoopStep, FanStep, vars, adapter, StartDial, DialSucceeds, Release,
      Cancel, Subscribe, Break

LEMMA FlagStep == FlagInv /\ [Next]_vars => FlagInv'
<1> SUFFICES ASSUME FlagInv, [Next]_vars PROVE FlagInv'
  OBVIOUS
<1>1. CASE UNCHANGED <<done, ctx, asking, unheard>>
  BY <1>1 DEF FlagInv
<1>2. CASE DialFails \/ Announce \/ ReportLoss
  BY <1>2, Zenon DEF DialFails, Announce, ReportLoss, Emit, FlagInv
<1>3. CASE Disconnect
  BY <1>3, Zenon DEF Disconnect, FlagInv
<1>4. CASE Cancel
  BY <1>4, Zenon DEF Cancel, FlagInv
<1>5. CASE Update
  BY <1>5, Zenon DEF Update, FlagInv
<1>6. CASE Subscribe
  BY <1>6, Zenon DEF Subscribe, FlagInv
<1>7. QED
  BY <1>1, <1>2, <1>3, <1>4, <1>5, <1>6
  DEF Next, LoopStep, FanStep, vars, StartDial, DialSucceeds, ReadFrame, Release,
      FanTakeStatus, FanTakeFrame, FanSend, FanEnds, CloseConn, Break

\* What is subscribed was dialed: conn is a session once it is not 0.
SubscribedInv == subscribed \subseteq Sessions

LEMMA SubscribedStep == IInv /\ SubscribedInv /\ [Next]_vars => SubscribedInv'
<1> SUFFICES ASSUME IInv, SubscribedInv, [Next]_vars PROVE SubscribedInv'
  OBVIOUS
<1> USE DEF SubscribedInv
<1>1. CASE Subscribe
  BY <1>1, ClientAssumption DEF Subscribe, Connected, IInv, ConnInv, Sessions
<1>2. CASE UNCHANGED subscribed
  BY <1>2
<1>3. QED
  BY <1>1, <1>2
  DEF Next, LoopStep, FanStep, vars, StartDial, DialSucceeds, DialFails, Announce,
      ReadFrame, Release, ReportLoss, FanTakeStatus, FanTakeFrame, FanSend, FanEnds,
      Disconnect, CloseConn, Cancel, Update, Break

LEMMA FlowInvariance == Spec => [](QueueInv /\ FlagInv)
<1>1. Init => QueueInv
  BY ClientAssumption DEF Init, QueueInv
<1>2. Init => FlagInv
  BY DEF Init, FlagInv
<1>3. QED
  BY <1>1, <1>2, QueueStep, FlagStep, PTL DEF Spec

\* Type correctness: no channel is ever longer than its capacity, and the loop
\* dials no more sessions than the bound.
THEOREM TypeCorrect == Spec => []TypeOK
<1>1. IInv => conn \in 0..MaxSessions
  BY ClientAssumption DEF IInv, ConnInv
<1>2. IInv /\ QueueInv /\ FlagInv /\ SubscribedInv => TypeOK
  BY <1>1, Zenon DEF IInv, ConnInv, SockInv, QueueInv, FlagInv, SubscribedInv,
                      TypeOK
<1>3. Init => SubscribedInv
  BY DEF Init, SubscribedInv
<1>4. QED
  BY Invariance, FlowInvariance, SubscribedStep, <1>2, <1>3, PTL DEF Spec

-----------------------------------------------------------------------------
(* The adapter implements EventStream.                                     *)

LEMMA StreamStarts == Init => Relay!StreamInit
  BY DEF Init, Relay!StreamInit, Event, Status

\* Each step of the composition is a step of the stream, or none of its.
LEMMA StreamSteps ==
  QueueInv /\ FlagInv /\ [Next]_vars => [Relay!StreamNext]_(Relay!streamVars)
<1> SUFFICES ASSUME QueueInv, FlagInv, [Next]_vars
             PROVE  [Relay!StreamNext]_(Relay!streamVars)
  OBVIOUS
<1> USE DEF Relay!StreamNext, Relay!streamVars
<1>1. CASE UNCHANGED <<fan, events, done, ctx>>
  BY <1>1
<1>2. CASE FanTakeStatus \/ FanTakeFrame
  <2>1. PICK e \in Event : fan' = e
    BY <1>2 DEF FanTakeStatus, FanTakeFrame, QueueInv, Event
  <2>2. fan = "select" /\ UNCHANGED <<events, done, ctx>>
    BY <1>2 DEF FanTakeStatus, FanTakeFrame
  <2>3. Relay!Offer(e)
    BY <2>1, <2>2 DEF Relay!Offer, Event, Status
  <2>4. QED
    BY <2>1, <2>3
<1>3. CASE FanSend
  <2>1. Relay!Send
    BY <1>3 DEF FanSend, Relay!Send, Event, Status
  <2>2. QED
    BY <2>1
<1>4. CASE FanEnds
  <2>1. Relay!Close
    BY <1>4 DEF FanEnds, Relay!Close, Event, Status
  <2>2. QED
    BY <2>1
<1>5. CASE Disconnect \/ Cancel
  <2>1. Relay!Stop
    BY <1>5 DEF Disconnect, Cancel, Relay!Stop, FlagInv, adapter
  <2>2. QED
    BY <2>1
<1>6. CASE Update
  <2>1. Relay!Receive
    BY <1>6 DEF Update, Relay!Receive
  <2>2. QED
    BY <2>1
<1>7. QED
  BY <1>1, <1>2, <1>3, <1>4, <1>5, <1>6
  DEF Next, LoopStep, FanStep, vars, adapter, StartDial, DialSucceeds, DialFails,
      Announce, ReadFrame, Release, ReportLoss, CloseConn, Subscribe, Break

\* The relay's adapter implements the event stream of network/interface.go: what
\* fanIn has taken reaches the TUI in order, and the channel is closed once, only
\* after a request to stop, for channels of every capacity (adapter.go:177-224).
THEOREM RelayStreams == Spec => RelayIsStream
  BY StreamStarts, StreamSteps, FlowInvariance, PTL
  DEF Spec, RelayIsStream, Relay!StreamSpec
=============================================================================
