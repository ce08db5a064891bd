-------------------------- MODULE TuiSessionProofs --------------------------
(***************************************************************************)
(* Proofs about the session and what stands beside it, MCTui's four parts, *)
(* for every set of networks, any number of channels and any budget: the   *)
(* event streams, the reconnect ticker and the badges; the list of         *)
(* messages and the types; the mentions; a message on the screen and in    *)
(* the store; the panels.                                                  *)
(***************************************************************************)
EXTENDS MCTui, FiniteSetTheorems, SequenceTheorems, WellFoundedInduction, TLAPS

Body  == Message \cup [state : State]
Event == [seq : Nat, kind : {"message", "status"}, body : Body]

StreamTypes ==
  /\ clock \in Nat
  /\ events \in [Networks -> Seq(Event)]
  /\ armed \in [Networks -> Nat]
  /\ held \in [Networks -> SUBSET Event]
  /\ handled \in [Networks -> Nat]

(* The listener of a network waits, or it has taken the event that follows *)
(* the last one handled.                                                   *)
Waiting(n) == armed[n] = 1 /\ held[n] = {}
Holding(n) == armed[n] = 0 /\ \E e \in Event : held[n] = {e} /\ e.seq = handled[n] + 1

ListenInv == \A n \in Networks : Waiting(n) \/ Holding(n)

(* Queued events are numbered on from there.                               *)
NumberInv ==
  \A n \in Networks : \A i \in 1..Len(events[n]) :
    events[n][i].seq = handled[n] + Cardinality(held[n]) + i

StreamInv == StreamTypes /\ ListenInv /\ NumberInv

TickerInv ==
  /\ ticking \in BOOLEAN
  /\ OneTicker

-----------------------------------------------------------------------------

\* How many events the listener of a network has in hand.
LEMMA InHand ==
  ASSUME NEW n \in Networks
  PROVE  /\ Waiting(n) => Cardinality(held[n]) = 0
         /\ Holding(n) => Cardinality(held[n]) = 1
  BY FS_EmptySet, FS_Singleton DEF Waiting, Holding

LEMMA InitStream == Init => StreamInv
<1> SUFFICES ASSUME Init PROVE StreamInv
  OBVIOUS
<1>1. StreamTypes
  BY DEF Init, StreamTypes
<1>2. ListenInv
  BY DEF Init, ListenInv, Waiting
<1>3. NumberInv
  BY DEF Init, NumberInv
<1>4. QED
  BY <1>1, <1>2, <1>3 DEF StreamInv

\* An adapter that emits an event appends the next number to its own stream.
LEMMA EmitStream ==
  ASSUME StreamInv, clock' \in Nat, NEW n \in Networks, NEW kind \in {"message", "status"},
         NEW body \in Body, Emit(n, kind, body)
  PROVE  StreamInv'
<1> DEFINE num == handled[n] + Cardinality(held[n]) + Len(events[n]) + 1
           ev  == [seq |-> num, kind |-> kind, body |-> body]
<1>1. /\ events' = [events EXCEPT ![n] = Append(@, ev)]
      /\ UNCHANGED <<armed, held, handled>>
  BY DEF Emit
<1>2. events[n] \in Seq(Event) /\ handled[n] \in Nat /\ Len(events[n]) \in Nat
  BY DEF StreamInv, StreamTypes
<1>3. Cardinality(held[n]) \in Nat
  BY InHand DEF StreamInv, ListenInv
<1>4. num \in Nat
  BY <1>2, <1>3
<1>5. ev.seq = num /\ ev \in Event
  BY <1>4 DEF Event
<1> HIDE DEF ev
<1>6. StreamTypes'
  BY <1>1, <1>2, <1>5 DEF StreamInv, StreamTypes
<1>7. ListenInv'
  BY <1>1 DEF StreamInv, ListenInv, Waiting, Holding
<1>8. ASSUME NEW k \in Networks, NEW i \in 1..Len(events'[k])
      PROVE  events'[k][i].seq = handled'[k] + Cardinality(held'[k]) + i
  <2>1. CASE k # n
    BY <1>1, <1>8, <2>1 DEF StreamInv, StreamTypes, NumberInv
  <2>2. CASE k = n
    <3>1. events'[n] = Append(events[n], ev)
      BY <1>1 DEF StreamInv, StreamTypes
    <3>2. CASE i = Len(events[n]) + 1
      BY <1>1, <1>2, <1>3, <1>5, <2>2, <3>1, <3>2
    <3>3. CASE i \in 1..Len(events[n])
      BY <1>1, <1>2, <2>2, <3>1, <3>3 DEF StreamInv, NumberInv
    <3>4. Len(events'[n]) = Len(events[n]) + 1
      BY <1>2, <1>5, <3>1
    <3>5. QED
      BY <1>2, <2>2, <3>2, <3>3, <3>4
  <2>3. QED
    BY <2>1, <2>2
<1>9. QED
  BY <1>6, <1>7, <1>8 DEF StreamInv, NumberInv

\* A listener takes the head of its stream.
LEMMA TakeStream ==
  ASSUME StreamInv, NEW n \in Networks, Take(n)
  PROVE  StreamInv'
<1> DEFINE e == Head(events[n])
<1>1. /\ armed[n] > 0 /\ events[n] # <<>>
      /\ armed' = [armed EXCEPT ![n] = @ - 1]
      /\ held' = [held EXCEPT ![n] = @ \cup {e}]
      /\ events' = [events EXCEPT ![n] = Tail(@)]
      /\ handled' = handled /\ clock' = clock
  BY DEF Take, servers
<1>2. events[n] \in Seq(Event) /\ handled[n] \in Nat
  BY DEF StreamInv, StreamTypes
<1>3. Waiting(n)
  BY <1>1 DEF StreamInv, ListenInv, Waiting, Holding
<1>4. e \in Event /\ e = events[n][1] /\ 1 \in 1..Len(events[n])
  BY <1>1, <1>2
<1>5. e.seq = handled[n] + 1
  BY <1>2, <1>3, <1>4, InHand DEF StreamInv, NumberInv
<1> HIDE DEF e
<1>6. /\ armed'[n] = 0 /\ held'[n] = {e}
      /\ events'[n] = Tail(events[n])
      /\ \A k \in Networks : k # n =>
           armed'[k] = armed[k] /\ held'[k] = held[k] /\ events'[k] = events[k]
  BY <1>1, <1>3 DEF StreamInv, StreamTypes, Waiting
<1>7. StreamTypes'
  BY <1>1, <1>2, <1>3, <1>4 DEF StreamInv, StreamTypes, Waiting
<1>8. Holding(n)'
  BY <1>1, <1>4, <1>5, <1>6 DEF Holding
<1>9. ListenInv'
  BY <1>1, <1>6, <1>8 DEF StreamInv, ListenInv, Waiting, Holding
<1>10. ASSUME NEW k \in Networks, NEW i \in 1..Len(events'[k])
       PROVE  events'[k][i].seq = handled'[k] + Cardinality(held'[k]) + i
  <2>1. CASE k # n
    BY <1>1, <1>6, <1>10, <2>1 DEF StreamInv, NumberInv
  <2>2. CASE k = n
    <3>1. Cardinality(held'[n]) = 1 /\ Cardinality(held[n]) = 0
      BY <1>3, <1>6, InHand, FS_Singleton
    <3>2. i \in 1..Len(Tail(events[n]))
      BY <1>6, <1>10, <2>2
    <3>3. Len(Tail(events[n])) = Len(events[n]) - 1 /\ Len(events[n]) \in Nat
      BY <1>1, <1>2
    <3>4. i \in Nat /\ i + 1 \in 1..Len(events[n])
      BY <3>2, <3>3
    <3>5. Tail(events[n])[i] = events[n][i + 1]
      BY <1>1, <1>2, <3>2
    <3>6. events[n][i + 1].seq = handled[n] + 0 + (i + 1)
      BY <3>1, <3>4 DEF StreamInv, NumberInv
    <3>7. events'[k][i].seq = handled[n] + 0 + (i + 1)
      BY <1>6, <2>2, <3>5, <3>6
    <3>8. handled'[k] + Cardinality(held'[k]) + i = handled[n] + 1 + i
      BY <1>1, <2>2, <3>1
    <3>9. QED
      BY <1>2, <3>4, <3>7, <3>8
  <2>3. QED
    BY <2>1, <2>2
<1>11. QED
  BY <1>7, <1>9, <1>10 DEF StreamInv, NumberInv

\* Handling an event takes it from the listener and puts the listener back.
LEMMA FinishStream ==
  ASSUME StreamInv, clock' = clock, NEW n \in Networks, NEW e \in held[n], Finish(n, e)
  PROVE  /\ StreamInv'
         /\ handled'[n] = handled[n] + 1
         /\ \A k \in Networks : k # n => handled'[k] = handled[k]
<1>1. /\ held' = [held EXCEPT ![n] = @ \ {e}]
      /\ handled' = [handled EXCEPT ![n] = e.seq]
      /\ armed' = [armed EXCEPT ![n] = @ + 1]
      /\ events' = events
  BY DEF Finish, Rearm
<1>2. Holding(n)
  BY DEF StreamInv, ListenInv, Waiting
<1>3. armed[n] = 0 /\ held[n] = {e} /\ e.seq = handled[n] + 1 /\ handled[n] \in Nat
  BY <1>2 DEF Holding, StreamInv, StreamTypes
<1>4. /\ armed'[n] = 1 /\ held'[n] = {} /\ handled'[n] = handled[n] + 1
      /\ \A k \in Networks : k # n =>
           armed'[k] = armed[k] /\ held'[k] = held[k] /\ handled'[k] = handled[k]
  BY <1>1, <1>3 DEF StreamInv, StreamTypes
<1>5. StreamTypes'
  <2>1. armed' \in [Networks -> Nat]
    BY <1>1, <1>3 DEF StreamInv, StreamTypes
  <2>2. handled' \in [Networks -> Nat]
    BY <1>1, <1>3 DEF StreamInv, StreamTypes
  <2>3. held' \in [Networks -> SUBSET Event]
    BY <1>1 DEF StreamInv, StreamTypes
  <2>4. QED
    BY <1>1, <2>1, <2>2, <2>3 DEF StreamInv, StreamTypes
<1>6. ListenInv'
  BY <1>4 DEF StreamInv, ListenInv, Waiting, Holding
<1>7. ASSUME NEW k \in Networks, NEW i \in 1..Len(events'[k])
      PROVE  events'[k][i].seq = handled'[k] + Cardinality(held'[k]) + i
  <2>1. events[k][i].seq = handled[k] + Cardinality(held[k]) + i
    BY <1>1, <1>7 DEF StreamInv, NumberInv
  <2>2. CASE k # n
    BY <1>1, <1>4, <2>1, <2>2
  <2>3. CASE k = n
    <3>1. Cardinality(held'[n]) = 0 /\ Cardinality(held[n]) = 1
      BY <1>2, <1>4, InHand, FS_EmptySet
    <3>2. Len(events'[n]) \in Nat
      BY <1>5 DEF StreamTypes
    <3>3. i \in Nat
      BY <1>7, <2>3, <3>2
    <3>4. events'[k][i].seq = handled[n] + 1 + i
      BY <1>1, <2>1, <2>3, <3>1
    <3>5. handled'[k] + Cardinality(held'[k]) + i = handled[n] + 1 + 0 + i
      BY <1>4, <2>3, <3>1
    <3>6. QED
      BY <1>3, <3>3, <3>4, <3>5
  <2>4. QED
    BY <2>2, <2>3
<1>8. QED
  BY <1>4, <1>5, <1>6, <1>7 DEF StreamInv, NumberInv

-----------------------------------------------------------------------------
\* What a step may do to the streams, and to the ticker.
StreamMoves ==
  \/ UNCHANGED streams /\ clock' \in Nat
  \/ \E n \in Networks : \E kind \in {"message", "status"}, body \in Body :
       Emit(n, kind, body) /\ clock' \in Nat
  \/ \E n \in Networks : Take(n)
  \/ \E n \in Networks : \E e \in held[n] : Finish(n, e) /\ clock' = clock

LEMMA PostMoves ==
  ASSUME clock \in Nat, NEW n \in Networks, NEW ch \in Channels, NEW live \in BOOLEAN,
         Post(n, ch, live)
  PROVE  StreamMoves
<1> DEFINE m == [net |-> n, ch |-> ch, ts |-> clock + 1]
<1>1. clock' = clock + 1 /\ IF live THEN Emit(n, "message", m) ELSE UNCHANGED streams
  BY DEF Post
<1>2. clock' \in Nat /\ clock + 1 \in Nat
  BY <1>1
<1>3. m \in Message
  BY <1>2 DEF Message
<1>4. m \in Body
  BY <1>3 DEF Body
<1> HIDE DEF m
<1>5. QED
  BY <1>1, <1>2, <1>4 DEF StreamMoves

LEMMA ChangeMoves ==
  ASSUME clock \in Nat, NEW n \in Networks, NEW s \in State, ChangeState(n, s)
  PROVE  StreamMoves
<1> DEFINE b == [state |-> s]
<1>1. Emit(n, "status", b) /\ clock' = clock
  BY DEF ChangeState, servers
<1>2. b \in Body
  BY DEF Body
<1> HIDE DEF b
<1>3. QED
  BY <1>1, <1>2 DEF StreamMoves

\* Every other step leaves the streams alone.
LEMMA NextMoves ==
  ASSUME StreamInv, [Next]_vars
  PROVE  StreamMoves
<1>1. clock \in Nat
  BY DEF StreamInv, StreamTypes
<1>2. CASE UNCHANGED vars
  BY <1>1, <1>2 DEF vars, servers, streams, StreamMoves
<1>3. ASSUME NEW n \in Networks, NEW ch \in Channels, NEW live \in BOOLEAN, Post(n, ch, live)
      PROVE  StreamMoves
  BY <1>1, <1>3, PostMoves
<1>4. ASSUME NEW n \in Networks, NEW s \in State, ChangeState(n, s)
      PROVE  StreamMoves
  BY <1>1, <1>4, ChangeMoves
<1>5. ASSUME NEW n \in Networks, Take(n)
      PROVE  StreamMoves
  BY <1>5 DEF StreamMoves
<1>6. ASSUME NEW n \in Networks, NEW e \in held[n], OnMessage(n, e)
      PROVE  StreamMoves
  BY <1>6 DEF OnMessage, servers, StreamMoves
<1>7. ASSUME NEW n \in Networks, NEW e \in held[n], OnStatus(n, e)
      PROVE  StreamMoves
  BY <1>7 DEF OnStatus, servers, StreamMoves
<1>8. ASSUME NEW n \in Networks, SwitchNetwork(n)
      PROVE  StreamMoves
  BY <1>1, <1>8 DEF SwitchNetwork, servers, StreamMoves
<1>9. CASE OnTick
  BY <1>1, <1>9 DEF OnTick, servers, StreamMoves
<1>10. ASSUME NEW ch \in Channels, SwitchChannel(ch) \/ CycleChannel(ch) \/ LeaveChannel(ch)
       PROVE  StreamMoves
  BY <1>1, <1>10 DEF SwitchChannel, CycleChannel, LeaveChannel, servers, StreamMoves
<1>11. CASE LoadOlder
  BY <1>1, <1>11 DEF LoadOlder, servers, StreamMoves
<1>12. ASSUME NEW answered \in BOOLEAN, Refresh(answered)
       PROVE  StreamMoves
  BY <1>1, <1>12 DEF Refresh, servers, StreamMoves
<1>13. ASSUME NEW c \in calls,
              OnStaleHistory(c) \/ OnHistoryError(c) \/ OnHistory(c) \/ OnChannelsError(c)
       PROVE  StreamMoves
  BY <1>1, <1>13 DEF OnStaleHistory, OnHistoryError, OnHistory, OnChannelsError, servers,
     StreamMoves
<1>14. ASSUME NEW c \in calls, NEW ok \in BOOLEAN, NEW stored \in SUBSET Channels,
              OnLocal(c, ok, stored)
       PROVE  StreamMoves
  BY <1>1, <1>14 DEF OnLocal, servers, StreamMoves
<1>15. ASSUME NEW c \in calls, NEW list \in SUBSET Channels, OnChannels(c, list)
       PROVE  StreamMoves
  BY <1>1, <1>15 DEF OnChannels, servers, StreamMoves
<1>16. QED
  BY <1>2, <1>3, <1>4, <1>5, <1>6, <1>7, <1>8, <1>9, <1>10, <1>11, <1>12, <1>13,
     <1>14, <1>15 DEF Next

LEMMA StepStream ==
  ASSUME StreamInv, [Next]_vars
  PROVE  /\ StreamInv'
         /\ \A n \in Networks : handled'[n] # handled[n] => handled'[n] = handled[n] + 1
<1>1. StreamMoves
  BY NextMoves
<1>2. CASE UNCHANGED streams /\ clock' \in Nat
  BY <1>2 DEF streams, StreamInv, StreamTypes, ListenInv, NumberInv, Waiting, Holding
<1>3. ASSUME NEW n \in Networks, NEW kind \in {"message", "status"}, NEW body \in Body,
             Emit(n, kind, body), clock' \in Nat
      PROVE  StreamInv' /\ handled' = handled
  <2>1. StreamInv'
    BY <1>3, EmitStream
  <2>2. QED
    BY <1>3, <2>1 DEF Emit
<1>4. ASSUME NEW n \in Networks, Take(n)
      PROVE  StreamInv' /\ handled' = handled
  <2>1. StreamInv'
    BY <1>4, TakeStream
  <2>2. QED
    BY <1>4, <2>1 DEF Take
<1>5. ASSUME NEW n \in Networks, NEW e \in held[n], Finish(n, e), clock' = clock
      PROVE  /\ StreamInv'
             /\ handled'[n] = handled[n] + 1
             /\ \A k \in Networks : k # n => handled'[k] = handled[k]
  BY <1>5, FinishStream
<1>6. QED
  BY <1>1, <1>2, <1>3, <1>4, <1>5 DEF StreamMoves, streams

\* The event streams stay in order for every step of the session.
THEOREM Invariance == Spec => []StreamInv
<1>1. Init => StreamInv
  BY InitStream
<1>2. StreamInv /\ [Next]_vars => StreamInv'
  BY StepStream
<1>3. QED
  BY <1>1, <1>2, PTL DEF Spec

\* No network is ever without its one listener: app.go, listenNetwork.
THEOREM Listening == Spec => []AlwaysListening
<1>1. StreamInv => AlwaysListening
  <2> SUFFICES ASSUME StreamInv, NEW n \in Networks
               PROVE  armed[n] + Cardinality(held[n]) = 1
    BY DEF AlwaysListening
  <2>1. Waiting(n) \/ Holding(n)
    BY DEF StreamInv, ListenInv
  <2>2. CASE Waiting(n)
    BY <2>2, InHand DEF Waiting
  <2>3. CASE Holding(n)
    BY <2>3, InHand DEF Holding
  <2>4. QED
    BY <2>1, <2>2, <2>3
<1>2. QED
  BY <1>1, Invariance, PTL

\* Events are handled one after the other, as the adapter numbered them, whatever
\* the user and the answers in flight do: events.go, onMessageEvent and
\* onStatusEvent.
THEOREM HandledInOrder == Spec => EventsInOrder
<1> DEFINE A == \A n \in Networks : handled'[n] # handled[n] => handled'[n] = handled[n] + 1
<1>1. StreamInv /\ [Next]_vars => A
  BY StepStream
<1>2. QED
  BY <1>1, Invariance, PTL DEF Spec, EventsInOrder

-----------------------------------------------------------------------------
LEMMA StepTicker ==
  ASSUME TickerInv, [Next]_vars
  PROVE  TickerInv'
<1>1. CASE UNCHANGED reconnect
  BY <1>1 DEF reconnect, TickerInv, OneTicker
<1>2. ASSUME NEW n \in Networks, NEW e \in held[n], OnStatus(n, e)
      PROVE  TickerInv'
  <2> DEFINE start == e.body.state # "connected" /\ ~ticking
  <2>1. (ticking' <=> ticking \/ start) /\ ticking' \in BOOLEAN
    BY <1>2 DEF OnStatus, TickerInv
  <2>2. ticks' = IF start THEN ticks + 1 ELSE ticks
    BY <1>2 DEF OnStatus
  <2>3. start => ~ticking
    OBVIOUS
  <2> HIDE DEF start
  <2>4. CASE start
    <3>1. ticks = 0 /\ ticks' = ticks + 1
      BY <2>2, <2>3, <2>4 DEF TickerInv, OneTicker
    <3>2. ticks' = 1
      BY <3>1
    <3>3. QED
      BY <2>1, <2>4, <3>2 DEF TickerInv, OneTicker
  <2>5. CASE ~start
    <3>1. (ticking' <=> ticking) /\ ticks' = ticks
      BY <2>1, <2>2, <2>5
    <3>2. QED
      BY <2>1, <3>1 DEF TickerInv, OneTicker
  <2>6. QED
    BY <2>4, <2>5
<1>3. CASE OnTick
  <2>1. ticks > 0 /\ ticks' = ticks - 1 /\ ~ticking' /\ ticking' \in BOOLEAN
    BY <1>3 DEF OnTick
  <2>2. ticks = 0 \/ ticks = 1
    BY DEF TickerInv, OneTicker
  <2>3. ticks' = 0
    BY <2>1, <2>2
  <2>4. QED
    BY <2>1, <2>3 DEF TickerInv, OneTicker
<1>4. CASE UNCHANGED vars
  BY <1>1, <1>4 DEF vars
<1>5. ASSUME NEW n \in Networks,
             \/ \E ch \in Channels, live \in BOOLEAN : Post(n, ch, live)
             \/ \E s \in State : ChangeState(n, s)
             \/ Take(n)
             \/ \E e \in held[n] : OnMessage(n, e)
             \/ SwitchNetwork(n)
      PROVE  TickerInv'
  BY <1>1, <1>5 DEF Post, ChangeState, Take, OnMessage, SwitchNetwork
<1>6. ASSUME NEW ch \in Channels, SwitchChannel(ch) \/ CycleChannel(ch) \/ LeaveChannel(ch)
      PROVE  TickerInv'
  BY <1>1, <1>6 DEF SwitchChannel, CycleChannel, LeaveChannel
<1>7. CASE LoadOlder \/ \E answered \in BOOLEAN : Refresh(answered)
  BY <1>1, <1>7 DEF LoadOlder, Refresh
<1>8. ASSUME NEW c \in calls,
             OnStaleHistory(c) \/ OnHistoryError(c) \/ OnHistory(c) \/ OnChannelsError(c)
      PROVE  TickerInv'
  BY <1>1, <1>8 DEF OnStaleHistory, OnHistoryError, OnHistory, OnChannelsError
<1>9. ASSUME NEW c \in calls, NEW ok \in BOOLEAN, NEW stored \in SUBSET Channels,
             OnLocal(c, ok, stored)
      PROVE  TickerInv'
  BY <1>1, <1>9 DEF OnLocal
<1>10. ASSUME NEW c \in calls, NEW list \in SUBSET Channels, OnChannels(c, list)
       PROVE  TickerInv'
  BY <1>1, <1>10 DEF OnChannels
<1>11. QED
  BY <1>2, <1>3, <1>4, <1>5, <1>6, <1>7, <1>8, <1>9, <1>10 DEF Next

\* One chain of reconnect ticks at most, for any number of networks that lose
\* and regain their connection in any order: events.go, onStatusEvent.
THEOREM SingleTicker == Spec => []OneTicker
<1>1. Init => TickerInv
  BY DEF Init, TickerInv, OneTicker
<1>2. TickerInv /\ [Next]_vars => TickerInv'
  BY StepTicker
<1>3. TickerInv => OneTicker
  BY DEF TickerInv
<1>4. QED
  BY <1>1, <1>2, <1>3, PTL DEF Spec

-----------------------------------------------------------------------------
\* A badge goes only with the channel that has come on screen: clearUnread, at a
\* channel switch and at the channel list (tui.go).
THEOREM BadgesStay == Spec => BadgeKept
<1> DEFINE A == unread \ unread' \subseteq {<<active', channel'>>}
<1>1. ASSUME NEW ch \in Channels, SwitchChannel(ch)
      PROVE  A
  BY <1>1 DEF SwitchChannel, Show, Cleared
<1>2. ASSUME NEW c \in calls, NEW list \in SUBSET Channels, OnChannels(c, list)
      PROVE  A
  BY <1>2 DEF OnChannels, Show, Cleared
<1>3. unread \subseteq unread' => A
  OBVIOUS
<1>4. [Next]_vars => A
  <2>1. SUFFICES ASSUME [Next]_vars PROVE A
    OBVIOUS
  <2>2. CASE UNCHANGED vars
    BY <1>3, <2>2 DEF vars
  <2>3. ASSUME NEW n \in Networks,
               \/ \E ch \in Channels, live \in BOOLEAN : Post(n, ch, live)
               \/ \E s \in State : ChangeState(n, s)
               \/ Take(n)
               \/ \E e \in held[n] : OnMessage(n, e)
               \/ \E e \in held[n] : OnStatus(n, e)
               \/ SwitchNetwork(n)
        PROVE  A
    BY <1>3, <2>3 DEF Post, ChangeState, Take, OnMessage, OnStatus, SwitchNetwork
  <2>4. ASSUME NEW ch \in Channels, CycleChannel(ch) \/ LeaveChannel(ch)
        PROVE  A
    BY <1>3, <2>4 DEF CycleChannel, LeaveChannel
  <2>5. CASE OnTick \/ LoadOlder \/ \E answered \in BOOLEAN : Refresh(answered)
    BY <1>3, <2>5 DEF OnTick, LoadOlder, Refresh
  <2>6. ASSUME NEW c \in calls,
               OnStaleHistory(c) \/ OnHistoryError(c) \/ OnHistory(c) \/ OnChannelsError(c)
        PROVE  A
    BY <1>3, <2>6 DEF OnStaleHistory, OnHistoryError, OnHistory, OnChannelsError
  <2>7. ASSUME NEW c \in calls, NEW ok \in BOOLEAN, NEW stored \in SUBSET Channels,
               OnLocal(c, ok, stored)
        PROVE  A
    BY <1>3, <2>7 DEF OnLocal
  <2>8. QED
    BY <1>1, <1>2, <2>1, <2>2, <2>3, <2>4, <2>5, <2>6, <2>7 DEF Next
<1>5. QED
  BY <1>4, PTL DEF Spec, BadgeKept

-----------------------------------------------------------------------------
(* The message list.  A set of numbers has a least one; a place in the     *)
(* sorted list is the number of those that belong before, so that the      *)
(* places of all are different and fill the list.                          *)

LEMMA LeastNumber ==
  ASSUME NEW K \in SUBSET Nat, K # {}
  PROVE  \E t \in K : \A s \in K : t <= s
<1> DEFINE R == OpToRel(<, Nat)
<1>1. IsWellFoundedOn(R, Nat)
  BY NatLessThanWellFounded
<1>2. \A a, b \in Nat : a < b => <<a, b>> \in R
  BY DEF OpToRel
<1> HIDE DEF R
<1>3. PICK x \in K : \A y \in K : ~(<<y, x>> \in R)
  BY <1>1, WFMin
<1>4. \A s \in K : ~(s < x)
  BY <1>2, <1>3
<1>5. QED
  BY <1>4

\* What the list may hold: messages and the lines of the program.
Line == Message \cup [net : {None}, ch : {NoChannel}, ts : Nat]

InOrder(s) ==
  \A i, j \in DOMAIN s :
    i < j => /\ s[i].ts <= s[j].ts
             /\ s[i] = s[j] => s[i].net = None

Before(s, i, j) == Older(s[i], s[j]) \/ (s[i].ts = s[j].ts /\ i < j)
Ahead(s, i) == {j \in DOMAIN s : Before(s, j, i)}
Place(s, i) == Cardinality(Ahead(s, i)) + 1

LEMMA LineIs ==
  /\ \A x \in Line : x.ts \in Nat
  /\ \A m \in Message : m \in Line /\ m.net # None
  BY SessionAssumption DEF Line, Message

\* Everybody has a place of his own, in the order of Before, and none is empty.
LEMMA PlacesFill ==
  ASSUME NEW s \in Seq(Line)
  PROVE  /\ \A k \in DOMAIN s : \E i \in DOMAIN s : Place(s, i) = k
         /\ \A i \in DOMAIN s : Place(s, i) \in DOMAIN s
         /\ \A i, j \in DOMAIN s : Place(s, i) = Place(s, j) => i = j
         /\ \A i, j \in DOMAIN s : Place(s, i) < Place(s, j) => Before(s, i, j)
<1> DEFINE n == Len(s)
<1>1. n \in Nat /\ DOMAIN s = 1..n /\ \A i \in 1..n : s[i].ts \in Nat
  BY LineIs
<1>2. \A i, j \in 1..n : i # j => Before(s, i, j) \/ Before(s, j, i)
  BY <1>1 DEF Before, Older
<1>3. \A i, j, k \in 1..n : Before(s, i, j) /\ Before(s, j, k) => Before(s, i, k)
  BY <1>1 DEF Before, Older
<1>4. \A i \in 1..n : ~Before(s, i, i)
  BY <1>1 DEF Before, Older
<1>5. \A i \in 1..n : Ahead(s, i) \in SUBSET ((1..n) \ {i})
  BY <1>1, <1>4 DEF Ahead
<1>6. \A i, j \in 1..n : Before(s, i, j) <=> i \in Ahead(s, j)
  BY <1>1 DEF Ahead
<1> HIDE DEF n
<1>7. IsFiniteSet(1..n) /\ Cardinality(1..n) = n
  BY <1>1, FS_Interval
<1>8. \A i \in 1..n : /\ IsFiniteSet(Ahead(s, i)) /\ Cardinality(Ahead(s, i)) \in Nat
                      /\ Cardinality(Ahead(s, i)) <= n - 1
  <2> SUFFICES ASSUME NEW i \in 1..n
               PROVE  /\ IsFiniteSet(Ahead(s, i)) /\ Cardinality(Ahead(s, i)) \in Nat
                      /\ Cardinality(Ahead(s, i)) <= n - 1
    OBVIOUS
  <2>1. IsFiniteSet((1..n) \ {i}) /\ Cardinality((1..n) \ {i}) = n - 1
    BY <1>7, FS_RemoveElement
  <2>2. QED
    BY <1>5, <2>1, FS_Subset, FS_CardinalityType
<1>9. \A i, j \in 1..n : Before(s, i, j) => Place(s, i) < Place(s, j)
  <2> SUFFICES ASSUME NEW i \in 1..n, NEW j \in 1..n, Before(s, i, j)
               PROVE  Place(s, i) < Place(s, j)
    OBVIOUS
  <2>1. i \notin Ahead(s, i) /\ IsFiniteSet(Ahead(s, i))
    BY <1>5, <1>8
  <2>2. Cardinality(Ahead(s, i) \cup {i}) = Cardinality(Ahead(s, i)) + 1
    BY <2>1, FS_AddElement
  <2>3. Ahead(s, i) \cup {i} \in SUBSET Ahead(s, j)
    BY <1>3, <1>5, <1>6
  <2>4. Cardinality(Ahead(s, i) \cup {i}) <= Cardinality(Ahead(s, j))
    BY <1>8, <2>3, FS_Subset
  <2>5. QED
    BY <1>8, <2>2, <2>4 DEF Place
<1>10. \A i \in 1..n : Place(s, i) \in 1..n
  BY <1>1, <1>8 DEF Place
<1> DEFINE f == [i \in 1..n |-> Place(s, i)]
<1>11. f \in [1..n -> 1..n]
  BY <1>10
<1>12. \A i, j \in 1..n : f[i] = f[j] => i = j
  BY <1>2, <1>9, <1>10
<1>13. \A i \in 1..n : f[i] = Place(s, i)
  OBVIOUS
<1> HIDE DEF f
<1>14. f \in Injection(1..n, 1..n)
  BY <1>11, <1>12 DEF Injection, IsInjective
<1>15. f \in Surjection(1..n, 1..n)
  BY <1>7, <1>14, FS_Injection
<1>16. \A k \in 1..n : \E i \in 1..n : Place(s, i) = k
  BY <1>13, <1>15 DEF Surjection
<1>17. \A i, j \in 1..n : Place(s, i) < Place(s, j) => Before(s, i, j)
  BY <1>2, <1>9, <1>10
<1>18. \A i, j \in 1..n : Place(s, i) = Place(s, j) => i = j
  BY <1>12, <1>13
<1>19. QED
  BY <1>1, <1>10, <1>16, <1>17, <1>18

\* Sorting keeps what is in a list that holds no message twice, and orders it.
LEMMA SortedIs ==
  ASSUME NEW s \in Seq(Line),
         \A i, j \in DOMAIN s : i # j /\ s[i] = s[j] => s[i].net = None
  PROVE  /\ SortedByTime(s) \in Seq(Line) /\ InOrder(SortedByTime(s))
         /\ ToSet(SortedByTime(s)) = ToSet(s)
<1> DEFINE D == DOMAIN s
           p == [k \in D |-> CHOOSE i \in D : Place(s, i) = k]
           t == [k \in D |-> s[p[k]]]
<1>0. /\ \A k \in D : \E i \in D : Place(s, i) = k
      /\ \A i \in D : Place(s, i) \in D
      /\ \A i, j \in D : Place(s, i) = Place(s, j) => i = j
      /\ \A i, j \in D : Place(s, i) < Place(s, j) => Before(s, i, j)
  BY PlacesFill
<1>1. SortedByTime(s) = t
  BY DEF SortedByTime, Place, Ahead, Before
<1>2. \A k \in D : p[k] \in D /\ Place(s, p[k]) = k
  BY <1>0
<1>3. Len(s) \in Nat /\ D = 1..Len(s) /\ \A i \in D : s[i] \in Line
  OBVIOUS
<1>4. \A k \in D : t[k] = s[p[k]]
  OBVIOUS
<1>5. DOMAIN t = D /\ t \in [1..Len(s) -> Line]
  BY <1>2, <1>3
<1>6. t \in Seq(Line)
  BY <1>3, <1>5, SeqDef
<1> HIDE DEF D, p, t
<1>7. \A i \in D : Place(s, i) \in D
  BY <1>0
<1>8. \A i \in D : \E k \in D : p[k] = i
  BY <1>0, <1>2, <1>7
<1>9. ToSet(t) = ToSet(s)
  <2>1. ToSet(t) = {t[k] : k \in D}
    BY <1>5 DEF ToSet
  <2>2. ToSet(s) = {s[i] : i \in D}
    BY DEF ToSet, D
  <2>3. \A k \in D : \E i \in D : t[k] = s[i]
    BY <1>2, <1>4
  <2>4. \A i \in D : \E k \in D : s[i] = t[k]
    BY <1>4, <1>8
  <2>5. QED
    BY ZenonT(30), <2>1, <2>2, <2>3, <2>4
<1>10. ASSUME NEW i \in D, NEW j \in D, i < j
       PROVE  t[i].ts <= t[j].ts /\ (t[i] = t[j] => t[i].net = None)
  <2>1. Before(s, p[i], p[j]) /\ p[i] \in D /\ p[j] \in D
    BY <1>0, <1>2, <1>10
  <2>2. s[p[i]].ts \in Nat /\ s[p[j]].ts \in Nat /\ p[i] # p[j]
    BY <1>3, <2>1, LineIs DEF Before, Older
  <2>3. t[i].ts <= t[j].ts
    BY <1>4, <2>1, <2>2 DEF Before, Older
  <2>4. QED
    BY <1>4, <2>1, <2>2, <2>3 DEF D
<1>11. QED
  BY <1>1, <1>5, <1>6, <1>9, <1>10 DEF InOrder

\* SetToSeq lists a finite set.
LEMMA ListIs ==
  ASSUME NEW S, IsFiniteSet(S)
  PROVE  /\ SetToSeq(S) \in Seq(S)
         /\ IsInjective(SetToSeq(S))
         /\ ToSet(SetToSeq(S)) = S
<1> DEFINE n == Cardinality(S)
           q == SetToSeq(S)
<1>1. n \in Nat /\ ExistsBijection(1..n, S)
  BY FS_CardinalityType
<1>2. \E f \in [1..n -> S] : IsInjective(f)
  BY <1>1 DEF ExistsBijection, Bijection, Injection
<1>3. q \in [1..n -> S] /\ IsInjective(q)
  BY <1>2 DEF SetToSeq
<1> HIDE DEF q
<1>4. q \in Seq(S)
  BY <1>1, <1>3, SeqDef
<1>5. IsFiniteSet(1..n) /\ Cardinality(1..n) = n
  BY <1>1, FS_Interval
<1>6. q \in Injection(1..n, S)
  BY <1>3 DEF Injection
<1>7. Cardinality(1..n) = Cardinality(S)
  BY <1>5
<1> HIDE DEF n
<1>8. q \in Surjection(1..n, S)
  BY <1>6, <1>7, FS_Injection
<1>9. ToSet(q) = S
  BY <1>3, <1>8 DEF ToSet, Surjection
<1>10. QED
  BY <1>3, <1>4, <1>9 DEF q

\* A page is merged into the list: all that was there, all that is new, in order.
LEMMA MergeIs ==
  ASSUME NEW s \in Seq(Line), InOrder(s), NEW page \in SUBSET Message, IsFiniteSet(page)
  PROVE  /\ MergeMessages(s, page) \in Seq(Line) /\ InOrder(MergeMessages(s, page))
         /\ ToSet(MergeMessages(s, page)) = ToSet(s) \cup page
<1> DEFINE P == page \ ToSet(s)
           q == SetToSeq(P)
           all == s \o q
<1>1. P \in SUBSET page
  OBVIOUS
<1>2. MergeMessages(s, page) = SortedByTime(all)
  BY DEF MergeMessages
<1>3. ToSet(s) \cup P = ToSet(s) \cup page /\ P \cap ToSet(s) = {} /\ P \subseteq Line
  BY LineIs
<1> HIDE DEF P
<1>4. q \in Seq(P) /\ IsInjective(q) /\ ToSet(q) = P
  BY <1>1, FS_Subset, ListIs
<1> HIDE DEF q
<1>5. q \in Seq(Line)
  BY <1>3, <1>4, SeqMonotonic
<1>6. /\ all \in Seq(Line) /\ Len(all) = Len(s) + Len(q)
      /\ \A i \in 1..(Len(s) + Len(q)) : all[i] = IF i <= Len(s) THEN s[i] ELSE q[i - Len(s)]
  BY <1>5, ConcatProperties
<1>7. /\ Len(s) \in Nat /\ Len(q) \in Nat
      /\ DOMAIN s = 1..Len(s) /\ DOMAIN q = 1..Len(q)
  BY <1>5
<1>8. DOMAIN all = 1..(Len(s) + Len(q))
  BY <1>6
<1> HIDE DEF all
<1>9. \A i \in 1..Len(s) : s[i] \in ToSet(s) /\ i \in DOMAIN all /\ all[i] = s[i]
  BY <1>6, <1>7, <1>8 DEF ToSet
<1>10. \A i \in 1..Len(q) : q[i] \in P /\ Len(s) + i \in DOMAIN all /\ all[Len(s) + i] = q[i]
  BY <1>4, <1>6, <1>7, <1>8
<1>11. \A i \in DOMAIN all : i \in 1..Len(s) \/ \E j \in 1..Len(q) : i = Len(s) + j
  <2> SUFFICES ASSUME NEW i \in DOMAIN all, i \notin 1..Len(s)
               PROVE  i - Len(s) \in 1..Len(q) /\ i = Len(s) + (i - Len(s))
    OBVIOUS
  <2>1. QED
    BY <1>7, <1>8
<1>12. ToSet(all) = ToSet(s) \cup P
  <2>1. \A x \in ToSet(all) : x \in ToSet(s) \cup P
    BY <1>9, <1>10, <1>11 DEF ToSet
  <2>2. \A x \in ToSet(s) : x \in ToSet(all)
    BY <1>7, <1>9 DEF ToSet
  <2>3. \A x \in P : \E i \in 1..Len(q) : x = q[i]
    BY <1>4, <1>7 DEF ToSet
  <2>4. \A x \in P : x \in ToSet(all)
    BY <1>10, <2>3 DEF ToSet
  <2>5. QED
    BY <2>1, <2>2, <2>4
<1>13. ASSUME NEW i \in DOMAIN all, NEW j \in DOMAIN all, i # j, all[i] = all[j]
       PROVE  all[i].net = None
  <2>1. CASE i \in 1..Len(s) /\ j \in 1..Len(s)
    <3>1. i < j \/ j < i
      BY <1>7, <1>13, <2>1
    <3>2. QED
      BY <1>7, <1>9, <1>13, <2>1, <3>1 DEF InOrder
  <2>2. CASE i \notin 1..Len(s) /\ j \notin 1..Len(s)
    <3>1. PICK a \in 1..Len(q) : i = Len(s) + a
      BY <1>11, <2>2
    <3>2. PICK b \in 1..Len(q) : j = Len(s) + b
      BY <1>11, <2>2
    <3>3. q[a] = q[b] /\ a # b
      BY <1>10, <1>13, <3>1, <3>2
    <3>4. QED
      BY <1>4, <1>7, <3>3 DEF IsInjective
  <2>3. CASE i \in 1..Len(s) /\ j \notin 1..Len(s)
    BY <1>3, <1>9, <1>10, <1>11, <1>13, <2>3
  <2>4. CASE i \notin 1..Len(s) /\ j \in 1..Len(s)
    BY SMTT(30), <1>3, <1>9, <1>10, <1>11, <1>13, <2>4
  <2>5. QED
    BY <2>1, <2>2, <2>3, <2>4
<1>14. /\ SortedByTime(all) \in Seq(Line) /\ InOrder(SortedByTime(all))
       /\ ToSet(SortedByTime(all)) = ToSet(all)
  BY <1>6, <1>13, SortedIs
<1>15. QED
  BY <1>2, <1>3, <1>12, <1>14

\* The elements of a list into which one has been inserted.
LEMMA InsertAtIs ==
  ASSUME NEW s \in Seq(Line), NEW p \in 1..(Len(s) + 1), NEW e \in Line
  PROVE  /\ InsertAt(s, p, e) \in Seq(Line) /\ Len(InsertAt(s, p, e)) = Len(s) + 1
         /\ \A k \in 1..(Len(s) + 1) : InsertAt(s, p, e)[k] =
              IF k < p THEN s[k] ELSE IF k = p THEN e ELSE s[k - 1]
<1> DEFINE a == SubSeq(s, 1, p - 1)
           b == SubSeq(s, p, Len(s))
           c == <<e>>
<1>0. p \in Nat /\ p >= 1 /\ Len(s) \in Nat /\ p <= Len(s) + 1
  OBVIOUS
<1>1. a \in Seq(Line) /\ Len(a) = p - 1 /\ \A k \in 1..(p - 1) : a[k] = s[k]
  BY SubSeqProperties
<1>2. b \in Seq(Line) /\ Len(b) = Len(s) + 1 - p
      /\ \A k \in 1..(Len(s) + 1 - p) : b[k] = s[p + k - 1]
  BY SubSeqProperties
<1>3. c \in Seq(Line) /\ Len(c) = 1 /\ c[1] = e
  OBVIOUS
<1>4. InsertAt(s, p, e) = a \o c \o b
  BY DEF InsertAt
<1> HIDE DEF a, b, c
<1> DEFINE d == a \o c
<1>5. /\ d \in Seq(Line) /\ Len(d) = p
      /\ \A k \in 1..p : d[k] = IF k <= p - 1 THEN a[k] ELSE c[k - (p - 1)]
  <2>1. /\ d \in Seq(Line) /\ Len(d) = Len(a) + Len(c)
        /\ \A k \in 1..(Len(a) + Len(c)) :
             d[k] = IF k <= Len(a) THEN a[k] ELSE c[k - Len(a)]
    BY <1>1, <1>3, ConcatProperties
  <2> HIDE DEF d
  <2>2. Len(a) + Len(c) = p /\ Len(a) = p - 1
    BY <1>0, <1>1, <1>3
  <2>3. QED
    BY <2>1, <2>2
<1> HIDE DEF d
<1>6. d[p] = e /\ \A k \in 1..(p - 1) : d[k] = s[k]
  BY <1>0, <1>1, <1>3, <1>5
<1>7. d \in Seq(Line) /\ Len(d) = p
  BY <1>5
<1> DEFINE w == d \o b
<1>8. /\ w \in Seq(Line) /\ Len(w) = Len(s) + 1
      /\ \A k \in 1..(Len(s) + 1) : w[k] = IF k <= p THEN d[k] ELSE b[k - p]
  <2>1. /\ w \in Seq(Line) /\ Len(w) = Len(d) + Len(b)
        /\ \A k \in 1..(Len(d) + Len(b)) :
             w[k] = IF k <= Len(d) THEN d[k] ELSE b[k - Len(d)]
    BY <1>2, <1>7, ConcatProperties
  <2> HIDE DEF w
  <2>2. Len(d) + Len(b) = Len(s) + 1 /\ Len(d) = p
    BY <1>0, <1>2, <1>7
  <2>3. QED
    BY <2>1, <2>2
<1> HIDE DEF w
<1>9. ASSUME NEW k \in 1..(Len(s) + 1)
      PROVE  w[k] = IF k < p THEN s[k] ELSE IF k = p THEN e ELSE s[k - 1]
  <2>1. CASE k < p
    BY <1>0, <1>6, <1>8, <2>1
  <2>2. CASE k = p
    BY <1>0, <1>6, <1>8, <2>2
  <2>3. CASE k > p
    <3>1. k - p \in 1..(Len(s) + 1 - p) /\ p + (k - p) - 1 = k - 1
      BY <1>0, <2>3
    <3>2. b[k - p] = s[k - 1]
      BY <1>2, <3>1
    <3>3. QED
      BY <1>0, <1>8, <2>3, <3>2
  <2>4. QED
    BY <1>0, <2>1, <2>2, <2>3
<1>10. InsertAt(s, p, e) = w
  BY <1>4 DEF d, w
<1>11. QED
  BY <1>8, <1>9, <1>10

\* A message is inserted where its time puts it, unless it is there.
LEMMA InsertSortedIs ==
  ASSUME NEW s \in Seq(Line), InOrder(s), NEW m \in Message
  PROVE  /\ InsertSorted(s, m) \in Seq(Line) /\ InOrder(InsertSorted(s, m))
         /\ ToSet(InsertSorted(s, m)) = ToSet(s) \cup {m}
<1> DEFINE I == {k \in 1..Len(s) : Newer(s[k], m)}
           i == SelectInSeq(s, LAMBDA e : Newer(e, m))
           t == InsertSorted(s, m)
<1>1. m \in Line /\ m.ts \in Nat /\ Len(s) \in Nat /\ DOMAIN s = 1..Len(s)
      /\ \A k \in 1..Len(s) : s[k] \in Line /\ s[k].ts \in Nat
  BY LineIs
<1>2. CASE m \in ToSet(s)
  BY <1>2 DEF InsertSorted
<1>3. ASSUME m \notin ToSet(s), NEW p \in 1..(Len(s) + 1), t = InsertAt(s, p, m),
             \A k \in 1..(p - 1) : s[k].ts <= m.ts,
             \A k \in p..Len(s) : m.ts <= s[k].ts
      PROVE  t \in Seq(Line) /\ InOrder(t) /\ ToSet(t) = ToSet(s) \cup {m}
  <2> HIDE DEF t
  <2>1. /\ t \in Seq(Line) /\ Len(t) = Len(s) + 1
        /\ \A k \in 1..(Len(s) + 1) : t[k] =
             IF k < p THEN s[k] ELSE IF k = p THEN m ELSE s[k - 1]
    <3>1. /\ InsertAt(s, p, m) \in Seq(Line) /\ Len(InsertAt(s, p, m)) = Len(s) + 1
          /\ \A k \in 1..(Len(s) + 1) : InsertAt(s, p, m)[k] =
               IF k < p THEN s[k] ELSE IF k = p THEN m ELSE s[k - 1]
      BY SMTT(30), <1>1, InsertAtIs
    <3>2. QED
      BY <1>3, <3>1
  <2>2. DOMAIN t = 1..(Len(s) + 1) /\ p \in Nat /\ p >= 1 /\ p <= Len(s) + 1
    BY <1>1, <2>1
  <2>3. /\ \A k \in 1..(p - 1) : k \in DOMAIN t /\ t[k] = s[k] /\ k \in DOMAIN s
        /\ t[p] = m /\ p \in DOMAIN t
        /\ \A k \in p..Len(s) : k + 1 \in DOMAIN t /\ t[k + 1] = s[k] /\ k \in DOMAIN s
    BY <1>1, <2>1, <2>2
  <2>4. \A k \in DOMAIN t : \/ k \in 1..(p - 1) \/ k = p
                            \/ k - 1 \in p..Len(s) /\ t[k] = s[k - 1]
    BY <1>1, <2>1, <2>2
  <2>5. \A k \in DOMAIN s : s[k] # m
    BY <1>3 DEF ToSet
  <2>6. ASSUME NEW a \in DOMAIN t, NEW b \in DOMAIN t, a < b
        PROVE  t[a].ts <= t[b].ts /\ (t[a] = t[b] => t[a].net = None)
    <3>1. CASE b \in 1..(p - 1)
      <4>1. a \in 1..(p - 1)
        BY <2>2, <2>6, <3>1
      <4>2. QED
        BY <2>3, <2>6, <3>1, <4>1 DEF InOrder
    <3>2. CASE b = p
      <4>1. a \in 1..(p - 1)
        BY <2>2, <2>6, <3>2
      <4>2. QED
        BY <1>3, <2>3, <2>5, <3>2, <4>1
    <3>3. CASE b - 1 \in p..Len(s) /\ t[b] = s[b - 1]
      <4>1. b - 1 \in DOMAIN s /\ b - 1 \in p..Len(s)
        BY <2>3, <3>3
      <4>2. CASE a \in 1..(p - 1)
        <5>1. a < b - 1 /\ a \in DOMAIN s /\ t[a] = s[a]
          BY <2>2, <2>3, <3>3, <4>2
        <5>2. QED
          BY <3>3, <4>1, <5>1 DEF InOrder
      <4>3. CASE a = p
        BY <1>3, <2>3, <2>5, <3>3, <4>1, <4>3
      <4>4. CASE a - 1 \in p..Len(s) /\ t[a] = s[a - 1]
        <5>1. a - 1 < b - 1 /\ a - 1 \in DOMAIN s
          BY <2>2, <2>3, <2>6, <4>4
        <5>2. QED
          BY <3>3, <4>1, <4>4, <5>1 DEF InOrder
      <4>5. QED
        BY <2>4, <4>2, <4>3, <4>4
    <3>4. QED
      BY <2>4, <3>1, <3>2, <3>3
  <2>7. ToSet(t) = ToSet(s) \cup {m}
    <3>1. \A x \in ToSet(t) : x \in ToSet(s) \/ x = m
      BY <2>3, <2>4 DEF ToSet
    <3>2. \A k \in DOMAIN s : k \in 1..(p - 1) \/ k \in p..Len(s)
      BY <1>1, <2>2
    <3>3. \A k \in DOMAIN s : s[k] \in ToSet(t)
      BY <2>3, <3>2 DEF ToSet
    <3>4. m \in ToSet(t)
      BY <2>3 DEF ToSet
    <3>5. QED
      BY <3>1, <3>3, <3>4 DEF ToSet
  <2>8. QED
    BY <2>1, <2>6, <2>7 DEF InOrder
<1>4. i = IF I # {} THEN Min(I) ELSE 0
  BY DEF SelectInSeq
<1>5. I \in SUBSET (1..Len(s)) /\ \A k \in 1..Len(s) : k \in I <=> s[k].ts > m.ts
  BY DEF Newer
<1>6. CASE m \notin ToSet(s) /\ I = {}
  <2>1. i = 0 /\ t = Append(s, m)
    BY <1>4, <1>6 DEF InsertSorted
  <2>2. \A k \in 1..Len(s) : s[k].ts <= m.ts
    BY <1>1, <1>5, <1>6
  <2>3. /\ t \in Seq(Line) /\ Len(t) = Len(s) + 1
        /\ \A k \in 1..Len(s) : t[k] = s[k]
        /\ t[Len(s) + 1] = m
    BY <1>1, <2>1, AppendProperties
  <2> DEFINE n == Len(s) + 1
  <2>4. DOMAIN t = 1..n /\ n \in Nat /\ n \in DOMAIN t
    BY <1>1, <2>3
  <2> HIDE DEF t
  <2>5. \A k \in DOMAIN t : k \in 1..Len(s) \/ k = n
    BY <1>1, <2>4
  <2>6. \A k \in DOMAIN s : s[k] # m
    BY <1>6 DEF ToSet
  <2>7. ASSUME NEW a \in DOMAIN t, NEW b \in DOMAIN t, a < b
        PROVE  t[a].ts <= t[b].ts /\ (t[a] = t[b] => t[a].net = None)
    <3>1. a \in 1..Len(s)
      BY <1>1, <2>4, <2>7
    <3>2. CASE b = n
      BY <1>1, <2>2, <2>3, <2>6, <3>1, <3>2
    <3>3. CASE b \in 1..Len(s)
      BY <1>1, <2>3, <2>7, <3>1, <3>3 DEF InOrder
    <3>4. QED
      BY <2>5, <3>2, <3>3
  <2>8. ToSet(t) = ToSet(s) \cup {m}
    <3>1. \A k \in DOMAIN t : t[k] \in ToSet(s) \cup {m}
      BY <1>1, <2>3, <2>5 DEF ToSet
    <3>2. \A k \in DOMAIN s : s[k] \in ToSet(t)
      BY <1>1, <2>3, <2>4 DEF ToSet
    <3>3. m \in ToSet(t)
      BY <2>3, <2>4 DEF ToSet
    <3>4. QED
      BY <3>1, <3>2, <3>3 DEF ToSet
  <2>9. QED
    BY <2>3, <2>7, <2>8 DEF InOrder, t
<1>7. CASE m \notin ToSet(s) /\ I # {}
  <2>1. I \in SUBSET Nat
    BY <1>5
  <2>2. i = Min(I)
    BY <1>4, <1>7
  <2> HIDE DEF I
  <2>3. \E x \in I : \A y \in I : x <= y
    BY <1>7, <2>1, LeastNumber
  <2>4. Min(I) \in I /\ \A y \in I : Min(I) <= y
    BY <2>3 DEF Min
  <2>5. PICK p : p = Min(I)
    OBVIOUS
  <2>6. p \in 1..Len(s) /\ p \in 1..(Len(s) + 1) /\ s[p].ts > m.ts /\ p # 0
    <3>1. p \in 1..Len(s)
      BY <1>5, <2>4, <2>5
    <3>2. s[p].ts > m.ts
      BY <1>5, <2>4, <2>5, <3>1
    <3>3. QED
      BY <1>1, <3>1, <3>2
  <2>7. t = InsertAt(s, p, m)
    BY <1>7, <2>2, <2>5, <2>6 DEF InsertSorted
  <2> HIDE DEF i, t
  <2>8. \A k \in 1..(p - 1) : s[k].ts <= m.ts
    BY <1>1, <1>5, <2>4, <2>5, <2>6
  <2>9. \A k \in p..Len(s) : m.ts <= s[k].ts
    BY <1>1, <2>6 DEF InOrder
  <2>10. t \in Seq(Line) /\ InOrder(t) /\ ToSet(t) = ToSet(s) \cup {m}
    BY <1>3, <1>7, <2>6, <2>7, <2>8, <2>9
  <2>11. QED
    BY <2>10 DEF t
<1>8. QED
  BY <1>2, <1>6, <1>7

-----------------------------------------------------------------------------
(* The session's state.  Whatever a call brings, a listener holds or the   *)
(* store has kept is in the log of some network, and no message there is   *)
(* ahead of the clock: a line of the program that is put at the end of the *)
(* list belongs there.                                                     *)

LogInv ==
  /\ clock \in Nat
  /\ log \subseteq Message /\ IsFiniteSet(log)
  /\ \A m \in log : m.ts <= clock

Sound(e) ==
  \/ e.kind = "message" /\ e.body \in log
  \/ e.kind = "status" /\ e.body.state \in State

BodyInv ==
  \A n \in Networks :
    /\ \A i \in 1..Len(events[n]) : Sound(events[n][i])
    /\ \A e \in held[n] : Sound(e)

CallInv ==
  /\ disk \subseteq log
  /\ \A c \in calls :
       /\ c.kind \in Kinds
       /\ c.ch \in Channels \cup {NoChannel}
       /\ c.kind = "local" => c.ch \in Channels
       /\ c.page \subseteq log

PlaceInv ==
  /\ active \in Networks
  /\ channel \in Channels \cup {NoChannel}
  /\ channels \subseteq Channels
  /\ unread \subseteq Networks \X Channels
  /\ status \in State

SessInv == StreamInv /\ LogInv /\ BodyInv /\ CallInv /\ PlaceInv

\* The networks' logs only grow.
LEMMA LogStep ==
  ASSUME LogInv, [Next]_vars
  PROVE  LogInv' /\ log \subseteq log' /\ clock' \in Nat /\ clock <= clock'
<1> USE DEF LogInv
<1>1. ASSUME NEW n \in Networks, NEW ch \in Channels, NEW live \in BOOLEAN, Post(n, ch, live)
      PROVE  LogInv' /\ log \subseteq log' /\ clock' \in Nat /\ clock <= clock'
  <2> DEFINE m == [net |-> n, ch |-> ch, ts |-> clock + 1]
  <2>1. clock' = clock + 1 /\ log' = log \cup {m}
    BY <1>1 DEF Post
  <2>2. m \in Message /\ m.ts = clock + 1
    BY DEF Message
  <2>3. \A o \in log : o.ts \in Nat
    BY DEF Message
  <2> HIDE DEF m
  <2>4. IsFiniteSet(log')
    BY <2>1, FS_AddElement
  <2>5. QED
    BY <2>1, <2>2, <2>3, <2>4
<1>2. CASE UNCHANGED servers
  BY <1>2 DEF servers
<1>3. QED
  BY <1>1, <1>2
  DEF Next, vars, ChangeState, Take, OnMessage, OnStatus, SwitchNetwork, OnTick,
      SwitchChannel, CycleChannel, LeaveChannel, LoadOlder, Refresh, OnStaleHistory,
      OnHistoryError, OnHistory, OnLocal, OnChannelsError, OnChannels

\* What is emitted joins the stream at its end.
LEMMA EmitBody ==
  ASSUME SessInv, log \subseteq log', NEW n \in Networks,
         NEW kind \in {"message", "status"}, NEW body, Emit(n, kind, body),
         kind = "message" => body \in log',
         kind = "status" => body.state \in State
  PROVE  BodyInv'
<1> DEFINE num == handled[n] + Cardinality(held[n]) + Len(events[n]) + 1
           ev  == [seq |-> num, kind |-> kind, body |-> body]
<1>1. /\ events' = [events EXCEPT ![n] = Append(@, ev)]
      /\ held' = held
  BY DEF Emit
<1>2. \A k \in Networks : events[k] \in Seq(Event)
  BY DEF SessInv, StreamInv, StreamTypes
<1>3. ev.kind = kind /\ ev.body = body
  OBVIOUS
<1> HIDE DEF ev
<1>4. /\ events'[n] = Append(events[n], ev)
      /\ \A k \in Networks : k # n => events'[k] = events[k]
  BY <1>1 DEF SessInv, StreamInv, StreamTypes
<1>5. \A e : Sound(e) => Sound(e)'
  BY DEF Sound
<1>6. PICK x : x = ev
  OBVIOUS
<1>61. Sound(x)'
  BY <1>3, <1>6 DEF Sound
<1>7. ASSUME NEW k \in Networks, NEW i \in 1..Len(events'[k]) PROVE Sound(events[k][i])'
  <2>1. CASE k # n
    BY <1>4, <1>5, <1>7, <2>1 DEF SessInv, BodyInv
  <2>2. CASE k = n
    <3>1. Len(events'[n]) = Len(events[n]) + 1 /\ Len(events[n]) \in Nat
      BY <1>2, <1>4
    <3>2. CASE i \in 1..Len(events[n])
      <4>1. events'[n][i] = events[n][i]
        BY <1>2, <1>4, <3>2
      <4>2. QED
        BY <1>5, <2>2, <3>2, <4>1 DEF SessInv, BodyInv
    <3>3. CASE i = Len(events[n]) + 1
      <4>1. events'[n][i] = x
        BY <1>2, <1>4, <1>6, <3>3
      <4>2. QED
        BY <1>61, <2>2, <4>1 DEF Sound
    <3>4. QED
      BY <1>7, <2>2, <3>1, <3>2, <3>3
  <2>3. QED
    BY <2>1, <2>2
<1>8. \A k \in Networks : \A e \in held'[k] : Sound(e)'
  BY <1>1, <1>5 DEF SessInv, BodyInv
<1>9. QED
  BY <1>7, <1>8 DEF BodyInv

\* Events are about messages of the log, or have a status.
LEMMA BodyStep == SessInv /\ [Next]_vars => BodyInv'
<1> SUFFICES ASSUME SessInv, [Next]_vars PROVE BodyInv'
  OBVIOUS
<1>0. log \subseteq log'
  BY LogStep DEF SessInv
<1>1. \A e : Sound(e) => Sound(e)'
  BY <1>0 DEF Sound
<1>2. ASSUME NEW n \in Networks, NEW ch \in Channels, NEW live \in BOOLEAN, Post(n, ch, live)
      PROVE  BodyInv'
  <2> DEFINE m == [net |-> n, ch |-> ch, ts |-> clock + 1]
  <2>1. m \in log' /\ IF live THEN Emit(n, "message", m) ELSE UNCHANGED streams
    BY <1>2 DEF Post
  <2> HIDE DEF m
  <2>2. CASE live
    BY <1>0, <2>1, <2>2, EmitBody
  <2>3. CASE ~live
    BY <1>1, <2>1, <2>3 DEF streams, SessInv, BodyInv
  <2>4. QED
    BY <2>2, <2>3
<1>3. ASSUME NEW n \in Networks, NEW s \in State, ChangeState(n, s)
      PROVE  BodyInv'
  <2> DEFINE b == [state |-> s]
  <2>1. Emit(n, "status", b) /\ b.state \in State
    BY <1>3 DEF ChangeState
  <2> HIDE DEF b
  <2>2. QED
    BY <1>0, <2>1, EmitBody
<1>4. ASSUME NEW n \in Networks, Take(n)
      PROVE  BodyInv'
  <2> DEFINE e == Head(events[n])
  <2>1. /\ events[n] # <<>>
        /\ held' = [held EXCEPT ![n] = @ \cup {e}]
        /\ events' = [events EXCEPT ![n] = Tail(@)]
    BY <1>4 DEF Take
  <2>2. events[n] \in Seq(Event)
    BY DEF SessInv, StreamInv, StreamTypes
  <2>3. e = events[n][1] /\ 1 \in 1..Len(events[n])
    BY <2>1, <2>2
  <2>4. Sound(e)
    BY <2>3 DEF SessInv, BodyInv
  <2> HIDE DEF e
  <2>5. /\ events'[n] = Tail(events[n]) /\ held'[n] = held[n] \cup {e}
        /\ \A k \in Networks : k # n => held'[k] = held[k] /\ events'[k] = events[k]
    BY <2>1 DEF SessInv, StreamInv, StreamTypes
  <2>6. /\ Len(Tail(events[n])) = Len(events[n]) - 1 /\ Len(events[n]) \in Nat
        /\ \A i \in 1..Len(Tail(events[n])) : Tail(events[n])[i] = events[n][i + 1]
    BY <2>1, <2>2, HeadTailProperties
  <2>7. \A i \in 1..Len(events'[n]) : Sound(events'[n][i])
    <3> SUFFICES ASSUME NEW i \in 1..Len(events'[n]) PROVE Sound(events'[n][i])
      OBVIOUS
    <3>1. i + 1 \in 1..Len(events[n]) /\ events'[n][i] = events[n][i + 1]
      BY <2>5, <2>6
    <3>2. QED
      BY <3>1 DEF SessInv, BodyInv
  <2>8. \A k \in Networks : \A i \in 1..Len(events'[k]) : Sound(events'[k][i])
    BY <2>5, <2>7 DEF SessInv, BodyInv
  <2>9. \A k \in Networks : \A x \in held'[k] : Sound(x)
    BY <2>4, <2>5 DEF SessInv, BodyInv
  <2>10. QED
    BY <1>1, <2>8, <2>9 DEF BodyInv
<1>5. ASSUME NEW n \in Networks, NEW e \in held[n], OnMessage(n, e) \/ OnStatus(n, e)
      PROVE  BodyInv'
  <2>1. held' = [held EXCEPT ![n] = @ \ {e}] /\ events' = events
    BY <1>5 DEF OnMessage, OnStatus, Finish
  <2>2. \A k \in Networks : held'[k] \subseteq held[k]
    BY <2>1 DEF SessInv, StreamInv, StreamTypes
  <2>3. QED
    BY <1>1, <2>1, <2>2 DEF SessInv, BodyInv
<1>6. CASE UNCHANGED streams
  BY <1>1, <1>6 DEF streams, SessInv, BodyInv
<1>7. QED
  BY <1>2, <1>3, <1>4, <1>5, <1>6
  DEF Next, vars, SwitchNetwork, OnTick, SwitchChannel, CycleChannel, LeaveChannel,
      LoadOlder, Refresh, OnStaleHistory, OnHistoryError, OnHistory, OnLocal,
      OnChannelsError, OnChannels

\* A call brings messages of the log.
LEMMA CallIs ==
  ASSUME SessInv, NEW kind \in Kinds, NEW net, NEW ch \in Channels \cup {NoChannel},
         NEW cursor
  PROVE  LET c == Call(kind, net, ch, cursor)
         IN  c.kind = kind /\ c.ch = ch /\ c.page \subseteq log
<1>1. disk \subseteq log
  BY DEF SessInv, CallInv
<1>2. Page(kind, net, ch, cursor) \subseteq log
  BY <1>1 DEF Page, Kinds
<1>3. QED
  BY <1>2 DEF Call

LEMMA LoadsAre ==
  ASSUME SessInv, NEW net, NEW ch \in Channels
  PROVE  \A c \in LoadsOf(net, ch) : c.kind \in Kinds /\ c.ch = ch /\ c.page \subseteq log
  BY CallIs DEF LoadsOf, Kinds

\* The first of a list of channels is in it.
LEMMA FirstIs ==
  ASSUME NEW S \in SUBSET Channels, S # {}
  PROVE  First(S) \in S
<1>1. S \in SUBSET Nat
  BY SessionAssumption DEF Channels
<1>2. \E x \in S : \A y \in S : x <= y
  BY <1>1, LeastNumber
<1>3. QED
  BY <1>2 DEF First

\* Coming on screen starts the two loads of the channel.
LEMMA ShowCalls ==
  ASSUME SessInv, CallInv, UNCHANGED <<log, disk>>, NEW ch \in Channels,
         NEW rest \in SUBSET calls, calls' = rest \cup LoadsOf(active, ch)
  PROVE  CallInv'
<1>1. \A c \in LoadsOf(active, ch) : c.kind \in Kinds /\ c.ch = ch /\ c.page \subseteq log
  BY LoadsAre
<1>2. QED
  BY <1>1 DEF CallInv

\* What calls bring and the store keeps is in the log.
LEMMA CallStep == SessInv /\ [Next]_vars => CallInv'
<1> SUFFICES ASSUME SessInv, [Next]_vars PROVE CallInv'
  OBVIOUS
<1>0. log \subseteq log' /\ CallInv /\ PlaceInv
  BY LogStep DEF SessInv
<1>1. CASE UNCHANGED <<calls, disk>>
  BY <1>0, <1>1 DEF CallInv
<1>2. ASSUME NEW n \in Networks, NEW e \in held[n], OnMessage(n, e)
      PROVE  CallInv'
  <2>1. e.body \in log
    BY <1>2 DEF OnMessage, SessInv, BodyInv, Sound
  <2>2. calls' = calls /\ disk' = disk \cup {e.body}
    BY <1>2 DEF OnMessage
  <2>3. QED
    BY <1>0, <2>1, <2>2 DEF CallInv
<1>3. ASSUME NEW n \in Networks, SwitchNetwork(n)
      PROVE  CallInv'
  <2>1. /\ calls' = calls \cup {Call("channels", n, NoChannel, 0)}
        /\ UNCHANGED <<log, disk>>
    BY <1>3 DEF SwitchNetwork, servers
  <2>2. LET c == Call("channels", n, NoChannel, 0)
        IN  c.kind = "channels" /\ c.ch = NoChannel /\ c.page \subseteq log
    BY CallIs DEF Kinds
  <2>3. QED
    BY <1>0, <2>1, <2>2 DEF CallInv, Kinds
<1>4. ASSUME NEW ch \in Channels, SwitchChannel(ch)
      PROVE  CallInv'
  <2>1. calls' = calls \cup LoadsOf(active, ch) /\ UNCHANGED <<log, disk>>
    BY <1>4 DEF SwitchChannel, Show, servers
  <2>2. QED
    BY <1>0, <2>1, ShowCalls
<1>5. ASSUME NEW ch \in Channels, LeaveChannel(ch)
      PROVE  CallInv'
  <2>1. CASE ch = channel
    <3>1. /\ channels' \in SUBSET Channels /\ channels' # {}
          /\ calls' = calls \cup LoadsOf(active, First(channels')) /\ UNCHANGED <<log, disk>>
      BY <1>0, <1>5, <2>1 DEF LeaveChannel, Show, servers, PlaceInv
    <3>2. First(channels') \in Channels
      BY <3>1, FirstIs
    <3>3. QED
      BY <1>0, <3>1, <3>2, ShowCalls
  <2>2. CASE ch # channel
    BY <1>1, <1>5, <2>2 DEF LeaveChannel
  <2>3. QED
    BY <2>1, <2>2
<1>6. CASE LoadOlder
  <2>1. /\ calls' = calls \cup {Call("older", active, channel, Head(msgs).ts)}
        /\ UNCHANGED <<log, disk>>
    BY <1>6 DEF LoadOlder, servers
  <2>2. LET c == Call("older", active, channel, Head(msgs).ts)
        IN  c.kind = "older" /\ c.ch = channel /\ c.page \subseteq log
    BY <1>0, CallIs DEF Kinds, PlaceInv
  <2>3. QED
    BY <1>0, <2>1, <2>2 DEF CallInv, Kinds, PlaceInv
<1>7. ASSUME NEW answered \in BOOLEAN, Refresh(answered)
      PROVE  CallInv'
  <2> DEFINE c == Call("since", active, channel, Last(msgs).ts)
  <2>1. calls' = calls \cup {Poll(answered)} /\ UNCHANGED <<log, disk>>
    BY <1>7 DEF Refresh, servers
  <2>2. c.kind = "since" /\ c.ch = channel /\ c.page \subseteq log
    BY <1>0, CallIs DEF Kinds, PlaceInv
  <2>3. c = [kind |-> c.kind, ch |-> c.ch, page |-> c.page]
    BY DEF Call
  <2>4. Poll(answered) = IF answered THEN c ELSE [c EXCEPT !.page = {}]
    BY DEF Poll
  <2> HIDE DEF c
  <2>5. PICK q : q = Poll(answered)
    OBVIOUS
  <2>6. q.kind = "since" /\ q.ch = channel /\ q.page \subseteq log
    BY <2>2, <2>3, <2>4, <2>5
  <2>7. QED
    BY <1>0, <2>1, <2>5, <2>6 DEF CallInv, Kinds, PlaceInv
<1>8. ASSUME NEW c \in calls, OnHistory(c)
      PROVE  CallInv'
  BY <1>0, <1>8 DEF OnHistory, Stored, CallInv
<1>9. ASSUME calls' \subseteq calls, disk' = disk
      PROVE  CallInv'
  BY <1>0, <1>9 DEF CallInv
<1>10. ASSUME NEW c \in calls, NEW list \in SUBSET Channels, OnChannels(c, list)
       PROVE  CallInv'
  <2>1. UNCHANGED <<log, disk>>
    BY <1>10 DEF OnChannels, servers
  <2>2. CASE list = {} \/ channel \in list
    BY <1>0, <1>10, <2>1, <2>2 DEF OnChannels, CallInv
  <2>3. CASE ~(list = {} \/ channel \in list)
    <3>1. calls' = (calls \ {c}) \cup LoadsOf(active, First(list)) /\ First(list) \in Channels
      BY <1>10, <2>3, FirstIs DEF OnChannels, Show
    <3>2. QED
      BY <1>0, <2>1, <3>1, ShowCalls
  <2>4. QED
    BY <2>2, <2>3
<1>11. QED
  BY <1>1, <1>2, <1>3, <1>4, <1>5, <1>6, <1>7, <1>8, <1>9, <1>10
  DEF Next, vars, Post, ChangeState, Take, OnStatus, OnTick, CycleChannel,
      OnStaleHistory, OnHistoryError, OnLocal, OnChannelsError

\* The network, the channel and the badges are ones there are.
LEMMA PlaceStep == SessInv /\ [Next]_vars => PlaceInv'
<1> SUFFICES ASSUME SessInv, [Next]_vars PROVE PlaceInv'
  OBVIOUS
<1>0. CallInv /\ PlaceInv /\ Home \in Channels
  BY SessionAssumption DEF SessInv
<1> USE DEF PlaceInv
<1>1. CASE UNCHANGED <<screen, unread, status>>
  BY <1>0, <1>1 DEF screen
<1>2. ASSUME NEW n \in Networks, NEW e \in held[n], OnMessage(n, e)
      PROVE  PlaceInv'
  <2>1. e.body \in log
    BY <1>2 DEF OnMessage, SessInv, BodyInv, Sound
  <2>2. e.body.net \in Networks /\ e.body.ch \in Channels
    BY <2>1 DEF SessInv, LogInv, Message
  <2>3. /\ channels' \subseteq channels \cup {e.body.ch}
        /\ unread' \subseteq unread \cup {<<e.body.net, e.body.ch>>}
        /\ UNCHANGED <<active, channel, status>>
    BY <1>2 DEF OnMessage, reconnect
  <2>4. QED
    BY <1>0, <2>2, <2>3
<1>3. ASSUME NEW n \in Networks, NEW e \in held[n], OnStatus(n, e)
      PROVE  PlaceInv'
  <2>1. e.body.state \in State
    BY <1>3 DEF OnStatus, SessInv, BodyInv, Sound
  <2>2. QED
    BY <1>0, <1>3, <2>1 DEF OnStatus, screen
<1>4. ASSUME NEW n \in Networks, SwitchNetwork(n)
      PROVE  PlaceInv'
  BY <1>0, <1>4 DEF SwitchNetwork, reconnect
<1>5. ASSUME NEW ch \in Channels, SwitchChannel(ch) \/ CycleChannel(ch)
      PROVE  PlaceInv'
  BY <1>0, <1>5 DEF SwitchChannel, CycleChannel, Show, Cleared, reconnect
<1>6. ASSUME NEW ch \in Channels, LeaveChannel(ch)
      PROVE  PlaceInv'
  <2>1. channels' \in SUBSET Channels /\ channels' # {}
    BY <1>0, <1>6 DEF LeaveChannel
  <2>2. First(channels') \in Channels
    BY <2>1, FirstIs
  <2>3. channel' \in Channels \cup {NoChannel}
    BY <1>0, <1>6, <2>2 DEF LeaveChannel, Show
  <2>4. UNCHANGED <<active, unread, status>>
    BY <1>6 DEF LeaveChannel, reconnect
  <2>5. QED
    BY <1>0, <2>1, <2>3, <2>4
<1>7. ASSUME NEW c \in calls, OnHistory(c)
      PROVE  PlaceInv'
  BY <1>0, <1>7 DEF OnHistory, reconnect
<1>8. ASSUME NEW c \in calls, NEW ok \in BOOLEAN, NEW stored \in SUBSET Channels,
             OnLocal(c, ok, stored)
      PROVE  PlaceInv'
  <2>1. c.kind = "local" /\ c.ch \in Channels
    BY <1>0, <1>8 DEF OnLocal, CallInv
  <2>2. channels' \subseteq Channels
    BY <1>0, <1>8, <2>1 DEF OnLocal
  <2>3. QED
    BY <1>0, <1>8, <2>2 DEF OnLocal, reconnect
<1>9. ASSUME NEW c \in calls, NEW list \in SUBSET Channels, OnChannels(c, list)
      PROVE  PlaceInv'
  <2>1. list # {} => First(list) \in Channels
    BY FirstIs
  <2>2. channel' \in Channels \cup {NoChannel} /\ unread' \subseteq unread /\ channels' = list
    BY <1>0, <1>9, <2>1 DEF OnChannels, Show, Cleared
  <2>3. UNCHANGED <<active, status>>
    BY <1>9 DEF OnChannels, reconnect
  <2>4. QED
    BY <1>0, <2>2, <2>3
<1>10. QED
  BY <1>1, <1>2, <1>3, <1>4, <1>5, <1>6, <1>7, <1>8, <1>9
  DEF Next, vars, reconnect, Post, ChangeState, Take, OnTick, LoadOlder, Refresh,
      OnStaleHistory, OnHistoryError, OnChannelsError

LEMMA SessStep == SessInv /\ [Next]_vars => SessInv'
<1>1. SessInv /\ [Next]_vars => StreamInv' /\ LogInv'
  BY StepStream, LogStep DEF SessInv
<1>2. QED
  BY <1>1, BodyStep, CallStep, PlaceStep DEF SessInv

LEMMA SessStarts == Init => SessInv
<1> SUFFICES ASSUME Init PROVE SessInv
  OBVIOUS
<1>1. StreamInv
  BY InitStream
<1>2. LogInv
  BY FS_EmptySet DEF Init, LogInv
<1>3. BodyInv
  BY DEF Init, BodyInv
<1>4. PlaceInv
  BY SessionAssumption DEF Init, PlaceInv, State
<1>5. ASSUME NEW c \in calls
      PROVE  /\ c.kind \in Kinds /\ c.ch \in Channels \cup {NoChannel}
             /\ c.kind = "local" => c.ch \in Channels
             /\ c.page \subseteq log
  <2>1. \A kind \in Kinds : \A ch : Page(kind, Relay, ch, 0) \subseteq log
    BY DEF Init, Page, Kinds
  <2>2. c \in LoadsOf(Relay, Home) \/ c = Call("channels", Relay, NoChannel, 0)
    BY <1>5 DEF Init
  <2>3. QED
    BY <2>1, <2>2, SessionAssumption DEF LoadsOf, Call, Kinds
<1>6. CallInv
  BY <1>5 DEF CallInv, Init
<1>7. QED
  BY <1>1, <1>2, <1>3, <1>4, <1>6 DEF SessInv

-----------------------------------------------------------------------------
(* The message list.  Every step leaves it, clears it, adds a line of the  *)
(* program at its end, inserts a message of the log or merges a page.      *)

ViewInv ==
  /\ msgs \in Seq(Line)
  /\ InOrder(msgs)
  /\ \A i \in DOMAIN msgs : msgs[i].ts <= clock

ViewMoves ==
  \/ msgs' = msgs
  \/ msgs' = <<System>>
  \/ msgs' = Append(msgs, System)
  \/ \E m \in log : msgs' = InsertSorted(msgs, m)
  \/ \E page \in SUBSET log : msgs' = MergeMessages(msgs, page)

LEMMA ListMoves == SessInv /\ [Next]_vars => ViewMoves
<1> SUFFICES ASSUME SessInv, [Next]_vars PROVE ViewMoves
  OBVIOUS
<1> USE DEF ViewMoves
<1>1. CASE msgs' = msgs
  BY <1>1
<1>2. ASSUME NEW n \in Networks, NEW e \in held[n], OnMessage(n, e)
      PROVE  ViewMoves
  <2>1. e.body \in log
    BY <1>2 DEF OnMessage, SessInv, BodyInv, Sound
  <2>2. msgs' = InsertSorted(msgs, e.body) \/ msgs' = msgs
    BY <1>2 DEF OnMessage
  <2>3. QED
    BY <2>1, <2>2
<1>3. ASSUME NEW n \in Networks, SwitchNetwork(n)
      PROVE  ViewMoves
  BY <1>3 DEF SwitchNetwork
<1>4. ASSUME NEW ch \in Channels, SwitchChannel(ch)
      PROVE  ViewMoves
  BY <1>4 DEF SwitchChannel, Show
<1>5. ASSUME NEW ch \in Channels, LeaveChannel(ch)
      PROVE  ViewMoves
  BY <1>5 DEF LeaveChannel, Show
<1>6. ASSUME NEW c \in calls, OnHistory(c)
      PROVE  ViewMoves
  <2>1. c.page \in SUBSET log
    BY <1>6 DEF SessInv, CallInv
  <2>2. msgs' = MergeMessages(msgs, c.page) \/ msgs' = msgs
    BY <1>6 DEF OnHistory
  <2>3. QED
    BY <2>1, <2>2
<1>7. ASSUME NEW c \in calls, NEW ok \in BOOLEAN, NEW stored \in SUBSET Channels,
             OnLocal(c, ok, stored)
      PROVE  ViewMoves
  <2>1. c.page \in SUBSET log
    BY <1>7 DEF SessInv, CallInv
  <2>2. msgs' = MergeMessages(msgs, c.page) \/ msgs' = msgs
    BY <1>7 DEF OnLocal
  <2>3. QED
    BY <2>1, <2>2
<1>8. ASSUME NEW c \in calls, NEW list \in SUBSET Channels, OnChannels(c, list)
      PROVE  ViewMoves
  BY <1>8 DEF OnChannels, Show
<1>9. QED
  BY <1>1, <1>2, <1>3, <1>4, <1>5, <1>6, <1>7, <1>8
  DEF Next, vars, screen, Post, ChangeState, Take, OnStatus, OnTick, CycleChannel,
      LoadOlder, Refresh, OnStaleHistory, OnHistoryError, OnChannelsError

\* A line of the program, as new as the clock, goes to the end of the list.
LEMMA LineAdded ==
  ASSUME SessInv, ViewInv
  PROVE  LET t == Append(msgs, System)
         IN  /\ t \in Seq(Line) /\ InOrder(t)
             /\ \A i \in DOMAIN t : t[i].ts <= clock
             /\ ToSet(msgs) \subseteq ToSet(t)
<1> DEFINE t == Append(msgs, System)
           n == Len(msgs) + 1
<1>1. System \in Line /\ System.ts = clock /\ System.net = None /\ clock \in Nat
  BY DEF SessInv, LogInv, System, Line
<1>2. msgs \in Seq(Line) /\ Len(msgs) \in Nat /\ DOMAIN msgs = 1..Len(msgs)
  BY DEF ViewInv
<1>3. t \in Seq(Line) /\ Len(t) = n /\ t[n] = System
      /\ \A k \in 1..Len(msgs) : t[k] = msgs[k]
  BY <1>1, <1>2, AppendProperties
<1> HIDE DEF t
<1>4. DOMAIN t = 1..n
  BY <1>2, <1>3
<1>5. \A k \in DOMAIN t : \/ k \in DOMAIN msgs /\ t[k] = msgs[k]
                          \/ k = n /\ t[k] = System
  BY <1>2, <1>3, <1>4
<1>6. \A i \in DOMAIN t : t[i].ts <= clock
  BY <1>1, <1>5 DEF ViewInv
<1>7. ASSUME NEW i \in DOMAIN t, NEW j \in DOMAIN t, i < j
      PROVE  t[i].ts <= t[j].ts /\ (t[i] = t[j] => t[i].net = None)
  <2>1. CASE j \in DOMAIN msgs /\ t[j] = msgs[j]
    <3>1. i \in DOMAIN msgs /\ t[i] = msgs[i]
      BY <1>2, <1>5, <1>7, <2>1
    <3>2. QED
      BY <1>7, <2>1, <3>1 DEF ViewInv, InOrder
  <2>2. CASE j = n /\ t[j] = System
    BY <1>1, <1>6, <1>7, <2>2
  <2>3. QED
    BY <1>5, <2>1, <2>2
<1>8. \A k \in DOMAIN msgs : msgs[k] \in ToSet(t)
  BY <1>2, <1>3, <1>4 DEF ToSet
<1>9. QED
  BY <1>3, <1>6, <1>7, <1>8 DEF t, InOrder, ToSet

\* The list stays in order, and what is on it stays unless it is cleared.
LEMMA ViewStep ==
  ASSUME SessInv, ViewInv, [Next]_vars
  PROVE  ViewInv' /\ (msgs' # <<System>> => ToSet(msgs) \subseteq ToSet(msgs'))
<1> DEFINE Goal == ViewInv' /\ (msgs' # <<System>> => ToSet(msgs) \subseteq ToSet(msgs'))
<1>1. clock \in Nat /\ clock' \in Nat /\ clock <= clock'
  BY LogStep DEF SessInv, LogInv
<1>2. /\ msgs \in Seq(Line) /\ InOrder(msgs)
      /\ \A i \in DOMAIN msgs : msgs[i] \in Line /\ msgs[i].ts \in Nat /\ msgs[i].ts <= clock
  BY LineIs DEF ViewInv
<1>3. ASSUME NEW t \in Seq(Line), msgs' = t, InOrder(t),
             \A x \in ToSet(t) : x.ts \in Nat /\ x.ts <= clock
      PROVE  ViewInv'
  <2>1. \A i \in DOMAIN t : t[i].ts <= clock'
    BY <1>1, <1>3 DEF ToSet
  <2>2. QED
    BY <1>3, <2>1 DEF ViewInv, InOrder
<1>4. CASE msgs' = msgs
  BY <1>2, <1>3, <1>4 DEF ToSet
<1>5. CASE msgs' = <<System>>
  <2>1. System \in Line /\ System.ts = clock
    BY <1>1 DEF System, Line
  <2>2. PICK x : x = System
    OBVIOUS
  <2>3. <<x>> \in Seq(Line) /\ DOMAIN <<x>> = {1} /\ <<x>>[1] = x /\ msgs' = <<x>>
    BY <1>5, <2>1, <2>2
  <2>4. PICK t \in Seq(Line) : msgs' = t /\ DOMAIN t = {1} /\ t[1] = x
    BY <2>3
  <2>5. InOrder(t) /\ \A y \in ToSet(t) : y = x
    BY <2>4 DEF InOrder, ToSet
  <2>6. ViewInv'
    BY <1>1, <1>3, <2>1, <2>2, <2>4, <2>5
  <2>7. QED
    BY <1>5, <2>6
<1>6. CASE msgs' = Append(msgs, System)
  <2>1. PICK t : t = Append(msgs, System)
    OBVIOUS
  <2>2. /\ t \in Seq(Line) /\ InOrder(t)
        /\ \A i \in DOMAIN t : t[i].ts <= clock
        /\ ToSet(msgs) \subseteq ToSet(t)
    BY <2>1, LineAdded
  <2>3. \A x \in ToSet(t) : x.ts \in Nat /\ x.ts <= clock
    BY <2>2, LineIs DEF ToSet
  <2>4. QED
    BY <1>3, <1>6, <2>1, <2>2, <2>3
<1>7. ASSUME NEW S \in SUBSET log, NEW t \in Seq(Line), msgs' = t, InOrder(t),
             ToSet(t) = ToSet(msgs) \cup S
      PROVE  Goal
  <2>1. \A x \in S : x.ts \in Nat /\ x.ts <= clock
    BY <1>7 DEF SessInv, LogInv, Message
  <2>2. \A x \in ToSet(msgs) : x.ts \in Nat /\ x.ts <= clock
    BY <1>2 DEF ToSet
  <2>3. QED
    BY <1>3, <1>7, <2>1, <2>2
<1>8. ASSUME NEW m \in log, msgs' = InsertSorted(msgs, m)
      PROVE  Goal
  <2>1. m \in Message
    BY <1>8 DEF SessInv, LogInv
  <2>2. PICK t : t = InsertSorted(msgs, m)
    OBVIOUS
  <2>3. t \in Seq(Line) /\ InOrder(t) /\ ToSet(t) = ToSet(msgs) \cup {m}
    BY <1>2, <2>1, <2>2, InsertSortedIs
  <2>4. {m} \in SUBSET log /\ msgs' = t
    BY <1>8, <2>2
  <2>5. QED
    BY <1>7, <2>3, <2>4
<1>9. ASSUME NEW page \in SUBSET log, msgs' = MergeMessages(msgs, page)
      PROVE  Goal
  <2>1. page \in SUBSET Message /\ IsFiniteSet(page)
    BY <1>9, FS_Subset DEF SessInv, LogInv
  <2>2. PICK t : t = MergeMessages(msgs, page)
    OBVIOUS
  <2>3. t \in Seq(Line) /\ InOrder(t) /\ ToSet(t) = ToSet(msgs) \cup page
    BY <1>2, <2>1, <2>2, MergeIs
  <2>4. QED
    BY <1>7, <1>9, <2>2, <2>3
<1>10. ViewMoves
  BY ListMoves
<1>11. QED
  BY <1>4, <1>5, <1>6, <1>8, <1>9, <1>10 DEF ViewMoves

LEMMA ViewStarts == Init => ViewInv
  BY DEF Init, ViewInv, InOrder

THEOREM SessInvariance == Spec => [](SessInv /\ ViewInv)
<1>1. Init => SessInv /\ ViewInv
  BY SessStarts, ViewStarts
<1>2. SessInv /\ ViewInv /\ [Next]_vars => (SessInv /\ ViewInv)'
  BY SessStep, ViewStep
<1>3. QED
  BY <1>1, <1>2, PTL DEF Spec

\* The list is in the order of time and no message is on it twice, whatever comes
\* live, in pages, polls and from the local store, and in which order: insertSorted
\* and mergeMessages (messages.go).
THEOREM ListInOrder == Spec => []ViewWellFormed
<1>1. ViewInv => ViewWellFormed
  BY DEF ViewInv, InOrder, ViewWellFormed
<1>2. QED
  BY <1>1, SessInvariance, PTL

\* What is on screen stays while its channel does: late answers and live messages
\* only add (onMessageEvent of events.go; FetchResultMsg and localHistoryMsg, tui.go).
THEOREM NothingIsLost == Spec => NothingVanishes
<1>1. SessInv /\ ViewInv /\ [Next]_vars =>
        (msgs' # <<System>> => ToSet(msgs) \subseteq ToSet(msgs'))
  BY ViewStep
<1>2. SessInv /\ ViewInv /\ [Next]_vars =>
        [(active' = active /\ channel' = channel /\ msgs' # <<System>>)
           => ToSet(msgs) \subseteq ToSet(msgs')]_vars
  BY <1>1
<1>3. QED
  BY <1>2, SessInvariance, PTL DEF Spec, NothingVanishes

-----------------------------------------------------------------------------
(* The types of the session's state.                                       *)

SessFlags ==
  /\ historyLoaded \in BOOLEAN
  /\ allHistoryLoaded \in BOOLEAN
  /\ loadingHistory \in BOOLEAN

LEMMA SessFlagsStep == SessFlags /\ [Next]_vars => SessFlags'
<1> SUFFICES ASSUME SessFlags, [Next]_vars PROVE SessFlags'
  OBVIOUS
<1>1. /\ historyLoaded' \in BOOLEAN
      /\ allHistoryLoaded' \in BOOLEAN
      /\ loadingHistory' \in BOOLEAN
  <2>1. CASE UNCHANGED history
    BY Zenon, <2>1 DEF SessFlags, history
  <2>2. ASSUME NEW ch, NEW rest, Show(ch, rest)
        PROVE  /\ historyLoaded' \in BOOLEAN /\ allHistoryLoaded' \in BOOLEAN
               /\ loadingHistory' \in BOOLEAN
    BY Zenon, <2>2 DEF SessFlags, Show
  <2>3. ASSUME NEW n \in Networks, SwitchNetwork(n)
        PROVE  /\ historyLoaded' \in BOOLEAN /\ allHistoryLoaded' \in BOOLEAN
               /\ loadingHistory' \in BOOLEAN
    BY Zenon, <2>3 DEF SwitchNetwork
  <2>4. CASE LoadOlder
    BY Zenon, <2>4 DEF SessFlags, LoadOlder
  <2>5. ASSUME NEW c \in calls, OnHistoryError(c)
        PROVE  /\ historyLoaded' \in BOOLEAN /\ allHistoryLoaded' \in BOOLEAN
               /\ loadingHistory' \in BOOLEAN
    BY Zenon, <2>5 DEF SessFlags, OnHistoryError
  <2>6. ASSUME NEW c \in calls, OnHistory(c)
        PROVE  /\ historyLoaded' \in BOOLEAN /\ allHistoryLoaded' \in BOOLEAN
               /\ loadingHistory' \in BOOLEAN
    BY Zenon, <2>6 DEF SessFlags, OnHistory
  <2>7. ASSUME NEW c \in calls, NEW ok \in BOOLEAN, NEW stored, OnLocal(c, ok, stored)
        PROVE  /\ historyLoaded' \in BOOLEAN /\ allHistoryLoaded' \in BOOLEAN
               /\ loadingHistory' \in BOOLEAN
    BY Zenon, <2>7 DEF SessFlags, OnLocal
  <2>8. ASSUME NEW ch \in Channels, LeaveChannel(ch)
        PROVE  UNCHANGED history \/ \E c : Show(c, calls)
    BY Zenon, <2>8 DEF LeaveChannel
  <2>9. ASSUME NEW c \in calls, NEW list, OnChannels(c, list)
        PROVE  UNCHANGED history \/ \E h, r : Show(h, r)
    BY Zenon, <2>9 DEF OnChannels
  <2>10. ASSUME NEW ch \in Channels, SwitchChannel(ch)
         PROVE  Show(ch, calls)
    BY Zenon, <2>10 DEF SwitchChannel
  <2>11. QED
    BY <2>1, <2>2, <2>3, <2>4, <2>5, <2>6, <2>7, <2>8, <2>9, <2>10
    DEF Next, vars, Post, ChangeState, Take, OnMessage, OnStatus, OnTick, CycleChannel,
        Refresh, OnStaleHistory, OnChannelsError
<1>2. QED
  BY <1>1 DEF SessFlags

SessTypes == SessInv /\ ViewInv /\ TickerInv /\ SessFlags

LEMMA SessTypesStep == SessTypes /\ [Next]_vars => SessTypes'
  BY SessStep, ViewStep, StepTicker, SessFlagsStep DEF SessTypes

LEMMA SessTypesStart == Init => SessTypes
<1>1. Init => TickerInv
  BY DEF Init, TickerInv, OneTicker
<1>2. Init => SessFlags
  BY Zenon DEF Init, SessFlags
<1>3. QED
  BY <1>1, <1>2, SessStarts, ViewStarts DEF SessTypes

\* What these invariants say of the types.
LEMMA SessTyped == SessTypes => TypeOK
<1> SUFFICES ASSUME SessTypes PROVE TypeOK
  OBVIOUS
<1>1. log \subseteq Message /\ clock \in Nat
  BY DEF SessTypes, SessInv, LogInv
<1>2. ASSUME NEW n \in Networks, NEW e \in ToSet(events[n]) \cup held[n]
      PROVE  IF e.kind = "message" THEN e.body \in Message ELSE e.body.state \in State
  <2>1. events[n] \in Seq(Event)
    BY DEF SessTypes, SessInv, StreamInv, StreamTypes
  <2>2. Sound(e)
    BY <1>2, <2>1 DEF SessTypes, SessInv, BodyInv, ToSet
  <2>3. QED
    BY <1>1, <2>2 DEF Sound
<1>3. armed \in [Networks -> Nat]
  BY DEF SessTypes, SessInv, StreamInv, StreamTypes
<1>4. PlaceInv
  BY DEF SessTypes, SessInv
<1>5. \A i \in DOMAIN msgs : msgs[i].net = None \/ msgs[i] \in Message
  <2>1. \A i \in DOMAIN msgs : msgs[i] \in Line
    BY DEF SessTypes, ViewInv
  <2>2. QED
    BY <2>1 DEF Line
<1>6. {historyLoaded, allHistoryLoaded, loadingHistory, ticking} \subseteq BOOLEAN
  BY Zenon DEF SessTypes, SessFlags, TickerInv
<1>7. ticks \in Nat
  BY DEF SessTypes, TickerInv, OneTicker
<1>8. disk \subseteq Message /\ \A c \in calls :
        c.kind \in Kinds /\ c.ch \in Channels \cup {NoChannel} /\ c.page \subseteq Message
  BY <1>1 DEF SessTypes, SessInv, CallInv
<1>9. QED
  BY Zenon, <1>1, <1>2, <1>3, <1>4, <1>5, <1>6, <1>7, <1>8 DEF TypeOK, PlaceInv

\* The session's state has its types: calls bring messages of their network, badges
\* and the screen name channels there are (Model, tui.go).
THEOREM SessionTypeCorrect == Spec => []TypeOK
  BY SessTypesStart, SessTypesStep, SessTyped, PTL DEF Spec

-----------------------------------------------------------------------------
(* Mentions.  Of one that is not disturbed: an insert that is under way is *)
(* of a mention that is due and has no clear beside it; while a clear is   *)
(* under way it is not due, and whatever row it has will go.  The list     *)
(* depends on the table at a start only.                                   *)

MnTypes ==
  /\ mnList \in Seq(MnRows)
  /\ mnTable \subseteq MnRows
  /\ mnWrites \in Seq({MnClear} \cup {MnInsert(id) : id \in MnIds})
  /\ Len(mnWrites) <= MaxMnWrites
  /\ mnSaid \subseteq MnRows
  /\ mnDue \subseteq MnIds
  /\ mnDisturbed \subseteq MnIds /\ mnMisread \subseteq MnIds
  /\ mnStarts \in 0..MaxMnStarts
  /\ mnClears \in 0..MaxMnClears

MnListed(id) == id \in Range(mnList) <=> id \in mnDue

MnFollows(id) ==
  /\ id \in Inserting => id \in mnDue /\ ~Clearing
  /\ Clearing => id \notin mnDue
  /\ id \notin Inserting /\ ~Clearing => (id \in mnTable <=> id \in mnDue)

MnInv ==
  /\ MnTypes
  /\ \A id \in MnIds \ mnMisread : MnListed(id)
  /\ \A id \in MnIds \ mnDisturbed : MnFollows(id)

\* RemoveAt takes one element out and leaves the others.
LEMMA RemoveAtIs ==
  ASSUME NEW S, NEW s \in Seq(S), NEW k \in DOMAIN s
  PROVE  /\ RemoveAt(s, k) \in Seq(S) /\ Len(RemoveAt(s, k)) = Len(s) - 1
         /\ \A i \in 1..(Len(s) - 1) : RemoveAt(s, k)[i] = IF i < k THEN s[i] ELSE s[i + 1]
<1> DEFINE a == SubSeq(s, 1, k - 1)
           b == SubSeq(s, k + 1, Len(s))
           t == RemoveAt(s, k)
<1>1. Len(s) \in Nat /\ k \in 1..Len(s)
  OBVIOUS
<1>2. a \in Seq(S) /\ Len(a) = k - 1 /\ \A i \in 1..(k - 1) : a[i] = s[i]
  <2>1. k - 1 \in Nat /\ \A i \in 1..(k - 1) : s[i] \in S
    BY <1>1
  <2>2. QED
    BY <1>1, <2>1, SubSeqProperties
<1>3. b \in Seq(S) /\ Len(b) = Len(s) - k /\ \A i \in 1..(Len(s) - k) : b[i] = s[i + k]
  <2>1. Len(s) - k \in Nat /\ k + 1 \in 1..(Len(s) + 1) /\ \A i \in (k + 1)..Len(s) : s[i] \in S
    BY <1>1
  <2>2. QED
    BY <1>1, <2>1, SubSeqProperties
<1>4. t = a \o b
  BY DEF RemoveAt
<1> HIDE DEF a, b
<1>5. /\ t \in Seq(S) /\ Len(t) = Len(a) + Len(b)
      /\ \A i \in 1..(Len(a) + Len(b)) : t[i] = IF i <= Len(a) THEN a[i] ELSE b[i - Len(a)]
  BY <1>2, <1>3, <1>4, ConcatProperties
<1> HIDE DEF t
<1>6. Len(a) + Len(b) = Len(s) - 1
  BY <1>1, <1>2, <1>3
<1>7. ASSUME NEW i \in 1..(Len(s) - 1)
      PROVE  t[i] = IF i < k THEN s[i] ELSE s[i + 1]
  <2>1. CASE i < k
    <3>1. i \in 1..(k - 1) /\ i <= Len(a) /\ i \in 1..(Len(a) + Len(b))
      BY <1>1, <1>2, <1>6, <2>1
    <3>2. QED
      BY <1>2, <1>5, <2>1, <3>1
  <2>2. CASE ~(i < k)
    <3>1. ~(i <= Len(a)) /\ i \in 1..(Len(a) + Len(b)) /\ i - Len(a) = i - k + 1
          /\ i - k + 1 \in 1..(Len(s) - k) /\ i - k + 1 + k = i + 1
      <4>1. PICK n, la, ls : n = Len(a) + Len(b) /\ la = Len(a) /\ ls = Len(s)
        OBVIOUS
      <4>2. n = ls - 1 /\ la = k - 1 /\ ls \in Nat /\ k \in 1..ls /\ i \in 1..(ls - 1)
        BY <1>1, <1>2, <1>6, <4>1
      <4>3. ~(i <= la) /\ i \in 1..n /\ i - la = i - k + 1
            /\ i - k + 1 \in 1..(ls - k) /\ i - k + 1 + k = i + 1
        BY <2>2, <4>2
      <4>4. QED
        BY <4>1, <4>3
    <3>2. QED
      BY <1>3, <1>5, <2>2, <3>1
  <2>3. QED
    BY <2>1, <2>2
<1>8. QED
  BY <1>5, <1>6, <1>7 DEF t

\* So every element but that one is still there, and no other.
LEMMA RemoveAtKeeps ==
  ASSUME NEW S, NEW s \in Seq(S), NEW k \in DOMAIN s
  PROVE  LET t == RemoveAt(s, k)
         IN  /\ t \in Seq(S) /\ Len(t) <= Len(s)
             /\ \A i \in DOMAIN t : \E j \in DOMAIN s : j # k /\ t[i] = s[j]
             /\ \A j \in DOMAIN s : j # k => \E i \in DOMAIN t : t[i] = s[j]
<1> DEFINE t == RemoveAt(s, k)
<1>1. /\ t \in Seq(S) /\ Len(t) = Len(s) - 1
      /\ \A i \in 1..(Len(s) - 1) : t[i] = IF i < k THEN s[i] ELSE s[i + 1]
  BY RemoveAtIs
<1> HIDE DEF t
<1>2. DOMAIN t = 1..(Len(s) - 1) /\ Len(s) \in Nat /\ DOMAIN s = 1..Len(s) /\ k \in 1..Len(s)
  BY <1>1
<1>3. \A i \in DOMAIN t : \E j \in DOMAIN s : j # k /\ t[i] = s[j]
  <2> SUFFICES ASSUME NEW i \in DOMAIN t PROVE \E j \in DOMAIN s : j # k /\ t[i] = s[j]
    OBVIOUS
  <2>1. i \in DOMAIN s /\ i + 1 \in DOMAIN s
    BY <1>2
  <2>2. QED
    BY <1>1, <1>2, <2>1
<1>4. \A j \in DOMAIN s : j # k => \E i \in DOMAIN t : t[i] = s[j]
  <2> SUFFICES ASSUME NEW j \in DOMAIN s, j # k PROVE \E i \in DOMAIN t : t[i] = s[j]
    OBVIOUS
  <2>1. CASE j < k
    <3>1. j \in 1..(Len(s) - 1)
      BY <1>2, <2>1
    <3>2. QED
      BY <1>1, <1>2, <2>1, <3>1
  <2>2. CASE j > k
    <3>1. j - 1 \in 1..(Len(s) - 1) /\ ~(j - 1 < k) /\ j - 1 + 1 = j
      BY <1>2, <2>2
    <3>2. QED
      BY <1>1, <1>2, <3>1
  <2>3. QED
    BY <1>2, <2>1, <2>2
<1>5. QED
  BY <1>1, <1>2, <1>3, <1>4 DEF t

MnWrite == {MnClear} \cup {MnInsert(id) : id \in MnIds}

\* An insert is no clear, and of one mention only.
LEMMA MnWriteIs ==
  /\ \A w \in MnWrite : w # MnClear => w.id \in MnIds /\ w = MnInsert(w.id)
  /\ \A id \in MnIds : MnInsert(id) # MnClear /\ MnInsert(id).id = id /\ MnInsert(id) \in MnWrite
  /\ MnClear \in MnWrite
<1>1. MnClear.op = "clear"
  BY DEF MnClear
<1>2. \A id : MnInsert(id).op = "insert" /\ MnInsert(id).id = id
  BY DEF MnInsert
<1>3. \A id : MnInsert(id) # MnClear
  BY <1>1, <1>2
<1>4. \A w \in MnWrite : w # MnClear => w.id \in MnIds /\ w = MnInsert(w.id)
  BY <1>2 DEF MnWrite
<1>5. QED
  BY <1>2, <1>3, <1>4 DEF MnWrite

\* The commands under way after one more has been issued.
LEMMA MnIssued ==
  ASSUME MnTypes, NEW w \in MnWrite, mnWrites' = Append(mnWrites, w)
  PROVE  /\ mnWrites' \in Seq(MnWrite) /\ Len(mnWrites') = Len(mnWrites) + 1
         /\ \A id \in MnIds : id \in Inserting' <=> id \in Inserting \/ w = MnInsert(id)
         /\ Clearing' <=> Clearing \/ w = MnClear
<1> DEFINE t == Append(mnWrites, w)
           n == Len(mnWrites) + 1
<1>1. mnWrites \in Seq(MnWrite) /\ Len(mnWrites) \in Nat /\ DOMAIN mnWrites = 1..Len(mnWrites)
  BY DEF MnTypes, MnWrite
<1>2. t \in Seq(MnWrite) /\ Len(t) = n /\ t[n] = w
      /\ \A k \in 1..Len(mnWrites) : t[k] = mnWrites[k]
  BY <1>1, AppendProperties
<1>3. mnWrites' = t
  OBVIOUS
<1> HIDE DEF t
<1>4. DOMAIN t = 1..n /\ n \in DOMAIN t
  BY <1>1, <1>2
<1>10. /\ \A k \in DOMAIN t : k = n \/ k \in DOMAIN mnWrites
       /\ \A k \in DOMAIN mnWrites : k \in DOMAIN t
  BY <1>1, <1>4
<1>11. t[n] = w /\ \A k \in DOMAIN mnWrites : t[k] = mnWrites[k]
  BY <1>1, <1>2
<1>5. /\ \A k \in DOMAIN t : t[k] = w \/ (k \in DOMAIN mnWrites /\ t[k] = mnWrites[k])
      /\ \A k \in DOMAIN mnWrites : k \in DOMAIN t /\ t[k] = mnWrites[k]
  BY <1>10, <1>11
<1>6. \A x : (\E k \in DOMAIN t : t[k] = x)
               <=> (\E k \in DOMAIN mnWrites : mnWrites[k] = x) \/ w = x
  BY <1>2, <1>4, <1>5
<1>7. QED
  BY <1>2, <1>3, <1>6 DEF Inserting, Clearing

\* And after one has happened or failed.
LEMMA MnDone ==
  ASSUME MnTypes, NEW k \in DOMAIN mnWrites, mnWrites' = RemoveAt(mnWrites, k)
  PROVE  /\ mnWrites' \in Seq(MnWrite) /\ Len(mnWrites') <= Len(mnWrites)
         /\ mnWrites[k] \in MnWrite
         /\ \A id \in MnIds :
              /\ id \in Inserting' => id \in Inserting
              /\ id \in Inserting => id \in Inserting' \/ mnWrites[k] = MnInsert(id)
         /\ Clearing' => Clearing
         /\ Clearing => Clearing' \/ mnWrites[k] = MnClear
<1> DEFINE t == RemoveAt(mnWrites, k)
<1>1. mnWrites \in Seq(MnWrite)
  BY DEF MnTypes, MnWrite
<1>2. mnWrites[k] \in MnWrite
  BY <1>1
<1>3. /\ t \in Seq(MnWrite) /\ Len(t) <= Len(mnWrites)
      /\ \A i \in DOMAIN t : \E j \in DOMAIN mnWrites : j # k /\ t[i] = mnWrites[j]
      /\ \A j \in DOMAIN mnWrites : j # k => \E i \in DOMAIN t : t[i] = mnWrites[j]
  BY <1>1, RemoveAtKeeps
<1>4. mnWrites' = t
  OBVIOUS
<1> HIDE DEF t
<1>5. \A x : /\ (\E i \in DOMAIN t : t[i] = x) => (\E j \in DOMAIN mnWrites : mnWrites[j] = x)
             /\ (\E j \in DOMAIN mnWrites : mnWrites[j] = x)
                  => (\E i \in DOMAIN t : t[i] = x) \/ mnWrites[k] = x
  BY <1>3
<1>6. QED
  BY <1>2, <1>3, <1>4, <1>5 DEF Inserting, Clearing

LEMMA MnRest == MnInv /\ UNCHANGED mnVars => MnInv'
  BY DEF MnInv, MnTypes, MnListed, MnFollows, mnVars, Inserting, Clearing

LEMMA MentionComes ==
  ASSUME MnInv, NEW id \in MnIds, OnMention(id)
  PROVE  MnInv'
<1>1. /\ mnList' = Append(mnList, id) /\ mnList \in Seq(MnRows) /\ id \in MnRows
      /\ Len(mnWrites) < MaxMnWrites /\ Len(mnWrites) \in Nat /\ MaxMnWrites \in Nat
      /\ mnWrites' = Append(mnWrites, MnInsert(id))
  BY MentionsAssumption DEF OnMention, MnInv, MnTypes, MnRows
<1>2. /\ mnWrites' \in Seq(MnWrite) /\ Len(mnWrites') = Len(mnWrites) + 1
      /\ \A m \in MnIds : m \in Inserting' <=> m \in Inserting \/ MnInsert(id) = MnInsert(m)
      /\ Clearing' <=> Clearing \/ MnInsert(id) = MnClear
  BY <1>1, MnIssued, MnWriteIs DEF MnInv
<1>3. /\ \A m \in MnIds : m \in Inserting' <=> m \in Inserting \/ m = id
      /\ Clearing' <=> Clearing
  BY <1>2, MnWriteIs
<1>4. mnList' \in Seq(MnRows) /\ \A x : x \in Range(mnList') <=> x \in Range(mnList) \/ x = id
  <2> DEFINE t == Append(mnList, id)
  <2>1. t \in Seq(MnRows) /\ Len(t) = Len(mnList) + 1 /\ t[Len(mnList) + 1] = id
        /\ \A k \in 1..Len(mnList) : t[k] = mnList[k]
    BY <1>1, AppendProperties
  <2>2. Len(mnList) \in Nat /\ DOMAIN mnList = 1..Len(mnList) /\ mnList' = t
    BY <1>1
  <2> HIDE DEF t
  <2>3. DOMAIN t = 1..(Len(mnList) + 1)
    BY <2>1
  <2>4. \A k \in DOMAIN t : k \in DOMAIN mnList \/ k = Len(mnList) + 1
    BY <2>2, <2>3
  <2>5. \A k \in DOMAIN mnList : k \in DOMAIN t
    BY <2>2, <2>3
  <2>6. QED
    BY <2>1, <2>2, <2>3, <2>4, <2>5 DEF Range
<1>5. MnTypes'
  BY <1>1, <1>2, <1>4 DEF OnMention, MnInv, MnTypes, MnWrite, MnRows
<1>6. ASSUME NEW m \in MnIds \ mnDisturbed'
      PROVE  MnFollows(m)'
  <2>1. CASE m = id
    <3>1. ~Clearing /\ m \notin Inserting /\ m \in mnDue'
      BY <1>6, <2>1 DEF OnMention
    <3>2. QED
      BY <1>3, <2>1, <3>1 DEF MnFollows
  <2>2. CASE m # id
    <3>1. m \in MnIds \ mnDisturbed /\ (m \in mnDue' <=> m \in mnDue) /\ mnTable' = mnTable
      BY <1>6, <2>2 DEF OnMention
    <3>2. MnFollows(m)
      BY <3>1 DEF MnInv
    <3>3. QED
      BY <1>3, <2>2, <3>1, <3>2 DEF MnFollows
  <2>3. QED
    BY <2>1, <2>2
<1>7. ASSUME NEW m \in MnIds \ mnMisread'
      PROVE  MnListed(m)'
  <2>1. mnMisread' = mnMisread \ {id} /\ mnDue' = mnDue \cup {id}
    BY DEF OnMention
  <2>2. CASE m = id
    BY <1>4, <2>1, <2>2 DEF MnListed
  <2>3. CASE m # id
    <3>1. MnListed(m)
      BY <1>7, <2>1, <2>3 DEF MnInv
    <3>2. QED
      BY <1>4, <2>1, <2>3, <3>1 DEF MnListed
  <2>4. QED
    BY <2>2, <2>3
<1>8. QED
  BY <1>5, <1>6, <1>7 DEF MnInv

LEMMA NoticeComes == MnInv /\ OnUpdateCheck => MnInv'
<1> SUFFICES ASSUME MnInv, OnUpdateCheck PROVE MnInv'
  OBVIOUS
<1> DEFINE q == <<MnNotice>>
           t == q \o mnList
<1>1. /\ q \in Seq(MnRows) /\ Len(q) = 1 /\ q[1] = MnNotice
      /\ mnList \in Seq(MnRows) /\ mnList' = t
  BY DEF OnUpdateCheck, MnInv, MnTypes, MnRows
<1> HIDE DEF q
<1>2. /\ t \in Seq(MnRows) /\ Len(t) = Len(q) + Len(mnList)
      /\ \A i \in 1..(Len(q) + Len(mnList)) :
           t[i] = IF i <= Len(q) THEN q[i] ELSE mnList[i - Len(q)]
  BY <1>1, ConcatProperties
<1> HIDE DEF t
<1>3. Len(mnList) \in Nat /\ DOMAIN mnList = 1..Len(mnList) /\ DOMAIN t = 1..(Len(mnList) + 1)
  BY <1>1, <1>2
<1>4. /\ \A i \in DOMAIN t : t[i] = MnNotice \/ (i - 1 \in DOMAIN mnList /\ t[i] = mnList[i - 1])
      /\ \A k \in DOMAIN mnList : k + 1 \in DOMAIN t /\ t[k + 1] = mnList[k]
  <2>1. \A i \in 1..(Len(mnList) + 1) : t[i] = IF i <= 1 THEN q[i] ELSE mnList[i - 1]
    <3>1. Len(q) + Len(mnList) = Len(mnList) + 1
      BY <1>1, <1>3
    <3>2. Len(q) = 1
      BY <1>1
    <3>3. QED
      BY <1>2, <3>1, <3>2
  <2>2. \A i \in DOMAIN t : i = 1 \/ (~(i <= 1) /\ i - 1 \in DOMAIN mnList)
    BY <1>3
  <2>3. \A k \in DOMAIN mnList : k + 1 \in DOMAIN t /\ ~(k + 1 <= 1) /\ k + 1 - 1 = k
    BY <1>3
  <2>4. 1 <= 1
    OBVIOUS
  <2>5. QED
    BY <1>1, <1>3, <2>1, <2>2, <2>3, <2>4
<1>5. \A id \in MnIds : id # MnNotice
  BY MentionsAssumption
<1>6. \A id \in MnIds : id \in Range(mnList') <=> id \in Range(mnList)
  BY <1>1, <1>4, <1>5 DEF Range
<1>7. /\ \A id \in MnIds : id \in mnTable' <=> id \in mnTable
      /\ mnTable' \subseteq mnTable \cup {MnNotice}
      /\ UNCHANGED <<mnWrites, mnDue, mnDisturbed, mnMisread, mnStarts, mnClears>>
      /\ mnSaid' = mnSaid \cup {MnNotice}
  BY <1>5 DEF OnUpdateCheck
<1>8. MnTypes'
  BY <1>1, <1>2, <1>7 DEF MnInv, MnTypes, MnRows
<1>9. Inserting' = Inserting /\ (Clearing' <=> Clearing)
  BY <1>7 DEF Inserting, Clearing
<1>10. \A id \in MnIds \ mnDisturbed' : MnFollows(id)'
  BY <1>7, <1>9 DEF MnInv, MnFollows
<1>11. \A id \in MnIds \ mnMisread' : MnListed(id)'
  BY <1>6, <1>7 DEF MnInv, MnListed
<1>12. QED
  BY <1>8, <1>10, <1>11 DEF MnInv

LEMMA MentionsCleared == MnInv /\ ClearMentions => MnInv'
<1> SUFFICES ASSUME MnInv, ClearMentions PROVE MnInv'
  OBVIOUS
<1>1. /\ Len(mnWrites) < MaxMnWrites /\ Len(mnWrites) \in Nat /\ MaxMnWrites \in Nat
      /\ mnWrites' = Append(mnWrites, MnClear)
      /\ mnClears < MaxMnClears /\ mnClears' = mnClears + 1 /\ mnClears \in 0..MaxMnClears
      /\ mnList' = <<>> /\ mnDue' = {} /\ mnDisturbed' = Inserting
      /\ mnMisread' = {}
      /\ UNCHANGED <<mnTable, mnSaid, mnStarts>>
  BY MentionsAssumption DEF ClearMentions, ForgetRows, MnInv, MnTypes
<1>2. /\ mnWrites' \in Seq(MnWrite) /\ Len(mnWrites') = Len(mnWrites) + 1
      /\ \A m \in MnIds : m \in Inserting' <=> m \in Inserting \/ MnClear = MnInsert(m)
      /\ Clearing' <=> Clearing \/ MnClear = MnClear
  BY <1>1, MnIssued, MnWriteIs DEF MnInv
<1>3. \A m \in MnIds : m \in Inserting' <=> m \in Inserting
  BY <1>2, MnWriteIs
<1>4. mnClears' \in 0..MaxMnClears /\ Len(mnWrites') <= MaxMnWrites /\ Inserting \subseteq MnIds
  BY <1>1, <1>2, MentionsAssumption DEF Inserting
<1>5. mnList' \in Seq(MnRows) /\ Range(mnList') = {}
  BY <1>1 DEF Range
<1>6. MnTypes'
  BY <1>1, <1>2, <1>4, <1>5 DEF MnInv, MnTypes, MnWrite
<1>7. \A id \in MnIds \ mnDisturbed' : MnFollows(id)'
  BY <1>1, <1>2, <1>3 DEF MnFollows
<1>8. \A id \in MnIds : MnListed(id)'
  BY <1>1, <1>5 DEF MnListed
<1>9. QED
  BY <1>6, <1>7, <1>8 DEF MnInv

LEMMA MentionWritten ==
  ASSUME MnInv, NEW k \in DOMAIN mnWrites, WriteHappens(k)
  PROVE  MnInv'
<1> DEFINE w == mnWrites[k]
<1>1. /\ mnTable' = IF w = MnClear THEN {} ELSE mnTable \cup {w.id}
      /\ mnWrites' = RemoveAt(mnWrites, k)
      /\ UNCHANGED <<mnList, mnSaid, mnDue, mnDisturbed, mnMisread, mnStarts, mnClears>>
  BY DEF WriteHappens
<1>2. /\ mnWrites' \in Seq(MnWrite) /\ Len(mnWrites') <= Len(mnWrites)
      /\ w \in MnWrite
      /\ \A id \in MnIds :
           /\ id \in Inserting' => id \in Inserting
           /\ id \in Inserting => id \in Inserting' \/ w = MnInsert(id)
      /\ Clearing' => Clearing
      /\ Clearing => Clearing' \/ w = MnClear
  BY <1>1, MnDone DEF MnInv
<1>3. /\ \A id \in MnIds : w = MnInsert(id) => id \in Inserting
      /\ w = MnClear => Clearing
  BY DEF Inserting, Clearing
<1> HIDE DEF w
<1>4. Len(mnWrites') <= MaxMnWrites
  <2>1. Len(mnWrites) \in Nat /\ Len(mnWrites') \in Nat /\ Len(mnWrites) <= MaxMnWrites
        /\ MaxMnWrites \in Nat
    BY <1>2, MentionsAssumption DEF MnInv, MnTypes
  <2>2. QED
    BY <1>2, <2>1
<1>5. MnTypes'
  BY <1>1, <1>2, <1>4, MnWriteIs DEF MnInv, MnTypes, MnWrite, MnRows
<1>6. ASSUME NEW id \in MnIds \ mnDisturbed'
      PROVE  MnFollows(id)'
  <2>1. MnFollows(id)
    BY <1>1, <1>6 DEF MnInv
  <2>3. id \in Inserting' => id \in mnDue' /\ ~Clearing'
    BY <1>1, <1>2, <2>1 DEF MnFollows
  <2>4. Clearing' => id \notin mnDue'
    BY <1>1, <1>2, <2>1 DEF MnFollows
  <2>5. CASE w = MnClear
    <3>1. Clearing /\ mnTable' = {}
      BY <1>1, <1>3, <2>5
    <3>2. id \notin mnDue' /\ id \notin mnTable'
      BY <1>1, <2>1, <3>1 DEF MnFollows
    <3>3. QED
      BY <2>3, <2>4, <3>2 DEF MnFollows
  <2>6. CASE w # MnClear
    <3>1. /\ w = MnInsert(w.id) /\ w.id \in MnIds /\ mnTable' = mnTable \cup {w.id}
          /\ Clearing' <=> Clearing
      BY <1>1, <1>2, <2>6, MnWriteIs
    <3>2. CASE w.id = id
      <4>1. id \in Inserting /\ id \in mnTable'
        BY <1>3, <3>1, <3>2
      <4>2. QED
        BY <1>1, <2>1, <2>3, <2>4, <4>1 DEF MnFollows
    <3>3. CASE w.id # id
      <4>1. w # MnInsert(id)
        BY <3>1, <3>3, MnWriteIs
      <4>2. (id \in Inserting' <=> id \in Inserting) /\ (id \in mnTable' <=> id \in mnTable)
        BY <1>2, <3>1, <3>3, <4>1
      <4>3. QED
        BY <1>1, <2>1, <2>3, <2>4, <3>1, <4>2 DEF MnFollows
    <3>4. QED
      BY <3>2, <3>3
  <2>7. QED
    BY <2>5, <2>6
<1>7. \A id \in MnIds \ mnMisread' : MnListed(id)'
  BY <1>1 DEF MnInv, MnListed
<1>8. QED
  BY <1>5, <1>6, <1>7 DEF MnInv

LEMMA MentionNotWritten ==
  ASSUME MnInv, NEW k \in DOMAIN mnWrites, WriteFails(k)
  PROVE  MnInv'
<1> DEFINE w == mnWrites[k]
<1>1. /\ mnWrites' = RemoveAt(mnWrites, k)
      /\ mnDisturbed' = mnDisturbed \cup About(w)
      /\ UNCHANGED <<mnList, mnTable, mnSaid, mnDue, mnMisread, mnStarts, mnClears>>
  BY DEF WriteFails
<1>2. /\ mnWrites' \in Seq(MnWrite) /\ Len(mnWrites') <= Len(mnWrites)
      /\ w \in MnWrite
      /\ \A id \in MnIds :
           /\ id \in Inserting' => id \in Inserting
           /\ id \in Inserting => id \in Inserting' \/ w = MnInsert(id)
      /\ Clearing' => Clearing
      /\ Clearing => Clearing' \/ w = MnClear
  BY <1>1, MnDone DEF MnInv
<1>3. w = MnClear => Clearing
  BY DEF Clearing
<1> HIDE DEF w
<1>4. Len(mnWrites') <= MaxMnWrites
  <2>1. Len(mnWrites) \in Nat /\ Len(mnWrites') \in Nat /\ Len(mnWrites) <= MaxMnWrites
        /\ MaxMnWrites \in Nat
    BY <1>2, MentionsAssumption DEF MnInv, MnTypes
  <2>2. QED
    BY <1>2, <2>1
<1>5. MnTypes'
  BY <1>1, <1>2, <1>4, MnWriteIs DEF MnInv, MnTypes, MnWrite, MnRows, About
<1>6. ASSUME NEW id \in MnIds \ mnDisturbed'
      PROVE  MnFollows(id)'
  <2>1. MnFollows(id) /\ id \notin About(w)
    BY <1>1, <1>6 DEF MnInv
  <2>2. w # MnInsert(id)
    BY <1>2, <2>1, MnWriteIs DEF About
  <2>3. id \in Inserting' <=> id \in Inserting
    BY <1>2, <2>2
  <2>4. CASE w = MnClear
    <3>1. Clearing /\ id \notin mnTable
      BY <1>3, <2>1, <2>4 DEF About
    <3>2. QED
      BY <1>1, <1>2, <2>1, <2>3, <3>1 DEF MnFollows
  <2>5. CASE w # MnClear
    BY <1>1, <1>2, <2>1, <2>3, <2>5 DEF MnFollows
  <2>6. QED
    BY <2>4, <2>5
<1>7. \A id \in MnIds \ mnMisread' : MnListed(id)'
  BY <1>1 DEF MnInv, MnListed
<1>8. QED
  BY <1>5, <1>6, <1>7 DEF MnInv

LEMMA ListReadAgain == MnInv /\ StartAgain => MnInv'
<1> SUFFICES ASSUME MnInv, StartAgain PROVE MnInv'
  OBVIOUS
<1> DEFINE lost == UNION {About(mnWrites[k]) : k \in DOMAIN mnWrites}
<1>1. /\ mnStarts < MaxMnStarts /\ mnStarts' = mnStarts + 1 /\ mnStarts \in 0..MaxMnStarts
      /\ mnList' = SetToSeq(mnTable) /\ mnWrites' = <<>> /\ mnSaid' = {}
      /\ mnDisturbed' = mnDisturbed \cup lost /\ mnMisread' = mnDisturbed \cup lost
      /\ UNCHANGED <<mnTable, mnDue, mnClears>>
      /\ MaxMnStarts \in Nat /\ MaxMnWrites \in Nat
  BY MentionsAssumption DEF StartAgain, MnInv, MnTypes
<1>2. IsFiniteSet(MnRows)
  BY MentionsAssumption, FS_AddElement DEF MnRows
<1>3. mnTable \subseteq MnRows /\ IsFiniteSet(mnTable)
  BY <1>2, FS_Subset DEF MnInv, MnTypes
<1>4. PICK q : q = SetToSeq(mnTable)
  OBVIOUS
<1>5. q \in Seq(mnTable) /\ ToSet(q) = mnTable
  BY <1>3, <1>4, ListIs
<1>6. mnList' \in Seq(MnRows) /\ Range(mnList') = mnTable
  <2>1. q \in Seq(MnRows)
    BY <1>3, <1>5, SeqMonotonic
  <2>2. Range(q) = mnTable
    BY <1>5 DEF ToSet, Range
  <2>3. QED
    BY <1>1, <1>4, <2>1, <2>2
<1>7. \A k \in DOMAIN mnWrites : mnWrites[k] \in MnWrite
  BY DEF MnInv, MnTypes, MnWrite
<1>8. lost \subseteq MnIds
  BY <1>7, MnWriteIs DEF About
<1>9. mnStarts' \in 0..MaxMnStarts
  BY <1>1
<1>10. mnWrites' \in Seq(MnWrite) /\ Len(mnWrites') <= MaxMnWrites
  BY <1>1
<1>11. MnTypes'
  BY <1>1, <1>6, <1>8, <1>9, <1>10 DEF MnInv, MnTypes, MnWrite
<1>12. Inserting' = {} /\ ~Clearing'
  BY <1>1 DEF Inserting, Clearing
<1>13. ASSUME NEW id \in MnIds \ mnDisturbed'
       PROVE  MnFollows(id)' /\ MnListed(id)'
  <2>1. MnFollows(id) /\ id \notin lost
    BY <1>1, <1>13 DEF MnInv
  <2>2. id \notin Inserting
    BY <2>1, MnWriteIs DEF Inserting, About
  <2>3. Clearing => id \notin mnTable
    BY <2>1 DEF Clearing, About
  <2>4. id \in mnTable <=> id \in mnDue
    BY <2>1, <2>2, <2>3 DEF MnFollows
  <2>5. QED
    BY <1>1, <1>6, <1>12, <2>4 DEF MnFollows, MnListed
<1>14. mnMisread' = mnDisturbed'
  BY <1>1
<1>15. QED
  BY <1>11, <1>13, <1>14 DEF MnInv

LEMMA MnStep == MnInv /\ [MnNext]_mnVars => MnInv'
  BY MnRest, MentionComes, NoticeComes, MentionsCleared, MentionWritten, MentionNotWritten,
     ListReadAgain
  DEF MnNext

LEMMA MnStarts == MnInit => MnInv
<1> SUFFICES ASSUME MnInit PROVE MnInv
  OBVIOUS
<1>1. MnTypes
  BY MentionsAssumption DEF MnInit, MnTypes
<1>2. Inserting = {} /\ ~Clearing /\ Range(mnList) = {}
  BY DEF MnInit, Inserting, Clearing, Range
<1>3. QED
  BY <1>1, <1>2 DEF MnInv, MnListed, MnFollows, MnInit

LEMMA MnKept == MnInv => MentionsKept /\ MnTypeOK
  BY DEF MnInv, MnTypes, MnListed, MnFollows, MentionsKept, MnTypeOK

\* The list of mentions and its table have the mentions that came since the last
\* clear and no other, also after a start: onMessageEvent, ClearNotificationsMsg and
\* New against InsertNotification and ClearNotifications in any order.
THEOREM MentionsStay == MnSpec => []MentionsKept
  BY MnStarts, MnStep, MnKept, PTL DEF MnSpec

-----------------------------------------------------------------------------
(* The local store.  Of a message that is not disturbed: what is on screen *)
(* has the last text; at most one write of it is under way, with that text *)
(* and the screen's reactions or none, and no read of its channel beside   *)
(* it; else its row has both; and what a read holds of it is its row.  Of  *)
(* one that is not blurred: what is on screen and what a read holds has    *)
(* the last text, and so has all that a read under way may find.           *)

LsWrite == [op : {"insert", "update"}, id : LsIds, row : LsRecord]
LsAsked == [channel : LsChannels, done : BOOLEAN, got : LsTables]

LsTypes ==
  /\ lsChannel \in LsChannels
  /\ lsShown \in LsTables
  /\ lsRows \in LsTables
  /\ lsWrites \in Seq(LsWrite)
  /\ Len(lsWrites) <= MaxLsWrites
  /\ lsReads \in Seq(LsAsked)
  /\ lsMade \in [LsIds -> 0..MaxLsTexts]
  /\ lsHeard \in [LsIds -> Nat]
  /\ \A m \in LsIds : lsHeard[m] <= lsMade[m]
  /\ lsAnswers \subseteq [id : LsIds, text : LsTexts]
  /\ lsTold \in [LsIds -> 0..MaxLsTexts]
  /\ lsDisturbed \subseteq LsIds
  /\ lsBlurred \subseteq lsDisturbed
  /\ lsOpens \in 0..MaxLsOpens

LsMine(m) == {k \in DOMAIN lsWrites : lsWrites[k].id = m}
Pending(m) == {lsWrites[k] : k \in LsMine(m)}
AtMostOne(m) == \A j, k \in LsMine(m) : j = k

\* A read holds rows of its own channel.
ReadInv ==
  \A r \in Range(lsReads) : \A m \in DOMAIN r.got : m \in LsIds /\ r.channel = LsPlace[m]

LsFollows(m) ==
  /\ Shows(m) => lsShown[m].text = lsTold[m]
  /\ ~(InFlight(m) /\ BeingRead(m))
  /\ AtMostOne(m)
  /\ \A w \in Pending(m) :
       /\ w.row.text = lsTold[m]
       /\ Shows(m) => w.row.reacts \in {0, lsShown[m].reacts}
  /\ m \in DOMAIN lsRows /\ ~InFlight(m)
       => /\ lsRows[m].text = lsTold[m]
          /\ Shows(m) => lsRows[m].reacts \in {0, lsShown[m].reacts}
  /\ \A r \in Range(lsReads) :
       m \in DOMAIN r.got => m \in DOMAIN lsRows /\ r.got[m] = lsRows[m]

LsKept == \A m \in LsIds \ lsDisturbed : LsFollows(m)

ScreenFollows(m) ==
  /\ Shows(m) => lsShown[m].text = lsTold[m]
  /\ BeingRead(m) => /\ m \in DOMAIN lsRows => lsRows[m].text = lsTold[m]
                     /\ \A w \in Pending(m) : w.row.text = lsTold[m]
  /\ \A r \in Range(lsReads) : m \in DOMAIN r.got => r.got[m].text = lsTold[m]

ScreenKept == \A m \in LsIds \ lsBlurred : ScreenFollows(m)

LsInv == LsTypes /\ ReadInv /\ LsKept /\ ScreenKept

-----------------------------------------------------------------------------
(* Tables, writes and reads.                                               *)

LEMMA TableIs ==
  /\ \A t \in LsTables : DOMAIN t \subseteq LsIds /\ t \in [DOMAIN t -> LsRecord]
  /\ \A ids \in SUBSET LsIds : [ids -> LsRecord] \subseteq LsTables
  /\ NoTable \in LsTables /\ DOMAIN NoTable = {}
<1>1. \A t \in LsTables : DOMAIN t \subseteq LsIds /\ t \in [DOMAIN t -> LsRecord]
  BY DEF LsTables
<1>2. \A ids \in SUBSET LsIds : [ids -> LsRecord] \subseteq LsTables
  BY DEF LsTables
<1>3. NoTable \in [{} -> LsRecord] /\ DOMAIN NoTable = {}
  BY DEF NoTable
<1>4. QED
  BY <1>1, <1>2, <1>3

LEMMA WithIs ==
  ASSUME NEW t \in LsTables, NEW m \in LsIds, NEW row \in LsRecord
  PROVE  /\ With(t, m, row) \in LsTables
         /\ DOMAIN With(t, m, row) = DOMAIN t \cup {m}
         /\ With(t, m, row)[m] = row
         /\ \A o \in DOMAIN t : o # m => With(t, m, row)[o] = t[o]
<1>1. DOMAIN t \subseteq LsIds /\ t \in [DOMAIN t -> LsRecord]
  BY TableIs
<1>2. PICK ids \in SUBSET LsIds : ids = DOMAIN t \cup {m}
  BY <1>1
<1>3. With(t, m, row) \in [ids -> LsRecord]
  BY <1>1, <1>2 DEF With
<1>4. QED
  BY <1>2, <1>3, TableIs DEF With

\* A text changed in a table.
LEMMA RetextIs ==
  ASSUME NEW t \in LsTables, NEW m \in DOMAIN t, NEW text \in LsTexts
  PROVE  LET u == [t EXCEPT ![m].text = text]
         IN  /\ u \in LsTables /\ DOMAIN u = DOMAIN t
             /\ u[m].text = text /\ u[m].reacts = t[m].reacts
             /\ \A o \in DOMAIN t : o # m => u[o] = t[o]
<1> DEFINE u == [t EXCEPT ![m].text = text]
<1>1. DOMAIN t \subseteq LsIds /\ t \in [DOMAIN t -> LsRecord]
  BY TableIs
<1>2. PICK row : row = [t[m] EXCEPT !.text = text]
  OBVIOUS
<1>3. row.text = text /\ row.reacts = t[m].reacts /\ row \in LsRecord
  BY <1>1, <1>2 DEF LsRecord
<1>4. u = [t EXCEPT ![m] = row]
  BY <1>2
<1> HIDE DEF u
<1>5. u \in [DOMAIN t -> LsRecord] /\ u[m] = row /\ \A o \in DOMAIN t : o # m => u[o] = t[o]
  BY <1>1, <1>3, <1>4
<1>6. u \in LsTables /\ DOMAIN u = DOMAIN t
  BY <1>1, <1>5, TableIs
<1>7. QED
  BY <1>3, <1>5, <1>6 DEF u

LEMMA InFlightIs ==
  \A m : /\ InFlight(m) <=> Pending(m) # {}
         /\ BeingRead(m) <=> \E r \in Range(lsReads) : r.channel = LsPlace[m]
         /\ \A w \in Pending(m) : w.id = m
  BY DEF InFlight, Pending, LsMine, BeingRead, Range

LEMMA InFlightThen ==
  \A m : /\ InFlight(m)' <=> Pending(m)' # {}
         /\ BeingRead(m)' <=> \E r \in Range(lsReads') : r.channel = LsPlace[m]
  BY DEF InFlight, Pending, LsMine, BeingRead, Range

\* One more write has been issued.
LEMMA LsIssued ==
  ASSUME lsWrites \in Seq(LsWrite), NEW w \in LsWrite, lsWrites' = Append(lsWrites, w)
  PROVE  /\ lsWrites' \in Seq(LsWrite) /\ Len(lsWrites') = Len(lsWrites) + 1
         /\ \A m : m # w.id => Pending(m)' = Pending(m) /\ (AtMostOne(m) => AtMostOne(m)')
         /\ Pending(w.id) = {} => Pending(w.id)' = {w} /\ AtMostOne(w.id)'
         /\ Pending(w.id)' \subseteq Pending(w.id) \cup {w}
<1> DEFINE t == Append(lsWrites, w)
           n == Len(lsWrites) + 1
<1>1. Len(lsWrites) \in Nat /\ DOMAIN lsWrites = 1..Len(lsWrites)
  OBVIOUS
<1>2. t \in Seq(LsWrite) /\ Len(t) = n /\ t[n] = w
      /\ \A k \in 1..Len(lsWrites) : t[k] = lsWrites[k]
  BY AppendProperties
<1>3. lsWrites' = t
  OBVIOUS
<1> HIDE DEF t
<1>4. DOMAIN t = 1..n
  BY <1>1, <1>2
<1>5. DOMAIN t = DOMAIN lsWrites \cup {n} /\ n \notin DOMAIN lsWrites
  BY <1>1, <1>4
<1>6. t[n] = w /\ \A k \in DOMAIN lsWrites : t[k] = lsWrites[k]
  BY <1>1, <1>2
<1> HIDE DEF n
<1>7. ASSUME NEW m, m # w.id
      PROVE  Pending(m)' = Pending(m) /\ (AtMostOne(m) => AtMostOne(m)')
  <2>1. LsMine(m)' = LsMine(m)
    BY <1>3, <1>5, <1>6, <1>7 DEF LsMine
  <2>2. \A k \in LsMine(m) : lsWrites'[k] = lsWrites[k]
    BY <1>3, <1>6 DEF LsMine
  <2>3. QED
    BY <2>1, <2>2 DEF Pending, AtMostOne
<1>8. ASSUME Pending(w.id) = {}
      PROVE  Pending(w.id)' = {w} /\ AtMostOne(w.id)'
  <2>1. LsMine(w.id) = {}
    BY <1>8 DEF Pending
  <2>2. LsMine(w.id)' = {n}
    BY <1>3, <1>5, <1>6, <2>1 DEF LsMine
  <2>3. lsWrites'[n] = w
    BY <1>3, <1>6
  <2>4. QED
    BY <2>2, <2>3 DEF Pending, AtMostOne
<1>9. Pending(w.id)' \subseteq Pending(w.id) \cup {w}
  <2>1. \A k \in LsMine(w.id)' : k = n \/ (k \in LsMine(w.id) /\ lsWrites'[k] = lsWrites[k])
    BY <1>3, <1>5, <1>6 DEF LsMine
  <2>2. QED
    BY <1>3, <1>6, <2>1 DEF Pending
<1>10. QED
  BY <1>2, <1>3, <1>7, <1>8, <1>9 DEF n

\* A write has happened or failed.
LEMMA LsDone ==
  ASSUME lsWrites \in Seq(LsWrite), NEW k \in DOMAIN lsWrites, lsWrites' = RemoveAt(lsWrites, k)
  PROVE  /\ lsWrites' \in Seq(LsWrite) /\ Len(lsWrites') = Len(lsWrites) - 1
         /\ lsWrites[k] \in LsWrite
         /\ \A m : m # lsWrites[k].id =>
              Pending(m)' = Pending(m) /\ (AtMostOne(m) => AtMostOne(m)')
         /\ \A m : m = lsWrites[k].id /\ AtMostOne(m) => Pending(m)' = {}
         /\ \A m : Pending(m)' \subseteq Pending(m)
<1> DEFINE t == RemoveAt(lsWrites, k)
           n == Len(lsWrites) - 1
           from(i) == IF i < k THEN i ELSE i + 1
<1>1. Len(lsWrites) \in Nat /\ DOMAIN lsWrites = 1..Len(lsWrites) /\ k \in 1..Len(lsWrites)
      /\ lsWrites[k] \in LsWrite
  OBVIOUS
<1>2. t \in Seq(LsWrite) /\ Len(t) = n
      /\ \A i \in 1..n : t[i] = IF i < k THEN lsWrites[i] ELSE lsWrites[i + 1]
  BY RemoveAtIs
<1>3. lsWrites' = t
  OBVIOUS
<1> HIDE DEF t
<1>4. DOMAIN t = 1..n
  BY <1>1, <1>2
<1>5. \A i \in DOMAIN t : t[i] = lsWrites[from(i)]
  BY <1>2, <1>4
<1>6. \A i \in 1..n : from(i) \in DOMAIN lsWrites /\ from(i) # k
  BY <1>1
<1>7. \A i, j \in 1..n : from(i) = from(j) => i = j
  BY <1>1
<1>8. \A j \in DOMAIN lsWrites : j # k => \E i \in 1..n : from(i) = j
  <2> SUFFICES ASSUME NEW j \in DOMAIN lsWrites, j # k PROVE \E i \in 1..n : from(i) = j
    OBVIOUS
  <2>1. CASE j < k
    <3>1. j \in 1..n /\ from(j) = j
      BY <1>1, <2>1
    <3>2. QED
      BY <3>1
  <2>2. CASE j > k
    <3>1. j - 1 \in 1..n /\ from(j - 1) = j
      BY <1>1, <2>2
    <3>2. QED
      BY <3>1
  <2>3. QED
    BY <1>1, <2>1, <2>2
<1>9. /\ \A i \in DOMAIN t : from(i) \in DOMAIN lsWrites /\ from(i) # k
      /\ \A i, j \in DOMAIN t : from(i) = from(j) => i = j
      /\ \A j \in DOMAIN lsWrites : j # k => \E i \in DOMAIN t : from(i) = j
  BY <1>4, <1>6, <1>7, <1>8
<1> HIDE DEF from, n
<1>10. ASSUME NEW m, m # lsWrites[k].id
       PROVE  Pending(m)' = Pending(m) /\ (AtMostOne(m) => AtMostOne(m)')
  <2>1. \A i \in LsMine(m)' : from(i) \in LsMine(m) /\ lsWrites'[i] = lsWrites[from(i)]
    BY <1>3, <1>5, <1>9 DEF LsMine
  <2>2. \A j \in LsMine(m) : \E i \in LsMine(m)' : from(i) = j
    BY <1>3, <1>5, <1>9, <1>10 DEF LsMine
  <2>3. Pending(m)' = Pending(m)
    BY <2>1, <2>2 DEF Pending
  <2>4. \A i \in LsMine(m)' : i \in DOMAIN t
    BY <1>3 DEF LsMine
  <2>5. AtMostOne(m) => AtMostOne(m)'
    BY <1>9, <2>1, <2>4 DEF AtMostOne
  <2>6. QED
    BY <2>3, <2>5
<1>11. ASSUME NEW m, m = lsWrites[k].id, AtMostOne(m)
       PROVE  Pending(m)' = {}
  <2>1. k \in LsMine(m) /\ \A j \in LsMine(m) : j = k
    BY <1>11 DEF AtMostOne, LsMine
  <2>2. \A i \in DOMAIN t : lsWrites[from(i)].id # m
    BY <1>9, <2>1 DEF LsMine
  <2>3. LsMine(m)' = {}
    BY <1>3, <1>5, <2>2 DEF LsMine
  <2>4. QED
    BY <2>3 DEF Pending
<1>12. ASSUME NEW m
       PROVE  Pending(m)' \subseteq Pending(m)
  <2>1. \A i \in LsMine(m)' : from(i) \in LsMine(m) /\ lsWrites'[i] = lsWrites[from(i)]
    BY <1>3, <1>5, <1>9 DEF LsMine
  <2>2. QED
    BY <2>1 DEF Pending
<1>13. QED
  BY <1>1, <1>2, <1>3, <1>10, <1>11, <1>12 DEF n

\* What a text does to the message on screen, if it is there.
LEMMA ApplyIs ==
  ASSUME LsTypes, NEW m \in LsIds, NEW text \in LsTexts, ApplyText(m, text)
  PROVE  /\ lsShown' \in LsTables /\ DOMAIN lsShown' = DOMAIN lsShown
         /\ \A o : o # m => lsShown'[o] = lsShown[o]
         /\ Shows(m) => lsShown'[m].text = text /\ lsShown'[m].reacts = lsShown[m].reacts
<1>1. lsShown \in LsTables
  BY DEF LsTypes
<1>2. CASE Shows(m)
  <2>1. m \in DOMAIN lsShown /\ lsShown' = [lsShown EXCEPT ![m].text = text]
    BY <1>2 DEF Shows, ApplyText
  <2>2. /\ lsShown' \in LsTables /\ DOMAIN lsShown' = DOMAIN lsShown
        /\ lsShown'[m].text = text /\ lsShown'[m].reacts = lsShown[m].reacts
    BY <1>1, <2>1, RetextIs
  <2>3. \A o : o # m => lsShown'[o] = lsShown[o]
    BY <2>1
  <2>4. QED
    BY <2>2, <2>3
<1>3. CASE ~Shows(m)
  BY <1>1, <1>3 DEF ApplyText
<1>4. QED
  BY <1>2, <1>3

\* The write that is issued.
LEMMA IssueIs ==
  ASSUME LsTypes, NEW op \in {"insert", "update"}, NEW m \in LsIds, NEW row \in LsRecord,
         IssueWrite(op, m, row)
  PROVE  /\ lsWrites' \in Seq(LsWrite) /\ Len(lsWrites') <= MaxLsWrites
         /\ \E w \in LsWrite : w.id = m /\ w.row = row /\ lsWrites' = Append(lsWrites, w)
<1> DEFINE w == [op |-> op, id |-> m, row |-> row]
<1>1. w \in LsWrite /\ w.id = m /\ w.row = row
  BY DEF LsWrite
<1>2. /\ lsWrites \in Seq(LsWrite) /\ Len(lsWrites) \in Nat /\ MaxLsWrites \in Nat
      /\ Len(lsWrites) < MaxLsWrites /\ lsWrites' = Append(lsWrites, w)
  BY LocalStoreAssumption DEF LsTypes, IssueWrite
<1> HIDE DEF w
<1>3. lsWrites' \in Seq(LsWrite) /\ Len(lsWrites') = Len(lsWrites) + 1
  BY <1>1, <1>2, AppendProperties
<1>4. QED
  BY <1>1, <1>2, <1>3

\* What the network has said of a message.
LEMMA ToldIs ==
  ASSUME LsTypes, NEW m \in LsIds, NEW text \in LsTexts, NEW clear, Told(m, text, clear)
  PROVE  /\ lsTold' \in [LsIds -> 0..MaxLsTexts] /\ lsDisturbed' \subseteq LsIds
         /\ lsTold'[m] = text /\ \A o \in LsIds : o # m => lsTold'[o] = lsTold[o]
         /\ \A o \in LsIds : o # m => (o \in lsDisturbed' <=> o \in lsDisturbed)
         /\ m \notin lsDisturbed' => clear /\ ~InFlight(m) /\ ~BeingRead(m)
         /\ lsBlurred' \subseteq lsDisturbed'
         /\ \A o \in LsIds : o # m => (o \in lsBlurred' <=> o \in lsBlurred)
         /\ m \notin lsBlurred' => clear /\ ~BeingRead(m)
<1>1. lsTold \in [LsIds -> 0..MaxLsTexts] /\ lsDisturbed \subseteq LsIds /\ text \in 0..MaxLsTexts
  BY DEF LsTypes, LsTexts
<1>2. lsTold' = [lsTold EXCEPT ![m] = text]
  BY DEF Told
<1>3. lsDisturbed' = lsDisturbed \ {m} \/ lsDisturbed' = lsDisturbed \cup {m}
  BY DEF Told
<1>4. m \notin lsDisturbed' => clear /\ ~InFlight(m) /\ ~BeingRead(m)
  BY DEF Told, Undisturbed
<1>5. lsBlurred' = lsBlurred \ {m} \/ lsBlurred' = lsBlurred \cup {m}
  BY DEF Told
<1>6. m \notin lsBlurred' => clear /\ ~BeingRead(m)
  BY DEF Told
<1>7. m \in lsBlurred' => m \in lsDisturbed'
  BY DEF Told, Undisturbed
<1>8. lsBlurred' \subseteq lsDisturbed'
  BY <1>3, <1>5, <1>7 DEF LsTypes
<1>9. QED
  BY <1>1, <1>2, <1>3, <1>4, <1>5, <1>6, <1>8

LEMMA MaxLs ==
  /\ MaxLsTexts \in Nat /\ MaxLsReacts \in Nat /\ MaxLsWrites \in Nat /\ MaxLsOpens \in Nat
  /\ \A m \in LsIds : LsPlace[m] \in LsChannels
  /\ \A r \in LsRecord : r.text \in LsTexts /\ r.reacts \in 0..MaxLsReacts
  /\ \A text \in LsTexts, n \in 0..MaxLsReacts : [text |-> text, reacts |-> n] \in LsRecord
  BY LocalStoreAssumption DEF LsRecord

\* One more write has been issued about m, whose text and reactions are those on
\* screen: it is disturbed, or this is all that is under way for it.
LEMMA IssuedKeeps ==
  ASSUME LsInv, NEW m \in LsIds, NEW w \in LsWrite, w.id = m, lsWrites' = Append(lsWrites, w),
         UNCHANGED <<lsRows, lsReads>>,
         \A o : o # m => /\ o \in DOMAIN lsShown' <=> o \in DOMAIN lsShown
                         /\ o \in DOMAIN lsShown => lsShown'[o] = lsShown[o],
         \A o \in LsIds : o # m => /\ lsTold'[o] = lsTold[o]
                                   /\ o \in lsDisturbed' <=> o \in lsDisturbed
                                   /\ o \in lsBlurred' <=> o \in lsBlurred,
         m \notin lsDisturbed' => /\ ~InFlight(m) /\ ~BeingRead(m)
                                  /\ w.row.text = lsTold'[m],
         m \notin lsDisturbed' /\ m \in DOMAIN lsShown'
           => lsShown'[m].text = lsTold'[m] /\ w.row.reacts \in {0, lsShown'[m].reacts},
         m \notin lsBlurred' /\ m \in DOMAIN lsShown' => lsShown'[m].text = lsTold'[m],
         m \notin lsBlurred' /\ BeingRead(m)
           => m \notin lsBlurred /\ lsTold'[m] = lsTold[m] /\ w.row.text = lsTold[m]
  PROVE  ReadInv' /\ LsKept' /\ ScreenKept'
<1>1. ReadInv'
  BY DEF LsInv, ReadInv
<1>2. /\ \A o : o # m => Pending(o)' = Pending(o) /\ (AtMostOne(o) => AtMostOne(o)')
      /\ Pending(m) = {} => Pending(m)' = {w} /\ AtMostOne(m)'
      /\ Pending(m)' \subseteq Pending(m) \cup {w}
  BY LsIssued DEF LsInv, LsTypes
<1>3. \A o : BeingRead(o)' <=> BeingRead(o)
  BY InFlightIs, InFlightThen
<1>4. ASSUME NEW o \in LsIds, o \notin lsDisturbed', o # m
      PROVE  LsFollows(o)'
  <2>1. LsFollows(o)
    BY <1>4 DEF LsInv, LsKept
  <2>2. /\ Shows(o)' <=> Shows(o)
        /\ Shows(o) => lsShown'[o] = lsShown[o]
        /\ lsTold'[o] = lsTold[o]
    BY <1>4 DEF Shows
  <2>3. Pending(o)' = Pending(o) /\ AtMostOne(o)' /\ (InFlight(o)' <=> InFlight(o))
    BY <1>2, <1>4, <2>1, InFlightIs, InFlightThen DEF LsFollows
  <2>4. QED
    BY <1>3, <2>1, <2>2, <2>3 DEF LsFollows
<1>5. ASSUME m \notin lsDisturbed'
      PROVE  LsFollows(m)'
  <2>1. Pending(m) = {} /\ ~BeingRead(m)'
    BY <1>3, <1>5, InFlightIs
  <2>2. Pending(m)' = {w} /\ AtMostOne(m)' /\ InFlight(m)'
    BY <1>2, <2>1, InFlightThen
  <2>3. Shows(m)' => lsShown'[m].text = lsTold'[m] /\ w.row.reacts \in {0, lsShown'[m].reacts}
    BY <1>5 DEF Shows
  <2>4. \A r \in Range(lsReads') : m \notin DOMAIN r.got
    BY <1>1, <2>1, InFlightThen DEF ReadInv
  <2>5. QED
    BY <1>5, <2>1, <2>2, <2>3, <2>4 DEF LsFollows
<1>6. ASSUME NEW o \in LsIds, o \notin lsBlurred', o # m
      PROVE  ScreenFollows(o)'
  <2>1. ScreenFollows(o)
    BY <1>6 DEF LsInv, ScreenKept
  <2>2. /\ Shows(o)' <=> Shows(o)
        /\ Shows(o) => lsShown'[o] = lsShown[o]
        /\ lsTold'[o] = lsTold[o] /\ Pending(o)' = Pending(o)
    BY <1>2, <1>6 DEF Shows
  <2>3. QED
    BY <1>3, <2>1, <2>2 DEF ScreenFollows
<1>7. ASSUME m \notin lsBlurred'
      PROVE  ScreenFollows(m)'
  <2>1. Shows(m)' => lsShown'[m].text = lsTold'[m]
    BY <1>7 DEF Shows
  <2>2. BeingRead(m) => ScreenFollows(m) /\ lsTold'[m] = lsTold[m] /\ w.row.text = lsTold[m]
    BY <1>7 DEF LsInv, ScreenKept
  <2>3. \A r \in Range(lsReads) : m \in DOMAIN r.got => BeingRead(m)
    BY InFlightIs DEF LsInv, ReadInv
  <2>4. QED
    BY <1>2, <1>3, <2>1, <2>2, <2>3 DEF ScreenFollows
<1>8. QED
  BY <1>1, <1>4, <1>5, <1>6, <1>7 DEF LsKept, ScreenKept

\* A message comes for the first time.
LEMMA NewMessageKept ==
  ASSUME LsInv, NEW m \in LsIds, OnNewMessage(m)
  PROVE  LsInv'
<1>1. LsTypes /\ lsShown \in LsTables /\ lsHeard \in [LsIds -> Nat] /\ lsMade[m] \in 0..MaxLsTexts
  BY DEF LsInv, LsTypes
<1>2. 1 \in LsTexts /\ Original \in LsRecord /\ Original.text = 1 /\ Original.reacts = 0
  BY <1>1, MaxLs DEF OnNewMessage, LsTexts, Original
<1> DEFINE clear == ~Shows(m) \/ lsShown[m].text = 1
<1>3. /\ lsTold' \in [LsIds -> 0..MaxLsTexts] /\ lsDisturbed' \subseteq LsIds
      /\ lsTold'[m] = 1 /\ \A o \in LsIds : o # m => lsTold'[o] = lsTold[o]
      /\ \A o \in LsIds : o # m => (o \in lsDisturbed' <=> o \in lsDisturbed)
      /\ m \notin lsDisturbed' => clear /\ ~InFlight(m) /\ ~BeingRead(m)
      /\ lsBlurred' \subseteq lsDisturbed'
      /\ \A o \in LsIds : o # m => (o \in lsBlurred' <=> o \in lsBlurred)
      /\ m \notin lsBlurred' => clear /\ ~BeingRead(m)
  <2>1. Told(m, 1, clear)
    BY DEF OnNewMessage
  <2> HIDE DEF clear
  <2>2. QED
    BY <1>1, <1>2, <2>1, ToldIs
<1>4. /\ lsWrites' \in Seq(LsWrite) /\ Len(lsWrites') <= MaxLsWrites
      /\ \E w \in LsWrite : w.id = m /\ w.row = Original /\ lsWrites' = Append(lsWrites, w)
  BY <1>1, <1>2, IssueIs DEF OnNewMessage
<1>5. /\ lsShown' \in LsTables
      /\ \A o : o # m => /\ o \in DOMAIN lsShown' <=> o \in DOMAIN lsShown
                         /\ o \in DOMAIN lsShown => lsShown'[o] = lsShown[o]
      /\ clear /\ m \in DOMAIN lsShown' => lsShown'[m].text = 1
  <2>1. CASE lsChannel = LsPlace[m] /\ ~Shows(m)
    <3>1. lsShown' = With(lsShown, m, Original)
      BY <2>1 DEF OnNewMessage
    <3>2. /\ lsShown' \in LsTables /\ DOMAIN lsShown' = DOMAIN lsShown \cup {m}
          /\ lsShown'[m] = Original
          /\ \A o \in DOMAIN lsShown : o # m => lsShown'[o] = lsShown[o]
      BY <1>1, <1>2, <3>1, WithIs
    <3>3. QED
      BY <1>2, <3>2
  <2>2. CASE ~(lsChannel = LsPlace[m] /\ ~Shows(m))
    BY <1>1, <2>2 DEF OnNewMessage, Shows
  <2>3. QED
    BY <2>1, <2>2
<1>6. UNCHANGED <<lsRows, lsReads>>
  BY DEF OnNewMessage
<1>7. ReadInv' /\ LsKept' /\ ScreenKept'
  <2>1. PICK w \in LsWrite : w.id = m /\ w.row = Original /\ lsWrites' = Append(lsWrites, w)
    BY <1>4
  <2>2. w.row.text = lsTold'[m] /\ w.row.reacts = 0
    BY <1>2, <1>3, <2>1
  <2>3. m \notin lsDisturbed' \/ m \notin lsBlurred' => clear
    BY <1>3
  <2> HIDE DEF clear
  <2>4. m \notin lsDisturbed' => ~InFlight(m) /\ ~BeingRead(m)
    BY <1>3
  <2>5. (m \notin lsDisturbed' \/ m \notin lsBlurred') /\ m \in DOMAIN lsShown'
          => lsShown'[m].text = lsTold'[m]
    BY <1>3, <1>5, <2>3
  <2>6. m \notin lsBlurred' => ~BeingRead(m)
    BY <1>3
  <2>7. QED
    BY <1>3, <1>5, <1>6, <2>1, <2>2, <2>4, <2>5, <2>6, IssuedKeeps
<1>8. /\ lsHeard' = [lsHeard EXCEPT ![m] = 1] /\ lsMade[m] >= 1 /\ lsMade' = lsMade
      /\ UNCHANGED <<lsChannel, lsRows, lsReads, lsAnswers, lsOpens>>
  BY <1>1, MaxLs DEF OnNewMessage
<1>9. lsHeard' \in [LsIds -> Nat] /\ \A o \in LsIds : lsHeard'[o] <= lsMade'[o]
  BY <1>1, <1>8 DEF LsTypes
<1>10. LsTypes'
  BY <1>1, <1>3, <1>4, <1>5, <1>8, <1>9 DEF LsTypes
<1>11. QED
  BY <1>7, <1>10 DEF LsInv

\* The text that the network brings is shown and written as it is shown.
LEMMA TextTaken ==
  ASSUME LsInv, NEW m \in LsIds, NEW text \in LsTexts,
         ApplyText(m, text), IssueUpdate(m, text), Told(m, text, TRUE),
         UNCHANGED <<lsRows, lsReads>>
  PROVE  /\ ReadInv' /\ LsKept' /\ ScreenKept' /\ lsShown' \in LsTables
         /\ lsWrites' \in Seq(LsWrite) /\ Len(lsWrites') <= MaxLsWrites
         /\ lsTold' \in [LsIds -> 0..MaxLsTexts]
         /\ lsDisturbed' \subseteq LsIds /\ lsBlurred' \subseteq lsDisturbed'
<1>1. LsTypes
  BY DEF LsInv
<1>2. /\ lsShown' \in LsTables /\ DOMAIN lsShown' = DOMAIN lsShown
      /\ \A o : o # m => lsShown'[o] = lsShown[o]
      /\ Shows(m) => lsShown'[m].text = text /\ lsShown'[m].reacts = lsShown[m].reacts
  BY <1>1, ApplyIs
<1>3. /\ lsTold' \in [LsIds -> 0..MaxLsTexts] /\ lsDisturbed' \subseteq LsIds
      /\ lsTold'[m] = text /\ \A o \in LsIds : o # m => lsTold'[o] = lsTold[o]
      /\ \A o \in LsIds : o # m => (o \in lsDisturbed' <=> o \in lsDisturbed)
      /\ m \notin lsDisturbed' => ~InFlight(m) /\ ~BeingRead(m)
      /\ lsBlurred' \subseteq lsDisturbed'
      /\ \A o \in LsIds : o # m => (o \in lsBlurred' <=> o \in lsBlurred)
      /\ m \notin lsBlurred' => ~BeingRead(m)
  BY <1>1, ToldIs
<1>4. PICK reacts : reacts = IF Shows(m) THEN lsShown[m].reacts ELSE 0
  OBVIOUS
<1>5. reacts \in 0..MaxLsReacts
  BY <1>1, <1>4, TableIs, MaxLs DEF LsTypes, Shows
<1>6. PICK row \in LsRecord : row = [text |-> text, reacts |-> reacts]
  BY <1>5, MaxLs
<1>7. IssueWrite("update", m, row)
  BY <1>4, <1>6 DEF IssueUpdate
<1>8. /\ lsWrites' \in Seq(LsWrite) /\ Len(lsWrites') <= MaxLsWrites
      /\ \E w \in LsWrite : w.id = m /\ w.row = row /\ lsWrites' = Append(lsWrites, w)
  BY <1>1, <1>7, IssueIs
<1>9. PICK w \in LsWrite : w.id = m /\ w.row = row /\ lsWrites' = Append(lsWrites, w)
  BY <1>8
<1>10. w.row.text = lsTold'[m] /\ w.row.reacts = reacts
  BY <1>3, <1>6, <1>9
<1>11. m \in DOMAIN lsShown' =>
         lsShown'[m].text = lsTold'[m] /\ w.row.reacts \in {0, lsShown'[m].reacts}
  BY <1>2, <1>3, <1>4, <1>10 DEF Shows
<1>12. ReadInv' /\ LsKept' /\ ScreenKept'
  BY <1>2, <1>3, <1>9, <1>10, <1>11, IssuedKeeps
<1>13. QED
  BY <1>2, <1>3, <1>8, <1>12

LEMMA UpdateKept ==
  ASSUME LsInv, NEW m \in LsIds, OnUpdate(m)
  PROVE  LsInv'
<1>1. /\ lsHeard \in [LsIds -> Nat] /\ lsMade[m] \in 0..MaxLsTexts /\ MaxLsTexts \in Nat
      /\ lsHeard[m] \in 1..(lsMade[m] - 1)
  BY MaxLs DEF LsInv, LsTypes, OnUpdate
<1>2. PICK text : text = lsHeard[m] + 1
  OBVIOUS
<1>3. text \in LsTexts /\ text <= lsMade[m] /\ text \in Nat
  BY <1>1, <1>2 DEF LsTexts
<1>4. /\ ApplyText(m, text) /\ IssueUpdate(m, text) /\ Told(m, text, TRUE)
      /\ lsHeard' = [lsHeard EXCEPT ![m] = text]
      /\ UNCHANGED <<lsChannel, lsRows, lsReads, lsMade, lsAnswers, lsOpens>>
  BY <1>2 DEF OnUpdate
<1>5. /\ ReadInv' /\ LsKept' /\ ScreenKept' /\ lsShown' \in LsTables
      /\ lsWrites' \in Seq(LsWrite) /\ Len(lsWrites') <= MaxLsWrites
      /\ lsTold' \in [LsIds -> 0..MaxLsTexts]
      /\ lsDisturbed' \subseteq LsIds /\ lsBlurred' \subseteq lsDisturbed'
  BY <1>3, <1>4, TextTaken
<1>6. lsHeard' \in [LsIds -> Nat] /\ \A o \in LsIds : lsHeard'[o] <= lsMade'[o]
  BY <1>1, <1>3, <1>4 DEF LsInv, LsTypes
<1>7. LsTypes'
  BY <1>4, <1>5, <1>6 DEF LsInv, LsTypes
<1>8. QED
  BY <1>5, <1>7 DEF LsInv

\* Nothing of the screen, the store and what is under way changes.
LEMMA LsRest ==
  ASSUME LsInv, LsTypes',
         UNCHANGED <<lsShown, lsRows, lsWrites, lsReads, lsTold, lsDisturbed, lsBlurred>>
  PROVE  LsInv'
<1>1. ReadInv'
  BY DEF LsInv, ReadInv
<1>2. ASSUME NEW m \in LsIds, m \notin lsDisturbed'
      PROVE  LsFollows(m)'
  <2>1. LsFollows(m)
    BY <1>2 DEF LsInv, LsKept
  <2>2. QED
    BY <2>1 DEF LsFollows, Shows, InFlight, BeingRead, AtMostOne, Pending, LsMine
<1>3. ASSUME NEW m \in LsIds, m \notin lsBlurred'
      PROVE  ScreenFollows(m)'
  <2>1. ScreenFollows(m)
    BY <1>3 DEF LsInv, ScreenKept
  <2>2. QED
    BY <2>1 DEF ScreenFollows, Shows, BeingRead, Pending, LsMine
<1>4. QED
  BY <1>1, <1>2, <1>3 DEF LsInv, LsKept, ScreenKept

LEMMA AnswerKept ==
  ASSUME LsInv, NEW a \in lsAnswers, OnEditAnswer(a)
  PROVE  LsInv'
<1>1. a.id \in LsIds /\ a.text \in LsTexts
  BY DEF LsInv, LsTypes
<1>2. /\ lsAnswers' = lsAnswers \ {a}
      /\ UNCHANGED <<lsChannel, lsRows, lsReads, lsMade, lsHeard, lsOpens>>
  BY DEF OnEditAnswer
<1>3. CASE Shows(a.id)
  <2>1. /\ ReadInv' /\ LsKept' /\ ScreenKept' /\ lsShown' \in LsTables
        /\ lsWrites' \in Seq(LsWrite) /\ Len(lsWrites') <= MaxLsWrites
        /\ lsTold' \in [LsIds -> 0..MaxLsTexts]
        /\ lsDisturbed' \subseteq LsIds /\ lsBlurred' \subseteq lsDisturbed'
    BY <1>1, <1>2, <1>3, TextTaken DEF OnEditAnswer
  <2>2. LsTypes'
    BY <1>2, <2>1 DEF LsInv, LsTypes
  <2>3. QED
    BY <2>1, <2>2 DEF LsInv
<1>4. CASE ~Shows(a.id)
  <2>1. UNCHANGED <<lsShown, lsWrites, lsTold, lsDisturbed, lsBlurred, lsRows, lsReads>>
    BY <1>2, <1>4 DEF OnEditAnswer
  <2>2. LsTypes'
    BY <1>2, <2>1 DEF LsInv, LsTypes
  <2>3. QED
    BY <2>1, <2>2, LsRest
<1>5. QED
  BY <1>3, <1>4

\* A reaction changes the count on screen and is written with it.
LEMMA ReactionKept ==
  ASSUME LsInv, NEW m \in LsIds, OnReaction(m)
  PROVE  LsInv'
<1>1. LsTypes /\ lsShown \in LsTables /\ m \in DOMAIN lsShown /\ lsShown[m] \in LsRecord
  BY TableIs DEF LsInv, LsTypes, OnReaction, Shows
<1>2. PICK n \in 0..MaxLsReacts :
        LET row == [lsShown[m] EXCEPT !.reacts = n]
        IN  lsShown' = With(lsShown, m, row) /\ IssueWrite("update", m, row)
  BY DEF OnReaction
<1>3. PICK row : row = [lsShown[m] EXCEPT !.reacts = n]
  OBVIOUS
<1>4. row \in LsRecord /\ row.text = lsShown[m].text /\ row.reacts = n
  BY <1>1, <1>3 DEF LsRecord
<1>5. lsShown' = With(lsShown, m, row) /\ IssueWrite("update", m, row)
  BY <1>2, <1>3
<1>6. /\ lsShown' \in LsTables /\ DOMAIN lsShown' = DOMAIN lsShown \cup {m}
      /\ lsShown'[m] = row
      /\ \A o \in DOMAIN lsShown : o # m => lsShown'[o] = lsShown[o]
  BY <1>1, <1>4, <1>5, WithIs
<1>7. /\ lsWrites' \in Seq(LsWrite) /\ Len(lsWrites') <= MaxLsWrites
      /\ \E w \in LsWrite : w.id = m /\ w.row = row /\ lsWrites' = Append(lsWrites, w)
  BY <1>1, <1>4, <1>5, IssueIs
<1>8. PICK w \in LsWrite : w.id = m /\ w.row = row /\ lsWrites' = Append(lsWrites, w)
  BY <1>7
<1>9. /\ lsDisturbed' = IF Undisturbed(m) THEN lsDisturbed ELSE lsDisturbed \cup {m}
      /\ UNCHANGED <<lsChannel, lsRows, lsReads, lsMade, lsHeard, lsAnswers, lsTold,
                     lsBlurred, lsOpens>>
  BY DEF OnReaction
<1>10. \A o : o # m => /\ o \in DOMAIN lsShown' <=> o \in DOMAIN lsShown
                       /\ o \in DOMAIN lsShown => lsShown'[o] = lsShown[o]
  BY <1>6
<1>11. /\ m \notin lsDisturbed' => m \notin lsDisturbed /\ ~InFlight(m) /\ ~BeingRead(m)
       /\ \A o : o # m => (o \in lsDisturbed' <=> o \in lsDisturbed)
       /\ lsDisturbed' \subseteq LsIds /\ lsBlurred' \subseteq lsDisturbed'
  BY <1>1, <1>9 DEF Undisturbed, LsTypes
<1>12. m \notin lsDisturbed' \/ m \notin lsBlurred' => row.text = lsTold'[m]
  <2>1. m \notin lsBlurred => lsShown[m].text = lsTold[m]
    BY <1>1 DEF LsInv, ScreenKept, ScreenFollows, Shows
  <2>2. m \notin lsDisturbed' => m \notin lsBlurred
    BY <1>9, <1>11
  <2>3. QED
    BY <1>4, <1>9, <2>1, <2>2
<1>13. ReadInv' /\ LsKept' /\ ScreenKept'
  <2>1. m \notin lsDisturbed' => /\ ~InFlight(m) /\ ~BeingRead(m)
                                 /\ w.row.text = lsTold'[m]
    BY <1>8, <1>11, <1>12
  <2>2. m \notin lsDisturbed' /\ m \in DOMAIN lsShown'
          => lsShown'[m].text = lsTold'[m] /\ w.row.reacts \in {0, lsShown'[m].reacts}
    BY <1>6, <1>8, <1>12
  <2>3. \A o \in LsIds : o # m => /\ lsTold'[o] = lsTold[o]
                                  /\ o \in lsDisturbed' <=> o \in lsDisturbed
                                  /\ o \in lsBlurred' <=> o \in lsBlurred
    BY <1>9, <1>11
  <2>4. m \notin lsBlurred' => /\ m \notin lsBlurred /\ lsTold'[m] = lsTold[m]
                              /\ w.row.text = lsTold[m] /\ lsShown'[m].text = lsTold'[m]
    BY <1>6, <1>8, <1>9, <1>12
  <2>5. QED
    BY <1>8, <1>9, <1>10, <2>1, <2>2, <2>3, <2>4, IssuedKeeps
<1>14. LsTypes'
  BY <1>1, <1>6, <1>7, <1>9, <1>11 DEF LsTypes
<1>15. QED
  BY <1>13, <1>14 DEF LsInv

\* A row merged into the list: its text, and the reactions of the one that is there.
LEMMA MergedIs ==
  ASSUME lsShown \in LsTables, NEW m, NEW row \in LsRecord
  PROVE  /\ Merged(m, row) \in LsRecord /\ Merged(m, row).text = row.text
         /\ Shows(m) => Merged(m, row).reacts = lsShown[m].reacts
         /\ ~Shows(m) => Merged(m, row) = row
<1>1. CASE Shows(m)
  <2>1. lsShown[m] \in LsRecord
    BY <1>1, TableIs DEF Shows
  <2>2. PICK x : x = [lsShown[m] EXCEPT !.text = row.text]
    OBVIOUS
  <2>3. x \in LsRecord /\ x.text = row.text /\ x.reacts = lsShown[m].reacts
    BY <2>1, <2>2, MaxLs DEF LsRecord
  <2>4. Merged(m, row) = x
    BY <1>1, <2>2 DEF Merged
  <2>5. QED
    BY <1>1, <2>3, <2>4
<1>2. CASE ~Shows(m)
  BY <1>2 DEF Merged
<1>3. QED
  BY <1>1, <1>2

\* A page brings the message.
LEMMA FetchedKept ==
  ASSUME LsInv, NEW m \in LsIds, OnFetched(m)
  PROVE  LsInv'
<1>1. LsTypes /\ lsShown \in LsTables /\ lsMade[m] \in 0..MaxLsTexts /\ lsMade[m] > 0
      /\ MaxLsTexts \in Nat
  BY MaxLs DEF LsInv, LsTypes, OnFetched
<1>2. PICK text \in {1, lsMade[m]} :
        LET row == [text |-> text, reacts |-> 0]
        IN  /\ lsShown' = With(lsShown, m, Merged(m, row))
            /\ IssueWrite("insert", m, row)
            /\ Told(m, text, TRUE)
  BY DEF OnFetched
<1>3. text \in LsTexts /\ 0 \in 0..MaxLsReacts
  BY <1>1, MaxLs DEF LsTexts
<1>4. PICK row \in LsRecord : row = [text |-> text, reacts |-> 0]
  BY <1>3, MaxLs
<1>5. /\ lsShown' = With(lsShown, m, Merged(m, row)) /\ IssueWrite("insert", m, row)
      /\ Told(m, text, TRUE) /\ row.text = text /\ row.reacts = 0
  BY <1>2, <1>4
<1>6. PICK new \in LsRecord : new = Merged(m, row) /\ new.text = text
  BY <1>1, <1>5, MergedIs
<1>7. /\ lsShown' \in LsTables /\ DOMAIN lsShown' = DOMAIN lsShown \cup {m}
      /\ lsShown'[m] = new
      /\ \A o \in DOMAIN lsShown : o # m => lsShown'[o] = lsShown[o]
  BY <1>1, <1>5, <1>6, WithIs
<1>8. /\ lsTold' \in [LsIds -> 0..MaxLsTexts] /\ lsDisturbed' \subseteq LsIds
      /\ lsTold'[m] = text /\ \A o \in LsIds : o # m => lsTold'[o] = lsTold[o]
      /\ \A o \in LsIds : o # m => (o \in lsDisturbed' <=> o \in lsDisturbed)
      /\ m \notin lsDisturbed' => ~InFlight(m) /\ ~BeingRead(m)
      /\ lsBlurred' \subseteq lsDisturbed'
      /\ \A o \in LsIds : o # m => (o \in lsBlurred' <=> o \in lsBlurred)
      /\ m \notin lsBlurred' => ~BeingRead(m)
  BY <1>1, <1>3, <1>5, ToldIs
<1>9. /\ lsWrites' \in Seq(LsWrite) /\ Len(lsWrites') <= MaxLsWrites
      /\ \E w \in LsWrite : w.id = m /\ w.row = row /\ lsWrites' = Append(lsWrites, w)
  BY <1>1, <1>5, IssueIs
<1>10. PICK w \in LsWrite : w.id = m /\ w.row = row /\ lsWrites' = Append(lsWrites, w)
  BY <1>9
<1>11. UNCHANGED <<lsChannel, lsRows, lsReads, lsMade, lsHeard, lsAnswers, lsOpens>>
  BY DEF OnFetched, lsNetwork
<1>12. ReadInv' /\ LsKept' /\ ScreenKept'
  <2>1. w.row.text = lsTold'[m] /\ w.row.reacts = 0 /\ lsShown'[m].text = lsTold'[m]
    BY <1>5, <1>6, <1>7, <1>8, <1>10
  <2>2. \A o : o # m => /\ o \in DOMAIN lsShown' <=> o \in DOMAIN lsShown
                        /\ o \in DOMAIN lsShown => lsShown'[o] = lsShown[o]
    BY <1>7
  <2>3. QED
    BY <1>8, <1>10, <1>11, <2>1, <2>2, IssuedKeeps
<1>13. LsTypes'
  BY <1>1, <1>7, <1>8, <1>9, <1>11 DEF LsTypes
<1>14. QED
  BY <1>12, <1>13 DEF LsInv

\* A write happens: the row has the message's text, and the screen's reactions or
\* none.
LEMMA RowWritten ==
  ASSUME LsInv, NEW k \in DOMAIN lsWrites, WriteRow(k)
  PROVE  LsInv'
<1>1. PICK w : w = lsWrites[k]
  OBVIOUS
<1>2. /\ LsTypes /\ lsRows \in LsTables /\ lsWrites \in Seq(LsWrite)
      /\ w \in LsWrite /\ w.id \in LsIds /\ w.row \in LsRecord /\ w \in Pending(w.id)
  <2>1. LsTypes /\ lsRows \in LsTables /\ lsWrites \in Seq(LsWrite)
    BY DEF LsInv, LsTypes
  <2>2. w \in LsWrite
    BY <1>1, <2>1
  <2>3. w \in Pending(w.id)
    BY <1>1 DEF Pending, LsMine
  <2>4. QED
    BY <2>1, <2>2, <2>3 DEF LsWrite
<1>3. PICK row : /\ lsRows' = Written(w, row)
                 /\ \/ row = w.row
                    \/ /\ Shows(w.id)
                       /\ row = [w.row EXCEPT !.reacts = lsShown[w.id].reacts]
  BY <1>1 DEF WriteRow
<1>4. /\ row \in LsRecord /\ row.text = w.row.text
      /\ \/ row.reacts = w.row.reacts
         \/ Shows(w.id) /\ row.reacts = lsShown[w.id].reacts
  <2>1. CASE row = w.row
    BY <1>2, <2>1
  <2>2. CASE Shows(w.id) /\ row = [w.row EXCEPT !.reacts = lsShown[w.id].reacts]
    <3>1. lsShown[w.id] \in LsRecord
      BY <1>2, <2>2, TableIs DEF LsTypes, Shows
    <3>2. QED
      BY <1>2, <2>2, <3>1, MaxLs DEF LsRecord
  <2>3. QED
    BY <1>3, <2>1, <2>2
<1>5. /\ lsWrites' = RemoveAt(lsWrites, k)
      /\ UNCHANGED <<lsChannel, lsShown, lsReads, lsMade, lsHeard, lsAnswers, lsTold,
                     lsDisturbed, lsBlurred, lsOpens>>
  BY DEF WriteRow, lsNetwork
<1>6. /\ lsWrites' \in Seq(LsWrite) /\ Len(lsWrites') = Len(lsWrites) - 1
      /\ \A m : m # w.id => Pending(m)' = Pending(m) /\ (AtMostOne(m) => AtMostOne(m)')
      /\ \A m : m = w.id /\ AtMostOne(m) => Pending(m)' = {}
      /\ \A m : Pending(m)' \subseteq Pending(m)
  BY <1>1, <1>2, <1>5, LsDone
<1>7. /\ lsRows' \in LsTables
      /\ \A o : o # w.id => /\ o \in DOMAIN lsRows' <=> o \in DOMAIN lsRows
                            /\ o \in DOMAIN lsRows => lsRows'[o] = lsRows[o]
      /\ w.id \in DOMAIN lsRows' => lsRows'[w.id] = row
  <2>1. CASE w.op = "insert" \/ w.id \in DOMAIN lsRows
    <3>1. lsRows' = With(lsRows, w.id, row)
      BY <1>3, <2>1 DEF Written
    <3>2. /\ lsRows' \in LsTables /\ DOMAIN lsRows' = DOMAIN lsRows \cup {w.id}
          /\ lsRows'[w.id] = row
          /\ \A o \in DOMAIN lsRows : o # w.id => lsRows'[o] = lsRows[o]
      <4>1. lsRows \in LsTables /\ w.id \in LsIds /\ row \in LsRecord
        BY <1>2, <1>4
      <4>2. PICK id : id = w.id
        OBVIOUS
      <4>3. lsRows' = With(lsRows, id, row) /\ id \in LsIds
        BY <3>1, <4>1, <4>2
      <4>4. /\ lsRows' \in LsTables /\ DOMAIN lsRows' = DOMAIN lsRows \cup {id}
            /\ lsRows'[id] = row
            /\ \A o \in DOMAIN lsRows : o # id => lsRows'[o] = lsRows[o]
        BY <4>1, <4>3, WithIs
      <4>5. QED
        BY <4>2, <4>4
    <3>3. QED
      BY <3>2
  <2>2. CASE ~(w.op = "insert" \/ w.id \in DOMAIN lsRows)
    BY <1>2, <1>3, <2>2 DEF Written
  <2>3. QED
    BY <2>1, <2>2
<1>8. Len(lsWrites') <= MaxLsWrites
  BY <1>2, <1>6, MaxLs DEF LsTypes
<1>9. LsTypes'
  BY <1>2, <1>5, <1>6, <1>7, <1>8 DEF LsTypes
<1>10. ReadInv'
  BY <1>5 DEF LsInv, ReadInv
<1>11. ASSUME NEW m \in LsIds, m \notin lsDisturbed'
       PROVE  LsFollows(m)'
  <2>1. LsFollows(m)
    BY <1>5, <1>11 DEF LsInv, LsKept
  <2>2. (BeingRead(m)' <=> BeingRead(m)) /\ (Shows(m)' <=> Shows(m))
    BY <1>5 DEF BeingRead, Shows
  <2>3. CASE m = w.id
    <3>1. Pending(m)' = {} /\ ~InFlight(m)'
      BY <1>6, <2>1, <2>3, InFlightThen DEF LsFollows
    <3>2. AtMostOne(m)'
      BY <3>1 DEF Pending, AtMostOne
    <3>3. InFlight(m) /\ ~BeingRead(m)
      BY <1>2, <2>1, <2>3, InFlightIs DEF LsFollows
    <3>4. \A r \in Range(lsReads') : m \notin DOMAIN r.got
      BY <1>10, <2>2, <3>3, InFlightThen DEF ReadInv
    <3>5. /\ row.text = lsTold[m]
          /\ Shows(m) => row.reacts \in {0, lsShown[m].reacts}
      BY <1>2, <1>4, <2>1, <2>3 DEF LsFollows
    <3>6. m \in DOMAIN lsRows' => lsRows'[m] = row
      BY <1>7, <2>3
    <3>7. Shows(m)' => lsShown'[m].text = lsTold'[m]
      BY <1>5, <2>1, <2>2 DEF LsFollows
    <3>8. QED
      BY <1>5, <2>2, <3>1, <3>2, <3>4, <3>5, <3>6, <3>7 DEF LsFollows
  <2>4. CASE m # w.id
    <3>1. /\ m \in DOMAIN lsRows' <=> m \in DOMAIN lsRows
          /\ m \in DOMAIN lsRows => lsRows'[m] = lsRows[m]
      BY <1>7, <2>4
    <3>2. Pending(m)' = Pending(m) /\ AtMostOne(m)' /\ (InFlight(m)' <=> InFlight(m))
      BY <1>6, <2>1, <2>4, InFlightIs, InFlightThen DEF LsFollows
    <3>3. QED
      BY <1>5, <2>1, <2>2, <3>1, <3>2 DEF LsFollows
  <2>5. QED
    BY <2>3, <2>4
<1>12. ASSUME NEW m \in LsIds, m \notin lsBlurred'
       PROVE  ScreenFollows(m)'
  <2>1. ScreenFollows(m)
    BY <1>5, <1>12 DEF LsInv, ScreenKept
  <2>2. (BeingRead(m)' <=> BeingRead(m)) /\ (Shows(m)' <=> Shows(m))
        /\ Pending(m)' \subseteq Pending(m)
    BY <1>5, <1>6 DEF BeingRead, Shows
  <2>3. BeingRead(m) /\ m \in DOMAIN lsRows' => lsRows'[m].text = lsTold[m]
    <3>1. CASE m = w.id
      BY <1>2, <1>4, <1>7, <2>1, <3>1 DEF ScreenFollows
    <3>2. CASE m # w.id
      BY <1>7, <2>1, <3>2 DEF ScreenFollows
    <3>3. QED
      BY <3>1, <3>2
  <2>4. QED
    BY <1>5, <2>1, <2>2, <2>3 DEF ScreenFollows
<1>13. QED
  BY <1>9, <1>10, <1>11, <1>12 DEF LsInv, LsKept, ScreenKept

LEMMA RowNotWritten ==
  ASSUME LsInv, NEW k \in DOMAIN lsWrites, WriteRowFails(k)
  PROVE  LsInv'
<1>1. PICK w : w = lsWrites[k]
  OBVIOUS
<1>2. LsTypes /\ lsWrites \in Seq(LsWrite) /\ w \in LsWrite /\ w.id \in LsIds
  <2>1. LsTypes /\ lsWrites \in Seq(LsWrite)
    BY DEF LsInv, LsTypes
  <2>2. w \in LsWrite
    BY <1>1, <2>1
  <2>3. QED
    BY <2>1, <2>2 DEF LsWrite
<1>3. /\ lsWrites' = RemoveAt(lsWrites, k) /\ lsDisturbed' = lsDisturbed \cup {w.id}
      /\ UNCHANGED <<lsChannel, lsShown, lsRows, lsReads, lsMade, lsHeard, lsAnswers,
                     lsTold, lsBlurred, lsOpens>>
  BY <1>1 DEF WriteRowFails, lsNetwork
<1>4. /\ lsWrites' \in Seq(LsWrite) /\ Len(lsWrites') = Len(lsWrites) - 1
      /\ \A m : m # w.id => Pending(m)' = Pending(m) /\ (AtMostOne(m) => AtMostOne(m)')
      /\ \A m : Pending(m)' \subseteq Pending(m)
  BY <1>1, <1>2, <1>3, LsDone
<1>5. Len(lsWrites') <= MaxLsWrites
  BY <1>2, <1>4, MaxLs DEF LsTypes
<1>6. LsTypes'
  BY <1>2, <1>3, <1>4, <1>5 DEF LsTypes
<1>7. ReadInv'
  BY <1>3 DEF LsInv, ReadInv
<1>8. ASSUME NEW m \in LsIds, m \notin lsDisturbed'
      PROVE  LsFollows(m)'
  <2>1. LsFollows(m) /\ m # w.id
    BY <1>3, <1>8 DEF LsInv, LsKept
  <2>2. (BeingRead(m)' <=> BeingRead(m)) /\ (Shows(m)' <=> Shows(m))
    BY <1>3 DEF BeingRead, Shows
  <2>3. Pending(m)' = Pending(m) /\ AtMostOne(m)' /\ (InFlight(m)' <=> InFlight(m))
    BY <1>4, <2>1, InFlightIs, InFlightThen DEF LsFollows
  <2>4. QED
    BY <1>3, <2>1, <2>2, <2>3 DEF LsFollows
<1>9. ASSUME NEW m \in LsIds, m \notin lsBlurred'
      PROVE  ScreenFollows(m)'
  <2>1. ScreenFollows(m)
    BY <1>3, <1>9 DEF LsInv, ScreenKept
  <2>2. (BeingRead(m)' <=> BeingRead(m)) /\ (Shows(m)' <=> Shows(m))
        /\ Pending(m)' \subseteq Pending(m)
    BY <1>3, <1>4 DEF BeingRead, Shows
  <2>3. QED
    BY <1>3, <2>1, <2>2 DEF ScreenFollows
<1>10. QED
  BY <1>6, <1>7, <1>8, <1>9 DEF LsInv, LsKept, ScreenKept

\* A read takes the rows of its channel.
LEMMA RowsRead ==
  ASSUME LsInv, NEW k \in DOMAIN lsReads, ReadRows(k)
  PROVE  LsInv'
<1> DEFINE here == {m \in DOMAIN lsRows : LsPlace[m] = lsReads[k].channel}
<1>1. PICK r : r = lsReads[k]
  OBVIOUS
<1>2. LsTypes /\ lsReads \in Seq(LsAsked) /\ lsRows \in LsTables
  BY DEF LsInv, LsTypes
<1>3. r \in LsAsked /\ r.channel \in LsChannels
  <2>1. r \in LsAsked
    BY <1>1, <1>2
  <2>2. QED
    BY <2>1 DEF LsAsked
<1>4. PICK got : got = [m \in here |-> lsRows[m]]
  OBVIOUS
<1>5. /\ got \in LsTables /\ DOMAIN got = here
      /\ \A m \in DOMAIN got : /\ m \in DOMAIN lsRows /\ LsPlace[m] = r.channel /\ m \in LsIds
                               /\ got[m] = lsRows[m]
  <2>1. DOMAIN lsRows \subseteq LsIds /\ lsRows \in [DOMAIN lsRows -> LsRecord]
    BY <1>2, TableIs
  <2>2. here \in SUBSET LsIds /\ got \in [here -> LsRecord]
    BY <1>4, <2>1
  <2>3. got \in LsTables
    BY <2>2, TableIs
  <2>4. QED
    BY <1>1, <1>4, <2>1, <2>3
<1>6. PICK yes \in BOOLEAN : yes = TRUE
  BY Zenon
<1>7. PICK r2 : r2 = [r EXCEPT !.done = yes, !.got = got]
  OBVIOUS
<1>8. r2 \in LsAsked /\ r2.channel = r.channel /\ r2.got = got
  BY <1>3, <1>5, <1>7 DEF LsAsked
<1>9. lsReads' = [lsReads EXCEPT ![k] = r2]
  <2>1. lsReads' = [lsReads EXCEPT ![k].done = TRUE, ![k].got = got]
    BY <1>4 DEF ReadRows
  <2>2. lsReads' = [lsReads EXCEPT ![k].done = yes, ![k].got = got]
    BY Zenon, <1>6, <2>1
  <2>3. QED
    BY <1>1, <1>2, <1>7, <2>2
<1>10. /\ lsReads' \in Seq(LsAsked) /\ DOMAIN lsReads' = DOMAIN lsReads
      /\ lsReads'[k] = r2 /\ \A j \in DOMAIN lsReads : j # k => lsReads'[j] = lsReads[j]
  BY <1>2, <1>8, <1>9
<1>11. UNCHANGED <<lsChannel, lsShown, lsRows, lsWrites, lsMade, lsHeard, lsAnswers, lsTold,
                   lsDisturbed, lsBlurred, lsOpens>>
  BY DEF ReadRows, lsNetwork
<1>12. LsTypes'
  BY <1>2, <1>10, <1>11 DEF LsTypes
<1>13. \A x \in Range(lsReads') : x = r2 \/ x \in Range(lsReads)
  BY <1>10 DEF Range
<1>14. ReadInv'
  BY <1>5, <1>8, <1>13 DEF LsInv, ReadInv
<1>15. \A m : BeingRead(m)' <=> BeingRead(m)
  <2>1. \A j \in DOMAIN lsReads : lsReads'[j].channel = lsReads[j].channel
    BY <1>1, <1>8, <1>10
  <2>2. QED
    BY <1>10, <2>1 DEF BeingRead
<1>16. ASSUME NEW m \in LsIds, m \notin lsDisturbed'
       PROVE  LsFollows(m)'
  <2>1. LsFollows(m)
    BY <1>11, <1>16 DEF LsInv, LsKept
  <2>2. (Shows(m)' <=> Shows(m)) /\ (InFlight(m)' <=> InFlight(m)) /\ AtMostOne(m)'
        /\ Pending(m)' = Pending(m)
    BY <1>11, <2>1 DEF Shows, InFlight, AtMostOne, Pending, LsMine, LsFollows
  <2>3. \A x \in Range(lsReads') :
          m \in DOMAIN x.got => m \in DOMAIN lsRows /\ x.got[m] = lsRows[m]
    BY <1>5, <1>8, <1>13, <2>1 DEF LsFollows
  <2>4. QED
    BY <1>11, <1>15, <2>1, <2>2, <2>3 DEF LsFollows
<1>17. ASSUME NEW m \in LsIds, m \notin lsBlurred'
       PROVE  ScreenFollows(m)'
  <2>1. ScreenFollows(m)
    BY <1>11, <1>17 DEF LsInv, ScreenKept
  <2>2. (Shows(m)' <=> Shows(m)) /\ Pending(m)' = Pending(m)
    BY <1>11 DEF Shows, Pending, LsMine
  <2>3. m \in DOMAIN got => got[m].text = lsTold[m]
    <3>1. r \in Range(lsReads)
      BY <1>1, <1>2 DEF Range
    <3>2. m \in DOMAIN got => BeingRead(m)
      BY <1>5, <3>1, InFlightIs
    <3>3. QED
      BY <1>5, <2>1, <3>2 DEF ScreenFollows
  <2>4. \A x \in Range(lsReads') : m \in DOMAIN x.got => x.got[m].text = lsTold[m]
    BY <1>8, <1>13, <2>1, <2>3 DEF ScreenFollows
  <2>5. QED
    BY <1>11, <1>15, <2>1, <2>2, <2>4 DEF ScreenFollows
<1>18. QED
  BY <1>12, <1>14, <1>16, <1>17 DEF LsInv, LsKept, ScreenKept

\* What a read has found is merged into the list, or dropped.
LEMMA LocalRowsKept ==
  ASSUME LsInv, NEW k \in DOMAIN lsReads, OnLocalRows(k)
  PROVE  LsInv'
<1>1. PICK r : r = lsReads[k]
  OBVIOUS
<1>2. PICK got : got = r.got
  OBVIOUS
<1>3. LsTypes /\ lsReads \in Seq(LsAsked) /\ lsShown \in LsTables
  BY DEF LsInv, LsTypes
<1>4. r \in LsAsked /\ r \in Range(lsReads)
  BY <1>1, <1>3 DEF Range
<1>5. got \in LsTables
  BY <1>2, <1>4 DEF LsAsked
<1>6. /\ lsReads' = RemoveAt(lsReads, k)
      /\ UNCHANGED <<lsChannel, lsRows, lsWrites, lsMade, lsHeard, lsAnswers, lsTold,
                     lsDisturbed, lsBlurred, lsOpens>>
      /\ \/ lsShown' = [m \in DOMAIN lsShown \cup DOMAIN got |->
                          IF m \in DOMAIN got THEN Merged(m, got[m]) ELSE lsShown[m]]
         \/ lsShown' = lsShown
  BY <1>1, <1>2 DEF OnLocalRows, lsNetwork
<1>7. lsReads' \in Seq(LsAsked) /\ \A x \in Range(lsReads') : x \in Range(lsReads)
  <2> DEFINE t == RemoveAt(lsReads, k)
  <2>1. /\ t \in Seq(LsAsked)
        /\ \A i \in DOMAIN t : \E j \in DOMAIN lsReads : j # k /\ t[i] = lsReads[j]
    BY <1>3, RemoveAtKeeps
  <2> HIDE DEF t
  <2>2. lsReads' = t
    BY <1>6 DEF t
  <2>3. QED
    BY <2>1, <2>2 DEF Range
<1>8. /\ \A m \in DOMAIN got : got[m] \in LsRecord /\ m \in LsIds
      /\ \A m \in DOMAIN lsShown : lsShown[m] \in LsRecord /\ m \in LsIds
  BY <1>3, <1>5, TableIs
<1>9. /\ lsShown' \in LsTables
      /\ \A m : Shows(m) => Shows(m)'
      /\ \A m : Shows(m)' =>
           \/ Shows(m) /\ lsShown'[m] = lsShown[m]
           \/ m \in DOMAIN got /\ lsShown'[m] = Merged(m, got[m])
  <2>1. CASE lsShown' = lsShown
    BY <1>3, <2>1 DEF Shows
  <2>2. CASE lsShown' = [m \in DOMAIN lsShown \cup DOMAIN got |->
                           IF m \in DOMAIN got THEN Merged(m, got[m]) ELSE lsShown[m]]
    <3>1. PICK ids \in SUBSET LsIds : ids = DOMAIN lsShown \cup DOMAIN got
      BY <1>8
    <3>2. \A m \in DOMAIN got : Merged(m, got[m]) \in LsRecord
      BY <1>3, <1>8, MergedIs
    <3>3. lsShown' \in [ids -> LsRecord]
      BY <1>8, <2>2, <3>1, <3>2
    <3>4. lsShown' \in LsTables /\ DOMAIN lsShown' = ids
      BY <3>1, <3>3, TableIs
    <3>5. \A m \in ids : lsShown'[m] = IF m \in DOMAIN got THEN Merged(m, got[m])
                                                           ELSE lsShown[m]
      BY <2>2, <3>1
    <3>6. QED
      BY <3>1, <3>4, <3>5 DEF Shows
  <2>3. QED
    BY <1>6, <2>1, <2>2
<1>10. LsTypes'
  BY <1>3, <1>6, <1>7, <1>9 DEF LsTypes
<1>11. ReadInv'
  BY <1>7 DEF LsInv, ReadInv
<1>12. ASSUME NEW m \in LsIds, m \notin lsDisturbed'
       PROVE  LsFollows(m)'
  <2>1. LsFollows(m)
    BY <1>6, <1>12 DEF LsInv, LsKept
  <2>2. (InFlight(m)' <=> InFlight(m)) /\ AtMostOne(m)' /\ Pending(m)' = Pending(m)
    BY <1>6, <2>1 DEF InFlight, AtMostOne, Pending, LsMine, LsFollows
  <2>3. BeingRead(m)' => BeingRead(m)
    BY <1>7, InFlightIs, InFlightThen
  <2>4. \A x \in Range(lsReads') :
          m \in DOMAIN x.got => m \in DOMAIN lsRows /\ x.got[m] = lsRows[m]
    BY <1>7, <2>1 DEF LsFollows
  <2>5. CASE ~Shows(m)' \/ (Shows(m) /\ lsShown'[m] = lsShown[m])
    <3>1. Shows(m)' => Shows(m) /\ lsShown'[m] = lsShown[m]
      BY <2>5
    <3>2. QED
      BY <1>6, <2>1, <2>2, <2>3, <2>4, <3>1 DEF LsFollows
  <2>6. CASE m \in DOMAIN got /\ lsShown'[m] = Merged(m, got[m])
    <3>1. /\ BeingRead(m) /\ ~InFlight(m)
      <4>1. r.channel = LsPlace[m]
        BY <1>2, <1>4, <2>6 DEF LsInv, ReadInv
      <4>2. BeingRead(m)
        BY <1>4, <4>1, InFlightIs
      <4>3. QED
        BY <2>1, <4>2 DEF LsFollows
    <3>2. m \in DOMAIN lsRows /\ got[m] = lsRows[m]
      BY <1>2, <1>4, <2>1, <2>6 DEF LsFollows
    <3>3. /\ lsRows[m].text = lsTold[m]
          /\ Shows(m) => lsRows[m].reacts \in {0, lsShown[m].reacts}
      BY <2>1, <3>1, <3>2 DEF LsFollows
    <3>4. /\ lsShown'[m].text = got[m].text
          /\ Shows(m) => lsShown'[m].reacts = lsShown[m].reacts
          /\ ~Shows(m) => lsShown'[m] = got[m]
      BY <1>3, <1>8, <2>6, MergedIs
    <3>5. lsShown'[m].text = lsTold[m] /\ lsRows[m].reacts \in {0, lsShown'[m].reacts}
      BY <3>2, <3>3, <3>4
    <3>6. ~InFlight(m)' /\ Pending(m)' = {}
      BY <2>2, <3>1, InFlightIs
    <3>7. QED
      BY <1>6, <2>2, <2>4, <3>3, <3>5, <3>6 DEF LsFollows
  <2>7. QED
    BY <1>9, <2>5, <2>6
<1>13. ASSUME NEW m \in LsIds, m \notin lsBlurred'
       PROVE  ScreenFollows(m)'
  <2>1. ScreenFollows(m)
    BY <1>6, <1>13 DEF LsInv, ScreenKept
  <2>2. Pending(m)' = Pending(m)
    BY <1>6 DEF Pending, LsMine
  <2>3. BeingRead(m)' => BeingRead(m)
    BY <1>7, InFlightIs, InFlightThen
  <2>4. m \in DOMAIN got => Merged(m, got[m]).text = lsTold[m]
    BY <1>2, <1>3, <1>4, <1>8, <2>1, MergedIs DEF ScreenFollows
  <2>5. Shows(m)' => lsShown'[m].text = lsTold[m]
    BY <1>9, <2>1, <2>4 DEF ScreenFollows
  <2>6. \A x \in Range(lsReads') : m \in DOMAIN x.got => x.got[m].text = lsTold[m]
    BY <1>7, <2>1 DEF ScreenFollows
  <2>7. QED
    BY <1>6, <2>1, <2>2, <2>3, <2>5, <2>6 DEF ScreenFollows
<1>14. QED
  BY <1>10, <1>11, <1>12, <1>13 DEF LsInv, LsKept, ScreenKept

\* A channel comes on screen: nothing is shown and its rows are read.
LEMMA SwitchKept ==
  ASSUME LsInv, NEW c \in LsChannels, SwitchTo(c)
  PROVE  LsInv'
<1>1. PICK r : r = LsRead(c)
  OBVIOUS
<1>2. r \in LsAsked /\ r.channel = c /\ DOMAIN r.got = {}
  <2>1. FALSE \in BOOLEAN /\ NoTable \in LsTables /\ DOMAIN NoTable = {}
    BY TableIs
  <2>2. QED
    BY <1>1, <2>1 DEF LsRead, LsAsked
<1>3. /\ lsReads \in Seq(LsAsked) /\ lsReads' = Append(lsReads, r)
      /\ lsOpens < MaxLsOpens /\ lsOpens' = lsOpens + 1 /\ lsOpens \in 0..MaxLsOpens
      /\ lsChannel' = c /\ lsShown' = NoTable
      /\ lsDisturbed' = lsDisturbed \cup {m \in LsIds : LsPlace[m] = c /\ InFlight(m)}
      /\ lsBlurred' = lsBlurred \cup {m \in LsIds : LsPlace[m] = c /\ InFlight(m)}
                                \cup {m \in lsDisturbed : LsPlace[m] = c}
      /\ UNCHANGED <<lsRows, lsWrites, lsMade, lsHeard, lsAnswers, lsTold>>
  BY <1>1 DEF SwitchTo, lsNetwork, LsInv, LsTypes
<1>4. lsReads' \in Seq(LsAsked) /\ \A x \in Range(lsReads') : x = r \/ x \in Range(lsReads)
  <2> DEFINE t == Append(lsReads, r)
             n == Len(lsReads) + 1
  <2>1. t \in Seq(LsAsked) /\ Len(t) = n /\ t[n] = r
        /\ \A j \in 1..Len(lsReads) : t[j] = lsReads[j]
    BY <1>2, <1>3, AppendProperties
  <2>2. Len(lsReads) \in Nat /\ DOMAIN lsReads = 1..Len(lsReads) /\ lsReads' = t
    BY <1>3
  <2> HIDE DEF t
  <2>3. DOMAIN t = 1..n
    BY <2>1, <2>2
  <2>4. \A j \in DOMAIN t : j = n \/ j \in DOMAIN lsReads
    BY <2>2, <2>3
  <2>5. \A j \in DOMAIN lsReads : t[j] = lsReads[j]
    BY <2>1, <2>2
  <2> HIDE DEF n
  <2>6. \A j \in DOMAIN t : t[j] = r \/ (j \in DOMAIN lsReads /\ t[j] = lsReads[j])
    BY <2>1, <2>4, <2>5
  <2>7. QED
    BY <2>1, <2>2, <2>6 DEF Range
<1>5. /\ lsOpens' \in 0..MaxLsOpens /\ lsShown' \in LsTables /\ \A m : ~Shows(m)'
      /\ lsDisturbed' \subseteq LsIds /\ lsBlurred' \subseteq lsDisturbed'
  BY <1>3, TableIs, MaxLs DEF Shows, LsInv, LsTypes
<1>6. LsTypes'
  BY <1>3, <1>4, <1>5 DEF LsInv, LsTypes
<1>7. ReadInv'
  BY <1>2, <1>4 DEF LsInv, ReadInv
<1>8. ASSUME NEW m \in LsIds, m \notin lsDisturbed'
      PROVE  LsFollows(m)'
  <2>1. LsFollows(m) /\ ~(LsPlace[m] = c /\ InFlight(m))
    BY <1>3, <1>8 DEF LsInv, LsKept
  <2>2. (InFlight(m)' <=> InFlight(m)) /\ AtMostOne(m)' /\ Pending(m)' = Pending(m)
    BY <1>3, <2>1 DEF InFlight, AtMostOne, Pending, LsMine, LsFollows
  <2>3. BeingRead(m)' => BeingRead(m) \/ LsPlace[m] = c
    BY <1>2, <1>4, InFlightIs, InFlightThen
  <2>4. \A x \in Range(lsReads') :
          m \in DOMAIN x.got => m \in DOMAIN lsRows /\ x.got[m] = lsRows[m]
    BY <1>2, <1>4, <2>1 DEF LsFollows
  <2>5. QED
    BY <1>3, <1>5, <2>1, <2>2, <2>3, <2>4 DEF LsFollows
<1>9. ASSUME NEW m \in LsIds, m \notin lsBlurred'
      PROVE  ScreenFollows(m)'
  <2>1. ScreenFollows(m)
    BY <1>3, <1>9 DEF LsInv, ScreenKept
  <2>2. Pending(m)' = Pending(m)
    BY <1>3 DEF Pending, LsMine
  <2>3. CASE LsPlace[m] = c
    <3>1. LsFollows(m) /\ ~InFlight(m)
      BY <1>3, <1>9, <2>3 DEF LsInv, LsKept
    <3>2. m \in DOMAIN lsRows => lsRows[m].text = lsTold[m]
      BY <3>1 DEF LsFollows
    <3>3. Pending(m)' = {}
      BY <2>2, <3>1, InFlightIs
    <3>4. \A x \in Range(lsReads') : m \in DOMAIN x.got => x.got[m].text = lsTold[m]
      BY <1>2, <1>4, <2>1 DEF ScreenFollows
    <3>5. QED
      BY <1>3, <1>5, <3>2, <3>3, <3>4 DEF ScreenFollows
  <2>4. CASE LsPlace[m] # c
    <3>1. BeingRead(m)' => BeingRead(m)
      BY <1>2, <1>4, <2>4, InFlightIs, InFlightThen
    <3>2. \A x \in Range(lsReads') : m \in DOMAIN x.got => x.got[m].text = lsTold[m]
      BY <1>2, <1>4, <2>1 DEF ScreenFollows
    <3>3. QED
      BY <1>3, <1>5, <2>1, <2>2, <3>1, <3>2 DEF ScreenFollows
  <2>5. QED
    BY <2>3, <2>4
<1>10. QED
  BY <1>6, <1>7, <1>8, <1>9 DEF LsInv, LsKept, ScreenKept

LEMMA NewTextKept ==
  ASSUME LsInv, NEW m \in LsIds, NewText(m) \/ OwnEdit(m)
  PROVE  LsInv'
<1>1. /\ lsMade \in [LsIds -> 0..MaxLsTexts] /\ lsMade[m] < MaxLsTexts /\ MaxLsTexts \in Nat
      /\ lsMade' = [lsMade EXCEPT ![m] = @ + 1]
      /\ lsHeard \in [LsIds -> Nat] /\ \A o \in LsIds : lsHeard[o] <= lsMade[o]
      /\ lsAnswers \subseteq [id : LsIds, text : LsTexts]
  BY MaxLs DEF LsInv, LsTypes, NewText, OwnEdit
<1>2. PICK text : text = lsMade[m] + 1
  OBVIOUS
<1>3. text \in LsTexts /\ text \in 0..MaxLsTexts /\ lsMade[m] \in Nat
  BY <1>1, <1>2 DEF LsTexts
<1>4. lsMade' \in [LsIds -> 0..MaxLsTexts] /\ \A o \in LsIds : lsHeard[o] <= lsMade'[o]
  BY <1>1, <1>2, <1>3
<1>5. [id |-> m, text |-> text] \in [id : LsIds, text : LsTexts]
  BY <1>3
<1>6. lsAnswers' \subseteq [id : LsIds, text : LsTexts]
  BY <1>1, <1>2, <1>5 DEF NewText, OwnEdit
<1>7. UNCHANGED <<lsChannel, lsShown, lsRows, lsWrites, lsReads, lsHeard, lsTold,
                  lsDisturbed, lsBlurred, lsOpens>>
  BY DEF NewText, OwnEdit
<1>8. LsTypes'
  BY <1>1, <1>4, <1>6, <1>7 DEF LsInv, LsTypes
<1>9. QED
  BY <1>7, <1>8, LsRest

LEMMA LsStep == LsInv /\ [LsNext]_lsVars => LsInv'
<1> SUFFICES ASSUME LsInv, [LsNext]_lsVars PROVE LsInv'
  OBVIOUS
<1>1. CASE UNCHANGED lsVars
  <2>1. UNCHANGED <<lsChannel, lsShown, lsRows, lsWrites, lsReads, lsMade, lsHeard,
                    lsAnswers, lsTold, lsDisturbed, lsBlurred, lsOpens>>
    BY <1>1 DEF lsVars, lsNetwork
  <2>2. LsTypes'
    BY <2>1 DEF LsInv, LsTypes
  <2>3. QED
    BY <2>1, <2>2, LsRest
<1>2. QED
  BY <1>1, NewTextKept, NewMessageKept, UpdateKept, ReactionKept, FetchedKept, AnswerKept,
     RowWritten, RowNotWritten, RowsRead, LocalRowsKept, SwitchKept
  DEF LsNext

LEMMA LsStarts == LsInit => LsInv
<1> SUFFICES ASSUME LsInit PROVE LsInv
  OBVIOUS
<1>1. PICK r : r = LsRead(lsChannel)
  OBVIOUS
<1>2. r \in LsAsked /\ DOMAIN r.got = {} /\ lsReads = <<r>>
  <2>1. FALSE \in BOOLEAN /\ NoTable \in LsTables /\ DOMAIN NoTable = {} /\ lsChannel \in LsChannels
    BY TableIs DEF LsInit
  <2>2. QED
    BY <1>1, <2>1 DEF LsRead, LsAsked, LsInit
<1>3. lsReads \in Seq(LsAsked) /\ \A x \in Range(lsReads) : x = r
  BY <1>2 DEF Range
<1>4. LsTypes
  BY <1>3, TableIs, MaxLs DEF LsInit, LsTypes
<1>5. ReadInv
  BY <1>2, <1>3 DEF ReadInv
<1>6. \A m : ~InFlight(m) /\ Pending(m) = {} /\ AtMostOne(m) /\ ~Shows(m) /\ m \notin DOMAIN lsRows
  BY TableIs DEF LsInit, InFlight, Pending, LsMine, AtMostOne, Shows
<1>7. \A m \in LsIds : LsFollows(m) /\ ScreenFollows(m)
  BY <1>2, <1>3, <1>6 DEF LsFollows, ScreenFollows
<1>8. QED
  BY <1>4, <1>5, <1>7 DEF LsInv, LsKept, ScreenKept

LEMMA LsHolds == LsInv => LastWordKept /\ LsTypeOK
<1> SUFFICES ASSUME LsInv PROVE LastWordKept /\ LsTypeOK
  OBVIOUS
<1>1. LastWordKept
  BY DEF LsInv, LsKept, LsFollows, ScreenKept, ScreenFollows, LastWordKept
<1>2. LsTypeOK
  BY DEF LsInv, LsTypes, LsWrite, LsAsked, LsTypeOK
<1>3. QED
  BY <1>1, <1>2

\* The screen and the store have the text that the network last brought, and the
\* store the screen's reactions or none, however writes, reads, pages, events and
\* answers overtake each other, save for the messages that are blurred on the one
\* and disturbed in the other: mergeMessageFields and applyMessageUpdate against
\* InsertMessage, UpdateMessage and GetMessages.
THEOREM LastWord == LsSpec => []LastWordKept
  BY LsStarts, LsStep, LsHolds, PTL DEF LsSpec

-----------------------------------------------------------------------------
(* The panels.  Chain k belongs to panel k and has its id; of a panel that *)
(* shares its id with none, what the chain brings is never older than what *)
(* is shown.                                                               *)

SpLoopsAre == [id : SpIds, at : {"wait", "fetch", "answer"}, result : SpResult]

SpTypes ==
  /\ spPanels \in Seq(SpIds)
  /\ DOMAIN spData \subseteq SpIds
  /\ \A id \in DOMAIN spData : spData[id] \in SpResult
  /\ spLoops \in [DOMAIN spPanels -> SpLoopsAre]
  /\ spWorld \in [SpIds -> SpVersions]
  /\ spBrought \in [SpIds -> SpVersions]
  /\ spFetches \in 0..MaxSpFetches

Alone(id) == \A j, k \in DOMAIN spPanels : spPanels[j] = id /\ spPanels[k] = id => j = k

ChainInv ==
  \A k \in DOMAIN spPanels :
    LET id == spPanels[k]
        l  == spLoops[k]
    IN  /\ l.id = id
        /\ spBrought[id] <= spWorld[id]
        /\ l.at = "answer" => /\ l.result.items <= spWorld[id]
                              /\ l.result.err => l.result.items = 0
        /\ Alone(id) => /\ Shown(id) = spBrought[id]
                        /\ l.at = "answer" /\ ~l.result.err
                             => spBrought[id] <= l.result.items

SpInv == SpTypes /\ ChainInv

\* What is picked from a sequence is a sequence of its elements.
LEMMA PickedIs ==
  ASSUME NEW T, NEW s \in Seq(T), NEW S \in SUBSET DOMAIN s
  PROVE  /\ Picked(s, S) \in Seq(T)
         /\ \A k \in DOMAIN Picked(s, S) : \E i \in S : Picked(s, S)[k] = s[i]
<1> DEFINE upto(i) == {j \in S : j <= i}
           rank(i) == Cardinality(upto(i))
           n == Cardinality(S)
           t == Picked(s, S)
<1>1. Len(s) \in Nat /\ DOMAIN s = 1..Len(s) /\ \A i \in S : i \in Nat
  OBVIOUS
<1>2. IsFiniteSet(S) /\ n \in Nat
  <2>1. IsFiniteSet(1..Len(s)) /\ S \in SUBSET (1..Len(s))
    BY <1>1, FS_Interval
  <2>2. IsFiniteSet(S)
    BY <2>1, FS_Subset
  <2>3. QED
    BY <2>2, FS_CardinalityType
<1>3. \A i \in S : i \in upto(i) /\ upto(i) \in SUBSET S
  BY <1>1
<1>4. \A i, j \in S : i < j => upto(i) \cup {j} \in SUBSET upto(j) /\ j \notin upto(i)
  BY <1>1
<1> HIDE DEF upto, n
<1>5. \A i \in S : IsFiniteSet(upto(i)) /\ rank(i) \in 1..n
  <2> SUFFICES ASSUME NEW i \in S PROVE IsFiniteSet(upto(i)) /\ rank(i) \in 1..n
    OBVIOUS
  <2>1. IsFiniteSet(upto(i)) /\ rank(i) <= n
    BY <1>2, <1>3, FS_Subset DEF n
  <2>2. rank(i) \in Nat
    BY <2>1, FS_CardinalityType
  <2>3. rank(i) # 0
    BY <1>3, <2>1, FS_EmptySet
  <2>4. QED
    BY <1>2, <2>1, <2>2, <2>3
<1>6. \A i, j \in S : i < j => rank(i) < rank(j)
  <2> SUFFICES ASSUME NEW i \in S, NEW j \in S, i < j PROVE rank(i) < rank(j)
    OBVIOUS
  <2>1. Cardinality(upto(i) \cup {j}) = rank(i) + 1
    BY <1>4, <1>5, FS_AddElement
  <2>2. Cardinality(upto(i) \cup {j}) <= rank(j)
    BY <1>4, <1>5, FS_Subset
  <2>3. rank(i) \in Nat /\ rank(j) \in Nat
    BY <1>2, <1>5
  <2>4. QED
    BY <2>1, <2>2, <2>3
<1> DEFINE f == [i \in S |-> rank(i)]
<1>7. \A i, j \in S : rank(i) = rank(j) => i = j
  <2> SUFFICES ASSUME NEW i \in S, NEW j \in S, rank(i) = rank(j) PROVE i = j
    OBVIOUS
  <2>1. ~(rank(i) < rank(j)) /\ ~(rank(j) < rank(i))
    BY <1>2, <1>5
  <2>2. i \in Nat /\ j \in Nat
    BY <1>1
  <2>3. QED
    BY <1>6, <2>1, <2>2
<1>8. f \in [S -> 1..n] /\ \A i \in S : f[i] = rank(i)
  BY <1>5
<1> HIDE DEF f
<1>9. f \in Injection(S, 1..n)
  BY <1>7, <1>8 DEF Injection, IsInjective
<1>10. IsFiniteSet(1..n) /\ Cardinality(1..n) = Cardinality(S)
  BY <1>2, FS_Interval DEF n
<1>11. f \in Surjection(S, 1..n)
  BY <1>2, <1>9, <1>10, FS_Injection
<1>12. \A k \in 1..n : \E i \in S : rank(i) = k
  BY <1>8, <1>11 DEF Surjection
<1>13. t = [k \in 1..n |-> s[CHOOSE i \in S : rank(i) = k]]
  BY DEF Picked, upto, n
<1> HIDE DEF rank, t
<1>14. \A k \in 1..n : (CHOOSE i \in S : rank(i) = k) \in S
  BY <1>12
<1>15. \A k \in 1..n : \E i \in S : t[k] = s[i]
  BY <1>13, <1>14
<1>16. \A i \in S : s[i] \in T
  BY <1>1
<1>17. t \in [1..n -> T]
  BY <1>13, <1>14, <1>16
<1>18. t \in Seq(T) /\ DOMAIN t = 1..n
  BY <1>2, <1>17, SeqDef
<1>19. QED
  BY <1>15, <1>18 DEF t

\* The panels of a configuration are ids there are.
LEMMA PanelsAre ==
  ASSUME NEW cfg \in SpConfigs, NEW legacy \in {{}} \cup {{s} : s \in SpLegacy}
  PROVE  WithPanels(cfg, legacy) \in Seq(SpIds)
<1>1. cfg \in Seq(SpEntry)
  BY SidePanelsAssumption
<1> DEFINE S == {k \in DOMAIN cfg : cfg[k].enabled # "no"}
           out == Picked(cfg, S)
           first == [type |-> "github", source |-> CHOOSE s \in legacy : TRUE,
                     enabled |-> "omitted", refresh |-> "good"]
           cfgs == EnabledPanels(cfg, legacy)
<1>2. S \in SUBSET DOMAIN cfg
  OBVIOUS
<1> HIDE DEF S
<1>3. out \in Seq(SpEntry)
  BY <1>1, <1>2, PickedIs
<1>4. legacy # {} => first \in SpEntry
  <2>1. legacy # {} => (CHOOSE s \in legacy : TRUE) \in SpLegacy
    OBVIOUS
  <2>2. PICK src : src = CHOOSE s \in legacy : TRUE
    OBVIOUS
  <2>3. \A x \in SpLegacy : x \in SpSources
    BY Zenon DEF SpSources
  <2>4. QED
    BY <2>1, <2>2, <2>3 DEF SpEntry
<1>5. cfgs = out \/ (legacy # {} /\ cfgs = <<first>> \o out)
  BY DEF EnabledPanels, S
<1> HIDE DEF out, first, cfgs
<1>6. cfgs \in Seq(SpEntry)
  <2>1. CASE cfgs = out
    BY <1>3, <2>1
  <2>2. CASE legacy # {} /\ cfgs = <<first>> \o out
    <3>1. <<first>> \in Seq(SpEntry)
      BY <1>4, <2>2
    <3>2. QED
      BY <1>3, <2>2, <3>1, ConcatProperties
  <2>3. QED
    BY <1>5, <2>1, <2>2
<1> DEFINE B == {k \in DOMAIN cfgs : Builds(cfgs[k])}
           built == Picked(cfgs, B)
<1>7. B \in SUBSET DOMAIN cfgs
  OBVIOUS
<1>8. WithPanels(cfg, legacy) = [k \in DOMAIN built |-> <<built[k].type, built[k].source>>]
  BY DEF WithPanels, cfgs
<1> HIDE DEF B
<1>9. built \in Seq(SpEntry)
  BY <1>6, <1>7, PickedIs
<1> HIDE DEF built
<1>10. Len(built) \in Nat /\ DOMAIN built = 1..Len(built) /\ \A k \in DOMAIN built : built[k] \in SpEntry
  BY <1>9
<1>11. \A k \in DOMAIN built : <<built[k].type, built[k].source>> \in SpIds
  BY <1>10 DEF SpEntry, SpIds
<1>12. WithPanels(cfg, legacy) \in [1..Len(built) -> SpIds]
  BY <1>8, <1>10, <1>11
<1>13. QED
  BY <1>10, <1>12, SeqDef

LEMMA SpStarts == SpInit => SpInv
<1> SUFFICES ASSUME SpInit PROVE SpInv
  OBVIOUS
<1>1. spPanels \in Seq(SpIds)
  BY PanelsAre DEF SpInit
<1>2. MaxSpVersions \in Nat /\ MaxSpFetches \in Nat /\ 0 \in SpVersions
  BY SidePanelsAssumption DEF SpVersions
<1>3. Nothing \in SpResult /\ Nothing.items = 0
  <2>1. FALSE \in BOOLEAN
    BY Zenon
  <2>2. QED
    BY <1>2, <2>1 DEF Nothing, SpResult
<1>4. \A id \in SpIds : SpLoop(id, "fetch") \in SpLoopsAre
                        /\ SpLoop(id, "fetch").id = id /\ SpLoop(id, "fetch").at = "fetch"
  BY <1>3 DEF SpLoop, SpLoopsAre
<1>5. \A k \in DOMAIN spPanels : spPanels[k] \in SpIds
  BY <1>1
<1>6. /\ spLoops \in [DOMAIN spPanels -> SpLoopsAre]
      /\ \A k \in DOMAIN spPanels : spLoops[k].id = spPanels[k] /\ spLoops[k].at = "fetch"
  BY <1>4, <1>5 DEF SpInit
<1>7. DOMAIN spData = {} /\ \A id \in SpIds : spWorld[id] = 0 /\ spBrought[id] = 0
  BY DEF SpInit
<1>8. SpTypes
  BY <1>1, <1>2, <1>6, <1>7 DEF SpInit, SpTypes
<1>9. ChainInv
  BY <1>5, <1>6, <1>7 DEF ChainInv, Shown
<1>10. QED
  BY <1>8, <1>9 DEF SpInv

\* A panel there is has a first place.
LEMMA IndexIs ==
  ASSUME SpTypes, NEW k \in DOMAIN spPanels, NEW id, id = spPanels[k]
  PROVE  /\ PanelIndex(id) \in DOMAIN spPanels
         /\ PanelIndex(id) # 0
         /\ spPanels[PanelIndex(id)] = id
<1> DEFINE K == {j \in DOMAIN spPanels : spPanels[j] = id}
<1>1. Len(spPanels) \in Nat /\ DOMAIN spPanels = 1..Len(spPanels)
  BY DEF SpTypes
<1>2. K \in SUBSET Nat /\ K # {}
  BY <1>1
<1>3. PICK t \in K : \A j \in K : t <= j
  BY <1>2, LeastNumber
<1>4. t \in DOMAIN spPanels /\ spPanels[t] = id /\ \A j \in 1..(t - 1) : spPanels[j] # id
  BY <1>1, <1>3
<1>5. PICK u : u = CHOOSE j \in DOMAIN spPanels :
                     spPanels[j] = id /\ \A i \in 1..(j - 1) : spPanels[i] # id
  OBVIOUS
<1>6. u \in DOMAIN spPanels /\ spPanels[u] = id
  BY <1>4, <1>5
<1>7. PanelIndex(id) = u
  BY <1>5, <1>6 DEF PanelIndex
<1>8. QED
  BY <1>1, <1>6, <1>7

\* What the types say of a chain.
LEMMA ChainIs ==
  ASSUME SpInv, NEW k \in DOMAIN spPanels
  PROVE  /\ spPanels[k] \in SpIds
         /\ spLoops[k] \in SpLoopsAre
         /\ spLoops[k].id = spPanels[k]
         /\ spLoops[k].result \in SpResult
         /\ spLoops[k].result.items \in Nat
         /\ spBrought[spPanels[k]] \in Nat
         /\ spWorld[spPanels[k]] \in Nat
<1>1. spPanels[k] \in SpIds /\ spLoops[k] \in SpLoopsAre
  BY DEF SpInv, SpTypes
<1>2. spLoops[k].result \in SpResult
  BY <1>1 DEF SpLoopsAre
<1>3. SpVersions \in SUBSET Nat
  BY SidePanelsAssumption DEF SpVersions
<1>4. QED
  BY <1>1, <1>2, <1>3 DEF SpInv, SpTypes, ChainInv, SpResult

LEMMA SourceMovesStep ==
  ASSUME SpInv, NEW h \in DOMAIN spPanels, SourceMoves(spPanels[h])
  PROVE  SpInv'
<1>1. PICK id : id = spPanels[h]
  OBVIOUS
<1>2. id \in SpIds /\ spWorld[id] \in Nat
  BY <1>1, ChainIs
<1>3. /\ spWorld[id] < MaxSpVersions
      /\ spWorld' = [spWorld EXCEPT ![id] = spWorld[id] + 1]
      /\ UNCHANGED <<spPanels, spData, spLoops, spBrought, spFetches>>
  BY <1>1 DEF SourceMoves
<1>4. spWorld[id] + 1 \in SpVersions
  BY <1>2, <1>3, SidePanelsAssumption DEF SpVersions
<1>5. spWorld' \in [SpIds -> SpVersions]
  BY <1>3, <1>4 DEF SpInv, SpTypes
<1>6. SpTypes'
  BY <1>3, <1>5 DEF SpInv, SpTypes
<1>7. ChainInv'
  <2> SUFFICES ASSUME NEW k \in DOMAIN spPanels
               PROVE  /\ spBrought[spPanels[k]] <= spWorld'[spPanels[k]]
                      /\ spLoops[k].at = "answer"
                           => spLoops[k].result.items <= spWorld'[spPanels[k]]
    BY <1>3 DEF SpInv, ChainInv, Alone, Shown
  <2>1. PICK i : i = spPanels[k]
    OBVIOUS
  <2>2. i \in SpIds /\ spWorld[i] \in Nat /\ spBrought[i] \in Nat /\ spLoops[k].result.items \in Nat
    BY <2>1, ChainIs
  <2>3. spWorld[i] <= spWorld'[i]
    BY <1>2, <1>3, <2>2 DEF SpInv, SpTypes
  <2>4. spWorld'[i] \in Nat
    BY <1>2, <1>3, <2>2 DEF SpInv, SpTypes
  <2>5. spBrought[i] <= spWorld[i] /\ (spLoops[k].at = "answer" => spLoops[k].result.items <= spWorld[i])
    BY <2>1 DEF SpInv, ChainInv
  <2>6. QED
    BY <2>1, <2>2, <2>3, <2>4, <2>5
<1>8. QED
  BY <1>6, <1>7 DEF SpInv

LEMMA IntervalOverStep ==
  ASSUME SpInv, NEW h \in DOMAIN spPanels, IntervalOver(h)
  PROVE  SpInv'
<1>1. PICK q : q = [spLoops[h] EXCEPT !.at = "fetch"]
  OBVIOUS
<1>2. /\ spLoops' = [spLoops EXCEPT ![h] = q]
      /\ UNCHANGED <<spPanels, spData, spWorld, spBrought, spFetches>>
  BY <1>1 DEF IntervalOver
<1>3. spLoops[h] \in SpLoopsAre /\ spLoops[h].id = spPanels[h]
  BY ChainIs
<1>4. q \in SpLoopsAre /\ q.id = spPanels[h] /\ q.at = "fetch"
  BY <1>1, <1>3 DEF SpLoopsAre
<1>5. spLoops' \in [DOMAIN spPanels -> SpLoopsAre]
  BY <1>2, <1>4 DEF SpInv, SpTypes
<1>6. SpTypes'
  BY <1>2, <1>5 DEF SpInv, SpTypes
<1>7. \A k \in DOMAIN spPanels : k # h => spLoops'[k] = spLoops[k]
  BY <1>2 DEF SpInv, SpTypes
<1>8. spLoops'[h] = q
  BY <1>2 DEF SpInv, SpTypes
<1>9. ChainInv'
  BY <1>2, <1>4, <1>7, <1>8 DEF SpInv, ChainInv, Alone, Shown
<1>10. QED
  BY <1>6, <1>9 DEF SpInv

LEMMA FetchStep ==
  ASSUME SpInv, NEW h \in DOMAIN spPanels, Fetch(h)
  PROVE  SpInv'
<1>1. PICK id : id = spPanels[h]
  OBVIOUS
<1>2. /\ spLoops[h].id = id /\ id \in SpIds /\ spLoops[h] \in SpLoopsAre
      /\ spWorld[id] \in Nat /\ spBrought[id] \in Nat
  BY <1>1, ChainIs
<1>3. PICK result \in Fetched(id) :
        spLoops' = [spLoops EXCEPT ![h].at = "answer", ![h].result = result]
  BY <1>2 DEF Fetch
<1>4. /\ spFetches < MaxSpFetches /\ spFetches' = spFetches + 1
      /\ UNCHANGED <<spPanels, spData, spWorld, spBrought>>
  BY DEF Fetch
<1>5. PICK yes \in BOOLEAN, no \in BOOLEAN : yes = TRUE /\ no = FALSE
  BY Zenon
<1>6. result = [items |-> spWorld[id], err |-> no] \/ result = [items |-> 0, err |-> yes]
  BY <1>3, <1>5, Zenon DEF Fetched
<1>7. spWorld[id] \in SpVersions /\ 0 \in SpVersions
  BY <1>2, SidePanelsAssumption DEF SpInv, SpTypes, SpVersions
<1>8. result \in SpResult
  <2>1. \A n \in SpVersions, e \in BOOLEAN : [items |-> n, err |-> e] \in SpResult
    BY Zenon DEF SpResult
  <2>2. QED
    BY <1>6, <1>7, <2>1, Zenon
<1>9. result.items <= spWorld[id]
  BY <1>2, <1>6
<1>10. result.err => result.items = 0
  <2>1. CASE result = [items |-> spWorld[id], err |-> no]
    BY <1>5, <2>1, Zenon
  <2>2. CASE result = [items |-> 0, err |-> yes]
    BY <2>2
  <2>3. QED
    BY <1>6, <2>1, <2>2
<1>11. ~result.err => result.items = spWorld[id]
  <2>1. CASE result = [items |-> spWorld[id], err |-> no]
    BY <2>1
  <2>2. CASE result = [items |-> 0, err |-> yes]
    BY <1>5, <2>2, Zenon
  <2>3. QED
    BY <1>6, <2>1, <2>2
<1>12. PICK q : q = [[spLoops[h] EXCEPT !.at = "answer"] EXCEPT !.result = result]
  OBVIOUS
<1>13. spLoops' = [spLoops EXCEPT ![h] = q]
  BY <1>3, <1>12
<1>14. q \in SpLoopsAre /\ q.id = id /\ q.at = "answer" /\ q.result = result
  BY <1>2, <1>8, <1>12 DEF SpLoopsAre
<1>15. spLoops' \in [DOMAIN spPanels -> SpLoopsAre] /\ spLoops'[h] = q
       /\ \A k \in DOMAIN spPanels : k # h => spLoops'[k] = spLoops[k]
  BY <1>13, <1>14 DEF SpInv, SpTypes
<1>16. spFetches' \in 0..MaxSpFetches
  BY <1>4, SidePanelsAssumption DEF SpInv, SpTypes
<1>17. SpTypes'
  BY <1>4, <1>15, <1>16 DEF SpInv, SpTypes
<1>18. spBrought[id] <= spWorld[id] /\ (Alone(id) => Shown(id) = spBrought[id])
  BY <1>1 DEF SpInv, ChainInv
<1>19. ChainInv'
  <2> SUFFICES ASSUME NEW k \in DOMAIN spPanels
               PROVE  LET i == spPanels[k]
                          l == spLoops'[k]
                      IN  /\ l.id = i
                          /\ spBrought[i] <= spWorld[i]
                          /\ l.at = "answer" => /\ l.result.items <= spWorld[i]
                                                /\ l.result.err => l.result.items = 0
                          /\ Alone(i) => /\ Shown(i) = spBrought[i]
                                         /\ l.at = "answer" /\ ~l.result.err
                                              => spBrought[i] <= l.result.items
    BY <1>4 DEF ChainInv, Alone, Shown
  <2>1. CASE k = h
    BY <1>1, <1>2, <1>9, <1>10, <1>11, <1>14, <1>15, <1>18, <2>1
  <2>2. CASE k # h
    BY <1>15, <2>2 DEF SpInv, ChainInv
  <2>3. QED
    BY <2>1, <2>2
<1>20. QED
  BY <1>17, <1>19 DEF SpInv

\* A failed fetch leaves what is shown; another one shows what it brought.
LEMMA KeptIs ==
  ASSUME SpInv, NEW h \in DOMAIN spPanels, spLoops[h].at = "answer",
         NEW id, id = spPanels[h], NEW result, result = spLoops[h].result
  PROVE  /\ Kept(id, result) \in SpResult
         /\ ~result.err => Kept(id, result).items = result.items
         /\ result.err => Kept(id, result).items = Shown(id)
<1>1. /\ result \in SpResult /\ id \in SpIds
      /\ result.err => result.items = 0
  BY ChainIs DEF SpInv, ChainInv
<1>2. id \in DOMAIN spData => spData[id] \in SpResult /\ spData[id].items \in SpVersions
  BY DEF SpInv, SpTypes, SpResult
<1>3. CASE result.err /\ id \in DOMAIN spData /\ result.items = 0
  <2>1. PICK q : q = [result EXCEPT !.items = spData[id].items]
    OBVIOUS
  <2>2. Kept(id, result) = q
    BY <1>3, <2>1 DEF Kept
  <2>3. q \in SpResult /\ q.items = spData[id].items
    BY <1>1, <1>2, <1>3, <2>1 DEF SpResult
  <2>4. QED
    BY <1>3, <2>2, <2>3, Zenon DEF Shown
<1>4. CASE ~(result.err /\ id \in DOMAIN spData /\ result.items = 0)
  <2>1. Kept(id, result) = result
    BY <1>4 DEF Kept
  <2>2. result.err => Shown(id) = 0 /\ result.items = 0
    BY <1>1, <1>4, Zenon DEF Shown
  <2>3. QED
    BY <1>1, <2>1, <2>2, Zenon
<1>5. QED
  BY <1>3, <1>4

LEMMA OnPanelDataStep ==
  ASSUME SpInv, NEW h \in DOMAIN spPanels, OnPanelData(h)
  PROVE  SpInv'
<1>1. PICK id, result : id = spPanels[h] /\ result = spLoops[h].result
  OBVIOUS
<1>2. /\ spLoops[h].id = id /\ id \in SpIds /\ result \in SpResult /\ result.items \in Nat
      /\ spWorld[id] \in Nat /\ spBrought[id] \in Nat
  BY <1>1, ChainIs
<1>3. PICK kept : kept = Kept(id, result)
  OBVIOUS
<1>4. /\ spLoops[h].at = "answer"
      /\ spData' = [i \in DOMAIN spData \cup {id} |-> IF i = id THEN kept ELSE spData[i]]
      /\ spLoops' = [spLoops EXCEPT ![h] = NextPoll(id)]
      /\ spBrought' = IF result.err \/ result.items < spBrought[id] THEN spBrought
                      ELSE [spBrought EXCEPT ![id] = result.items]
      /\ UNCHANGED <<spPanels, spWorld, spFetches>>
  BY <1>1, <1>2, <1>3 DEF OnPanelData
<1>5. /\ kept \in SpResult
      /\ ~result.err => kept.items = result.items
      /\ result.err => kept.items = Shown(id)
  BY <1>1, <1>3, <1>4, KeptIs
<1>6. PICK q : q = SpLoop(id, "wait")
  OBVIOUS
<1>7. NextPoll(id) = q
  <2>1. PanelIndex(id) # 0 /\ spPanels[PanelIndex(id)] = id
    BY <1>1, IndexIs DEF SpInv
  <2>2. QED
    BY <1>6, <2>1 DEF NextPoll
<1>8. q \in SpLoopsAre /\ q.id = id /\ q.at = "wait"
  <2>1. 0 \in SpVersions
    BY SidePanelsAssumption DEF SpVersions
  <2>2. Nothing \in SpResult
    BY <2>1, Zenon DEF Nothing, SpResult
  <2>3. QED
    BY <1>2, <1>6, <2>2 DEF SpLoop, SpLoopsAre
<1>9. spLoops' \in [DOMAIN spPanels -> SpLoopsAre] /\ spLoops'[h] = q
      /\ \A k \in DOMAIN spPanels : k # h => spLoops'[k] = spLoops[k]
  BY <1>4, <1>7, <1>8 DEF SpInv, SpTypes
<1>10. DOMAIN spData' \subseteq SpIds /\ \A i \in DOMAIN spData' : spData'[i] \in SpResult
  BY <1>2, <1>4, <1>5 DEF SpInv, SpTypes
<1>11. result.items \in SpVersions
  BY <1>2 DEF SpResult
<1>12. spBrought' \in [SpIds -> SpVersions]
  BY <1>4, <1>11 DEF SpInv, SpTypes
<1>13. SpTypes'
  BY <1>4, <1>9, <1>10, <1>12 DEF SpInv, SpTypes
<1>14. \A i \in SpIds : i # id => spBrought'[i] = spBrought[i]
  BY <1>4 DEF SpInv, SpTypes
<1>15. spBrought'[id] = IF result.err \/ result.items < spBrought[id] THEN spBrought[id]
                        ELSE result.items
  BY <1>2, <1>4 DEF SpInv, SpTypes
<1>16. /\ spBrought[id] <= spWorld[id] /\ result.items <= spWorld[id]
       /\ Alone(id) => Shown(id) = spBrought[id]
       /\ Alone(id) /\ ~result.err => spBrought[id] <= result.items
  BY <1>1, <1>4 DEF SpInv, ChainInv
<1>17. spBrought'[id] <= spWorld[id]
  BY <1>15, <1>16
<1>18. PICK shown : shown = [i \in SpIds |-> IF i \in DOMAIN spData' THEN spData'[i].items ELSE 0]
  OBVIOUS
<1>19. \A i \in SpIds : shown[i] = Shown(i)'
  BY <1>18 DEF Shown
<1>20. shown[id] = kept.items /\ \A i \in SpIds : i # id => shown[i] = Shown(i)
  BY <1>2, <1>4, <1>18 DEF Shown
<1>21. Alone(id) => shown[id] = spBrought'[id]
  <2>1. CASE result.err
    BY <1>5, <1>15, <1>16, <1>20, <2>1
  <2>2. CASE ~result.err
    <3>1. Alone(id) => spBrought'[id] = result.items
      BY <1>2, <1>15, <1>16, <2>2
    <3>2. QED
      BY <1>5, <1>20, <2>2, <3>1
  <2>3. QED
    BY <2>1, <2>2
<1>22. ChainInv'
  <2> SUFFICES ASSUME NEW k \in DOMAIN spPanels
               PROVE  LET i == spPanels[k]
                          l == spLoops'[k]
                      IN  /\ l.id = i
                          /\ spBrought'[i] <= spWorld[i]
                          /\ l.at = "answer" => /\ l.result.items <= spWorld[i]
                                                /\ l.result.err => l.result.items = 0
                          /\ Alone(i) => /\ shown[i] = spBrought'[i]
                                         /\ l.at = "answer" /\ ~l.result.err
                                              => spBrought'[i] <= l.result.items
    <3>1. \A i : Alone(i)' = Alone(i)
      BY <1>4 DEF Alone
    <3>2. \A k \in DOMAIN spPanels : spPanels[k] \in SpIds
      BY ChainIs
    <3>3. \A k \in DOMAIN spPanels : Shown(spPanels[k])' = shown[spPanels[k]]
      BY <1>4, <1>19, <3>2
    <3>4. QED
      BY <1>4, <3>1, <3>3 DEF ChainInv
  <2>1. CASE k = h
    BY <1>1, <1>8, <1>9, <1>17, <1>21, <2>1
  <2>2. CASE k # h /\ spPanels[k] = id
    <3>1. ~Alone(id)
      BY <1>1, <2>2 DEF Alone
    <3>2. QED
      BY <1>9, <1>17, <2>2, <3>1 DEF SpInv, ChainInv
  <2>3. CASE k # h /\ spPanels[k] # id
    <3>1. spPanels[k] \in SpIds
      BY ChainIs
    <3>2. spBrought'[spPanels[k]] = spBrought[spPanels[k]]
          /\ shown[spPanels[k]] = Shown(spPanels[k])
      BY <1>14, <1>20, <2>3, <3>1
    <3>3. QED
      BY <1>9, <2>3, <3>2 DEF SpInv, ChainInv
  <2>4. QED
    BY <2>1, <2>2, <2>3
<1>23. QED
  BY <1>13, <1>22 DEF SpInv

LEMMA SpStep == SpInv /\ [SpNext]_spVars => SpInv'
<1> SUFFICES ASSUME SpInv, [SpNext]_spVars PROVE SpInv'
  OBVIOUS
<1>1. ASSUME NEW k \in DOMAIN spPanels, SourceMoves(spPanels[k]) PROVE SpInv'
  BY <1>1, SourceMovesStep
<1>2. DOMAIN spLoops = DOMAIN spPanels
  BY DEF SpInv, SpTypes
<1>3. ASSUME NEW k \in DOMAIN spPanels, IntervalOver(k) PROVE SpInv'
  BY <1>3, IntervalOverStep
<1>4. ASSUME NEW k \in DOMAIN spPanels, Fetch(k) PROVE SpInv'
  BY <1>4, FetchStep
<1>5. ASSUME NEW k \in DOMAIN spPanels, OnPanelData(k) PROVE SpInv'
  BY <1>5, OnPanelDataStep
<1>6. CASE UNCHANGED spVars
  BY <1>6 DEF spVars, SpInv, SpTypes, ChainInv, Alone, Shown
<1>7. QED
  BY <1>1, <1>2, <1>3, <1>4, <1>5, <1>6 DEF SpNext

\* What the chains and the panels are in number.
LEMMA SpHolds == SpInv => PanelsFollow /\ SpTypeOK
<1> SUFFICES ASSUME SpInv PROVE PanelsFollow /\ SpTypeOK
  OBVIOUS
<1>1. /\ DOMAIN spLoops = DOMAIN spPanels
      /\ \A k \in DOMAIN spPanels : /\ spLoops[k].id = spPanels[k] /\ spLoops[k].id \in SpIds
                                    /\ spLoops[k].at \in {"wait", "fetch", "answer"}
                                    /\ spLoops[k].result \in SpResult
  BY ChainIs DEF SpInv, SpTypes, SpLoopsAre
<1>2. SpTypeOK
  BY <1>1 DEF SpInv, SpTypes, SpTypeOK
<1>3. ASSUME NEW id PROVE {k \in DOMAIN spLoops : spLoops[k].id = id /\ spLoops[k].at # "ended"}
                            = PanelsWith(id)
  BY <1>1 DEF PanelsWith
<1>4. ASSUME NEW k \in DOMAIN spPanels, NEW id, id = spPanels[k], Cardinality(PanelsWith(id)) = 1
      PROVE  Shown(id) = spBrought[id]
  <2>1. Len(spPanels) \in Nat /\ DOMAIN spPanels = 1..Len(spPanels)
    BY DEF SpInv, SpTypes
  <2>2. IsFiniteSet(DOMAIN spPanels) /\ PanelsWith(id) \in SUBSET DOMAIN spPanels
    BY <2>1, FS_Interval DEF PanelsWith
  <2>3. IsFiniteSet(PanelsWith(id))
    BY <2>2, FS_Subset
  <2>4. PICK x : PanelsWith(id) = {x}
    BY <1>4, <2>3, FS_Singleton
  <2>5. Alone(id)
    BY <2>4 DEF PanelsWith, Alone
  <2>6. QED
    BY <1>4, <2>5 DEF SpInv, ChainInv
<1>5. \A id \in Range(spPanels) : \E k \in DOMAIN spPanels : id = spPanels[k]
  BY DEF Range
<1>6. PanelsFollow
  BY <1>3, <1>4, <1>5, Zenon DEF PanelsFollow
<1>7. QED
  BY <1>2, <1>6

\* A panel whose source no other panel has shows the newest of what its fetches
\* brought, whatever failed since, and every panel keeps its chain of fetches:
\* panelDataMsg keeps the items of before, panelPollCmd waits for the panel found.
THEOREM PanelsShowTheNewest == SpSpec => []PanelsFollow
  BY SpStarts, SpStep, SpHolds, PTL DEF SpSpec

-----------------------------------------------------------------------------
(* The four parts together.                                                *)

TuiInv == part \in Parts /\ SessTypes /\ LsInv /\ MnInv /\ SpInv

\* A step is one of a part, and the others stay as they are.
LEMMA TuiStep ==
  TuiInv /\ [TuiNext]_<<part, vars, lsVars, mnVars, spVars>> => TuiInv'
<1> SUFFICES ASSUME TuiInv, [TuiNext]_<<part, vars, lsVars, mnVars, spVars>> PROVE TuiInv'
  OBVIOUS
<1>1. /\ part' = part
      /\ [Next]_vars /\ [LsNext]_lsVars /\ [MnNext]_mnVars /\ [SpNext]_spVars
  BY Zenon DEF TuiNext
<1>2. QED
  BY <1>1, SessTypesStep, LsStep, MnStep, SpStep DEF TuiInv

LEMMA TuiStarts == TuiInit => TuiInv
  BY SessTypesStart, LsStarts, MnStarts, SpStarts DEF TuiInit, TuiInv

LEMMA TuiHolds == TuiInv => TuiTypeOK /\ SidebarKept
  BY SessTyped, LsHolds, MnKept, SpHolds DEF TuiInv, TuiTypeOK, SidebarKept

\* The four parts have their types in every behaviour: of the session, lines that are
\* messages of a network or the program's own (tui.go, messages.go); of the panels,
\* chains of fetches that are each at one of their four points (panelPollCmd).
THEOREM TuiTypeCorrect == TuiSpec => []TuiTypeOK
  BY TuiStarts, TuiStep, TuiHolds, PTL DEF TuiSpec

\* The badges of the mentions and the panels follow what they are about in every
\* behaviour of the client: MentionsStay and PanelsShowTheNewest at once.
THEOREM SidebarStays == TuiSpec => []SidebarKept
  BY TuiStarts, TuiStep, TuiHolds, PTL DEF TuiSpec
=============================================================================
