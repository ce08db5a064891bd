--------------------------- MODULE RelayHubProofs ---------------------------
(***************************************************************************)
(* Proofs about RelayHub, for every set of connections, channels, users    *)
(* and publishers, every buffer size and every bound.                      *)
(***************************************************************************)
EXTENDS RelayHub, TLAPS

\* States of a read pump whose connection is registered.
Registered == {"reading", "subscribing", "unsubscribing", "failed"}
\* States in which a process is inside a broadcast.
Broadcasting == {"report", "snapshot", "announce", "fan"}

(* What each process state says of the frame in hand and the loop in hand. *)
FrameInv ==
  \A p \in Proc :
    /\ pc[p] = "snapshot" => frame[p] \in OnlineFrame
    /\ pc[p] \in {"announce", "fan"} => frame[p] \in Frame
    /\ todo[p] # {} => pc[p] \in {"snapshot", "fan"}
    /\ p \in Posters => pc[p] \in {"idle", "announce", "fan"}
    /\ p \in Conns => pc[p] # "idle"

(* A read pump's state says whether its connection is registered. *)
LifeInv ==
  \A c \in Conns :
    /\ pc[c] \in Registered => c \in conns
    /\ pc[c] \in Broadcasting => c \in closed \/ c \in conns
    /\ pc[c] \in {"absent", "closing", "gone"} => c \notin conns
    /\ pc[c] \in {"absent", "closing"} \cup Registered => c \notin closed
    /\ c \in closed => c \notin conns

(* h.channels and c.subs agree, up to the half-done subscribe in hand. *)
HalfDone == {"subscribing", "unsubscribing"}

TablesInv ==
  \A c \in Conns :
    /\ pc[c] \in HalfDone => arg[c] \in Channels
    /\ pc[c] = "subscribing" => c \in channels[arg[c]]
    /\ pc[c] = "unsubscribing" => c \notin channels[arg[c]]
    /\ \A ch \in Channels :
         /\ c \in channels[ch] => c \in conns
         /\ pc[c] \notin HalfDone \/ ch # arg[c] =>
              (c \in channels[ch] <=> ch \in subs[c])

(* A loop under the read lock has only registered connections before it,   *)
(* and for a message only subscribers of its channel.                      *)
LoopInv ==
  \A p \in Proc :
    /\ todo[p] \subseteq conns
    /\ pc[p] = "fan" /\ frame[p].type = "message" =>
         todo[p] \subseteq channels[frame[p].channel]

IInv == TypeOK /\ FrameInv /\ LifeInv /\ TablesInv /\ LoopInv

(* What may be true of a fan-out step, from the invariant. *)
DeliveryStep ==
  \A c \in Conns :
    Len(sendq'[c]) > Len(sendq[c]) =>
      LET f == sendq'[c][Len(sendq'[c])]
      IN  f.type = "message" => c \in channels[f.channel]

-----------------------------------------------------------------------------

\* The processes: read pumps and publishers.
LEMMA ProcKinds ==
  /\ Conns \subseteq Proc
  /\ Posters \subseteq Proc
  /\ \A p \in Proc : p \in Conns \/ p \in Posters
  /\ \A p \in Posters : p \notin Conns
  BY HubAssumption DEF Proc

LEMMA StateNames ==
  {"absent", "reading", "subscribing", "unsubscribing", "report", "failed",
   "closing", "idle", "snapshot", "announce", "fan", "gone"} \subseteq ProcStates
  BY DEF ProcStates, ReaderStates

\* A frame of any kind is a frame; NoFrame is none of them.
LEMMA FrameKinds ==
  /\ MessageFrame \subseteq Frame
  /\ OnlineFrame \subseteq Frame
  /\ StatusFrame \subseteq Frame
  /\ \A f \in Frame : f.type = "message" => f.channel \in Channels
  /\ \A f \in OnlineFrame \cup StatusFrame : f.type # "message"
  /\ \A f \in Frame : f.type = "terminal_online" => f.users \in SUBSET Users
  /\ NoFrame.type # "message"
  BY DEF Frame, MessageFrame, OnlineFrame, StatusFrame, NoFrame

\* A bounded send keeps a queue a bounded queue of frames.
LEMMA EnqueueType ==
  ASSUME NEW q \in Seq(Frame), Len(q) <= Buffer, NEW f \in Frame
  PROVE  Enqueue(q, f) \in Seq(Frame) /\ Len(Enqueue(q, f)) <= Buffer
  <1> Buffer \in Nat
  BY HubAssumption
<1> QED
  BY DEF Enqueue

\* The head of a queue of frames is a frame, and the tail a shorter queue.
LEMMA TailType ==
  ASSUME NEW q \in Seq(Frame), q # <<>>
  PROVE  /\ Head(q) \in Frame
         /\ Tail(q) \in Seq(Frame)
         /\ Len(q) \in Nat
         /\ Len(Tail(q)) = Len(q) - 1
  OBVIOUS

(* The initial state satisfies the invariant. *)
LEMMA InitInv == Init => IInv
<1> SUFFICES ASSUME Init PROVE IInv
  OBVIOUS
<1> USE ProcKinds DEF Init
<1>1. TypeOK
  <2>1. conns \in SUBSET Conns
    OBVIOUS
  <2>2. channels \in [Channels -> SUBSET Conns]
    OBVIOUS
  <2>3. username \in [Conns -> Users \cup {None}]
    OBVIOUS
  <2>4. subs \in [Conns -> SUBSET Channels]
    OBVIOUS
  <2>5. sendq \in [Conns -> Seq(Frame)] /\ \A d \in Conns : Len(sendq[d]) <= Buffer
    BY HubAssumption DEF Frame
  <2>6. closed \in SUBSET Conns
    OBVIOUS
  <2>7. pc \in [Proc -> ProcStates]
    BY StateNames
  <2>8. todo \in [Proc -> SUBSET Conns]
    OBVIOUS
  <2>9. frame \in [Proc -> Frame \cup {NoFrame}]
    OBVIOUS
  <2>10. arg \in [Conns -> Channels \cup {None}]
    OBVIOUS
  <2>11. writer \in [Conns -> {"absent", "running", "done"}]
    OBVIOUS
  <2>12. ws \in [Conns -> {"open", "broken", "closed"}]
    OBVIOUS
  <2>13. online \in [Conns -> SUBSET Users]
    OBVIOUS
  <2>14. actions \in Nat
    OBVIOUS
  <2>15. posted \in Nat
    OBVIOUS
  <2>16. QED
    BY <2>1, <2>2, <2>3, <2>4, <2>5, <2>6, <2>7, <2>8, <2>9, <2>10, <2>11, <2>12, <2>13, <2>14, <2>15 DEF TypeOK
<1>2. FrameInv
  BY DEF FrameInv
<1>3. LifeInv
  BY DEF LifeInv, Registered, Broadcasting
<1>4. TablesInv
  BY DEF TablesInv, HalfDone
<1>5. LoopInv
  BY DEF LoopInv
<1>6. QED
  BY <1>1, <1>2, <1>3, <1>4, <1>5 DEF IInv

(* Every step preserves the invariant: one step per action, and under it   *)
(* one per part of the invariant; TypeOK has one per variable that changes. *)
LEMMA StepInv == IInv /\ [Next]_vars => IInv'
<1> SUFFICES ASSUME IInv, [Next]_vars PROVE IInv'
  OBVIOUS
<1> USE ProcKinds DEF IInv
<1>1. ASSUME NEW c \in Conns, ServeWS(c) PROVE IInv'
  <2> USE <1>1 DEF ServeWS, Goto, LockFree, TypeOK
  <2>1. TypeOK'
    <3>1. conns' \in SUBSET Conns
      OBVIOUS
    <3>2. pc' \in [Proc -> ProcStates]
      BY StateNames
    <3>3. writer' \in [Conns -> {"absent", "running", "done"}]
      OBVIOUS
    <3>4. QED
      BY <3>1, <3>2, <3>3
  <2>2. FrameInv'
    BY FrameKinds DEF FrameInv, OnlineFrame, StatusFrame, MessageFrame
  <2>3. LifeInv'
    BY DEF FrameInv, LifeInv, Registered, Broadcasting
  <2>4. TablesInv'
    BY DEF FrameInv, LifeInv, TablesInv, Registered, HalfDone
  <2>5. LoopInv'
    BY FrameKinds DEF FrameInv, TablesInv, LoopInv, OnlineFrame, StatusFrame
  <2>6. QED
    BY <2>1, <2>2, <2>3, <2>4, <2>5
<1>2. ASSUME NEW c \in Conns, NEW u \in Users, Identify(c, u) PROVE IInv'
  <2> USE <1>2 DEF Identify, ReadAction, Goto, pumps, TypeOK
  <2>1. TypeOK'
    <3>1. username' \in [Conns -> Users \cup {None}]
      OBVIOUS
    <3>2. pc' \in [Proc -> ProcStates]
      BY StateNames
    <3>3. actions' \in Nat
      OBVIOUS
    <3>4. QED
      BY <3>1, <3>2, <3>3
  <2>2. FrameInv'
    BY FrameKinds DEF FrameInv, OnlineFrame, StatusFrame, MessageFrame
  <2>3. LifeInv'
    BY DEF FrameInv, LifeInv, Registered, Broadcasting
  <2>4. TablesInv'
    BY DEF FrameInv, LifeInv, TablesInv, Registered, HalfDone
  <2>5. LoopInv'
    BY FrameKinds DEF FrameInv, TablesInv, LoopInv, OnlineFrame, StatusFrame
  <2>6. QED
    BY <2>1, <2>2, <2>3, <2>4, <2>5
<1>3. ASSUME NEW c \in Conns, NEW u \in Users, StatusUpdate(c, u) PROVE IInv'
  <2> USE <1>3 DEF StatusUpdate, ReadAction, Goto, pumps, registry, TypeOK
  <2>1. TypeOK'
    <3>1. pc' \in [Proc -> ProcStates]
      BY StateNames
    <3>2. frame' \in [Proc -> Frame \cup {NoFrame}]
      BY FrameKinds DEF FrameInv, OnlineFrame, StatusFrame, MessageFrame
    <3>3. actions' \in Nat
      OBVIOUS
    <3>4. QED
      BY <3>1, <3>2, <3>3
  <2>2. FrameInv'
    BY FrameKinds DEF FrameInv, OnlineFrame, StatusFrame, MessageFrame
  <2>3. LifeInv'
    BY DEF FrameInv, LifeInv, Registered, Broadcasting
  <2>4. TablesInv'
    BY DEF FrameInv, LifeInv, TablesInv, Registered, HalfDone
  <2>5. LoopInv'
    BY FrameKinds DEF FrameInv, TablesInv, LoopInv, OnlineFrame, StatusFrame
  <2>6. QED
    BY <2>1, <2>2, <2>3, <2>4, <2>5
<1>4. ASSUME NEW c \in Conns, NEW ch \in Channels, Subscribe(c, ch) PROVE IInv'
  <2> USE <1>4 DEF Subscribe, ReadAction, Goto, pumps, LockFree, TypeOK
  <2>1. TypeOK'
    <3>1. channels' \in [Channels -> SUBSET Conns]
      OBVIOUS
    <3>2. arg' \in [Conns -> Channels \cup {None}]
      OBVIOUS
    <3>3. pc' \in [Proc -> ProcStates]
      BY StateNames
    <3>4. actions' \in Nat
      OBVIOUS
    <3>5. QED
      BY <3>1, <3>2, <3>3, <3>4
  <2>2. FrameInv'
    BY FrameKinds DEF FrameInv, OnlineFrame, StatusFrame, MessageFrame
  <2>3. LifeInv'
    BY DEF FrameInv, LifeInv, Registered, Broadcasting
  <2>4. TablesInv'
    BY DEF FrameInv, LifeInv, TablesInv, Registered, HalfDone
  <2>5. LoopInv'
    BY FrameKinds DEF FrameInv, TablesInv, LoopInv, OnlineFrame, StatusFrame
  <2>6. QED
    BY <2>1, <2>2, <2>3, <2>4, <2>5
<1>5. ASSUME NEW c \in Conns, NEW ch \in Channels, Unsubscribe(c, ch) PROVE IInv'
  <2> USE <1>5 DEF Unsubscribe, ReadAction, Goto, pumps, LockFree, TypeOK
  <2>1. TypeOK'
    <3>1. channels' \in [Channels -> SUBSET Conns]
      OBVIOUS
    <3>2. arg' \in [Conns -> Channels \cup {None}]
      OBVIOUS
    <3>3. pc' \in [Proc -> ProcStates]
      BY StateNames
    <3>4. actions' \in Nat
      OBVIOUS
    <3>5. QED
      BY <3>1, <3>2, <3>3, <3>4
  <2>2. FrameInv'
    BY FrameKinds DEF FrameInv, OnlineFrame, StatusFrame, MessageFrame
  <2>3. LifeInv'
    BY DEF FrameInv, LifeInv, Registered, Broadcasting
  <2>4. TablesInv'
    BY DEF FrameInv, LifeInv, TablesInv, Registered, HalfDone
  <2>5. LoopInv'
    BY FrameKinds DEF FrameInv, TablesInv, LoopInv, OnlineFrame, StatusFrame
  <2>6. QED
    BY <2>1, <2>2, <2>3, <2>4, <2>5
<1>6. ASSUME NEW c \in Conns, SubscribeRecord(c) PROVE IInv'
  <2> USE <1>6 DEF SubscribeRecord, Goto, pumps, TypeOK
  <2>1. TypeOK'
    <3>1. subs' \in [Conns -> SUBSET Channels]
      BY DEF TablesInv, HalfDone
    <3>2. arg' \in [Conns -> Channels \cup {None}]
      OBVIOUS
    <3>3. pc' \in [Proc -> ProcStates]
      BY StateNames
    <3>4. QED
      BY <3>1, <3>2, <3>3
  <2>2. FrameInv'
    BY FrameKinds DEF FrameInv, OnlineFrame, StatusFrame, MessageFrame
  <2>3. LifeInv'
    BY DEF FrameInv, LifeInv, Registered, Broadcasting
  <2>4. TablesInv'
    BY DEF FrameInv, LifeInv, TablesInv, Registered, HalfDone
  <2>5. LoopInv'
    BY FrameKinds DEF FrameInv, TablesInv, LoopInv, OnlineFrame, StatusFrame
  <2>6. QED
    BY <2>1, <2>2, <2>3, <2>4, <2>5
<1>7. ASSUME NEW c \in Conns, UnsubscribeRecord(c) PROVE IInv'
  <2> USE <1>7 DEF UnsubscribeRecord, Goto, pumps, TypeOK
  <2>1. TypeOK'
    <3>1. subs' \in [Conns -> SUBSET Channels]
      BY DEF TablesInv, HalfDone
    <3>2. arg' \in [Conns -> Channels \cup {None}]
      OBVIOUS
    <3>3. pc' \in [Proc -> ProcStates]
      BY StateNames
    <3>4. QED
      BY <3>1, <3>2, <3>3
  <2>2. FrameInv'
    BY FrameKinds DEF FrameInv, OnlineFrame, StatusFrame, MessageFrame
  <2>3. LifeInv'
    BY DEF FrameInv, LifeInv, Registered, Broadcasting
  <2>4. TablesInv'
    BY DEF FrameInv, LifeInv, TablesInv, Registered, HalfDone
  <2>5. LoopInv'
    BY FrameKinds DEF FrameInv, TablesInv, LoopInv, OnlineFrame, StatusFrame
  <2>6. QED
    BY <2>1, <2>2, <2>3, <2>4, <2>5
<1>8. ASSUME NEW c \in Conns, ReadFails(c) PROVE IInv'
  <2> USE <1>8 DEF ReadFails, Goto, pumps, registry, TypeOK
  <2>1. TypeOK'
    <3>1. pc' \in [Proc -> ProcStates]
      BY StateNames
    <3>2. QED
      BY <3>1
  <2>2. FrameInv'
    BY FrameKinds DEF FrameInv, OnlineFrame, StatusFrame, MessageFrame
  <2>3. LifeInv'
    BY DEF FrameInv, LifeInv, Registered, Broadcasting
  <2>4. TablesInv'
    BY DEF FrameInv, LifeInv, TablesInv, Registered, HalfDone
  <2>5. LoopInv'
    BY FrameKinds DEF FrameInv, TablesInv, LoopInv, OnlineFrame, StatusFrame
  <2>6. QED
    BY <2>1, <2>2, <2>3, <2>4, <2>5
<1>9. ASSUME NEW c \in Conns, Unregister(c) PROVE IInv'
  <2> USE <1>9 DEF Unregister, Goto, pumps, LockFree, ChannelsWithout, TypeOK
  <2>1. TypeOK'
    <3>1. conns' \in SUBSET Conns
      OBVIOUS
    <3>2. channels' \in [Channels -> SUBSET Conns]
      OBVIOUS
    <3>3. subs' \in [Conns -> SUBSET Channels]
      BY DEF TablesInv, HalfDone
    <3>4. pc' \in [Proc -> ProcStates]
      BY StateNames
    <3>5. QED
      BY <3>1, <3>2, <3>3, <3>4
  <2>2. FrameInv'
    BY FrameKinds DEF FrameInv, OnlineFrame, StatusFrame, MessageFrame
  <2>3. LifeInv'
    BY DEF FrameInv, LifeInv, Registered, Broadcasting
  <2>4. TablesInv'
    BY DEF FrameInv, LifeInv, TablesInv, Registered, HalfDone
  <2>5. LoopInv'
    BY FrameKinds DEF FrameInv, TablesInv, LoopInv, OnlineFrame, StatusFrame
  <2>6. QED
    BY <2>1, <2>2, <2>3, <2>4, <2>5
<1>10. ASSUME NEW c \in Conns, CloseSend(c) PROVE IInv'
  <2> USE <1>10 DEF CloseSend, Goto, pumps, registry, TypeOK
  <2>1. TypeOK'
    <3>1. closed' \in SUBSET Conns
      OBVIOUS
    <3>2. pc' \in [Proc -> ProcStates]
      BY StateNames
    <3>3. QED
      BY <3>1, <3>2
  <2>2. FrameInv'
    BY FrameKinds DEF FrameInv, OnlineFrame, StatusFrame, MessageFrame
  <2>3. LifeInv'
    BY DEF FrameInv, LifeInv, Registered, Broadcasting
  <2>4. TablesInv'
    BY DEF FrameInv, LifeInv, TablesInv, Registered, HalfDone
  <2>5. LoopInv'
    BY FrameKinds DEF FrameInv, TablesInv, LoopInv, OnlineFrame, StatusFrame
  <2>6. QED
    BY <2>1, <2>2, <2>3, <2>4, <2>5
<1>11. ASSUME NEW p \in Posters, NEW ch \in Channels, Publish(p, ch) PROVE IInv'
  <2> USE <1>11 DEF Publish, Goto, pumps, registry, TypeOK
  <2> DEFINE f == [type |-> "message", channel |-> ch, id |-> posted']
  <2>0. f \in MessageFrame
    BY DEF MessageFrame
  <2>1. TypeOK'
    <3>1. pc' \in [Proc -> ProcStates]
      BY StateNames
    <3>2. frame' \in [Proc -> Frame \cup {NoFrame}]
      BY <2>0, FrameKinds
    <3>3. posted' \in Nat
      OBVIOUS
    <3>4. QED
      BY <3>1, <3>2, <3>3
  <2>2. FrameInv'
    BY <2>0, FrameKinds DEF FrameInv
  <2>3. LifeInv'
    BY DEF FrameInv, LifeInv, Registered, Broadcasting
  <2>4. TablesInv'
    BY DEF FrameInv, LifeInv, TablesInv, Registered, HalfDone
  <2>5. LoopInv'
    BY FrameKinds DEF FrameInv, TablesInv, LoopInv, OnlineFrame, StatusFrame
  <2>6. QED
    BY <2>1, <2>2, <2>3, <2>4, <2>5
<1>12. ASSUME NEW p \in Proc, SnapshotBegin(p) PROVE IInv'
  <2> USE <1>12 DEF SnapshotBegin, Goto, pumps, registry, TypeOK
  <2>1. TypeOK'
    <3>1. pc' \in [Proc -> ProcStates]
      BY StateNames
    <3>2. todo' \in [Proc -> SUBSET Conns]
      BY FrameKinds DEF FrameInv
    <3>3. frame' \in [Proc -> Frame \cup {NoFrame}]
      BY FrameKinds DEF FrameInv, OnlineFrame, StatusFrame, MessageFrame
    <3>4. QED
      BY <3>1, <3>2, <3>3
  <2>2. FrameInv'
    BY FrameKinds DEF FrameInv, OnlineFrame, StatusFrame, MessageFrame
  <2>3. LifeInv'
    BY DEF FrameInv, LifeInv, Registered, Broadcasting
  <2>4. TablesInv'
    BY DEF FrameInv, LifeInv, TablesInv, Registered, HalfDone
  <2>5. LoopInv'
    BY FrameKinds DEF FrameInv, TablesInv, LoopInv, OnlineFrame, StatusFrame
  <2>6. QED
    BY <2>1, <2>2, <2>3, <2>4, <2>5
<1>13. ASSUME NEW p \in Proc, NEW c \in Conns, SnapshotStep(p, c) PROVE IInv'
  <2> USE <1>13 DEF SnapshotStep, pumps, registry, TypeOK
  <2>1. TypeOK'
    <3>1. todo' \in [Proc -> SUBSET Conns]
      BY FrameKinds DEF FrameInv
    <3>2. frame' \in [Proc -> Frame \cup {NoFrame}]
      BY FrameKinds DEF FrameInv, OnlineFrame, StatusFrame, MessageFrame
    <3>3. QED
      BY <3>1, <3>2
  <2>2. FrameInv'
    BY FrameKinds DEF FrameInv, OnlineFrame, StatusFrame, MessageFrame
  <2>3. LifeInv'
    BY DEF FrameInv, LifeInv, Registered, Broadcasting
  <2>4. TablesInv'
    BY DEF FrameInv, LifeInv, TablesInv, Registered, HalfDone
  <2>5. LoopInv'
    BY FrameKinds DEF FrameInv, TablesInv, LoopInv, OnlineFrame, StatusFrame
  <2>6. QED
    BY <2>1, <2>2, <2>3, <2>4, <2>5
<1>14. ASSUME NEW p \in Proc, SnapshotEnd(p) PROVE IInv'
  <2> USE <1>14 DEF SnapshotEnd, Goto, pumps, registry, TypeOK
  <2>1. TypeOK'
    <3>1. pc' \in [Proc -> ProcStates]
      BY StateNames
    <3>2. QED
      BY <3>1
  <2>2. FrameInv'
    BY FrameKinds DEF FrameInv, OnlineFrame, StatusFrame, MessageFrame
  <2>3. LifeInv'
    BY DEF FrameInv, LifeInv, Registered, Broadcasting
  <2>4. TablesInv'
    BY DEF FrameInv, LifeInv, TablesInv, Registered, HalfDone
  <2>5. LoopInv'
    BY FrameKinds DEF FrameInv, TablesInv, LoopInv, OnlineFrame, StatusFrame
  <2>6. QED
    BY <2>1, <2>2, <2>3, <2>4, <2>5
<1>15. ASSUME NEW p \in Proc, FanBegin(p) PROVE IInv'
  <2> USE <1>15 DEF FanBegin, Goto, pumps, registry, Audience, TypeOK
  <2>1. TypeOK'
    <3>1. pc' \in [Proc -> ProcStates]
      BY StateNames
    <3>2. todo' \in [Proc -> SUBSET Conns]
      BY FrameKinds DEF FrameInv
    <3>3. QED
      BY <3>1, <3>2
  <2>2. FrameInv'
    BY FrameKinds DEF FrameInv, OnlineFrame, StatusFrame, MessageFrame
  <2>3. LifeInv'
    BY DEF FrameInv, LifeInv, Registered, Broadcasting
  <2>4. TablesInv'
    BY DEF FrameInv, LifeInv, TablesInv, Registered, HalfDone
  <2>5. LoopInv'
    BY FrameKinds DEF FrameInv, TablesInv, LoopInv, OnlineFrame, StatusFrame
  <2>6. QED
    BY <2>1, <2>2, <2>3, <2>4, <2>5
<1>16. ASSUME NEW p \in Proc, NEW c \in Conns, FanStep(p, c) PROVE IInv'
  <2> USE <1>16 DEF FanStep, pumps, registry, TypeOK
  <2>1. TypeOK'
    <3>1. todo' \in [Proc -> SUBSET Conns]
      BY FrameKinds DEF FrameInv
    <3>2. sendq' \in [Conns -> Seq(Frame)] /\ \A d \in Conns : Len(sendq'[d]) <= Buffer
      BY EnqueueType, FrameKinds DEF FrameInv
    <3>3. QED
      BY <3>1, <3>2
  <2>2. FrameInv'
    BY FrameKinds DEF FrameInv, OnlineFrame, StatusFrame, MessageFrame
  <2>3. LifeInv'
    BY DEF FrameInv, LifeInv, Registered, Broadcasting
  <2>4. TablesInv'
    BY DEF FrameInv, LifeInv, TablesInv, Registered, HalfDone
  <2>5. LoopInv'
    BY FrameKinds DEF FrameInv, TablesInv, LoopInv, OnlineFrame, StatusFrame
  <2>6. QED
    BY <2>1, <2>2, <2>3, <2>4, <2>5
<1>17. ASSUME NEW p \in Proc, FanEnd(p) PROVE IInv'
  <2> USE <1>17 DEF FanEnd, registry, TypeOK
  <2>1. TypeOK'
    <3>1. pc' \in [Proc -> ProcStates]
      <4>1. \E s \in ProcStates : pc' = [pc EXCEPT ![p] = s]
        BY StateNames
      <4>2. QED
        BY <4>1
    <3>2. frame' \in [Proc -> Frame \cup {NoFrame}]
      BY FrameKinds DEF FrameInv, OnlineFrame, StatusFrame, MessageFrame
    <3>3. ws' \in [Conns -> {"open", "broken", "closed"}]
      OBVIOUS
    <3>4. QED
      BY <3>1, <3>2, <3>3
  <2>2. FrameInv'
    BY FrameKinds DEF FrameInv, OnlineFrame, StatusFrame, MessageFrame
  <2>3. LifeInv'
    BY DEF FrameInv, LifeInv, Registered, Broadcasting
  <2>4. TablesInv'
    BY DEF FrameInv, LifeInv, TablesInv, Registered, HalfDone
  <2>5. LoopInv'
    BY FrameKinds DEF FrameInv, TablesInv, LoopInv, OnlineFrame, StatusFrame
  <2>6. QED
    BY <2>1, <2>2, <2>3, <2>4, <2>5
<1>18. ASSUME NEW c \in Conns, WriteFrame(c) PROVE IInv'
  <2> USE <1>18 DEF WriteFrame, registry, TypeOK
  <2>1. TypeOK'
    <3>1. sendq' \in [Conns -> Seq(Frame)] /\ \A d \in Conns : Len(sendq'[d]) <= Buffer
      BY TailType, HubAssumption
    <3>2. online' \in [Conns -> SUBSET Users]
      <4>1. Head(sendq[c]).type = "terminal_online" => Head(sendq[c]).users \in SUBSET Users
        BY TailType, FrameKinds
      <4>2. QED
        BY <4>1
    <3>3. QED
      BY <3>1, <3>2
  <2>2. FrameInv'
    BY FrameKinds DEF FrameInv, OnlineFrame, StatusFrame, MessageFrame
  <2>3. LifeInv'
    BY DEF FrameInv, LifeInv, Registered, Broadcasting
  <2>4. TablesInv'
    BY DEF FrameInv, LifeInv, TablesInv, Registered, HalfDone
  <2>5. LoopInv'
    BY FrameKinds DEF FrameInv, TablesInv, LoopInv, OnlineFrame, StatusFrame
  <2>6. QED
    BY <2>1, <2>2, <2>3, <2>4, <2>5
<1>19. ASSUME NEW c \in Conns, WriteFails(c) PROVE IInv'
  <2> USE <1>19 DEF WriteFails, registry, TypeOK
  <2>1. TypeOK'
    <3>1. writer' \in [Conns -> {"absent", "running", "done"}]
      OBVIOUS
    <3>2. ws' \in [Conns -> {"open", "broken", "closed"}]
      OBVIOUS
    <3>3. QED
      BY <3>1, <3>2
  <2>2. FrameInv'
    BY FrameKinds DEF FrameInv, OnlineFrame, StatusFrame, MessageFrame
  <2>3. LifeInv'
    BY DEF FrameInv, LifeInv, Registered, Broadcasting
  <2>4. TablesInv'
    BY DEF FrameInv, LifeInv, TablesInv, Registered, HalfDone
  <2>5. LoopInv'
    BY FrameKinds DEF FrameInv, TablesInv, LoopInv, OnlineFrame, StatusFrame
  <2>6. QED
    BY <2>1, <2>2, <2>3, <2>4, <2>5
<1>20. ASSUME NEW c \in Conns, WriteClosed(c) PROVE IInv'
  <2> USE <1>20 DEF WriteClosed, registry, TypeOK
  <2>1. TypeOK'
    <3>1. writer' \in [Conns -> {"absent", "running", "done"}]
      OBVIOUS
    <3>2. ws' \in [Conns -> {"open", "broken", "closed"}]
      OBVIOUS
    <3>3. QED
      BY <3>1, <3>2
  <2>2. FrameInv'
    BY FrameKinds DEF FrameInv, OnlineFrame, StatusFrame, MessageFrame
  <2>3. LifeInv'
    BY DEF FrameInv, LifeInv, Registered, Broadcasting
  <2>4. TablesInv'
    BY DEF FrameInv, LifeInv, TablesInv, Registered, HalfDone
  <2>5. LoopInv'
    BY FrameKinds DEF FrameInv, TablesInv, LoopInv, OnlineFrame, StatusFrame
  <2>6. QED
    BY <2>1, <2>2, <2>3, <2>4, <2>5
<1>21. ASSUME NEW c \in Conns, PeerLost(c) PROVE IInv'
  <2> USE <1>21 DEF PeerLost, registry, TypeOK
  <2>1. TypeOK'
    <3>1. ws' \in [Conns -> {"open", "broken", "closed"}]
      OBVIOUS
    <3>2. QED
      BY <3>1
  <2>2. FrameInv'
    BY FrameKinds DEF FrameInv, OnlineFrame, StatusFrame, MessageFrame
  <2>3. LifeInv'
    BY DEF FrameInv, LifeInv, Registered, Broadcasting
  <2>4. TablesInv'
    BY DEF FrameInv, LifeInv, TablesInv, Registered, HalfDone
  <2>5. LoopInv'
    BY FrameKinds DEF FrameInv, TablesInv, LoopInv, OnlineFrame, StatusFrame
  <2>6. QED
    BY <2>1, <2>2, <2>3, <2>4, <2>5
<1>22. CASE UNCHANGED vars
  BY <1>22 DEF vars, registry, pumps, TypeOK, FrameInv, LifeInv, TablesInv, LoopInv
<1>23. QED
  BY <1>1, <1>2, <1>3, <1>4, <1>5, <1>6, <1>7, <1>8, <1>9, <1>10, <1>11, <1>12, <1>13, <1>14, <1>15, <1>16, <1>17, <1>18, <1>19, <1>20, <1>21, <1>22
     DEF Next, ReaderStep, BroadcastStep, WriterStep

(* What a fan-out step may queue, given the invariant. *)
LEMMA StepDelivery == IInv /\ [Next]_vars => [DeliveryStep]_vars
<1> SUFFICES ASSUME IInv, [Next]_vars, NEW d \in Conns, Len(sendq'[d]) > Len(sendq[d]),
                    sendq'[d][Len(sendq'[d])].type = "message"
             PROVE  d \in channels[sendq'[d][Len(sendq'[d])].channel]
  BY DEF DeliveryStep
<1> USE DEF IInv
<1>1. ASSUME NEW p \in Proc, NEW c \in Conns, FanStep(p, c)
      PROVE  d \in channels[sendq'[d][Len(sendq'[d])].channel]
  <2>1. d = c /\ sendq'[d] = Enqueue(sendq[d], frame[p])
    BY <1>1 DEF FanStep, TypeOK
  <2>2. sendq'[d] = Append(sendq[d], frame[p])
    BY <2>1 DEF Enqueue, TypeOK
  <2>3. sendq'[d][Len(sendq'[d])] = frame[p]
    BY <2>2 DEF TypeOK
  <2>4. QED
    BY <1>1, <2>1, <2>3 DEF FanStep, LoopInv
<1>2. ASSUME NEW c \in Conns, WriteFrame(c) PROVE FALSE
  <2>1. sendq[c] \in Seq(Frame) /\ sendq[c] # <<>> /\ sendq'[c] = Tail(sendq[c])
    BY <1>2 DEF WriteFrame, TypeOK
  <2>2. Len(sendq'[c]) = Len(sendq[c]) - 1 /\ Len(sendq[c]) \in Nat
    BY <2>1, TailType
  <2>3. d # c => sendq'[d] = sendq[d]
    BY <1>2 DEF WriteFrame, TypeOK
  <2>4. sendq[d] \in Seq(Frame)
    BY DEF TypeOK
  <2>5. QED
    BY <2>2, <2>3, <2>4
<1>3. sendq' = sendq => FALSE
  <2>1. sendq[d] \in Seq(Frame)
    BY DEF TypeOK
  <2>2. QED
    BY <2>1
<1>4. \/ \E p \in Proc, c \in Conns : FanStep(p, c)
      \/ \E c \in Conns : WriteFrame(c)
      \/ sendq' = sendq
  BY DEF Next, ReaderStep, BroadcastStep, WriterStep, vars, registry, ServeWS,
     Identify, StatusUpdate, Subscribe, SubscribeRecord, Unsubscribe,
     UnsubscribeRecord, ReadFails, Unregister, CloseSend, SnapshotBegin,
     SnapshotStep, SnapshotEnd, Publish, FanBegin, FanEnd, WriteFails,
     WriteClosed, PeerLost
<1>5. QED
  BY <1>1, <1>2, <1>3, <1>4

-----------------------------------------------------------------------------

(* The invariant holds in every reachable state. *)
THEOREM Invariance == Spec => []IInv
  BY InitInv, StepInv, PTL DEF Spec

(* Every variable of the hub keeps its type; in particular no send buffer  *)
(* ever holds more than wsSendBuffer frames.                               *)
THEOREM TypeCorrect == Spec => []TypeOK
<1>1. IInv => TypeOK
  BY DEF IInv
<1>2. QED
  BY <1>1, Invariance, PTL

(* enqueue never sends on a closed channel (hub.go:264-273): the relay     *)
(* cannot panic there, whatever connects, leaves and broadcasts.           *)
THEOREM SendSafe == Spec => []NoSendOnClosed
<1>1. IInv => NoSendOnClosed
  BY DEF IInv, LifeInv, LoopInv, NoSendOnClosed, TypeOK
<1>2. QED
  BY <1>1, Invariance, PTL

(* The hub's channel tables and the connections' own agree (hub.go:142-173). *)
THEOREM TablesAgree == Spec => []RegistryConsistent
<1>1. IInv => RegistryConsistent
  BY DEF IInv, TablesInv, HalfDone, RegistryConsistent
<1>2. QED
  BY <1>1, Invariance, PTL

(* No message of a channel is queued to a connection that has left it. *)
THEOREM LeavingStops == Spec => NoDeliveryAfterLeaving
<1>1. IInv /\ [Next]_vars => [DeliveryStep]_vars
  BY StepDelivery
<1>2. QED
  BY <1>1, Invariance, PTL DEF Spec, NoDeliveryAfterLeaving, DeliveryStep

=============================================================================
