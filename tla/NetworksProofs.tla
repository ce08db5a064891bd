--------------------------- MODULE NetworksProofs ---------------------------
(***************************************************************************)
(* Proofs about the Matrix adapter, the demo network, the plugins' host    *)
(* and the paging of a Matrix room, for every value of their constants,    *)
(* and about the networks side by side, with those of IrcProofs.           *)
(***************************************************************************)
EXTENDS MCNetworks, IrcProofs, FiniteSetTheorems, WellFoundedInduction

-----------------------------------------------------------------------------
(* Sets of numbers, and sequences of sequences.                            *)

LEMMA LeastNumber ==
  ASSUME NEW K \in SUBSET Nat, K # {}
  PROVE  \E t \in K : \A s \in K : t <= s
<1> DEFINE R == OpToRel(<, Nat)
<1>1. IsWellFoundedOn(R, Nat)
  BY NatLessThanWellFounded
<1>2. \A a, b \in Nat : a < b => <<a, b>> \in R
  BY DEF OpToRel
<1> HIDE DEF R
<1>3. \E x \in K : \A y \in K : ~(<<y, x>> \in R)
  BY <1>1, WFMin
<1>4. PICK x \in K : \A y \in K : ~(<<y, x>> \in R)
  BY <1>3
<1>5. \A s \in K : ~(s < x)
  BY <1>2, <1>4
<1>6. QED
  BY <1>5

\* By the size of the smallest set that has no greatest number.
LEMMA GreatestNumber ==
  ASSUME NEW S \in SUBSET Nat, IsFiniteSet(S), S # {}
  PROVE  Max(S) \in S /\ \A y \in S : Max(S) >= y
<1> DEFINE Topped(T) == \E x \in T : \A y \in T : x >= y
           Sizes == {Cardinality(T) : T \in {U \in SUBSET S : U # {} /\ ~Topped(U)}}
<1>1. \A T \in SUBSET S : IsFiniteSet(T) /\ Cardinality(T) \in Nat
  BY FS_Subset, FS_CardinalityType
<1>2. Sizes \in SUBSET Nat
  BY <1>1
<1>3. Sizes = {}
  <2> SUFFICES ASSUME Sizes # {} PROVE FALSE
    OBVIOUS
  <2> HIDE DEF Sizes
  <2>1. PICK n \in Sizes : \A m \in Sizes : n <= m
    BY <1>2, LeastNumber
  <2>2. PICK T \in SUBSET S : T # {} /\ ~Topped(T) /\ n = Cardinality(T)
    BY <2>1 DEF Sizes
  <2>3. PICK x \in T : TRUE
    BY <2>2
  <2>4. Cardinality(T \ {x}) = n - 1 /\ n \in Nat
    BY <1>1, <2>2, <2>3, FS_RemoveElement
  <2>5. CASE T \ {x} = {}
    <3>1. x >= x /\ \A y \in T : y = x
      BY <2>3, <2>5
    <3>2. QED
      BY <2>2, <3>1
  <2>6. CASE T \ {x} # {}
    <3>1. n - 1 \notin Sizes
      BY <2>1, <2>4
    <3>2. Topped(T \ {x})
      BY <2>4, <2>6, <3>1 DEF Sizes
    <3>3. PICK m \in T \ {x} : \A y \in T \ {x} : m >= y
      BY <3>2
    <3>4. Topped(T)
      BY <2>3, <3>3
    <3>5. QED
      BY <2>2, <3>4
  <2>7. QED
    BY <2>5, <2>6
<1>4. \E x \in S : \A y \in S : x >= y
  BY <1>3
<1>5. QED
  BY <1>4 DEF Max

\* The sequences of a sequence put together.
LEMMA FlattenSeqType ==
  ASSUME NEW S, NEW ss \in Seq(Seq(S))
  PROVE  FlattenSeq(ss) \in Seq(S)
<1> DEFINE N == Len(ss)
           Flat(f, n) ==
             f = [i \in 1..n |-> IF i = 1 THEN ss[i] ELSE f[i - 1] \o ss[i]]
           Bad == {n \in 0..N : ~\E f : Flat(f, n)}
<1>1. N \in Nat /\ \A i \in 1..N : ss[i] \in Seq(S)
  OBVIOUS
<1> HIDE DEF N, Flat
<1>2. Bad = {}
  <2> SUFFICES ASSUME Bad # {} PROVE FALSE
    OBVIOUS
  <2>0. Bad \in SUBSET Nat
    BY <1>1
  <2> HIDE DEF Bad
  <2>1. PICK n \in Bad : \A m \in Bad : n <= m
    BY <2>0, LeastNumber
  <2>2. n \in 0..N /\ ~\E f : Flat(f, n)
    BY <2>1 DEF Bad
  <2>3. n # 0
    <3>1. \E f : Flat(f, 0)
      <4>1. Flat([i \in 1..0 |-> 0], 0)
        BY DEF Flat
      <4>2. QED
        BY <4>1
    <3>2. QED
      BY <2>2, <3>1
  <2>4. n - 1 \in 0..N /\ n - 1 \notin Bad
    BY <1>1, <2>1, <2>2, <2>3
  <2>5. PICK f : Flat(f, n - 1)
    BY <2>4 DEF Bad
  <2> DEFINE top == IF n = 1 THEN ss[1] ELSE f[n - 1] \o ss[n]
             g == [i \in 1..n |-> IF i = n THEN top ELSE f[i]]
  <2>6. \A i \in 1..n : g[i] = IF i = 1 THEN ss[i] ELSE g[i - 1] \o ss[i]
    <3> SUFFICES ASSUME NEW i \in 1..n
                 PROVE  g[i] = IF i = 1 THEN ss[i] ELSE g[i - 1] \o ss[i]
      OBVIOUS
    <3>1. i # 1 => i - 1 \in 1..n /\ i - 1 # n /\ g[i - 1] = f[i - 1]
      BY <1>1, <2>2
    <3>2. CASE i = n
      BY <3>1, <3>2
    <3>3. CASE i # n
      <4>1. i \in 1..(n - 1)
        BY <1>1, <2>2, <3>3
      <4>2. f[i] = IF i = 1 THEN ss[i] ELSE f[i - 1] \o ss[i]
        BY <2>5, <4>1 DEF Flat
      <4>3. QED
        BY <3>1, <3>3, <4>2
    <3>4. QED
      BY <3>2, <3>3
  <2>7. Flat(g, n)
    <3> HIDE DEF top
    <3>1. g = [i \in 1..n |-> g[i]]
      OBVIOUS
    <3> HIDE DEF g
    <3>2. QED
      BY <2>6, <3>1 DEF Flat
  <2>8. QED
    BY <2>2, <2>7
<1> HIDE DEF Bad
<1>3. ASSUME NEW f, Flat(f, N) PROVE \A i \in 1..N : f[i] \in Seq(S)
  <2> DEFINE Off == {i \in 1..N : f[i] \notin Seq(S)}
  <2> SUFFICES ASSUME Off # {} PROVE FALSE
    OBVIOUS
  <2>0. Off \in SUBSET Nat
    BY <1>1
  <2> HIDE DEF Off
  <2>1. PICK i \in Off : \A j \in Off : i <= j
    BY <2>0, LeastNumber
  <2>2. i \in 1..N /\ f[i] \notin Seq(S)
    BY <2>1 DEF Off
  <2>3. f[i] = IF i = 1 THEN ss[i] ELSE f[i - 1] \o ss[i]
    BY <1>3, <2>2 DEF Flat
  <2>4. i # 1 => f[i - 1] \in Seq(S)
    <3>1. i - 1 \notin Off
      BY <1>1, <2>1, <2>2
    <3>2. QED
      BY <1>1, <2>2, <3>1 DEF Off
  <2>5. QED
    BY <1>1, <2>2, <2>3, <2>4
<1>4. CASE N = 0
  BY <1>4 DEF FlattenSeq, N
<1>5. CASE N # 0
  <2> DEFINE flat == CHOOSE f : Flat(f, N)
  <2>1. N \notin Bad /\ N \in 0..N
    BY <1>1, <1>2
  <2>2. \E f : Flat(f, N)
    BY <2>1 DEF Bad
  <2>3. Flat(flat, N)
    BY <2>2
  <2>4. FlattenSeq(ss) = flat[N]
    BY <1>5 DEF FlattenSeq, N, Flat
  <2> HIDE DEF flat
  <2>5. N \in 1..N
    BY <1>1, <1>5
  <2>6. \A i \in 1..N : flat[i] \in Seq(S)
    BY <1>3, <2>3
  <2>7. QED
    BY <2>4, <2>5, <2>6
<1>6. QED
  BY <1>4, <1>5

-----------------------------------------------------------------------------
(* MatrixAdapter.                                                          *)

\* What is told apart by arithmetic and sequences; and when something is being
\* sent: the loop's status before a sync, a handler's event inside one.
MxInv ==
  /\ mxLoop \in {"start", "check", "sync", "failed", "wait", "ended"}
  /\ mxSending \in MxEvent \cup {"none"}
  /\ mxEvents \in Seq(MxEvent) /\ Len(mxEvents) <= MxBuffer
  /\ mxSeen \in 0..MaxMxEvents
  /\ mxFails \in 0..MaxMxFails
  /\ mxOpen <=> mxLoop # "ended"
  /\ mxSending # "none" => mxLoop \in {"start", "sync", "failed"}

MxFlags == mxOpen \in BOOLEAN /\ mxCancelled \in BOOLEAN

LEMMA MxStarts == MxInit \/ MxAbsent => MxInv /\ MxFlags /\ Matrix!StreamInit
<1> SUFFICES ASSUME MxInit \/ MxAbsent PROVE MxInv /\ MxFlags /\ Matrix!StreamInit
  OBVIOUS
<1>1. MxInv
  <2>1. mxEvents \in Seq(MxEvent) /\ Len(mxEvents) <= MxBuffer
    <3>1. mxEvents = <<>>
      BY DEF MxInit, MxAbsent
    <3>2. QED
      BY <3>1, MatrixAssumption
  <2>2. mxOpen <=> mxLoop # "ended"
    BY DEF MxInit, MxAbsent
  <2>3. mxSeen \in 0..MaxMxEvents /\ mxFails \in 0..MaxMxFails
    BY MatrixAssumption DEF MxInit, MxAbsent
  <2>4. QED
    BY <2>1, <2>2, <2>3 DEF MxInit, MxAbsent, MxInv, MxEvent
<1>2. /\ mxEvents = <<>> /\ mxSending \in MxEvent \cup {"none"}
      /\ (mxOpen = TRUE /\ mxCancelled = FALSE) \/ (mxOpen = FALSE /\ mxCancelled = TRUE)
  BY Zenon DEF MxInit, MxAbsent, MxEvent
<1>3. MxFlags /\ Matrix!StreamInit
  BY <1>2, Zenon DEF MxFlags, Matrix!StreamInit
<1>4. QED
  BY <1>1, <1>3

LEMMA MxInvStep == MxInv /\ [MxNext]_mxVars => MxInv'
<1> SUFFICES ASSUME MxInv, [MxNext]_mxVars PROVE MxInv'
  OBVIOUS
<1> USE MatrixAssumption DEF MxInv, mxCount
<1>1. CASE MxSend
  <2>1. mxEvents' \in Seq(MxEvent)
    BY <1>1 DEF MxSend, MxEmit
  <2>2. Len(mxEvents') <= MxBuffer
    BY <1>1 DEF MxSend, MxEmit
  <2>4. mxLoop' \in {"start", "check", "sync", "failed", "wait", "ended"}
    BY <1>1 DEF MxSend
  <2>5. mxOpen' <=> mxLoop' # "ended"
    BY <1>1 DEF MxSend
  <2>6. mxSending' = "none" /\ UNCHANGED <<mxSeen, mxFails>>
    BY <1>1 DEF MxSend
  <2>3. QED
    BY <2>1, <2>2, <2>4, <2>5, <2>6
<1>2. CASE MxCheck \/ MxSyncReturns \/ MxWait
  BY <1>2 DEF MxCheck, MxSyncReturns, MxWait, MxReturn, MxEvent
<1>3. ASSUME NEW kind \in MxKinds, MxRoomEvent(kind) PROVE MxInv'
  <2>1. OnRoomEvent(kind) \in MxEvent \cup {"none"}
    BY DEF OnRoomEvent, ReactionToMessage, EventToMessage, MxEvent
  <2>2. QED
    BY <1>3, <2>1 DEF MxRoomEvent
<1>4. CASE MxDisconnect
  BY <1>4 DEF MxDisconnect
<1>7. CASE MxReceive
  <2>1. mxEvents' \in Seq(MxEvent) /\ Len(mxEvents') <= MxBuffer
    BY <1>7 DEF MxReceive
  <2>2. QED
    BY <1>7, <2>1 DEF MxReceive
<1>5. CASE UNCHANGED mxVars
  BY <1>5 DEF mxVars
<1>6. QED
  BY <1>1, <1>2, <1>3, <1>4, <1>5, <1>7 DEF MxNext, MxLoopStep

LEMMA MxFlagsStep == MxFlags /\ [MxNext]_mxVars => MxFlags'
<1> SUFFICES ASSUME MxFlags, [MxNext]_mxVars PROVE MxFlags'
  OBVIOUS
<1> USE DEF MxFlags
<1>1. CASE UNCHANGED <<mxOpen, mxCancelled>>
  BY <1>1
<1>2. CASE MxCheck
  BY <1>2, Zenon DEF MxCheck, MxReturn
<1>3. CASE MxSyncReturns
  BY <1>3, Zenon DEF MxSyncReturns, MxReturn
<1>4. CASE MxWait
  BY <1>4, Zenon DEF MxWait, MxReturn
<1>5. CASE MxDisconnect
  BY <1>5, Zenon DEF MxDisconnect
<1>6. QED
  BY <1>1, <1>2, <1>3, <1>4, <1>5
  DEF MxNext, MxLoopStep, mxVars, MxSend, MxRoomEvent, MxReceive

\* Each step of the adapter is a step of the stream, or none of its.
LEMMA MxStreamSteps ==
  MxInv /\ MxFlags /\ [MxNext]_mxVars => [Matrix!StreamNext]_(Matrix!streamVars)
<1> SUFFICES ASSUME MxInv, MxFlags, [MxNext]_mxVars
             PROVE  [Matrix!StreamNext]_(Matrix!streamVars)
  OBVIOUS
<1> USE DEF Matrix!StreamNext, Matrix!streamVars
<1>1. CASE UNCHANGED <<mxEvents, mxSending, mxOpen, mxCancelled>>
  BY <1>1
<1>2. CASE MxSend
  <2>1. Matrix!Send \/ Matrix!Drop
    BY <1>2 DEF MxSend, MxEmit, Matrix!Send, Matrix!Drop, MxInv
  <2>2. QED
    BY <2>1
<1>3. CASE MxCheck \/ MxWait
  <2>1. mxSending = "none"
    BY <1>3 DEF MxCheck, MxWait, MxInv
  <2>2. UNCHANGED <<mxEvents, mxSending, mxCancelled>>
    BY <1>3 DEF MxCheck, MxWait
  <2>3. UNCHANGED mxOpen \/ Matrix!Close
    BY <1>3, <2>1, <2>2 DEF MxCheck, MxWait, MxReturn, MxInv, Matrix!Close
  <2>4. QED
    BY <2>2, <2>3
<1>4. CASE MxSyncReturns
  <2>1. Matrix!Close \/ Matrix!Offer("reconnecting")
    BY <1>4 DEF MxSyncReturns, MxReturn, MxInv, Matrix!Close, Matrix!Offer
  <2>2. QED
    BY <2>1 DEF MxEvent
<1>5. ASSUME NEW kind \in MxKinds, MxRoomEvent(kind)
      PROVE  [Matrix!StreamNext]_(Matrix!streamVars)
  <2>1. OnRoomEvent(kind) \in MxEvent \cup {"none"}
    BY DEF OnRoomEvent, ReactionToMessage, EventToMessage, MxEvent
  <2>2. /\ mxOpen /\ mxSending = "none" /\ mxSending' = OnRoomEvent(kind)
        /\ UNCHANGED <<mxEvents, mxOpen, mxCancelled>>
    BY <1>5 DEF MxRoomEvent, MxInv
  <2>3. Matrix!Offer(OnRoomEvent(kind)) \/ mxSending' = mxSending
    BY <2>1, <2>2 DEF Matrix!Offer
  <2>4. QED
    BY <2>1, <2>2, <2>3
<1>6. CASE MxDisconnect
  <2>1. Matrix!Stop
    BY <1>6 DEF MxDisconnect, Matrix!Stop
  <2>2. QED
    BY <2>1
<1>7. CASE MxReceive
  <2>1. Matrix!Receive
    BY <1>7 DEF MxReceive, Matrix!Receive
  <2>2. QED
    BY <2>1
<1>8. QED
  BY <1>1, <1>2, <1>3, <1>4, <1>5, <1>6, <1>7 DEF MxNext, MxLoopStep, mxVars

-----------------------------------------------------------------------------
(* DemoAdapter.                                                            *)

DemoInv ==
  /\ demoNext \in 1..DemoSteps
  /\ demoSending \in DemoEvent \cup {"none"}
  /\ demoEvents \in Seq(DemoEvent) /\ Len(demoEvents) <= DemoBuffer
  /\ demoSending # "none" => demoRuns

DemoFlags == demoRuns \in BOOLEAN /\ demoCancelled \in BOOLEAN

\* Every step of the script is one, and emits an event.
LEMMA DemoScript ==
  /\ Len(Opening) \in Nat /\ Len(Opening) >= 1
  /\ DemoSteps \in Nat /\ DemoSteps > Len(Opening)
  /\ \A i \in 1..DemoSteps : DemoStep(i) \in DemoEvent /\ StepAfter(i) \in 1..DemoSteps
<1>1. /\ Len(Opening) \in Nat /\ Len(Opening) >= 1
      /\ Len(Script) \in Nat /\ Len(Script) >= 1
  BY DemoAssumption
<1>2. /\ \A i \in 1..Len(Opening) : Opening[i] \in DemoEvent
      /\ \A i \in 1..Len(Script) : Script[i] \in DemoEvent
  BY DemoAssumption DEF DemoEvent
<1>3. QED
  BY <1>1, <1>2 DEF DemoSteps, DemoStep, StepAfter

LEMMA DemoStarts == DemoInit \/ DemoAbsent => DemoInv /\ DemoFlags /\ Demo!StreamInit
<1> SUFFICES ASSUME DemoInit \/ DemoAbsent
             PROVE  DemoInv /\ DemoFlags /\ Demo!StreamInit
  OBVIOUS
<1>1. Opening[1] \in DemoEvent /\ 1 \in 1..DemoSteps
  <2>1. 1 \in 1..DemoSteps /\ DemoStep(1) = Opening[1]
    BY DemoScript DEF DemoStep
  <2>2. QED
    BY <2>1, DemoScript
<1>2. DemoInv
  <2>1. demoEvents \in Seq(DemoEvent) /\ Len(demoEvents) <= DemoBuffer
    <3>1. demoEvents = <<>>
      BY DEF DemoInit, DemoAbsent
    <3>2. QED
      BY <3>1, DemoAssumption
  <2>2. demoSending # "none" => demoRuns
    BY DEF DemoInit, DemoAbsent
  <2>3. QED
    BY <1>1, <2>1, <2>2 DEF DemoInit, DemoAbsent, DemoInv
<1>3. /\ demoEvents = <<>> /\ demoSending \in DemoEvent \cup {"none"}
      /\ \/ demoRuns = TRUE /\ demoCancelled = FALSE
         \/ demoRuns = FALSE /\ demoCancelled = TRUE
  BY <1>1, Zenon DEF DemoInit, DemoAbsent
<1>4. DemoFlags /\ Demo!StreamInit
  BY <1>3, Zenon DEF DemoFlags, Demo!StreamInit
<1>5. QED
  BY <1>2, <1>4

LEMMA DemoInvStep == DemoInv /\ [DemoNext]_demoVars => DemoInv'
<1> SUFFICES ASSUME DemoInv, [DemoNext]_demoVars PROVE DemoInv'
  OBVIOUS
<1> USE DemoAssumption DEF DemoInv
<1>1. CASE DemoSent
  <2>1. demoNext' \in 1..DemoSteps
    BY <1>1, DemoScript DEF DemoSent
  <2>2. demoEvents' \in Seq(DemoEvent)
    BY SMTT(30), <1>1 DEF DemoSent, DemoEmit
  <2>4. Len(demoEvents') <= DemoBuffer
    BY <1>1 DEF DemoSent, DemoEmit
  <2>3. QED
    BY <1>1, <2>1, <2>2, <2>4 DEF DemoSent
<1>2. CASE DemoBegin
  BY <1>2, DemoScript DEF DemoBegin
<1>3. CASE DemoReturns \/ DemoDisconnect \/ DemoReceive
  BY SMTT(30), <1>3 DEF DemoReturns, DemoDisconnect, DemoReceive
<1>4. CASE UNCHANGED demoVars
  BY <1>4 DEF demoVars
<1>5. QED
  BY <1>1, <1>2, <1>3, <1>4 DEF DemoNext

LEMMA DemoFlagsStep == DemoFlags /\ [DemoNext]_demoVars => DemoFlags'
  BY Zenon DEF DemoFlags, DemoNext, demoVars, DemoSent, DemoBegin, DemoReturns,
               DemoDisconnect, DemoReceive

LEMMA DemoStreamSteps ==
  DemoInv /\ DemoFlags /\ [DemoNext]_demoVars => [Demo!StreamNext]_(Demo!streamVars)
<1> SUFFICES ASSUME DemoInv, DemoFlags, [DemoNext]_demoVars
             PROVE  [Demo!StreamNext]_(Demo!streamVars)
  OBVIOUS
<1> USE DEF Demo!StreamNext, Demo!streamVars
<1>1. CASE DemoSent
  <2>1. Demo!Send \/ Demo!Drop
    BY <1>1 DEF DemoSent, DemoEmit, DemoInv, Demo!Send, Demo!Drop
  <2>2. QED
    BY <2>1
<1>2. CASE DemoBegin
  <2>1. DemoStep(demoNext) \in DemoEvent
    BY DemoScript DEF DemoInv
  <2>2. Demo!Offer(DemoStep(demoNext))
    BY <1>2 DEF DemoBegin, Demo!Offer
  <2>3. QED
    BY <2>1, <2>2
<1>3. CASE DemoReturns
  <2>1. Demo!Close
    BY <1>3 DEF DemoReturns, Demo!Close
  <2>2. QED
    BY <2>1
<1>4. CASE DemoDisconnect
  <2>1. Demo!Stop
    BY <1>4 DEF DemoDisconnect, Demo!Stop
  <2>2. QED
    BY <2>1
<1>5. CASE DemoReceive
  <2>1. Demo!Receive
    BY <1>5 DEF DemoReceive, Demo!Receive
  <2>2. QED
    BY <2>1
<1>6. CASE UNCHANGED demoVars
  BY <1>6 DEF demoVars
<1>7. QED
  BY <1>1, <1>2, <1>3, <1>4, <1>5, <1>6 DEF DemoNext

-----------------------------------------------------------------------------
(* MatrixHistory.                                                          *)

MhTypes ==
  /\ mhRoom \in Seq(RoomKinds \cup {"text"})
  /\ Len(mhRoom) \in 1..MaxEvents
  /\ mhToken \in 0..MaxEvents
  /\ mhCalls \subseteq HistoryCall
  /\ mhAnswers \subseteq [kind : {"page", "local", "error"}, page : SUBSET Positions]
  /\ mhScreen \subseteq Positions
  /\ mhDisk \subseteq Positions
  /\ mhOpens \in 0..MaxOpens
  /\ mhStray \subseteq 0..MaxEvents

MhFlagTypes ==
  /\ mhShown \in BOOLEAN
  /\ mhLoading \in BOOLEAN
  /\ mhAllLoaded \in BOOLEAN
  /\ mhLoaded \in BOOLEAN

\* Where a chunk begins.
Upper(from) == IF from = 0 THEN Len(mhRoom) ELSE from

\* A page of the room lies in it, and leaves no gap to where the next one begins.
LEMMA ChunkIsWhole ==
  ASSUME MhTypes, NEW from \in 0..MaxEvents
  PROVE  /\ Chunk(from) \subseteq Positions
         /\ End(from) \in 0..MaxEvents
         /\ \A i \in 1..Upper(from) : i > End(from) => i \in Chunk(from)
<1> DEFINE last == Upper(from)
           first == IF last > PageLimit THEN last - PageLimit + 1 ELSE 1
<1> USE MatrixHistoryAssumption
<1>1. last \in 1..MaxEvents
  BY DEF MhTypes, Upper
<1>2. Chunk(from) = {i \in 1..last : i > last - PageLimit}
  BY DEF Chunk, Upper
<1> HIDE DEF last
<1>3. first \in Chunk(from) /\ \A y \in Chunk(from) : first <= y
  BY <1>1, <1>2
<1>4. Min(Chunk(from)) \in Chunk(from)
  <2>1. PICK x \in Chunk(from) : \A y \in Chunk(from) : x <= y
    BY <1>3, Zenon
  <2>2. QED
    BY <2>1, Zenon DEF Min
<1>5. PICK least : least = Min(Chunk(from))
  OBVIOUS
<1>6. End(from) = least - 1 /\ least \in 1..last /\ least > last - PageLimit
  BY <1>2, <1>4, <1>5 DEF End
<1>7. Chunk(from) \subseteq Positions
  BY <1>1, <1>2 DEF Positions
<1>8. End(from) \in 0..MaxEvents
  BY <1>1, <1>6
<1>9. ASSUME NEW i \in 1..last, i > End(from) PROVE i \in Chunk(from)
  <2>1. i >= least
    BY <1>1, <1>6, <1>9
  <2>2. i > last - PageLimit
    BY <1>1, <1>6, <2>1
  <2>3. QED
    BY <1>2, <2>2
<1>10. QED
  BY <1>7, <1>8, <1>9 DEF last

LEMMA MhTypesStep == MhTypes /\ [MhNext]_mhVars => MhTypes'
<1> SUFFICES ASSUME MhTypes, [MhNext]_mhVars PROVE MhTypes'
  OBVIOUS
<1> USE MatrixHistoryAssumption DEF mhFlags, mhView, MhTypes
<1>1. MhCall(TRUE) \/ MhCall(FALSE) => mhCalls' \subseteq HistoryCall
  <2>1. /\ MhCall(TRUE) => mhCalls' = mhCalls \cup {[from |-> mhToken, cursor |-> TRUE]}
        /\ MhCall(FALSE) => mhCalls' = mhCalls \cup {[from |-> 0, cursor |-> FALSE]}
    BY DEF MhCall, TokenFor
  <2>2. /\ [from |-> mhToken, cursor |-> TRUE] \in HistoryCall
        /\ [from |-> 0, cursor |-> FALSE] \in HistoryCall
    BY DEF HistoryCall
  <2>3. QED
    BY <2>1, <2>2
<1>2. CASE OpenRoom
  <2>1. NewestPage(mhDisk) \subseteq Positions
    BY DEF NewestPage
  <2>2. {mhToken} \cup {call.from : call \in mhCalls} \subseteq 0..MaxEvents
    BY DEF HistoryCall
  <2>3. QED
    BY <1>1, <1>2, <2>1, <2>2 DEF OpenRoom
<1>3. CASE LeaveRoom \/ OtherPage
  BY <1>3 DEF LeaveRoom, OtherPage
<1>4. CASE LoadOlder
  BY <1>1, <1>4 DEF LoadOlder
<1>5. CASE LiveMessage
  <2>1. Len(mhRoom') = Len(mhRoom) + 1 /\ mhRoom' \in Seq(RoomKinds \cup {"text"})
    BY <1>5 DEF LiveMessage
  <2>2. Len(mhRoom') \in Positions
    BY <1>5, <2>1 DEF LiveMessage, Positions
  <2>3. QED
    BY <1>5, <2>1, <2>2 DEF LiveMessage, Positions
<1>6. ASSUME NEW call \in mhCalls, Answer(call) PROVE MhTypes'
  <2>1. call.from \in 0..MaxEvents
    BY DEF HistoryCall
  <2>2. Chunk(call.from) \subseteq Positions /\ End(call.from) \in 0..MaxEvents
    BY <2>1, ChunkIsWhole
  <2>3. mhToken' \in 0..MaxEvents
    BY <1>6, <2>2 DEF Answer
  <2>4. mhStray' \subseteq 0..MaxEvents
    BY <1>6, <2>3 DEF Answer
  <2>5. UNCHANGED <<mhRoom, mhScreen, mhDisk, mhOpens>> /\ mhCalls' \subseteq mhCalls
    BY <1>6 DEF Answer
  <2>6. mhAnswers' \subseteq [kind : {"page", "local", "error"}, page : SUBSET Positions]
    <3> DEFINE page == {i \in Chunk(call.from) : InHistory(i)}
    <3>1. mhAnswers' = mhAnswers \cup {[kind |-> "page", page |-> page]}
      BY <1>6 DEF Answer
    <3>2. page \in SUBSET Positions
      BY <2>2
    <3>3. QED
      BY <3>1, <3>2
  <2>7. QED
    BY <2>3, <2>4, <2>5, <2>6
<1>7. ASSUME NEW call \in mhCalls, FetchFails(call) PROVE MhTypes'
  BY <1>7 DEF FetchFails
<1>8. ASSUME NEW a \in mhAnswers, OnFetchResult(a) \/ OnLocalHistory(a) PROVE MhTypes'
  BY <1>8 DEF OnFetchResult, OnLocalHistory
<1>9. CASE UNCHANGED mhVars
  BY <1>9 DEF mhVars
<1>10. QED
  BY <1>2, <1>3, <1>4, <1>5, <1>6, <1>7, <1>8, <1>9 DEF MhNext

LEMMA MhFlagTypesStep == MhFlagTypes /\ [MhNext]_mhVars => MhFlagTypes'
<1> SUFFICES ASSUME MhFlagTypes, [MhNext]_mhVars PROVE MhFlagTypes'
  OBVIOUS
<1> USE DEF MhFlagTypes, mhFlags, mhView
<1>1. CASE OpenRoom
  BY <1>1, Zenon DEF OpenRoom, MhCall
<1>2. CASE LeaveRoom
  BY <1>2, Zenon DEF LeaveRoom
<1>3. CASE OtherPage
  BY <1>3, Zenon DEF OtherPage
<1>4. CASE LoadOlder
  BY <1>4, Zenon DEF LoadOlder, MhCall
<1>5. CASE LiveMessage
  BY <1>5, Zenon DEF LiveMessage
<1>6. ASSUME NEW call \in mhCalls, Answer(call) PROVE MhFlagTypes'
  BY <1>6, Zenon DEF Answer
<1>7. ASSUME NEW call \in mhCalls, FetchFails(call) PROVE MhFlagTypes'
  BY <1>7, Zenon DEF FetchFails
<1>8. ASSUME NEW a \in mhAnswers, OnFetchResult(a) PROVE MhFlagTypes'
  BY <1>8, Zenon DEF OnFetchResult
<1>9. ASSUME NEW a \in mhAnswers, OnLocalHistory(a) PROVE MhFlagTypes'
  BY <1>9, Zenon DEF OnLocalHistory
<1>10. CASE UNCHANGED mhVars
  BY <1>10, Zenon DEF mhVars
<1>11. QED
  BY <1>1, <1>2, <1>3, <1>4, <1>5, <1>6, <1>7, <1>8, <1>9, <1>10, Zenon DEF MhNext

LEMMA MhTypesInvariance == MhSpec => [](MhTypes /\ MhFlagTypes)
<1>1. MhInit => MhTypes
  <2> SUFFICES ASSUME MhInit PROVE MhTypes
    OBVIOUS
  <2>1. PICK n \in 1..MaxEvents : mhRoom \in [1..n -> RoomKinds]
    BY DEF MhInit
  <2>2. mhRoom \in Seq(RoomKinds \cup {"text"}) /\ Len(mhRoom) = n
    BY <2>1, MatrixHistoryAssumption
  <2>3. QED
    BY <2>1, <2>2, MatrixHistoryAssumption DEF MhInit, MhTypes
<1>2. MhInit => MhFlagTypes
  BY Zenon DEF MhInit, MhFlagTypes
<1>3. QED
  BY <1>1, <1>2, MhTypesStep, MhFlagTypesStep, PTL DEF MhSpec

-----------------------------------------------------------------------------
(* The pages of an opening join.                                           *)

\* On screen, or in an answer that is on its way there.
Coming(i) == i \in mhScreen \/ \E a \in mhAnswers : i \in a.page

\* A page that goes on from p joins the screen.
Joins(p) == \A i \in MhMessages : i > p => Coming(i)

\* The token joins, unless it is one of before the opening, and so does every call.
JoinInv ==
  /\ \A call \in mhCalls : ~call.cursor => call.from = 0
  /\ mhShown =>
       /\ mhToken \notin mhStray => Joins(mhToken)
       /\ \A call \in mhCalls : call.from = 0 \/ call.from \in mhStray \/ Joins(call.from)

\* The answer of a call.
LEMMA AnswerJoins ==
  ASSUME MhTypes, JoinInv, NEW call \in mhCalls, Answer(call)
  PROVE  JoinInv'
<1>1. /\ mhCalls' = mhCalls \ {call} /\ mhToken' = End(call.from)
      /\ mhAnswers' = mhAnswers \cup
           {[kind |-> "page", page |-> {i \in Chunk(call.from) : InHistory(i)}]}
      /\ mhStray' = IF Stray(call) THEN mhStray \cup {mhToken'} ELSE mhStray \ {mhToken'}
      /\ UNCHANGED <<mhRoom, mhScreen, mhShown>>
  BY DEF Answer, mhView
<1>2. \A c \in mhCalls' : ~c.cursor => c.from = 0
  BY <1>1 DEF JoinInv
<1>3. MhMessages' = MhMessages /\ \A i : Coming(i) => Coming(i)'
  BY <1>1 DEF MhMessages, InHistory, Coming
<1>4. \A p : Joins(p) => Joins(p)'
  BY <1>3 DEF Joins
<1> PICK t : t = mhToken'
  OBVIOUS
<1>5. ASSUME mhShown, ~Stray(call) PROVE Joins(t)'
  <2> SUFFICES ASSUME NEW i \in MhMessages, i > t PROVE Coming(i)'
    BY <1>3 DEF Joins
  <2>1. i \in 1..Len(mhRoom) /\ InHistory(i)
    BY DEF MhMessages
  <2>2. call.from \in 0..MaxEvents
    BY DEF MhTypes, HistoryCall
  <2>3. \A j \in 1..Upper(call.from) : j > End(call.from) => j \in Chunk(call.from)
    BY <2>2, ChunkIsWhole
  <2>4. CASE i \in 1..Upper(call.from)
    <3> DEFINE a == [kind |-> "page", page |-> {j \in Chunk(call.from) : InHistory(j)}]
    <3>1. i \in Chunk(call.from)
      BY <1>1, <2>3, <2>4
    <3>2. i \in a.page
      BY <2>1, <3>1
    <3>3. a \in mhAnswers'
      BY <1>1
    <3>4. QED
      BY <3>2, <3>3 DEF Coming
  <2>5. CASE i \notin 1..Upper(call.from)
    <3>1. call.from # 0 /\ i > call.from
      BY <2>1, <2>2, <2>5 DEF Upper
    <3>2. Joins(call.from)
      BY <1>5, <3>1 DEF JoinInv, Stray
    <3>3. QED
      BY <1>3, <3>1, <3>2 DEF Joins
  <2>6. QED
    BY <2>4, <2>5
<1>6. ASSUME mhShown PROVE t \notin mhStray' => Joins(t)'
  BY <1>1, <1>5, <1>6
<1>7. ASSUME mhShown, NEW c \in mhCalls'
      PROVE  c.from = 0 \/ c.from \in mhStray' \/ Joins(c.from)'
  <2>1. c.from = 0 \/ c.from \in mhStray \/ Joins(c.from)
    BY <1>1, <1>7 DEF JoinInv
  <2>2. CASE c.from = t
    BY <1>6, <1>7, <2>2
  <2>3. CASE c.from # t
    BY <1>1, <1>4, <2>1, <2>3
  <2>4. QED
    BY <2>2, <2>3
<1>8. QED
  BY <1>1, <1>2, <1>6, <1>7 DEF JoinInv

LEMMA LiveJoins ==
  ASSUME MhTypes, JoinInv, LiveMessage PROVE JoinInv'
<1>1. /\ Len(mhRoom') = Len(mhRoom) + 1
      /\ \A i \in 1..Len(mhRoom) : mhRoom'[i] = mhRoom[i]
  BY DEF LiveMessage, MhTypes
<1>2. /\ mhShown => mhScreen' = mhScreen \cup {Len(mhRoom')}
      /\ UNCHANGED <<mhToken, mhCalls, mhAnswers, mhShown, mhStray>>
  BY DEF LiveMessage
<1>3. ASSUME mhShown, NEW p, Joins(p), NEW i \in MhMessages', i > p
      PROVE  Coming(i)'
  <2>1. i = Len(mhRoom') \/ i \in MhMessages
    BY <1>1, <1>3 DEF MhMessages, InHistory, MhTypes
  <2>2. QED
    BY <1>2, <1>3, <2>1 DEF Coming, Joins
<1>4. mhShown => \A p : Joins(p) => Joins(p)'
  BY <1>3 DEF Joins
<1>5. QED
  BY <1>2, <1>4 DEF JoinInv

LEMMA JoinStep == MhTypes /\ JoinInv /\ [MhNext]_mhVars => JoinInv'
<1> SUFFICES ASSUME MhTypes, JoinInv, [MhNext]_mhVars PROVE JoinInv'
  OBVIOUS
<1> USE DEF mhFlags, mhView
<1>1. CASE OpenRoom
  <2>1. /\ mhCalls' = mhCalls \cup {[from |-> 0, cursor |-> FALSE]}
        /\ mhStray' = {mhToken} \cup {call.from : call \in mhCalls}
        /\ mhToken' = mhToken
    BY <1>1 DEF OpenRoom, MhCall, TokenFor
  <2>2. [from |-> 0, cursor |-> FALSE].from = 0
    OBVIOUS
  <2>3. \A call \in mhCalls' : call \in mhCalls \/ call.from = 0
    BY <2>1, <2>2
  <2>4. \A call \in mhCalls' : ~call.cursor => call.from = 0
    BY <2>3 DEF JoinInv
  <2>5. \A call \in mhCalls' : call.from = 0 \/ call.from \in mhStray'
    BY <2>1, <2>3
  <2>6. mhToken' \in mhStray'
    BY <2>1
  <2>7. QED
    BY <2>4, <2>5, <2>6 DEF JoinInv
<1>2. CASE LoadOlder
  <2>1. mhCalls' = mhCalls \cup {[from |-> mhToken, cursor |-> TRUE]}
    BY <1>2 DEF LoadOlder, MhCall, TokenFor
  <2>2. \A p : Joins(p)' <=> Joins(p)
    BY <1>2 DEF LoadOlder, MhMessages, InHistory, Coming, Joins
  <2>3. UNCHANGED <<mhToken, mhShown, mhStray>>
    BY <1>2 DEF LoadOlder
  <2>4. /\ [from |-> mhToken, cursor |-> TRUE].from = mhToken
        /\ [from |-> mhToken, cursor |-> TRUE].cursor
    OBVIOUS
  <2>5. \A call \in mhCalls' : call \in mhCalls \/ (call.from = mhToken /\ call.cursor)
    BY <2>1, <2>4
  <2>6. \A call \in mhCalls' : ~call.cursor => call.from = 0
    BY <2>5 DEF JoinInv
  <2>7. ASSUME mhShown, NEW call \in mhCalls'
        PROVE  call.from = 0 \/ call.from \in mhStray \/ Joins(call.from)
    BY <2>5, <2>7 DEF JoinInv
  <2>8. mhShown /\ mhToken \notin mhStray => Joins(mhToken)
    BY DEF JoinInv
  <2>9. QED
    BY <2>2, <2>3, <2>6, <2>7, <2>8 DEF JoinInv
<1>3. CASE LeaveRoom
  BY <1>3 DEF LeaveRoom, JoinInv
<1>4. CASE LiveMessage
  BY <1>4, LiveJoins
<1>5. ASSUME NEW call \in mhCalls, Answer(call) PROVE JoinInv'
  BY <1>5, AnswerJoins
<1>6. CASE \/ OtherPage \/ UNCHANGED mhVars
           \/ \E call \in mhCalls : FetchFails(call)
           \/ \E a \in mhAnswers : OnFetchResult(a) \/ OnLocalHistory(a)
  <2>1. /\ mhCalls' \subseteq mhCalls
        /\ UNCHANGED <<mhRoom, mhToken, mhShown, mhStray>>
    BY <1>6 DEF OtherPage, mhVars, FetchFails, OnFetchResult, OnLocalHistory
  <2>2. mhShown => \A i : Coming(i) => Coming(i)'
    BY <1>6 DEF OtherPage, mhVars, FetchFails, OnFetchResult, OnLocalHistory, Coming
  <2>3. MhMessages' = MhMessages
    BY <2>1 DEF MhMessages, InHistory
  <2>4. mhShown => \A p : Joins(p) => Joins(p)'
    BY <2>2, <2>3 DEF Joins
  <2>5. QED
    BY <2>1, <2>4 DEF JoinInv
<1>7. QED
  BY <1>1, <1>2, <1>3, <1>4, <1>5, <1>6 DEF MhNext

\* The pages of an opening join: with pages of any size and any room, no message
\* lies between what is on screen and where the next page begins, over live
\* messages, other channels, openings, and pages that fail or arrive late
\* (FetchHistory's histTokens, network/matrix/adapter.go, and tui.go's merges).
THEOREM NoGapBetweenPages == MhSpec => []PagesJoin
<1>1. MhInit => JoinInv
  BY DEF MhInit, JoinInv
<1>2. JoinInv => PagesJoin
  BY DEF JoinInv, Joins, PagesJoin, MhQuiet, Coming
<1>3. QED
  BY <1>1, <1>2, JoinStep, MhTypesInvariance, PTL DEF MhSpec

-----------------------------------------------------------------------------
(* PluginHost: types.                                                      *)

CallType == [at : {"none", "asking", "waiting", "returned"}, refs : Seq(PlPlugins),
             i : Nat, got : Seq(Effects)]
AnswerType == [ready : BOOLEAN, effects : Seq(Effects)]

PlTypes ==
  /\ plScripts \in PlScripts
  /\ plRuns \in [PlPlugins -> {PlIdle} \cup PlCalls \X (Nat \ {0})]
  /\ plQueued \in [PlPlugins -> Seq(Effects)]
  /\ plEnded \subseteq PlPlugins
  /\ plDone \subseteq PlPlugins
  /\ plCalls \in [PlCalls -> CallType]
  /\ plAnswer \in [PlCalls -> AnswerType]
  /\ plAsked \in [PlCalls -> Seq(0..MaxPlEffects)]
  /\ plPending \subseteq Effects

\* Whom a call asks: a plugin that loaded, or all of their hooks.
LEMMA RefsType ==
  ASSUME PlTypes
  PROVE  /\ DOMAIN plScripts \subseteq PlPlugins
         /\ Owner("command") \in Seq(PlPlugins)
         /\ Owner("key") \in Seq(PlPlugins)
         /\ Hooks \in Seq(PlPlugins)
<1>1. PICK loaded \in SUBSET PlPlugins : plScripts \in [loaded -> Registered]
  BY PluginHostAssumption DEF PlTypes
<1>2. DOMAIN plScripts \subseteq PlPlugins
  BY <1>1
<1>3. ASSUME NEW T \in SUBSET PlPlugins, T # {} PROVE Max(T) \in T
  <2>1. T \in SUBSET Nat /\ IsFiniteSet(T)
    BY PluginHostAssumption, FS_Subset
  <2>2. QED
    BY <1>3, <2>1, GreatestNumber
<1>4. ASSUME NEW kind PROVE Owner(kind) \in Seq(PlPlugins)
  <2> DEFINE owners == {p \in DOMAIN plScripts : plScripts[p][kind]}
  <2>1. owners \in SUBSET PlPlugins
    BY <1>2
  <2>2. owners = {} => Owner(kind) = <<>>
    BY DEF Owner
  <2>3. owners # {} => Owner(kind) = <<Max(owners)>>
    BY DEF Owner
  <2> HIDE DEF owners
  <2>4. owners # {} => Max(owners) \in PlPlugins
    BY <1>3, <2>1
  <2>5. \A p \in PlPlugins : <<p>> \in Seq(PlPlugins)
    OBVIOUS
  <2>6. <<>> \in Seq(PlPlugins)
    OBVIOUS
  <2>7. CASE owners = {}
    BY <2>2, <2>6, <2>7
  <2>8. CASE owners # {}
    BY <2>3, <2>4, <2>5, <2>8
  <2>9. QED
    BY <2>7, <2>8
<1>5. Hooks \in Seq(PlPlugins)
  <2> DEFINE N == Max(PlPlugins \cup {0})
             Of(k) == IF k \in DOMAIN plScripts
                      THEN [j \in 1..plScripts[k].hooks |-> k] ELSE <<>>
             lists == [k \in 1..N |-> Of(k)]
  <2>1. N \in Nat
    <3>1. PlPlugins \cup {0} \in SUBSET Nat /\ IsFiniteSet(PlPlugins \cup {0})
      BY PluginHostAssumption, FS_AddElement
    <3>2. QED
      BY <3>1, GreatestNumber
  <2>2. \A k \in 1..N : Of(k) \in Seq(PlPlugins)
    BY <1>1 DEF Registered
  <2> HIDE DEF N, Of
  <2>3. lists \in Seq(Seq(PlPlugins))
    BY <2>1, <2>2
  <2>4. Hooks = FlattenSeq(lists)
    BY DEF Hooks, N, Of
  <2> HIDE DEF lists
  <2>5. QED
    BY <2>3, <2>4, FlattenSeqType
<1>6. QED
  BY <1>2, <1>4, <1>5

-----------------------------------------------------------------------------
(* PluginHost: whose effects.                                              *)

\* What a handler that is asked m times to queue an effect has queued.
Own(c, i, m) == [n \in 1..m |-> <<c, i, n>>]

\* A call is past a handler; it has at least been taken.
Handled(c, j) == j < plCalls[c].i \/ plCalls[c].at = "returned"
Taken(c, j)   == Handled(c, j) \/ (plCalls[c].at = "waiting" /\ j = plCalls[c].i)

RunsHandler(p, c, j) == plRuns[p] = <<c, j>>

\* A loop runs a handler of a call that named its plugin, and has queued what the
\* handler asked for since it began.
RunsInv ==
  \A p \in PlPlugins, c \in PlCalls, j \in Nat :
    RunsHandler(p, c, j) =>
      /\ plCalls[c].at # "none" /\ j \in DOMAIN plCalls[c].refs
      /\ p = plCalls[c].refs[j] /\ Taken(c, j)
      /\ plQueued[p] = Own(c, j, plAsked[c][j])

\* An answer that is ready has all of it, and its handler is over.
AnswersInv ==
  \A c \in PlCalls :
    plAnswer[c].ready =>
      /\ plCalls[c].at = "waiting"
      /\ plAnswer[c].effects = Own(c, plCalls[c].i, plAsked[c][plCalls[c].i])
      /\ \A p \in PlPlugins : ~RunsHandler(p, c, plCalls[c].i)

\* Of what a call has got, what is of one handler, that it is of no later one,
\* and that it is in order.
OfHandler(got, j) == {e \in Range(got) : e[2] = j}
OfCallUpTo(got, c, i) ==
  \A k \in DOMAIN got : got[k] \in {c} \X (Nat \ {0}) \X Nat /\ got[k][2] <= i
InOrder(got) == \A k, l \in DOMAIN got : k < l => QueuedBefore(got[k], got[l])

EffectsOf(c, j) == OfHandler(plCalls[c].got, j)

\* All of a handler that is over, or nothing of one whose plugin was closed.
Settled(c, j) ==
  \/ /\ EffectsOf(c, j) = {<<c, j, n>> : n \in 1..plAsked[c][j]}
     /\ \A p \in PlPlugins : ~RunsHandler(p, c, j)
  \/ plCalls[c].refs[j] \in plDone /\ EffectsOf(c, j) = {}

\* What a call has got is in order, and of handlers it is past, each of which is
\* settled; the others have not begun.
CallInv(c) ==
  plCalls[c].at # "none" =>
    /\ plCalls[c].at # "returned" => plCalls[c].i \in DOMAIN plCalls[c].refs
    /\ DOMAIN plAsked[c] = DOMAIN plCalls[c].refs
    /\ \A j \in DOMAIN plCalls[c].refs : ~Taken(c, j) => plAsked[c][j] = 0
    /\ \A k \in DOMAIN plCalls[c].got :
         /\ plCalls[c].got[k] \in {c} \X (Nat \ {0}) \X Nat
         /\ Handled(c, plCalls[c].got[k][2])
    /\ \A k, l \in DOMAIN plCalls[c].got :
         k < l => QueuedBefore(plCalls[c].got[k], plCalls[c].got[l])
    /\ \A j \in DOMAIN plCalls[c].refs : Handled(c, j) => Settled(c, j)

PlInv == RunsInv /\ AnswersInv /\ \A c \in PlCalls : CallInv(c)

\* The record of a call that goes on with the effects of its handler.
GoOnRecord(c, effects) ==
  LET last == plCalls[c].i = Len(plCalls[c].refs)
  IN  [at   |-> IF last THEN "returned" ELSE "asking",
       refs |-> plCalls[c].refs,
       i    |-> IF last THEN plCalls[c].i ELSE plCalls[c].i + 1,
       got  |-> plCalls[c].got \o effects]

LEMMA GoOnResult ==
  ASSUME NEW c \in PlCalls, NEW effects \in Seq(Effects), PlTypes, GoOn(c, effects)
  PROVE  /\ plCalls' = [plCalls EXCEPT ![c] = GoOnRecord(c, effects)]
         /\ GoOnRecord(c, effects) \in CallType
<1> DEFINE last == plCalls[c].i = Len(plCalls[c].refs)
           at == IF last THEN "returned" ELSE "asking"
           i == IF last THEN plCalls[c].i ELSE plCalls[c].i + 1
           got == plCalls[c].got \o effects
           R == [plCalls[c] EXCEPT !.at = at, !.i = i, !.got = got]
<1>1. plCalls' = [plCalls EXCEPT ![c] = R]
  BY DEF GoOn
<1>2. plCalls[c] \in CallType
  BY DEF PlTypes
<1>3. at \in {"asking", "returned"} /\ i \in Nat /\ got \in Seq(Effects)
  BY <1>2 DEF CallType
<1>4. GoOnRecord(c, effects) = [at |-> at, refs |-> plCalls[c].refs, i |-> i, got |-> got]
  BY DEF GoOnRecord
<1> HIDE DEF at, i, got
<1>5. R \in CallType
  BY <1>2, <1>3 DEF CallType
<1>6. R.at = at /\ R.refs = plCalls[c].refs /\ R.i = i /\ R.got = got
  BY <1>2 DEF CallType
<1> HIDE DEF R
<1>7. R = [at |-> R.at, refs |-> R.refs, i |-> R.i, got |-> R.got]
  BY <1>5 DEF CallType
<1>8. R = GoOnRecord(c, effects)
  BY <1>4, <1>6, <1>7
<1>9. QED
  BY <1>1, <1>5, <1>8

LEMMA RunnerIs ==
  ASSUME PlTypes, NEW p \in PlPlugins, plRuns[p] # PlIdle
  PROVE  \E c \in PlCalls, i \in Nat \ {0} : plRuns[p] = <<c, i>>
<1>1. plRuns[p] \in PlCalls \X (Nat \ {0})
  BY DEF PlTypes
<1>2. QED
  BY <1>1

LEMMA PlTypesStep == PlTypes /\ PlInv /\ [PlNext]_plVars => PlTypes'
<1> SUFFICES ASSUME PlTypes, PlInv, [PlNext]_plVars PROVE PlTypes'
  OBVIOUS
<1> USE DEF plLoops
<1>1. ASSUME NEW c \in PlCalls, StartCall(c) PROVE PlTypes'
  <2>1. PICK refs \in Seq(PlPlugins) :
          /\ refs # <<>>
          /\ plCalls' = [plCalls EXCEPT ![c] = [at |-> "asking", refs |-> refs,
                                                i |-> 1, got |-> <<>>]]
          /\ plAsked' = [plAsked EXCEPT ![c] = [i \in DOMAIN refs |-> 0]]
    BY <1>1, RefsType DEF StartCall
  <2>2. [i \in DOMAIN refs |-> 0] \in Seq(0..MaxPlEffects)
    BY PluginHostAssumption
  <2>3. [at |-> "asking", refs |-> refs, i |-> 1, got |-> <<>>] \in CallType
    BY DEF CallType
  <2>4. plCalls' \in [PlCalls -> CallType] /\ plAsked' \in [PlCalls -> Seq(0..MaxPlEffects)]
    BY <2>1, <2>2, <2>3 DEF PlTypes
  <2>5. QED
    BY <1>1, <2>4 DEF StartCall, PlTypes
<1>2. ASSUME NEW c \in PlCalls, Ask(c) PROVE PlTypes'
  <2>1. plCalls[c].at = "asking" /\ plCalls[c].i \in DOMAIN plCalls[c].refs
    BY <1>2 DEF Ask, PlInv, CallInv
  <2>2. Asked(c) \in PlPlugins /\ plCalls[c].i \in Nat \ {0}
    BY <2>1 DEF Asked, PlTypes, CallType
  <2>3. /\ plRuns' = [plRuns EXCEPT ![Asked(c)] = <<c, plCalls[c].i>>]
        /\ plQueued' = [plQueued EXCEPT ![Asked(c)] = <<>>]
        /\ plCalls' = [plCalls EXCEPT ![c].at = "waiting"]
    BY <1>2 DEF Ask, Cleared
  <2>4. /\ plRuns' \in [PlPlugins -> {PlIdle} \cup PlCalls \X (Nat \ {0})]
        /\ plQueued' \in [PlPlugins -> Seq(Effects)]
    BY <2>2, <2>3 DEF PlTypes
  <2>5. plCalls' \in [PlCalls -> CallType]
    BY <2>3 DEF PlTypes, CallType
  <2>6. QED
    BY <1>2, <2>4, <2>5 DEF Ask, PlTypes
<1>3. ASSUME NEW c \in PlCalls, PluginClosed(c) \/ Answered(c) PROVE PlTypes'
  <2>1. PICK effects \in Seq(Effects) : GoOn(c, effects)
    <3>1. CASE PluginClosed(c)
      <4>1. <<>> \in Seq(Effects) /\ GoOn(c, <<>>)
        BY <3>1 DEF PluginClosed
      <4>2. QED
        BY <4>1
    <3>2. CASE Answered(c)
      <4>1. plAnswer[c].effects \in Seq(Effects) /\ GoOn(c, plAnswer[c].effects)
        BY <3>2 DEF Answered, PlTypes, AnswerType
      <4>2. QED
        BY <4>1
    <3>3. QED
      BY <1>3, <3>1, <3>2
  <2>2. /\ plCalls' = [plCalls EXCEPT ![c] = GoOnRecord(c, effects)]
        /\ GoOnRecord(c, effects) \in CallType
    BY <2>1, GoOnResult
  <2>3. plCalls' \in [PlCalls -> CallType]
    BY <2>2 DEF PlTypes
  <2>4. plAnswer' \in [PlCalls -> AnswerType]
    BY <2>1 DEF GoOn, PlTypes, AnswerType, NoAnswer
  <2>5. plPending' \subseteq Effects
    <3>1. Range(GoOnRecord(c, effects).got) \subseteq Effects
      BY <2>2 DEF Range, CallType
    <3>2. GoOnRecord(c, effects).got = plCalls[c].got \o effects
      BY DEF GoOnRecord
    <3>3. plPending' \subseteq plPending \cup Range(plCalls[c].got \o effects)
      BY <2>1 DEF GoOn
    <3>4. QED
      BY <3>1, <3>2, <3>3 DEF PlTypes
  <2>6. QED
    BY <1>3, <2>3, <2>4, <2>5 DEF PluginClosed, Answered, PlTypes
<1>4. ASSUME NEW p \in PlPlugins, QueueEffect(p) PROVE PlTypes'
  <2>1. PICK c \in PlCalls, i \in Nat \ {0} : plRuns[p] = <<c, i>>
    BY <1>4, RunnerIs DEF QueueEffect
  <2>2. i \in DOMAIN plAsked[c]
    BY <2>1 DEF PlInv, RunsInv, RunsHandler, CallInv
  <2> DEFINE n == plAsked[c][i] + 1
  <2>3. /\ n <= MaxPlEffects
        /\ plQueued' = [plQueued EXCEPT ![p] = Append(@, <<c, i, n>>)]
        /\ plAsked' = [plAsked EXCEPT ![c][i] = n]
    BY <1>4, <2>1 DEF QueueEffect
  <2>4. n \in 1..MaxPlEffects
    BY <2>2, <2>3, PluginHostAssumption DEF PlTypes
  <2> HIDE DEF n
  <2>5. <<c, i, n>> \in Effects
    BY <2>4 DEF Effects
  <2>6. plQueued' \in [PlPlugins -> Seq(Effects)]
    BY <2>3, <2>5 DEF PlTypes
  <2>7. plAsked' \in [PlCalls -> Seq(0..MaxPlEffects)]
    BY <2>2, <2>3, <2>4, PluginHostAssumption DEF PlTypes
  <2>8. QED
    BY <1>4, <2>6, <2>7 DEF QueueEffect, PlTypes
<1>5. ASSUME NEW p \in PlPlugins, HandlerEnds(p) PROVE PlTypes'
  <2>1. plAnswer' \in [PlCalls -> AnswerType]
    <3>1. [ready |-> TRUE, effects |-> plQueued[p]] \in AnswerType
      BY DEF PlTypes, AnswerType
    <3>2. QED
      BY <1>5, <3>1 DEF HandlerEnds, PlTypes
  <2>2. plQueued' \in [PlPlugins -> Seq(Effects)]
    BY <1>5 DEF HandlerEnds, PlTypes
  <2>3. plRuns' \in [PlPlugins -> {PlIdle} \cup PlCalls \X (Nat \ {0})]
    BY <1>5 DEF HandlerEnds, PlTypes
  <2>4. QED
    BY <1>5, <2>1, <2>2, <2>3 DEF HandlerEnds, PlTypes
<1>6. ASSUME NEW p \in PlPlugins, LoopEnds(p) \/ ClosePlugin(p) PROVE PlTypes'
  BY <1>6 DEF LoopEnds, ClosePlugin, PlTypes
<1>7. ASSUME NEW e \in plPending, ApplyEffect(e) PROVE PlTypes'
  BY <1>7 DEF ApplyEffect, PlTypes
<1>8. CASE UNCHANGED plVars
  BY <1>8 DEF plVars, PlTypes
<1>9. QED
  BY <1>1, <1>2, <1>3, <1>4, <1>5, <1>6, <1>7, <1>8 DEF PlNext

\* A call that a step leaves alone keeps its invariant, also when plugins close
\* or handlers end.
LEMMA CallFrame ==
  ASSUME NEW d, CallInv(d), plCalls'[d] = plCalls[d], plAsked'[d] = plAsked[d],
         plDone \subseteq plDone',
         \A p \in PlPlugins, j \in Nat :
           Handled(d, j) /\ RunsHandler(p, d, j)' => RunsHandler(p, d, j),
         plCalls[d].refs \in Seq(PlPlugins)
  PROVE  CallInv(d)'
<1>1. \A j : Handled(d, j)' <=> Handled(d, j)
  BY DEF Handled
<1>2. \A j : Taken(d, j)' <=> Taken(d, j)
  BY <1>1 DEF Taken
<1>3. \A j : EffectsOf(d, j)' = EffectsOf(d, j)
  BY DEF EffectsOf
<1>4. ASSUME NEW j \in DOMAIN plCalls[d].refs, Handled(d, j), Settled(d, j)
      PROVE  Settled(d, j)'
  BY <1>3, <1>4 DEF Settled
<1>5. QED
  BY <1>1, <1>2, <1>4 DEF CallInv

\* RunsInv, for one loop and with what it says of the handler alone.
LEMMA RunsHandlerOf ==
  ASSUME PlTypes, PlInv, NEW p \in PlPlugins, NEW c \in PlCalls, NEW j \in Nat,
         RunsHandler(p, c, j)
  PROVE  /\ plCalls[c].at # "none" /\ j \in DOMAIN plCalls[c].refs
         /\ p = plCalls[c].refs[j] /\ Taken(c, j) /\ j \in Nat \ {0}
         /\ plQueued[p] = Own(c, j, plAsked[c][j])
<1>1. plCalls[c].refs \in Seq(PlPlugins)
  BY DEF PlTypes, CallType
<1>2. QED
  BY <1>1 DEF PlInv, RunsInv

LEMMA StartCallKeeps ==
  ASSUME PlTypes, PlInv, NEW c \in PlCalls, StartCall(c)
  PROVE  PlInv'
<1> USE DEF plLoops
<1>1. PICK refs \in Seq(PlPlugins) :
        /\ refs # <<>>
        /\ plCalls' = [plCalls EXCEPT ![c] = [at |-> "asking", refs |-> refs,
                                              i |-> 1, got |-> <<>>]]
        /\ plAsked' = [plAsked EXCEPT ![c] = [i \in DOMAIN refs |-> 0]]
  BY RefsType DEF StartCall
<1>2. plCalls[c].at = "none"
  BY DEF StartCall
<1>3. /\ plCalls'[c] = [at |-> "asking", refs |-> refs, i |-> 1, got |-> <<>>]
      /\ plAsked'[c] = [i \in DOMAIN refs |-> 0]
      /\ \A d \in PlCalls \ {c} : plCalls'[d] = plCalls[d] /\ plAsked'[d] = plAsked[d]
  BY <1>1 DEF PlTypes
<1>4. UNCHANGED <<plScripts, plRuns, plQueued, plEnded, plDone, plAnswer, plPending>>
  BY DEF StartCall
<1>5. \A p \in PlPlugins, j \in Nat : ~RunsHandler(p, c, j)
  BY <1>2 DEF PlInv, RunsInv
<1>6. RunsInv'
  <2> SUFFICES ASSUME NEW p \in PlPlugins, NEW d \in PlCalls, NEW j \in Nat,
                      RunsHandler(p, d, j)'
               PROVE  /\ plCalls'[d].at # "none" /\ j \in DOMAIN plCalls'[d].refs
                      /\ p = plCalls'[d].refs[j] /\ Taken(d, j)'
                      /\ plQueued'[p] = Own(d, j, plAsked'[d][j])
    BY DEF RunsInv, Own
  <2>1. RunsHandler(p, d, j)
    BY <1>4 DEF RunsHandler
  <2>2. d # c
    BY <1>5, <2>1
  <2>3. plCalls'[d] = plCalls[d] /\ plAsked'[d] = plAsked[d]
    BY <1>3, <2>2
  <2>4. Taken(d, j)' <=> Taken(d, j)
    BY <2>3 DEF Taken, Handled
  <2>5. QED
    BY <1>4, <2>1, <2>3, <2>4 DEF PlInv, RunsInv
<1>7. AnswersInv'
  <2> SUFFICES ASSUME NEW d \in PlCalls, plAnswer'[d].ready
               PROVE  /\ plCalls'[d].at = "waiting"
                      /\ plAnswer'[d].effects
                           = Own(d, plCalls'[d].i, plAsked'[d][plCalls'[d].i])
                      /\ \A p \in PlPlugins : plRuns'[p] # <<d, plCalls'[d].i>>
    BY DEF AnswersInv, Own, RunsHandler
  <2>1. plCalls[d].at = "waiting"
    BY <1>4 DEF PlInv, AnswersInv
  <2>2. d # c
    BY <1>2, <2>1
  <2>3. QED
    BY <1>3, <1>4, <2>2 DEF PlInv, AnswersInv, RunsHandler
<1>8. ASSUME NEW d \in PlCalls \ {c} PROVE CallInv(d)'
  <2>1. \A p \in PlPlugins, j \in Nat : RunsHandler(p, d, j)' => RunsHandler(p, d, j)
    BY <1>4 DEF RunsHandler
  <2>2. plCalls[d].refs \in Seq(PlPlugins) /\ CallInv(d)
    BY DEF PlTypes, CallType, PlInv
  <2>3. QED
    BY <1>3, <1>4, <2>1, <2>2, CallFrame
<1>9. CallInv(c)'
  <2>1. /\ plCalls'[c].at = "asking" /\ plCalls'[c].refs = refs /\ plCalls'[c].i = 1
        /\ plCalls'[c].got = <<>>
    BY <1>3
  <2>2. 1 \in DOMAIN refs
    BY <1>1
  <2>3. \A j \in DOMAIN refs : ~Handled(c, j)'
    BY <2>1 DEF Handled
  <2>4. DOMAIN plAsked'[c] = DOMAIN refs /\ \A j \in DOMAIN refs : plAsked'[c][j] = 0
    BY <1>3
  <2>5. QED
    BY <2>1, <2>2, <2>3, <2>4 DEF CallInv
<1>10. QED
  BY <1>6, <1>7, <1>8, <1>9 DEF PlInv

LEMMA AskKeeps ==
  ASSUME PlTypes, PlInv, NEW c \in PlCalls, Ask(c)
  PROVE  PlInv'
<1> DEFINE p == Asked(c)
           i == plCalls[c].i
<1>1. /\ plCalls[c].at = "asking" /\ i \in DOMAIN plCalls[c].refs
      /\ plCalls[c].refs \in Seq(PlPlugins)
  BY DEF Ask, PlInv, CallInv, PlTypes, CallType
<1>2. p \in PlPlugins /\ i \in Nat \ {0} /\ p = plCalls[c].refs[i]
  BY <1>1 DEF Asked
<1>3. /\ plCalls'[c] = [plCalls[c] EXCEPT !.at = "waiting"]
      /\ \A d \in PlCalls \ {c} : plCalls'[d] = plCalls[d]
      /\ UNCHANGED <<plScripts, plEnded, plDone, plAnswer, plPending, plAsked>>
  BY DEF Ask, PlTypes
<1>4. /\ plRuns[p] = PlIdle /\ plRuns'[p] = <<c, i>>
      /\ plQueued'[p] = <<>>
      /\ \A q \in PlPlugins \ {p} : plRuns'[q] = plRuns[q] /\ plQueued'[q] = plQueued[q]
  BY <1>2 DEF Ask, Cleared, PlTypes
<1>5. /\ plCalls'[c].at = "waiting" /\ plCalls'[c].refs = plCalls[c].refs
      /\ plCalls'[c].i = i /\ plCalls'[c].got = plCalls[c].got
  <2>1. plCalls[c] \in CallType
    BY DEF PlTypes
  <2>2. QED
    BY <1>3, <2>1 DEF CallType
<1>6. \A j : Handled(c, j)' <=> Handled(c, j)
  BY <1>1, <1>5 DEF Handled
<1>7. \A j : Taken(c, j)' <=> Handled(c, j) \/ j = i
  BY <1>5, <1>6 DEF Taken
<1>8. ~Handled(c, i) /\ ~Taken(c, i)
  BY <1>1, <1>2 DEF Handled, Taken
<1>9. plAsked[c][i] = 0
  BY <1>1, <1>8 DEF PlInv, CallInv
<1> HIDE DEF p, i
<1>10. RunsInv'
  <2> SUFFICES ASSUME NEW q \in PlPlugins, NEW d \in PlCalls, NEW j \in Nat,
                      RunsHandler(q, d, j)'
               PROVE  /\ plCalls'[d].at # "none" /\ j \in DOMAIN plCalls'[d].refs
                      /\ q = plCalls'[d].refs[j] /\ Taken(d, j)'
                      /\ plQueued'[q] = Own(d, j, plAsked'[d][j])
    BY DEF RunsInv, Own
  <2>1. CASE q = p
    <3>1. d = c /\ j = i
      BY <1>4, <2>1 DEF RunsHandler
    <3>2. Own(c, i, 0) = <<>>
      BY DEF Own
    <3>3. QED
      BY <1>1, <1>2, <1>3, <1>4, <1>5, <1>7, <1>9, <2>1, <3>1, <3>2
  <2>2. CASE q # p
    <3>1. RunsHandler(q, d, j)
      BY <1>4, <2>2 DEF RunsHandler
    <3>2. Taken(d, j) => Taken(d, j)'
      <4>1. CASE d = c
        BY <1>1, <1>7, <4>1 DEF Taken
      <4>2. CASE d # c
        BY <1>3, <4>2 DEF Taken, Handled
      <4>3. QED
        BY <4>1, <4>2
    <3>3. /\ plCalls'[d].refs = plCalls[d].refs
          /\ plCalls[d].at # "none" => plCalls'[d].at # "none"
      BY <1>3, <1>5
    <3>4. QED
      BY <1>3, <1>4, <2>2, <3>1, <3>2, <3>3 DEF PlInv, RunsInv
  <2>3. QED
    BY <2>1, <2>2
<1>11. AnswersInv'
  <2> SUFFICES ASSUME NEW d \in PlCalls, plAnswer'[d].ready
               PROVE  /\ plCalls'[d].at = "waiting"
                      /\ plAnswer'[d].effects
                           = Own(d, plCalls'[d].i, plAsked'[d][plCalls'[d].i])
                      /\ \A q \in PlPlugins : plRuns'[q] # <<d, plCalls'[d].i>>
    BY DEF AnswersInv, Own, RunsHandler
  <2>1. plCalls[d].at = "waiting"
    BY <1>3 DEF PlInv, AnswersInv
  <2>2. d # c
    BY <1>1, <2>1
  <2>3. QED
    BY <1>3, <1>4, <2>2 DEF PlInv, AnswersInv, RunsHandler
<1>12. ASSUME NEW d \in PlCalls \ {c} PROVE CallInv(d)'
  <2>1. \A q \in PlPlugins, j \in Nat : RunsHandler(q, d, j)' => RunsHandler(q, d, j)
    BY <1>4 DEF RunsHandler
  <2>2. plCalls[d].refs \in Seq(PlPlugins) /\ CallInv(d)
    BY DEF PlTypes, CallType, PlInv
  <2>3. plDone \subseteq plDone' /\ plAsked'[d] = plAsked[d] /\ plCalls'[d] = plCalls[d]
    BY <1>3
  <2>4. QED
    BY <2>1, <2>2, <2>3, CallFrame
<1>13. CallInv(c)'
  <2>1. CallInv(c)
    BY DEF PlInv
  <2>2. \A j : EffectsOf(c, j)' = EffectsOf(c, j)
    BY <1>5 DEF EffectsOf
  <2>3. ASSUME NEW j \in DOMAIN plCalls[c].refs, Handled(c, j), Settled(c, j)
        PROVE  Settled(c, j)'
    <3>1. j # i
      BY <1>8, <2>3
    <3>2. \A q \in PlPlugins : RunsHandler(q, c, j)' => RunsHandler(q, c, j)
      BY <1>4, <3>1 DEF RunsHandler
    <3>3. plDone' = plDone /\ plAsked' = plAsked
      BY <1>3
    <3>4. QED
      BY <1>5, <2>2, <2>3, <3>2, <3>3 DEF Settled
  <2>4. plAsked'[c] = plAsked[c]
    BY <1>3
  <2>5. \A j : ~Taken(c, j)' => ~Taken(c, j)
    BY <1>1, <1>7 DEF Taken
  <2>6. QED
    BY <1>1, <1>5, <1>6, <2>1, <2>3, <2>4, <2>5 DEF CallInv, i
<1>14. QED
  BY <1>10, <1>11, <1>12, <1>13 DEF PlInv

\* What the call has got with the effects of one more handler.
LEMMA GotMore ==
  ASSUME NEW c \in PlCalls, NEW i \in Nat \ {0}, NEW n \in Nat,
         NEW got \in Seq(Effects), NEW more \in Seq(Effects),
         more = <<>> \/ more = Own(c, i, n),
         OfCallUpTo(got, c, i - 1), InOrder(got)
  PROVE  /\ OfCallUpTo(got \o more, c, i) /\ InOrder(got \o more)
         /\ \A j \in Nat \ {i} : OfHandler(got \o more, j) = OfHandler(got, j)
         /\ OfHandler(got \o more, i) = Range(more)
<1>0. /\ \A k \in DOMAIN got : got[k] \in {c} \X (Nat \ {0}) \X Nat /\ got[k][2] < i
      /\ \A k, l \in DOMAIN got : k < l => QueuedBefore(got[k], got[l])
  <2>1. \A k \in DOMAIN got : got[k] \in {c} \X (Nat \ {0}) \X Nat /\ got[k][2] <= i - 1
    BY DEF OfCallUpTo
  <2>2. \A e \in {c} \X (Nat \ {0}) \X Nat : e[2] \in Nat
    OBVIOUS
  <2>3. QED
    BY <2>1, <2>2 DEF InOrder
<1> DEFINE all == got \o more
           m == Len(more)
<1>1. more \in Seq({c} \X (Nat \ {0}) \X Nat) /\ m \in Nat
  <2> DEFINE S == {c} \X (Nat \ {0}) \X Nat
  <2>1. Own(c, i, n) \in Seq(S)
    BY DEF Own
  <2> HIDE DEF S
  <2>2. <<>> \in Seq(S)
    OBVIOUS
  <2>3. more \in Seq(S)
    BY <2>1, <2>2
  <2>4. Len(more) \in Nat
    BY <2>3
  <2>5. QED
    BY <2>3, <2>4 DEF S
<1>2. \A k \in 1..m : more[k] = <<c, i, k>>
  BY DEF Own
<1>3. DOMAIN more = 1..m /\ DOMAIN got = 1..Len(got) /\ Len(got) \in Nat
  BY <1>1
<1>4. /\ DOMAIN all = 1..(Len(got) + m)
      /\ \A k \in 1..Len(got) : all[k] = got[k]
      /\ \A k \in 1..m : all[Len(got) + k] = more[k]
  <2>1. /\ got \in Seq(Effects \cup ({c} \X (Nat \ {0}) \X Nat))
        /\ more \in Seq(Effects \cup ({c} \X (Nat \ {0}) \X Nat))
    BY <1>1
  <2>2. QED
    BY <2>1
<1> HIDE DEF all, m
<1>5. \A k \in DOMAIN all : k \in 1..Len(got) \/ \E l \in 1..m : k = Len(got) + l
  <2>1. \A k \in 1..(Len(got) + m) :
          k \in 1..Len(got) \/ (k - Len(got) \in 1..m /\ k = Len(got) + (k - Len(got)))
    BY <1>1, <1>3
  <2>2. QED
    BY <1>4, <2>1
<1>6. \A k \in DOMAIN all :
        \/ k \in 1..Len(got) /\ all[k] = got[k]
        \/ \E l \in 1..m : k = Len(got) + l /\ all[k] = <<c, i, l>>
  BY <1>2, <1>4, <1>5
<1>7. \A k \in DOMAIN all : all[k] \in {c} \X (Nat \ {0}) \X Nat /\ all[k][2] <= i
  <2> SUFFICES ASSUME NEW k \in DOMAIN all
               PROVE  all[k] \in {c} \X (Nat \ {0}) \X Nat /\ all[k][2] <= i
    OBVIOUS
  <2>1. CASE k \in 1..Len(got) /\ all[k] = got[k]
    BY <1>0, <1>3, <2>1
  <2>2. CASE \E l \in 1..m : k = Len(got) + l /\ all[k] = <<c, i, l>>
    BY <1>1, <2>2
  <2>3. QED
    BY <1>6, <2>1, <2>2
<1>8. ASSUME NEW k \in DOMAIN all, NEW l \in DOMAIN all, k < l
      PROVE  QueuedBefore(all[k], all[l])
  <2>1. CASE l \in 1..Len(got)
    <3>1. k \in 1..Len(got)
      BY <1>1, <1>3, <1>4, <1>8, <2>1
    <3>2. QED
      BY <1>0, <1>3, <1>4, <1>8, <2>1, <3>1
  <2>2. CASE l \notin 1..Len(got)
    <3>1. PICK b \in 1..m : l = Len(got) + b /\ all[l] = <<c, i, b>>
      BY <1>6, <2>2
    <3>2. CASE k \in 1..Len(got)
      <4>1. all[k][2] < i
        BY <1>0, <1>3, <1>4, <3>2
      <4>2. all[l][2] = i
        BY <3>1
      <4>3. QED
        BY <4>1, <4>2 DEF QueuedBefore
    <3>3. CASE k \notin 1..Len(got)
      <4>1. PICK a \in 1..m : k = Len(got) + a /\ all[k] = <<c, i, a>>
        BY <1>6, <3>3
      <4>2. a < b
        BY <1>1, <1>3, <1>8, <3>1, <4>1
      <4>3. all[k][2] = all[l][2] /\ all[k][3] = a /\ all[l][3] = b
        BY <3>1, <4>1
      <4>4. QED
        BY <4>2, <4>3 DEF QueuedBefore
    <3>4. QED
      BY <3>2, <3>3
  <2>3. QED
    BY <2>1, <2>2
<1>9. Range(all) = Range(got) \cup Range(more)
  <2>1. \A k \in 1..Len(got) : k \in DOMAIN all
    BY <1>1, <1>3, <1>4
  <2>2. \A k \in 1..m : Len(got) + k \in DOMAIN all
    BY <1>1, <1>3, <1>4
  <2>3. Range(got) \subseteq Range(all)
    BY <1>3, <1>4, <2>1 DEF Range
  <2>4. Range(more) \subseteq Range(all)
    BY <1>3, <1>4, <2>2 DEF Range
  <2>5. Range(all) \subseteq Range(got) \cup Range(more)
    <3>1. \A k \in DOMAIN all : all[k] \in Range(got) \cup Range(more)
      <4>1. ASSUME NEW k \in 1..Len(got) PROVE all[k] \in Range(got)
        BY <1>3, <1>4 DEF Range
      <4>2. ASSUME NEW l \in 1..m PROVE all[Len(got) + l] \in Range(more)
        BY <1>3, <1>4 DEF Range
      <4>3. QED
        BY <1>5, <4>1, <4>2
    <3>2. QED
      BY <3>1 DEF Range
  <2>6. QED
    BY <2>3, <2>4, <2>5
<1>10. \A e \in Range(more) : e[2] = i
  BY <1>2, <1>3 DEF Range
<1>11. \A e \in Range(got) : e[2] # i
  <2>1. \A k \in DOMAIN got : got[k][2] \in Nat /\ got[k][2] < i
    BY <1>0
  <2>2. \A k \in DOMAIN got : got[k][2] # i
    BY <2>1
  <2>3. QED
    BY <2>2 DEF Range
<1>12. \A j \in Nat \ {i} : {e \in Range(all) : e[2] = j} = {e \in Range(got) : e[2] = j}
  BY <1>9, <1>10
<1>13. {e \in Range(all) : e[2] = i} = Range(more)
  BY <1>9, <1>10, <1>11
<1>14. QED
  BY <1>7, <1>8, <1>12, <1>13 DEF all, OfCallUpTo, InOrder, OfHandler

LEMMA OwnRange ==
  ASSUME NEW c, NEW i, NEW n \in Nat
  PROVE  Range(Own(c, i, n)) = {<<c, i, m>> : m \in 1..n}
BY DEF Own, Range

LEMMA GoOnKeeps ==
  ASSUME PlTypes, PlInv, NEW c \in PlCalls, NEW effects \in Seq(Effects),
         plCalls[c].at \in {"asking", "waiting"}, GoOn(c, effects),
         UNCHANGED <<plScripts, plLoops, plDone, plAsked>>,
         \/ effects = <<>> /\ Asked(c) \in plDone
         \/ /\ effects = Own(c, plCalls[c].i, plAsked[c][plCalls[c].i])
            /\ \A p \in PlPlugins : ~RunsHandler(p, c, plCalls[c].i)
  PROVE  PlInv'
<1>0. PICK i, refs, got, n :
        /\ i = plCalls[c].i /\ refs = plCalls[c].refs /\ got = plCalls[c].got
        /\ n = plAsked[c][plCalls[c].i]
  OBVIOUS
<1> USE DEF plLoops
<1>1. /\ i \in DOMAIN refs /\ refs \in Seq(PlPlugins) /\ i \in Nat \ {0}
      /\ i <= Len(refs) /\ Len(refs) \in Nat /\ DOMAIN refs = 1..Len(refs)
      /\ CallInv(c) /\ plCalls[c] \in CallType /\ got \in Seq(Effects)
      /\ plCalls[c].at # "none" /\ plCalls[c].at # "returned"
  <2>1. CallInv(c) /\ plCalls[c].at # "none" /\ plCalls[c].at # "returned"
    BY DEF PlInv
  <2>2. plCalls[c] \in CallType
    BY DEF PlTypes
  <2>3. i \in DOMAIN refs
    BY <1>0, <2>1 DEF CallInv
  <2>4. refs \in Seq(PlPlugins) /\ got \in Seq(Effects)
    BY <1>0, <2>2 DEF CallType
  <2>5. QED
    BY <2>1, <2>2, <2>3, <2>4
<1>2. /\ plCalls'[c] = GoOnRecord(c, effects)
      /\ \A d \in PlCalls \ {c} : plCalls'[d] = plCalls[d]
  <2>1. plCalls' = [plCalls EXCEPT ![c] = GoOnRecord(c, effects)]
    BY GoOnResult
  <2>2. QED
    BY <2>1 DEF PlTypes
<1>3. /\ plAnswer'[c] = NoAnswer
      /\ \A d \in PlCalls \ {c} : plAnswer'[d] = plAnswer[d]
  BY DEF GoOn, PlTypes
<1>4. /\ plCalls'[c].at = IF i = Len(refs) THEN "returned" ELSE "asking"
      /\ plCalls'[c].refs = refs
      /\ plCalls'[c].i = IF i = Len(refs) THEN i ELSE i + 1
      /\ plCalls'[c].got = got \o effects
  BY <1>0, <1>2 DEF GoOnRecord
<1>5. n \in Nat
  <2>1. DOMAIN plAsked[c] = DOMAIN refs
    BY <1>0, <1>1 DEF CallInv
  <2>2. QED
    BY SMTT(30), <1>0, <1>1, <2>1, PluginHostAssumption DEF PlTypes
<1>6. \A j \in Nat : Handled(c, j) <=> j < i
  BY <1>0, <1>1 DEF Handled
<1>7. \A j \in DOMAIN refs : Handled(c, j)' <=> j <= i
  <2>1. CASE i = Len(refs)
    BY <1>1, <1>4, <2>1 DEF Handled
  <2>2. CASE i # Len(refs)
    <3>1. plCalls'[c].i = i + 1 /\ plCalls'[c].at = "asking"
      BY <1>4, <2>2
    <3>2. \A j \in DOMAIN refs : Handled(c, j)' <=> j < i + 1
      BY <3>1 DEF Handled
    <3>3. QED
      BY <1>1, <3>2
  <2>3. QED
    BY <2>1, <2>2
<1>8. \A j : Taken(c, j)' <=> Handled(c, j)'
  BY <1>4 DEF Taken
<1>9. \A j \in DOMAIN refs : Taken(c, j) => Taken(c, j)'
  <2> SUFFICES ASSUME NEW j \in DOMAIN refs, Taken(c, j) PROVE j <= i
    BY <1>7, <1>8
  <2>1. j < i \/ j = i
    BY <1>0, <1>1, <1>6 DEF Taken
  <2>2. QED
    BY <1>1, <2>1
<1>10. RunsInv'
  <2> SUFFICES ASSUME NEW q \in PlPlugins, NEW d \in PlCalls, NEW j \in Nat,
                      RunsHandler(q, d, j)'
               PROVE  /\ plCalls'[d].at # "none" /\ j \in DOMAIN plCalls'[d].refs
                      /\ q = plCalls'[d].refs[j] /\ Taken(d, j)'
                      /\ plQueued'[q] = Own(d, j, plAsked'[d][j])
    BY DEF RunsInv, Own
  <2>1. RunsHandler(q, d, j)
    BY DEF RunsHandler
  <2>2. /\ plCalls[d].at # "none" /\ j \in DOMAIN plCalls[d].refs
        /\ q = plCalls[d].refs[j] /\ Taken(d, j)
        /\ plQueued[q] = Own(d, j, plAsked[d][j])
    BY <2>1, RunsHandlerOf
  <2>3. CASE d = c
    BY <1>0, <1>4, <1>9, <2>2, <2>3
  <2>4. CASE d # c
    <3>1. plCalls'[d] = plCalls[d]
      BY <1>2, <2>4
    <3>2. Taken(d, j)' <=> Taken(d, j)
      BY <3>1 DEF Taken, Handled
    <3>3. QED
      BY <2>2, <3>1, <3>2
  <2>5. QED
    BY <2>3, <2>4
<1>11. AnswersInv'
  <2> SUFFICES ASSUME NEW d \in PlCalls, plAnswer'[d].ready
               PROVE  /\ plCalls'[d].at = "waiting"
                      /\ plAnswer'[d].effects
                           = Own(d, plCalls'[d].i, plAsked'[d][plCalls'[d].i])
                      /\ \A q \in PlPlugins : plRuns'[q] # <<d, plCalls'[d].i>>
    BY DEF AnswersInv, Own, RunsHandler
  <2>1. d # c
    BY <1>3 DEF NoAnswer
  <2>2. QED
    BY <1>2, <1>3, <2>1 DEF PlInv, AnswersInv, RunsHandler
<1>12. ASSUME NEW d \in PlCalls \ {c} PROVE CallInv(d)'
  <2>1. \A q \in PlPlugins, j \in Nat : RunsHandler(q, d, j)' => RunsHandler(q, d, j)
    BY DEF RunsHandler
  <2>2. plCalls[d].refs \in Seq(PlPlugins) /\ CallInv(d)
    BY DEF PlTypes, CallType, PlInv
  <2>3. QED
    BY <1>2, <2>1, <2>2, CallFrame
<1>13. CallInv(c)'
  <2>1. \A k \in DOMAIN got : got[k] \in {c} \X (Nat \ {0}) \X Nat /\ got[k][2] < i
    <3>1. \A k \in DOMAIN got :
            got[k] \in {c} \X (Nat \ {0}) \X Nat /\ Handled(c, got[k][2])
      BY <1>0, <1>1 DEF CallInv
    <3>2. \A e \in {c} \X (Nat \ {0}) \X Nat : e[2] \in Nat
      OBVIOUS
    <3>3. QED
      BY <1>6, <3>1, <3>2
  <2>2. \A k, l \in DOMAIN got : k < l => QueuedBefore(got[k], got[l])
    BY <1>0, <1>1 DEF CallInv
  <2>3. effects = <<>> \/ effects = Own(c, i, n)
    BY <1>0
  <2>4. /\ OfCallUpTo(got \o effects, c, i) /\ InOrder(got \o effects)
        /\ \A j \in Nat \ {i} : OfHandler(got \o effects, j) = OfHandler(got, j)
        /\ OfHandler(got \o effects, i) = Range(effects)
    <3>1. OfCallUpTo(got, c, i - 1)
      BY <1>1, <2>1 DEF OfCallUpTo
    <3>2. InOrder(got)
      BY <2>2 DEF InOrder
    <3>3. i \in Nat \ {0} /\ got \in Seq(Effects) /\ n \in Nat
      BY <1>1, <1>5
    <3>4. QED
      BY <2>3, <3>1, <3>2, <3>3, GotMore
  <2>5. \A j \in Nat \ {i} : EffectsOf(c, j)' = EffectsOf(c, j)
    BY <1>0, <1>4, <2>4 DEF EffectsOf
  <2>6. EffectsOf(c, i)' = Range(effects)
    BY <1>4, <2>4 DEF EffectsOf
  <2>7. Settled(c, i)'
    <3>1. CASE effects = <<>> /\ Asked(c) \in plDone
      <4>1. Range(effects) = {}
        BY <3>1 DEF Range
      <4>2. plCalls'[c].refs[i] \in plDone'
        BY <1>0, <1>4, <3>1 DEF Asked
      <4>3. QED
        BY <2>6, <4>1, <4>2 DEF Settled
    <3>2. CASE effects = Own(c, i, n) /\ \A p \in PlPlugins : ~RunsHandler(p, c, i)
      <4>1. EffectsOf(c, i)' = {<<c, i, m>> : m \in 1..plAsked'[c][i]}
        BY <1>0, <1>5, <2>6, <3>2, OwnRange
      <4>2. \A p \in PlPlugins : ~RunsHandler(p, c, i)'
        BY <3>2 DEF RunsHandler
      <4>3. QED
        BY <4>1, <4>2 DEF Settled
    <3>3. QED
      BY <1>0, <3>1, <3>2
  <2>8. ASSUME NEW j \in DOMAIN refs, Handled(c, j)' PROVE Settled(c, j)'
    <3>1. CASE j = i
      BY <2>7, <3>1
    <3>2. CASE j # i
      <4>1. j < i /\ j \in Nat \ {i}
        BY <1>1, <1>7, <2>8, <3>2
      <4>2. Settled(c, j)
        BY <1>0, <1>1, <1>6, <4>1 DEF CallInv
      <4>3. EffectsOf(c, j)' = EffectsOf(c, j)
        BY <2>5, <4>1
      <4>4. QED
        BY <1>0, <1>4, <4>2, <4>3 DEF Settled, RunsHandler
    <3>3. QED
      BY <3>1, <3>2
  <2>9. \A k \in DOMAIN (got \o effects) : Handled(c, (got \o effects)[k][2])'
    <3> SUFFICES ASSUME NEW m \in Nat \ {0}, m <= i PROVE Handled(c, m)'
      BY <2>4 DEF OfCallUpTo
    <3>1. m \in DOMAIN refs
      BY <1>1
    <3>2. QED
      BY <1>7, <3>1
  <2>10. DOMAIN plAsked[c] = DOMAIN refs
    BY <1>0, <1>1 DEF CallInv
  <2>11. \A j \in DOMAIN refs : ~Taken(c, j)' => plAsked[c][j] = 0
    BY <1>0, <1>1, <1>9 DEF CallInv
  <2>12. plCalls'[c].at # "returned" => plCalls'[c].i \in DOMAIN refs
    BY <1>1, <1>4
  <2>13. QED
    BY <1>4, <2>4, <2>8, <2>9, <2>10, <2>11, <2>12 DEF CallInv, OfCallUpTo, InOrder
<1>14. QED
  BY <1>10, <1>11, <1>12, <1>13 DEF PlInv

LEMMA QueueEffectKeeps ==
  ASSUME PlTypes, PlInv, NEW p \in PlPlugins, QueueEffect(p)
  PROVE  PlInv'
<1>1. PICK c \in PlCalls, i \in Nat \ {0} : plRuns[p] = <<c, i>>
  BY RunnerIs DEF QueueEffect
<1>2. PICK m : m = plAsked[c][i]
  OBVIOUS
<1>3. /\ plCalls[c].at # "none" /\ i \in DOMAIN plCalls[c].refs
      /\ p = plCalls[c].refs[i] /\ Taken(c, i) /\ plQueued[p] = Own(c, i, m)
  BY <1>1, <1>2, RunsHandlerOf DEF RunsHandler
<1>4. CallInv(c) /\ i \in DOMAIN plAsked[c]
  BY <1>3 DEF PlInv, CallInv
<1>5. m \in Nat
  BY <1>2, <1>4, PluginHostAssumption DEF PlTypes
<1>6. /\ plQueued' = [plQueued EXCEPT ![p] = Append(@, <<c, i, m + 1>>)]
      /\ plAsked' = [plAsked EXCEPT ![c][i] = m + 1]
      /\ UNCHANGED <<plScripts, plRuns, plEnded, plDone, plCalls, plAnswer, plPending>>
  BY <1>1, <1>2 DEF QueueEffect
<1>7. /\ plQueued'[p] = Append(plQueued[p], <<c, i, m + 1>>)
      /\ \A q \in PlPlugins \ {p} : plQueued'[q] = plQueued[q]
  BY <1>6 DEF PlTypes
<1>8. /\ plAsked'[c][i] = m + 1 /\ DOMAIN plAsked'[c] = DOMAIN plAsked[c]
      /\ \A j \in DOMAIN plAsked[c] \ {i} : plAsked'[c][j] = plAsked[c][j]
      /\ \A d \in PlCalls \ {c} : plAsked'[d] = plAsked[d]
  <2>1. plAsked' = [plAsked EXCEPT ![c] = [plAsked[c] EXCEPT ![i] = m + 1]]
    BY <1>6 DEF PlTypes
  <2>2. /\ plAsked'[c] = [plAsked[c] EXCEPT ![i] = m + 1]
        /\ \A d \in PlCalls \ {c} : plAsked'[d] = plAsked[d]
    BY <2>1 DEF PlTypes
  <2>3. plAsked[c] \in Seq(0..MaxPlEffects)
    BY DEF PlTypes
  <2>4. QED
    BY <1>4, <2>2, <2>3
<1>9. plQueued'[p] = Own(c, i, m + 1)
  <2>1. Append(Own(c, i, m), <<c, i, m + 1>>) = Own(c, i, m + 1)
    BY <1>5 DEF Own
  <2>2. QED
    BY <1>3, <1>7, <2>1
<1>10. \A d \in PlCalls : \A j : /\ Handled(d, j)' <=> Handled(d, j)
                                 /\ Taken(d, j)' <=> Taken(d, j)
  BY <1>6 DEF Handled, Taken
<1>11. RunsInv'
  <2> SUFFICES ASSUME NEW q \in PlPlugins, NEW d \in PlCalls, NEW j \in Nat,
                      RunsHandler(q, d, j)'
               PROVE  /\ plCalls'[d].at # "none" /\ j \in DOMAIN plCalls'[d].refs
                      /\ q = plCalls'[d].refs[j] /\ Taken(d, j)'
                      /\ plQueued'[q] = Own(d, j, plAsked'[d][j])
    BY DEF RunsInv, Own
  <2>1. RunsHandler(q, d, j)
    BY <1>6 DEF RunsHandler
  <2>2. /\ plCalls[d].at # "none" /\ j \in DOMAIN plCalls[d].refs
        /\ q = plCalls[d].refs[j] /\ Taken(d, j)
        /\ plQueued[q] = Own(d, j, plAsked[d][j])
    BY <2>1, RunsHandlerOf
  <2>3. plQueued'[q] = Own(d, j, plAsked'[d][j])
    <3>1. CASE q = p
      <4>1. d = c /\ j = i
        BY <1>1, <2>1, <3>1 DEF RunsHandler
      <4>2. QED
        BY <1>8, <1>9, <3>1, <4>1
    <3>2. CASE q # p
      <4>1. ~(d = c /\ j = i)
        BY <1>3, <2>2, <3>2
      <4>2. plAsked'[d][j] = plAsked[d][j]
        <5>1. CASE d # c
          BY <1>8, <5>1
        <5>2. CASE d = c
          <6>1. j \in DOMAIN plAsked[c] \ {i}
            BY <1>4, <2>2, <4>1, <5>2 DEF CallInv
          <6>2. QED
            BY <1>8, <5>2, <6>1
        <5>3. QED
          BY <5>1, <5>2
      <4>3. QED
        BY <1>7, <2>2, <3>2, <4>2
    <3>3. QED
      BY <3>1, <3>2
  <2>4. QED
    BY <1>6, <1>10, <2>2, <2>3
<1>12. AnswersInv'
  <2> SUFFICES ASSUME NEW d \in PlCalls, plAnswer'[d].ready
               PROVE  /\ plCalls'[d].at = "waiting"
                      /\ plAnswer'[d].effects
                           = Own(d, plCalls'[d].i, plAsked'[d][plCalls'[d].i])
                      /\ \A q \in PlPlugins : plRuns'[q] # <<d, plCalls'[d].i>>
    BY DEF AnswersInv, Own, RunsHandler
  <2>1. /\ plCalls[d].at = "waiting"
        /\ plAnswer[d].effects = Own(d, plCalls[d].i, plAsked[d][plCalls[d].i])
        /\ \A q \in PlPlugins : plRuns[q] # <<d, plCalls[d].i>>
    BY <1>6 DEF PlInv, AnswersInv, RunsHandler
  <2>2. ~(d = c /\ plCalls[d].i = i)
    BY <1>1, <2>1
  <2>3. plCalls[d].i \in DOMAIN plAsked[d]
    BY <2>1 DEF PlInv, CallInv
  <2>4. plAsked'[d][plCalls[d].i] = plAsked[d][plCalls[d].i]
    BY <1>8, <2>2, <2>3
  <2>5. QED
    BY <1>6, <2>1, <2>4
<1>13. ASSUME NEW d \in PlCalls \ {c} PROVE CallInv(d)'
  <2>1. \A q \in PlPlugins, j \in Nat : RunsHandler(q, d, j)' => RunsHandler(q, d, j)
    BY <1>6 DEF RunsHandler
  <2>2. plCalls[d].refs \in Seq(PlPlugins) /\ CallInv(d)
    BY DEF PlTypes, CallType, PlInv
  <2>3. plDone \subseteq plDone' /\ plAsked'[d] = plAsked[d] /\ plCalls'[d] = plCalls[d]
    BY <1>6, <1>8
  <2>4. QED
    BY <2>1, <2>2, <2>3, CallFrame
<1>14. CallInv(c)'
  <2>1. \A j : EffectsOf(c, j)' = EffectsOf(c, j)
    BY <1>6 DEF EffectsOf
  <2>2. ASSUME NEW j \in DOMAIN plCalls[c].refs, Handled(c, j), Settled(c, j)
        PROVE  Settled(c, j)'
    <3>1. CASE j = i
      <4>1. plCalls[c].refs[j] \in plDone /\ EffectsOf(c, j) = {}
        BY <1>1, <2>2, <3>1 DEF Settled, RunsHandler
      <4>2. QED
        BY <1>6, <2>1, <4>1 DEF Settled
    <3>2. CASE j # i
      <4>1. plAsked'[c][j] = plAsked[c][j]
        BY <1>3, <1>4, <1>8, <3>2 DEF CallInv
      <4>2. QED
        BY <1>6, <2>1, <2>2, <4>1 DEF Settled, RunsHandler
    <3>3. QED
      BY <3>1, <3>2
  <2>3. \A j \in DOMAIN plCalls[c].refs : ~Taken(c, j)' => plAsked'[c][j] = 0
    <3> SUFFICES ASSUME NEW j \in DOMAIN plCalls[c].refs, ~Taken(c, j)'
                 PROVE  plAsked'[c][j] = 0
      OBVIOUS
    <3>1. ~Taken(c, j) /\ j # i
      BY <1>3, <1>10
    <3>2. plAsked[c][j] = 0 /\ j \in DOMAIN plAsked[c]
      BY <1>3, <1>4, <3>1 DEF CallInv
    <3>3. QED
      BY <1>8, <3>1, <3>2
  <2>4. \A j \in DOMAIN plCalls[c].refs : Handled(c, j)' => Settled(c, j)'
    <3>1. \A j \in DOMAIN plCalls[c].refs : Handled(c, j) => Settled(c, j)
      BY <1>3, <1>4 DEF CallInv
    <3>2. TAKE j \in DOMAIN plCalls[c].refs
    <3>3. HAVE Handled(c, j)'
    <3>4. Handled(c, j)
      BY <1>6, <3>3 DEF Handled
    <3>5. Settled(c, j)
      BY <3>1, <3>4
    <3>6. QED
      BY <2>2, <3>4, <3>5
  <2>5. \A k \in DOMAIN plCalls[c].got : Handled(c, plCalls[c].got[k][2])'
    <3>1. \A k \in DOMAIN plCalls[c].got : Handled(c, plCalls[c].got[k][2])
      BY <1>3, <1>4 DEF CallInv
    <3>2. QED
      BY <1>6, <3>1 DEF Handled
  <2>6. DOMAIN plAsked'[c] = DOMAIN plCalls[c].refs /\ plCalls' = plCalls
    BY <1>3, <1>4, <1>6, <1>8 DEF CallInv
  <2>7. QED
    BY <1>3, <1>4, <2>3, <2>4, <2>5, <2>6 DEF CallInv
<1>15. QED
  BY <1>11, <1>12, <1>13, <1>14 DEF PlInv

LEMMA HandlerEndsKeeps ==
  ASSUME PlTypes, PlInv, NEW p \in PlPlugins, HandlerEnds(p)
  PROVE  PlInv'
<1>1. PICK c \in PlCalls, i \in Nat \ {0} : plRuns[p] = <<c, i>>
  BY RunnerIs DEF HandlerEnds
<1>2. /\ plCalls[c].at # "none" /\ i \in DOMAIN plCalls[c].refs
      /\ p = plCalls[c].refs[i] /\ plQueued[p] = Own(c, i, plAsked[c][i])
  BY <1>1, RunsHandlerOf DEF RunsHandler
<1>3. UNCHANGED <<plScripts, plEnded, plDone, plCalls, plPending, plAsked>>
  BY DEF HandlerEnds
<1>4. /\ plRuns'[p] = PlIdle
      /\ \A q \in PlPlugins \ {p} : plRuns'[q] = plRuns[q] /\ plQueued'[q] = plQueued[q]
  BY DEF HandlerEnds, PlTypes
<1>5. plAnswer' = IF plCalls[c].at = "waiting" /\ plCalls[c].i = i
                  THEN [plAnswer EXCEPT ![c] = [ready |-> TRUE, effects |-> plQueued[p]]]
                  ELSE plAnswer
  BY <1>1 DEF HandlerEnds
<1>6. \A d \in PlCalls, j \in Nat : plRuns'[p] # <<d, j>>
  BY <1>4 DEF PlIdle, PlCalls
<1>7. \A q \in PlPlugins, d \in PlCalls, j \in Nat :
        RunsHandler(q, d, j)' => q # p /\ RunsHandler(q, d, j)
  BY <1>4, <1>6 DEF RunsHandler
<1>8. RunsInv'
  <2> SUFFICES ASSUME NEW q \in PlPlugins, NEW d \in PlCalls, NEW j \in Nat,
                      RunsHandler(q, d, j)'
               PROVE  /\ plCalls'[d].at # "none" /\ j \in DOMAIN plCalls'[d].refs
                      /\ q = plCalls'[d].refs[j] /\ Taken(d, j)'
                      /\ plQueued'[q] = Own(d, j, plAsked'[d][j])
    BY DEF RunsInv, Own
  <2>1. q # p /\ RunsHandler(q, d, j)
    BY <1>7
  <2>2. Taken(d, j)' <=> Taken(d, j)
    BY <1>3 DEF Taken, Handled
  <2>3. QED
    BY <1>3, <1>4, <2>1, <2>2, RunsHandlerOf
<1>9. AnswersInv'
  <2> SUFFICES ASSUME NEW d \in PlCalls, plAnswer'[d].ready
               PROVE  /\ plCalls'[d].at = "waiting"
                      /\ plAnswer'[d].effects
                           = Own(d, plCalls'[d].i, plAsked'[d][plCalls'[d].i])
                      /\ \A q \in PlPlugins : plRuns'[q] # <<d, plCalls'[d].i>>
    BY DEF AnswersInv, Own, RunsHandler
  <2>1. CASE plAnswer'[d] = plAnswer[d]
    <3>1. /\ plCalls[d].at = "waiting" /\ plCalls[d].i \in Nat
          /\ plAnswer[d].effects = Own(d, plCalls[d].i, plAsked[d][plCalls[d].i])
          /\ \A q \in PlPlugins : ~RunsHandler(q, d, plCalls[d].i)
      BY <2>1 DEF PlInv, AnswersInv, PlTypes, CallType
    <3>2. \A q \in PlPlugins : plRuns'[q] # <<d, plCalls[d].i>>
      BY <1>4, <1>6, <3>1 DEF RunsHandler
    <3>3. QED
      BY <1>3, <2>1, <3>1, <3>2
  <2>2. CASE plAnswer'[d] # plAnswer[d]
    <3>1. /\ d = c /\ plCalls[c].at = "waiting" /\ plCalls[c].i = i
          /\ plAnswer'[c] = [ready |-> TRUE, effects |-> plQueued[p]]
      BY <1>5, <2>2 DEF PlTypes
    <3>2. ASSUME NEW q \in PlPlugins PROVE plRuns'[q] # <<c, i>>
      <4>1. CASE q = p
        BY <1>6, <4>1
      <4>2. CASE q # p
        <5>1. plRuns[q] # <<c, i>>
          <6>1. RunsHandler(q, c, i) => q = plCalls[c].refs[i]
            BY RunsHandlerOf
          <6>2. QED
            BY <1>2, <4>2, <6>1 DEF RunsHandler
        <5>2. QED
          BY <1>4, <4>2, <5>1
      <4>3. QED
        BY <4>1, <4>2
    <3>3. QED
      BY <1>2, <1>3, <3>1, <3>2
  <2>3. QED
    BY <2>1, <2>2
<1>10. ASSUME NEW d \in PlCalls PROVE CallInv(d)'
  <2>1. plCalls[d].refs \in Seq(PlPlugins) /\ CallInv(d)
    BY DEF PlTypes, CallType, PlInv
  <2>2. QED
    BY <1>3, <1>7, <2>1, CallFrame
<1>11. QED
  BY <1>8, <1>9, <1>10 DEF PlInv

\* The other steps change none of what PlInv reads but plDone, which grows.
LEMMA OthersKeep ==
  ASSUME PlTypes, PlInv, plDone \subseteq plDone',
         UNCHANGED <<plRuns, plQueued, plCalls, plAnswer, plAsked>>
  PROVE  PlInv'
<1>1. RunsInv'
  <2>1. RunsInv
    BY DEF PlInv
  <2>2. QED
    BY <2>1 DEF RunsInv, RunsHandler, Taken, Handled, Own
<1>2. AnswersInv'
  <2>1. AnswersInv
    BY DEF PlInv
  <2>2. QED
    BY <2>1 DEF AnswersInv, RunsHandler, Own
<1>3. ASSUME NEW d \in PlCalls PROVE CallInv(d)'
  <2>1. plCalls[d].refs \in Seq(PlPlugins) /\ CallInv(d)
    BY DEF PlTypes, CallType, PlInv
  <2>2. \A q \in PlPlugins, j \in Nat : RunsHandler(q, d, j)' => RunsHandler(q, d, j)
    BY DEF RunsHandler
  <2>3. QED
    BY <2>1, <2>2, CallFrame
<1>4. QED
  BY <1>1, <1>2, <1>3 DEF PlInv

LEMMA PlInvStep == PlTypes /\ PlInv /\ [PlNext]_plVars => PlInv'
<1> SUFFICES ASSUME PlTypes, PlInv, [PlNext]_plVars PROVE PlInv'
  OBVIOUS
<1>1. ASSUME NEW c \in PlCalls, PluginClosed(c) PROVE PlInv'
  <2>1. <<>> \in Seq(Effects)
    OBVIOUS
  <2>2. QED
    BY <1>1, <2>1, GoOnKeeps DEF PluginClosed, MayGiveUp
<1>2. ASSUME NEW c \in PlCalls, Answered(c) PROVE PlInv'
  <2>1. plAnswer[c].effects \in Seq(Effects)
    BY DEF PlTypes, AnswerType
  <2>2. /\ plAnswer[c].effects = Own(c, plCalls[c].i, plAsked[c][plCalls[c].i])
        /\ \A p \in PlPlugins : ~RunsHandler(p, c, plCalls[c].i)
    BY <1>2 DEF Answered, PlInv, AnswersInv
  <2>3. QED
    BY <1>2, <2>1, <2>2, GoOnKeeps DEF Answered
<1>3. ASSUME NEW p \in PlPlugins, LoopEnds(p) \/ ClosePlugin(p) PROVE PlInv'
  BY <1>3, OthersKeep DEF LoopEnds, ClosePlugin, plLoops
<1>4. ASSUME NEW e \in plPending, ApplyEffect(e) PROVE PlInv'
  BY <1>4, OthersKeep DEF ApplyEffect, plLoops
<1>5. CASE UNCHANGED plVars
  BY <1>5, OthersKeep DEF plVars, plLoops
<1>6. QED
  BY <1>1, <1>2, <1>3, <1>4, <1>5, StartCallKeeps, AskKeeps, QueueEffectKeeps,
     HandlerEndsKeeps DEF PlNext

LEMMA PlStarts == PlInit \/ PlAbsent => PlTypes /\ PlInv
<1> SUFFICES ASSUME PlInit \/ PlAbsent PROVE PlTypes /\ PlInv
  OBVIOUS
<1>1. plScripts \in PlScripts
  BY PluginHostAssumption DEF PlInit, PlAbsent
<1>2. DOMAIN plScripts \subseteq PlPlugins
  <2>1. PICK loaded \in SUBSET PlPlugins : plScripts \in [loaded -> Registered]
    BY <1>1, PluginHostAssumption
  <2>2. QED
    BY <2>1
<1>3. /\ plRuns = [p \in PlPlugins |-> PlIdle]
      /\ plAnswer = [c \in PlCalls |-> NoAnswer]
      /\ plAsked = [c \in PlCalls |-> <<>>]
      /\ plPending = {}
      /\ plDone \subseteq PlPlugins /\ plEnded \subseteq PlPlugins
  BY <1>2 DEF PlInit, PlAbsent
<1>4. \E at \in {"none", "returned"} :
        plCalls = [c \in PlCalls |-> [at |-> at, refs |-> <<>>, i |-> 0, got |-> <<>>]]
  BY DEF PlInit, PlAbsent
<1>5. PICK at \in {"none", "returned"} :
        plCalls = [c \in PlCalls |-> [at |-> at, refs |-> <<>>, i |-> 0, got |-> <<>>]]
  BY <1>4
<1>6. plQueued \in [PlPlugins -> Seq(Effects)]
  <2>1. <<>> \in Seq(Effects)
    OBVIOUS
  <2>2. <<<<0, 0, 1>>>> \in Seq(Effects)
    <3>1. <<0, 0, 1>> \in Effects
      BY DEF Effects
    <3>2. QED
      BY <3>1
  <2>3. CASE PlInit
    BY <2>1, <2>2, <2>3 DEF PlInit
  <2>4. CASE PlAbsent
    BY <2>1, <2>4 DEF PlAbsent
  <2>5. QED
    BY <2>3, <2>4
<1>7. PlTypes
  <2>1. plCalls \in [PlCalls -> CallType]
    <3>1. [at |-> at, refs |-> <<>>, i |-> 0, got |-> <<>>] \in CallType
      BY DEF CallType
    <3>2. QED
      BY <1>5, <3>1
  <2>2. plAnswer \in [PlCalls -> AnswerType]
    <3>1. NoAnswer \in AnswerType
      BY DEF NoAnswer, AnswerType
    <3>2. QED
      BY <1>3, <3>1
  <2>3. plAsked \in [PlCalls -> Seq(0..MaxPlEffects)]
    BY <1>3
  <2>4. plRuns \in [PlPlugins -> {PlIdle} \cup PlCalls \X (Nat \ {0})]
    BY <1>3
  <2>5. QED
    BY <1>1, <1>3, <1>6, <2>1, <2>2, <2>3, <2>4 DEF PlTypes
<1>8. RunsInv
  BY <1>3 DEF RunsInv, RunsHandler, PlIdle, PlCalls
<1>9. AnswersInv
  BY <1>3 DEF AnswersInv, NoAnswer
<1>10. ASSUME NEW c \in PlCalls PROVE CallInv(c)
  <2>1. /\ plCalls[c].at \in {"none", "returned"} /\ plCalls[c].refs = <<>>
        /\ plCalls[c].got = <<>> /\ plAsked[c] = <<>>
    BY <1>3, <1>5
  <2>2. QED
    BY <2>1 DEF CallInv
<1>11. QED
  BY <1>7, <1>8, <1>9, <1>10 DEF PlInv

\* What a call that is over has, is what its own handlers queued, in order and
\* complete but for plugins that were closed: with any number of calls on any
\* plugins, that give up, come late or share an interpreter, no effect is another
\* call's (invoke clears p.effects, run and loop in internal/plugin/plugin.go).
THEOREM EffectsAreTheCalls == PlSpec => []EffectsOfTheCall
<1>1. PlTypes /\ PlInv => EffectsOfTheCall
  <2> SUFFICES ASSUME PlTypes, PlInv, NEW c \in PlCalls, plCalls[c].at = "returned"
               PROVE  /\ \A k \in DOMAIN plCalls[c].got : plCalls[c].got[k][1] = c
                      /\ InOrder(plCalls[c].got)
                      /\ \A i \in DOMAIN plCalls[c].refs :
                           \/ EffectsOf(c, i) = {<<c, i, n>> : n \in 1..plAsked[c][i]}
                           \/ plCalls[c].refs[i] \in plDone /\ EffectsOf(c, i) = {}
    BY DEF EffectsOfTheCall, InOrder, EffectsOf, OfHandler
  <2>1. CallInv(c) /\ plCalls[c].at # "none"
    BY DEF PlInv
  <2>2. \A k \in DOMAIN plCalls[c].got : plCalls[c].got[k][1] = c
    BY <2>1 DEF CallInv
  <2>3. InOrder(plCalls[c].got)
    BY <2>1 DEF CallInv, InOrder
  <2>4. \A i \in DOMAIN plCalls[c].refs : Settled(c, i)
    BY <2>1 DEF CallInv, Handled
  <2>5. QED
    BY <2>2, <2>3, <2>4 DEF Settled
<1>2. PlTypes /\ PlInv /\ [PlNext]_plVars => (PlTypes /\ PlInv)'
  BY PlTypesStep, PlInvStep
<1>3. PlInit => PlTypes /\ PlInv
  BY PlStarts
<1>4. QED
  BY <1>1, <1>2, <1>3, PTL DEF PlSpec

-----------------------------------------------------------------------------
(* The networks side by side.                                              *)

IrcTypes == FlowTypes /\ TableTypes /\ FlagTypes
NetTypes ==
  /\ IrcTypes
  /\ MxInv /\ MxFlags
  /\ DemoInv /\ DemoFlags
  /\ PlTypes /\ PlInv
  /\ MhTypes /\ MhFlagTypes

LEMMA IrcStarts == IrcInit \/ IrcAbsent => IrcTypes
<1> SUFFICES ASSUME IrcAbsent PROVE IrcTypes
  BY InitTypes DEF IrcTypes
<1>1. FlowTypes
  BY IrcAssumption DEF IrcAbsent, FlowTypes, IrcDoublings, IrcIdle, IrcEvent
<1>2. TableTypes
  BY DEF IrcAbsent, TableTypes, NoMembers
<1>3. FlagTypes
  BY Zenon DEF IrcAbsent, FlagTypes
<1>4. QED
  BY <1>1, <1>2, <1>3 DEF IrcTypes

LEMMA MhStarts == MhInit \/ MhAbsent => MhTypes /\ MhFlagTypes
<1> SUFFICES ASSUME MhInit \/ MhAbsent PROVE MhTypes /\ MhFlagTypes
  OBVIOUS
<1>1. mhRoom \in Seq(RoomKinds \cup {"text"}) /\ Len(mhRoom) \in 1..MaxEvents
  <2>1. CASE MhInit
    <3>1. PICK n \in 1..MaxEvents : mhRoom \in [1..n -> RoomKinds]
      BY <2>1 DEF MhInit
    <3>2. mhRoom \in Seq(RoomKinds \cup {"text"}) /\ Len(mhRoom) = n
      BY <3>1, MatrixHistoryAssumption
    <3>3. QED
      BY <3>1, <3>2
  <2>2. CASE MhAbsent
    BY <2>2, MatrixHistoryAssumption DEF MhAbsent
  <2>3. QED
    BY <2>1, <2>2
<1>2. MhTypes
  BY <1>1, MatrixHistoryAssumption DEF MhInit, MhAbsent, MhTypes
<1>3. MhFlagTypes
  BY Zenon DEF MhInit, MhAbsent, MhFlagTypes
<1>4. QED
  BY <1>2, <1>3

LEMMA NetStarts ==
  NetInit => NetTypes /\ Matrix!StreamInit /\ Demo!StreamInit
  BY IrcStarts, MxStarts, DemoStarts, PlStarts, MhStarts DEF NetInit, NetTypes

\* A step of one of them is a step of each component, or leaves it alone.
LEMMA NetSplit ==
  [NetNext]_<<ircVars, mxVars, demoVars, plVars, mhVars>> =>
    [IrcNext]_ircVars /\ [MxNext]_mxVars /\ [DemoNext]_demoVars /\ [PlNext]_plVars
      /\ [MhNext]_mhVars
<1> SUFFICES ASSUME [NetNext]_<<ircVars, mxVars, demoVars, plVars, mhVars>>
             PROVE  /\ IrcNext \/ UNCHANGED ircVars
                    /\ MxNext \/ UNCHANGED mxVars
                    /\ DemoNext \/ UNCHANGED demoVars
                    /\ PlNext \/ UNCHANGED plVars
                    /\ MhNext \/ UNCHANGED mhVars
  OBVIOUS
<1>1. CASE NetNext
  BY <1>1 DEF NetNext
<1>2. CASE UNCHANGED <<ircVars, mxVars, demoVars, plVars, mhVars>>
  BY <1>2
<1>3. QED
  BY <1>1, <1>2

LEMMA NetStep ==
  NetTypes /\ [NetNext]_<<ircVars, mxVars, demoVars, plVars, mhVars>> => NetTypes'
<1> SUFFICES ASSUME NetTypes, [NetNext]_<<ircVars, mxVars, demoVars, plVars, mhVars>>
             PROVE  NetTypes'
  OBVIOUS
<1>1. IrcTypes'
  BY NetSplit, FlowTypesStep, TableTypesStep, FlagTypesStep DEF NetTypes, IrcTypes
<1>2. MxInv' /\ MxFlags' /\ DemoInv' /\ DemoFlags'
  BY NetSplit, MxInvStep, MxFlagsStep, DemoInvStep, DemoFlagsStep DEF NetTypes
<1>3. PlTypes' /\ PlInv' /\ MhTypes' /\ MhFlagTypes'
  BY NetSplit, PlTypesStep, PlInvStep, MhTypesStep, MhFlagTypesStep DEF NetTypes
<1>4. QED
  BY <1>1, <1>2, <1>3 DEF NetTypes

LEMMA NetInvariance == NetSpec => []NetTypes
  BY NetStarts, NetStep, PTL DEF NetSpec

\* Every state of the networks is well typed, whichever of them is configured,
\* and their event channels never hold more than they have room for
\* (the adapters' structs and the plugin host's).
THEOREM NetTypeCorrect == NetSpec => []NetTypeOK
<1>1. NetTypes => NetTypeOK
  <2> SUFFICES ASSUME NetTypes PROVE NetTypeOK
    OBVIOUS
  <2>1. IrcTypeOK
    BY TypesSplit DEF NetTypes, IrcTypes
  <2>2. MxTypeOK
    <3>1. {mxOpen, mxCancelled} \subseteq BOOLEAN
      BY Zenon DEF NetTypes, MxFlags
    <3>2. QED
      BY <3>1 DEF NetTypes, MxInv, MxTypeOK
  <2>3. DemoTypeOK
    <3>1. {demoRuns, demoCancelled} \subseteq BOOLEAN
      BY Zenon DEF NetTypes, DemoFlags
    <3>2. QED
      BY <3>1, DemoScript DEF NetTypes, DemoInv, DemoTypeOK
  <2>4. PlTypeOK
    <3>1. \A c \in PlCalls :
            /\ plCalls[c] \in CallType /\ plAnswer[c] \in AnswerType
            /\ plAsked[c] \in Seq(0..MaxPlEffects)
      BY DEF NetTypes, PlTypes
    <3>2. QED
      BY <3>1 DEF NetTypes, PlTypes, PlTypeOK, CallType, AnswerType
  <2>5. MhTypeOK
    <3>1. {mhShown, mhLoading, mhAllLoaded, mhLoaded} \subseteq BOOLEAN
      BY Zenon DEF NetTypes, MhFlagTypes
    <3>2. Len(mhRoom) <= MaxEvents
      BY MatrixHistoryAssumption DEF NetTypes, MhTypes
    <3>3. QED
      BY <3>1, <3>2 DEF NetTypes, MhTypes, MhTypeOK
  <2>6. QED
    BY <2>1, <2>2, <2>3, <2>4, <2>5 DEF NetTypeOK
<1>2. QED
  BY <1>1, NetInvariance, PTL

\* The Matrix adapter and the demo network implement the stream of events the TUI
\* listens to, for every buffer and script: nothing is lost or overtaken, and the
\* channel is closed once, after Disconnect (syncLoop and emit of
\* network/matrix/adapter.go, run and emit of network/demo).
THEOREM OthersStream == NetSpec => OthersAreStreams
<1>1. NetTypes /\ [NetNext]_<<ircVars, mxVars, demoVars, plVars, mhVars>>
        => /\ [Matrix!StreamNext]_(Matrix!streamVars)
           /\ [Demo!StreamNext]_(Demo!streamVars)
  BY NetSplit, MxStreamSteps, DemoStreamSteps DEF NetTypes
<1>2. NetSpec => MatrixIsStream
  BY <1>1, NetStarts, NetInvariance, PTL
  DEF NetSpec, MatrixIsStream, Matrix!StreamSpec
<1>3. NetSpec => DemoIsStream
  BY <1>1, NetStarts, NetInvariance, PTL DEF NetSpec, DemoIsStream, Demo!StreamSpec
<1>4. QED
  BY <1>2, <1>3 DEF OthersAreStreams
=============================================================================
