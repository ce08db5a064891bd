-------------------------- MODULE RelayStoreProofs --------------------------
(***************************************************************************)
(* Proofs about RelayStore, for every set of publishers, users and         *)
(* channels, every retention window, page size and bound.                  *)
(***************************************************************************)
EXTENDS RelayStore, FiniteSetTheorems, WellFoundedInduction, TLAPS

\* What the proofs need of TypeOK.
Typing ==
  /\ now \in 0..MaxTime
  /\ rows \subseteq Message
  /\ aired \subseteq Message
  /\ erased \subseteq Message
  /\ stage \in [Publishers -> {"idle", "stamped", "stored"}]
  /\ draft \in [Publishers -> Message \cup {NoDraft}]
  /\ \A p \in Publishers : stage[p] # "idle" => draft[p] \in Message

(* No timestamp is ahead of the clock, so the next one is new. *)
PastInv ==
  /\ \A m \in rows \cup erased : m.ts <= now
  /\ \A p \in Publishers : stage[p] # "idle" => draft[p].ts <= now

(* A message enters the table once: what a publisher is about to insert is *)
(* nobody else's and has never been there, so what was erased stays erased.*)
FreshInv ==
  /\ rows \cap erased = {}
  /\ \A p \in Publishers : stage[p] = "stamped" => draft[p] \notin rows \cup erased
  /\ \A p, q \in Publishers :
       p # q /\ stage[p] # "idle" /\ stage[q] # "idle" => draft[p] # draft[q]

\* A message that has been in the table is there, expired or erased.
Kept(m) == m \in rows \/ Expired(m) \/ m \in erased

(* A message is in the table before it is announced. *)
LandedInv == \A p \in Publishers : stage[p] = "stored" => Kept(draft[p])

(* What was dead when the request was made is erased or expired, and what  *)
(* of it a page still holds is expired, until the filter has run.          *)
RequestInv ==
  request # NoRequest =>
    /\ request = [at |-> request.at, kind |-> request.kind, cursor |-> request.cursor,
                  page |-> request.page, newer |-> request.newer, dead |-> request.dead]
    /\ request.at \in {"asked", "fetched", "served"}
    /\ request.dead \subseteq Message
    /\ \A m \in request.dead : Expired(m) \/ m \in erased
    /\ request.at = "fetched" => \A m \in request.page \cap request.dead : Expired(m)
    /\ request.at = "served" => request.page \cap request.dead = {}

IInv == Typing /\ PastInv /\ FreshInv /\ LandedInv /\ AnnouncedIsKept /\ RequestInv

-----------------------------------------------------------------------------

\* The fields and the timestamp of a message.
LEMMA MessageTime == \A m \in Message : m.ts \in Nat /\ m.ts >= 1
  BY StoreAssumption DEF Message

\* The clock never runs backwards.
LEMMA ClockMoves ==
  ASSUME now \in 0..MaxTime, [Next]_vars
  PROVE  now' \in 0..MaxTime /\ now' >= now
<1> USE StoreAssumption
<1>1. CASE Tick
  BY <1>1 DEF Tick
<1>2. CASE \E p \in Publishers : \E ch \in Channels, u \in Users : Stamp(p, ch, u)
  BY <1>2 DEF Stamp
<1>3. CASE UNCHANGED now
  BY <1>3
<1>4. QED
  BY <1>1, <1>2, <1>3
  DEF Next, vars, Insert, InsertFails, Announce, Prune, DeleteByUser, Ask, Query,
      ApplyRetention, Receive, RequestLost, Restart

\* Once past its window a message stays past it.
LEMMA ExpiryLasts ==
  ASSUME now \in 0..MaxTime, now' \in 0..MaxTime, now' >= now,
         NEW m \in Message, Expired(m)
  PROVE  Expired(m)'
<1>1. m.ts \in Nat /\ Retention \in Nat
  BY MessageTime, StoreAssumption
<1>2. m.ts + Retention < now /\ Retention > 0
  BY DEF Expired
<1>3. m.ts + Retention < now'
  BY <1>1, <1>2, StoreAssumption
<1>4. QED
  BY <1>2, <1>3 DEF Expired

\* The initial state satisfies the invariant.
LEMMA InitInv == Init => IInv
<1> SUFFICES ASSUME Init PROVE IInv
  OBVIOUS
<1> USE DEF Init
<1>1. Typing
  BY StoreAssumption DEF Typing
<1>2. PastInv
  BY DEF PastInv
<1>3. FreshInv /\ LandedInv
  BY DEF FreshInv, LandedInv
<1>4. AnnouncedIsKept /\ RequestInv
  BY DEF AnnouncedIsKept, RequestInv
<1>5. QED
  BY <1>1, <1>2, <1>3, <1>4 DEF IInv

\* Messages that do not leave the table, or leave it erased or expired, are
\* kept; this is all that the steps on the table have to show.
LEMMA StaysKept ==
  ASSUME now \in 0..MaxTime, now' \in 0..MaxTime, now' >= now,
         NEW m \in Message, Kept(m), erased \subseteq erased',
         m \in rows => m \in rows' \/ Expired(m)' \/ m \in erased'
  PROVE  Kept(m)'
  BY ExpiryLasts DEF Kept

\* What every step does to the table: rows go only by expiry or erasure, and
\* nothing is ever taken back from what was erased.
LEMMA TableMoves ==
  ASSUME IInv, [Next]_vars
  PROVE  /\ erased \subseteq erased'
         /\ \A m \in rows : m \in rows' \/ Expired(m)' \/ m \in erased'
<1>1. CASE Prune
  BY <1>1 DEF Prune, Expired
<1>2. CASE \E u \in Users : DeleteByUser(u)
  BY <1>2 DEF DeleteByUser
<1>3. CASE \E p \in Publishers : Insert(p)
  BY <1>3 DEF Insert
<1>4. CASE UNCHANGED <<rows, erased>>
  BY <1>4
<1>5. QED
  BY <1>1, <1>2, <1>3, <1>4
  DEF Next, vars, Stamp, InsertFails, Announce, Ask, Query, ApplyRetention,
      Receive, RequestLost, Tick, Restart

\* The tables keep their types.
LEMMA StepTyping == IInv /\ [Next]_vars => Typing'
<1> SUFFICES ASSUME IInv, [Next]_vars PROVE Typing'
  OBVIOUS
<1> USE StoreAssumption DEF Typing, IInv, publishing
<1>0. now' \in 0..MaxTime
  BY ClockMoves
<1>1. ASSUME NEW p \in Publishers, NEW ch \in Channels, NEW u \in Users, Stamp(p, ch, u)
      PROVE Typing'
  <2>1. draft'[p] \in Message /\ now + 1 \in 1..MaxTime
    BY <1>1 DEF Stamp, Message
  <2>2. QED
    BY <1>0, <1>1, <2>1 DEF Stamp
<1>2. ASSUME NEW p \in Publishers, Insert(p) PROVE Typing'
  BY <1>0, <1>2 DEF Insert
<1>3. ASSUME NEW p \in Publishers, InsertFails(p) PROVE Typing'
  BY <1>0, <1>3 DEF InsertFails
<1>4. ASSUME NEW p \in Publishers, Announce(p) PROVE Typing'
  BY <1>0, <1>4 DEF Announce
<1>5. CASE Prune
  BY <1>0, <1>5 DEF Prune
<1>6. ASSUME NEW u \in Users, DeleteByUser(u) PROVE Typing'
  BY <1>0, <1>6 DEF DeleteByUser
<1>7. CASE Restart
  BY <1>0, <1>7 DEF Restart
<1>8. CASE UNCHANGED <<rows, aired, erased, publishing>>
  BY <1>0, <1>8
<1>9. QED
  BY <1>1, <1>2, <1>3, <1>4, <1>5, <1>6, <1>7, <1>8
  DEF Next, vars, Ask, Query, ApplyRetention, Receive, RequestLost, Tick

\* No timestamp gets ahead of the clock.
LEMMA StepPast == IInv /\ [Next]_vars => PastInv'
<1> SUFFICES ASSUME IInv, [Next]_vars PROVE PastInv'
  OBVIOUS
<1> USE StoreAssumption DEF IInv, publishing
<1>0. /\ now \in Nat /\ now' \in Nat /\ now' >= now
      /\ \A m \in Message : m.ts <= now => m.ts <= now'
  BY ClockMoves, MessageTime DEF Typing
<1>1. \A m \in (rows \cup erased)' : m \in rows \cup erased \/ \E p \in Publishers :
          stage[p] = "stamped" /\ m = draft[p]
  <2>1. CASE \E p \in Publishers : Insert(p)
    BY <2>1 DEF Insert
  <2>2. CASE Prune \/ \E u \in Users : DeleteByUser(u)
    BY <2>2 DEF Prune, DeleteByUser
  <2>3. CASE UNCHANGED <<rows, erased>>
    BY <2>3
  <2>4. QED
    BY <2>1, <2>2, <2>3
    DEF Next, vars, Stamp, InsertFails, Announce, Ask, Query, ApplyRetention,
        Receive, RequestLost, Tick, Restart
<1>2. \A m \in (rows \cup erased)' : m.ts <= now'
  BY <1>0, <1>1 DEF Typing, PastInv
<1>3. ASSUME NEW q \in Publishers, stage'[q] # "idle" PROVE draft'[q].ts <= now'
  <2>1. CASE \E p \in Publishers : \E ch \in Channels, u \in Users : Stamp(p, ch, u)
    <3>1. PICK p \in Publishers, ch \in Channels, u \in Users : Stamp(p, ch, u)
      BY <2>1
    <3>2. CASE q = p
      BY <1>0, <3>1, <3>2 DEF Stamp, Typing
    <3>3. CASE q # p
      BY <1>0, <1>3, <3>1, <3>3 DEF Stamp, Typing, PastInv
    <3>4. QED
      BY <3>2, <3>3
  <2>2. CASE stage[q] # "idle" /\ draft'[q] = draft[q]
    BY <1>0, <2>2 DEF Typing, PastInv
  <2>3. QED
    BY <1>3, <2>1, <2>2
    DEF Typing, Next, vars, Insert, InsertFails, Announce, Prune, DeleteByUser, Ask,
        Query, ApplyRetention, Receive, RequestLost, Tick, Restart
<1>4. QED
  BY <1>2, <1>3 DEF PastInv

\* A message enters the table at most once.
LEMMA StepFresh == IInv /\ [Next]_vars => FreshInv'
<1> SUFFICES ASSUME IInv, [Next]_vars PROVE FreshInv'
  OBVIOUS
<1> USE StoreAssumption DEF IInv, publishing
<1>1. ASSUME NEW p \in Publishers, NEW ch \in Channels, NEW u \in Users, Stamp(p, ch, u)
      PROVE FreshInv'
  <2>1. draft'[p] = [channel |-> ch, user |-> u, ts |-> now + 1]
    BY <1>1 DEF Stamp, Typing
  <2>2. draft'[p].ts = now + 1 /\ now \in Nat
    BY <2>1 DEF Typing
  <2>3. \A m \in Message : m.ts <= now => m # draft'[p]
    BY <2>2, MessageTime
  <2>4. draft'[p] \notin rows \cup erased
    BY <2>3 DEF Typing, PastInv
  <2>5. \A q \in Publishers : q # p =>
          stage'[q] = stage[q] /\ draft'[q] = draft[q]
    BY <1>1 DEF Stamp, Typing
  <2>6. \A q \in Publishers : q # p /\ stage[q] # "idle" => draft[q] # draft'[p]
    BY <2>3 DEF Typing, PastInv
  <2>7. rows' = rows /\ erased' = erased
    BY <1>1 DEF Stamp
  <2>8. QED
    BY <2>4, <2>5, <2>6, <2>7 DEF FreshInv
<1>2. ASSUME NEW p \in Publishers, Insert(p) PROVE FreshInv'
  <2>1. \A q \in Publishers : q # p => stage'[q] = stage[q]
    BY <1>2 DEF Insert, Typing
  <2>2. stage[p] = "stamped" /\ stage'[p] = "stored" /\ draft' = draft
    BY <1>2 DEF Insert, Typing
  <2>3. rows' = rows \cup {draft[p]} /\ erased' = erased
    BY <1>2 DEF Insert
  <2>4. QED
    BY <2>1, <2>2, <2>3 DEF FreshInv
<1>3. ASSUME UNCHANGED <<rows, erased>>, NEW p \in Publishers,
             stage' = [stage EXCEPT ![p] = "idle"], draft' = [draft EXCEPT ![p] = NoDraft]
      PROVE FreshInv'
  BY <1>3 DEF FreshInv, Typing
<1>4. CASE Prune
  BY <1>4 DEF Prune, FreshInv
<1>5. ASSUME NEW u \in Users, DeleteByUser(u) PROVE FreshInv'
  BY <1>5 DEF DeleteByUser, FreshInv
<1>6. CASE Restart
  BY <1>6 DEF Restart, FreshInv
<1>7. CASE UNCHANGED <<rows, erased, publishing>>
  BY <1>7 DEF FreshInv
<1>8. QED
  BY <1>1, <1>2, <1>3, <1>4, <1>5, <1>6, <1>7
  DEF Next, vars, InsertFails, Announce, Ask, Query, ApplyRetention, Receive,
      RequestLost, Tick

\* What is kept stays kept, for any message.
LEMMA StepKept ==
  ASSUME IInv, [Next]_vars, NEW m \in Message, Kept(m)
  PROVE  Kept(m)'
<1>1. now \in 0..MaxTime /\ now' \in 0..MaxTime /\ now' >= now
  BY ClockMoves DEF IInv, Typing
<1>2. erased \subseteq erased' /\ (m \in rows => m \in rows' \/ Expired(m)' \/ m \in erased')
  BY TableMoves
<1>3. QED
  BY <1>1, <1>2, StaysKept

\* A message that is stored is kept when its turn comes to be announced.
LEMMA StepLanded == IInv /\ [Next]_vars => LandedInv'
<1> SUFFICES ASSUME IInv, [Next]_vars, NEW p \in Publishers, stage'[p] = "stored"
             PROVE  Kept(draft[p])' /\ draft'[p] = draft[p]
  BY DEF LandedInv, Kept, Expired
<1> USE DEF IInv, publishing
<1>1. CASE Insert(p)
  <2>1. draft[p] \in Message /\ draft' = draft /\ draft[p] \in rows'
    BY <1>1 DEF Insert, Typing
  <2>2. QED
    BY <2>1 DEF Kept
<1>2. CASE stage[p] = "stored" /\ draft'[p] = draft[p]
  <2>1. draft[p] \in Message /\ Kept(draft[p])
    BY <1>2 DEF LandedInv, Typing
  <2>2. QED
    BY <1>2, <2>1, StepKept DEF Kept, Expired
<1>3. QED
  BY <1>1, <1>2
  DEF Typing, Next, vars, Stamp, Insert, InsertFails, Announce, Prune, DeleteByUser,
      Ask, Query, ApplyRetention, Receive, RequestLost, Tick, Restart

\* What was announced is kept.
LEMMA StepAnnounced == IInv /\ [Next]_vars => AnnouncedIsKept'
<1> SUFFICES ASSUME IInv, [Next]_vars, NEW m \in aired' PROVE Kept(m)'
  BY DEF AnnouncedIsKept, Kept
<1>1. m \in aired \/ \E p \in Publishers : stage[p] = "stored" /\ m = draft[p]
  BY DEF Next, vars, publishing, Stamp, Insert, InsertFails, Announce, Prune,
         DeleteByUser, Ask, Query, ApplyRetention, Receive, RequestLost, Tick, Restart
<1>2. m \in Message /\ Kept(m)
  BY <1>1 DEF IInv, Typing, LandedInv, AnnouncedIsKept, Kept
<1>3. QED
  BY <1>2, StepKept

\* Expiry and erasure last, so a message that was dead stays dead.
LEMMA StepDead ==
  ASSUME IInv, [Next]_vars, NEW m \in Message
  PROVE  /\ Expired(m) => Expired(m)'
         /\ m \in erased => m \in erased'
<1>1. now \in 0..MaxTime /\ now' \in 0..MaxTime /\ now' >= now
  BY ClockMoves DEF IInv, Typing
<1>2. QED
  BY <1>1, ExpiryLasts, TableMoves

\* A page loses what was dead when it was asked for.
LEMMA StepRequest == IInv /\ [Next]_vars => RequestInv'
<1> SUFFICES ASSUME IInv, [Next]_vars PROVE RequestInv'
  OBVIOUS
<1> USE DEF IInv
<1>1. ASSUME NEW kind \in Kinds, Ask(kind) PROVE RequestInv'
  <2>1. request' = [at |-> "asked", kind |-> kind, cursor |-> Cursor(kind),
                    page |-> {}, newer |-> {},
                    dead |-> erased \cup {m \in rows : Expired(m)}]
    BY <1>1 DEF Ask
  <2>2. \A m \in request'.dead : m \in Message /\ (Expired(m) \/ m \in erased)
    BY <2>1 DEF Typing
  <2>3. \A m \in request'.dead : Expired(m)' \/ m \in erased'
    BY <2>2, StepDead
  <2>4. QED
    BY <2>1, <2>2, <2>3 DEF RequestInv
<1>2. CASE Query
  <2> DEFINE pg == IF request.kind = "since" THEN FetchSince(request.cursor)
                                             ELSE FetchBefore(request.cursor)
             nw == IF request.kind = "since" THEN NewerThan(request.cursor) ELSE {}
  <2>1. pg \subseteq rows
    BY DEF FetchSince, FetchBefore, OldestOf, NewestOf, NewerThan
  <2>2. request # NoRequest
        /\ request' = [request EXCEPT !.at = "fetched", !.page = pg, !.newer = nw]
    BY <1>2 DEF Query
  <2> HIDE DEF pg, nw
  <2>3. request' = [at |-> "fetched", kind |-> request.kind, cursor |-> request.cursor,
                    page |-> pg, newer |-> nw, dead |-> request.dead]
    BY <2>2 DEF RequestInv
  <2>4. \A m \in request.dead : m \in Message /\ (Expired(m) \/ m \in erased)
    BY <2>2 DEF RequestInv
  <2>5. \A m \in request.dead : Expired(m)' \/ m \in erased'
    BY <2>4, StepDead
  <2>6. \A m \in pg \cap request.dead : Expired(m)'
    BY <2>1, <2>4, StepDead DEF FreshInv
  <2>7. QED
    BY <2>3, <2>4, <2>5, <2>6 DEF RequestInv
<1>3. CASE ApplyRetention
  <2> DEFINE pg == WithinRetention(request.page)
  <2>1. /\ request # NoRequest /\ request.at = "fetched"
        /\ request' = [request EXCEPT !.at = "served", !.page = pg]
        /\ UNCHANGED <<now, erased>>
    BY <1>3 DEF ApplyRetention
  <2>2. pg \cap request.dead = {}
    BY <2>1 DEF WithinRetention, RequestInv
  <2> HIDE DEF pg
  <2>3. request' = [at |-> "served", kind |-> request.kind, cursor |-> request.cursor,
                    page |-> pg, newer |-> request.newer, dead |-> request.dead]
    BY <2>1 DEF RequestInv
  <2>4. \A m \in request.dead : m \in Message /\ (Expired(m)' \/ m \in erased')
    BY <2>1, StepDead DEF RequestInv
  <2>5. QED
    BY <2>2, <2>3, <2>4 DEF RequestInv
<1>4. CASE request' = NoRequest
  BY <1>4 DEF RequestInv
<1>5. CASE request' = request
  <2>1. SUFFICES ASSUME request # NoRequest PROVE RequestInv'
    BY <1>5 DEF RequestInv
  <2>2. \A m \in request.dead : m \in Message /\ (Expired(m)' \/ m \in erased')
    BY <2>1, StepDead DEF RequestInv
  <2>3. request.at = "fetched" => \A m \in request.page \cap request.dead : Expired(m)'
    BY <2>1, StepDead DEF RequestInv
  <2>4. QED
    BY <1>5, <2>1, <2>2, <2>3 DEF RequestInv
<1>6. QED
  BY <1>1, <1>2, <1>3, <1>4, <1>5
  DEF Next, vars, reader, Stamp, Insert, InsertFails, Announce, Prune, DeleteByUser,
      Receive, RequestLost, Tick, Restart

\* The inductive invariant.
THEOREM Invariance == Spec => []IInv
<1>1. IInv /\ [Next]_vars => IInv'
  BY StepTyping, StepPast, StepFresh, StepLanded, StepAnnounced, StepRequest DEF IInv
<1>2. QED
  BY InitInv, <1>1, PTL DEF Spec

\* Nothing that was broadcast and acknowledged is missing from the table unless
\* its window is over or its author had it deleted (backend.go:72-97, with the
\* pruner, the delete endpoints and any number of restarts).
THEOREM AnnouncedKept == Spec => []AnnouncedIsKept
<1>1. IInv => AnnouncedIsKept
  BY DEF IInv
<1>2. QED
  BY Invariance, <1>1, PTL

\* No page served holds a message that was expired or erased when the request
\* was made (server.go:228-270, 308-320), whatever happened in between.
THEOREM StaleNotServed == Spec => []StaleNeverServed
<1>1. IInv => StaleNeverServed
  BY DEF IInv, RequestInv, StaleNeverServed
<1>2. QED
  BY Invariance, <1>1, PTL

-----------------------------------------------------------------------------
(* Type correctness.  That a page is not longer than was asked for rests   *)
(* on the timestamps: those of the messages in the table are different, so *)
(* that fewer than Limit are newer than the oldest of a page.              *)

StampsInv ==
  /\ IsFiniteSet(rows)
  /\ \A m, n \in rows : m.ts = n.ts => m = n
  /\ \A p \in Publishers : stage[p] = "stamped" => \A m \in rows : m.ts # draft[p].ts
  /\ \A p, q \in Publishers :
       p # q /\ stage[p] # "idle" /\ stage[q] # "idle" => draft[p].ts # draft[q].ts

RequestType ==
  request # NoRequest =>
    /\ request = [at |-> request.at, kind |-> request.kind, cursor |-> request.cursor,
                  page |-> request.page, newer |-> request.newer, dead |-> request.dead]
    /\ request.at \in {"asked", "fetched", "served"}
    /\ request.kind \in Kinds
    /\ request.cursor \in 0..MaxTime
    /\ request.page \subseteq Message /\ IsFiniteSet(request.page)
    /\ request.newer \subseteq Message
    /\ request.dead \subseteq Message
    /\ Cardinality(request.page) <= Limit

RestType ==
  /\ known \subseteq Channels
  /\ \A p \in Publishers : stage[p] = "idle" => draft[p] = NoDraft
  /\ got \subseteq Message
  /\ complete \in BOOLEAN
  /\ opened \subseteq Message
  /\ restarts \in 0..MaxRestarts

TInv == IInv /\ StampsInv /\ RequestType /\ RestType

\* A set of numbers has a least one, and a bounded one a greatest.
LEMMA Least ==
  ASSUME NEW K \in SUBSET Nat, K # {}
  PROVE  \E t \in K : \A s \in K : t <= s
<1> DEFINE R == OpToRel(<, Nat)
<1>1. IsWellFoundedOn(R, Nat)
  BY NatLessThanWellFounded
<1>2. \A a, b \in Nat : a < b => <<a, b>> \in R
  BY DEF OpToRel
<1> HIDE DEF R
<1>3. \E x \in K : \A y \in K : ~(<<y, x>> \in R)
  BY <1>1, WFMin
<1>4. PICK x \in K : \A y \in K : ~(<<y, x>> \in R)
  BY <1>3
<1>5. \A s \in K : ~(s < x)
  BY <1>2, <1>4
<1>6. QED
  BY <1>5

LEMMA Greatest ==
  ASSUME NEW K \in SUBSET (0..MaxTime), K # {}
  PROVE  \E t \in K : \A s \in K : t >= s
<1> DEFINE D == {MaxTime - s : s \in K}
<1>0. \A s \in K : MaxTime - s \in Nat
  BY StoreAssumption
<1>1. D \in SUBSET Nat /\ D # {}
  BY <1>0
<1> HIDE DEF D
<1>2. PICK d \in D : \A e \in D : d <= e
  BY <1>1, Least
<1>3. PICK t \in K : d = MaxTime - t
  BY <1>2 DEF D
<1>4. \A s \in K : MaxTime - s \in D
  BY DEF D
<1>5. \A s \in K : MaxTime - t <= MaxTime - s
  BY <1>2, <1>3, <1>4
<1>6. \A s \in K : t >= s
  BY <1>5, StoreAssumption
<1>7. QED
  BY <1>6

\* The timestamps of a set of messages.
LEMMA StampsOf ==
  ASSUME NEW S \in SUBSET Message
  PROVE  {m.ts : m \in S} \in SUBSET (1..MaxTime)
  BY DEF Message

\* ORDER BY timestamp with a LIMIT gives no more than that many messages.
LEMMA FewNewest ==
  ASSUME NEW S \in SUBSET Message, IsFiniteSet(S), \A m, n \in S : m.ts = n.ts => m = n
  PROVE  /\ NewestOf(S) \subseteq S
         /\ IsFiniteSet(NewestOf(S)) /\ Cardinality(NewestOf(S)) <= Limit
<1> DEFINE T == NewestOf(S)
<1>1. T \in SUBSET S
  BY DEF NewestOf
<1>2. IsFiniteSet(T)
  BY <1>1, FS_Subset
<1>3. CASE T = {}
  BY <1>1, <1>2, <1>3, FS_EmptySet, StoreAssumption
<1>4. CASE T # {}
  <2> DEFINE K == {m.ts : m \in T}
  <2>1. K \in SUBSET Nat /\ K # {}
    BY <1>1, <1>4, MessageTime
  <2>2. PICK t \in K : \A s \in K : t <= s
    BY <2>1, Least
  <2>3. PICK x \in T : x.ts = t
    BY <2>2
  <2> DEFINE B == {n \in S : n.ts > x.ts}
  <2>4. \A y \in T : x.ts <= y.ts
    BY <2>2, <2>3
  <2>5. T \ {x} \in SUBSET B
    <3>1. SUFFICES ASSUME NEW y \in T, y # x PROVE y.ts > x.ts
      BY <1>1
    <3>2. x \in S /\ y \in S /\ x.ts # y.ts
      BY <1>1, <3>1
    <3>3. x.ts \in Nat /\ y.ts \in Nat
      BY <3>2, MessageTime
    <3>4. QED
      BY <2>4, <3>2, <3>3
  <2>6. Cardinality(B) < Limit
    BY DEF NewestOf
  <2>7. B \in SUBSET S
    OBVIOUS
  <2> HIDE DEF B, K, T
  <2>8. IsFiniteSet(B)
    BY <2>7, FS_Subset
  <2>9. Cardinality(T \ {x}) = Cardinality(T) - 1
    BY <1>2, FS_RemoveElement
  <2>10. Cardinality(T \ {x}) <= Cardinality(B)
    BY <2>5, <2>8, FS_Subset
  <2>11. Cardinality(T) \in Nat /\ Cardinality(B) \in Nat
    BY <1>2, <2>8, FS_CardinalityType
  <2>12. Cardinality(T) <= Limit
    BY <2>6, <2>9, <2>10, <2>11, StoreAssumption
  <2>13. QED
    BY <1>1, <1>2, <2>12 DEF T
<1>5. QED
  BY <1>3, <1>4

LEMMA FewOldest ==
  ASSUME NEW S \in SUBSET Message, IsFiniteSet(S), \A m, n \in S : m.ts = n.ts => m = n
  PROVE  /\ OldestOf(S) \subseteq S
         /\ IsFiniteSet(OldestOf(S)) /\ Cardinality(OldestOf(S)) <= Limit
<1> DEFINE T == OldestOf(S)
<1>1. T \in SUBSET S
  BY DEF OldestOf
<1>2. IsFiniteSet(T)
  BY <1>1, FS_Subset
<1>3. CASE T = {}
  BY <1>1, <1>2, <1>3, FS_EmptySet, StoreAssumption
<1>4. CASE T # {}
  <2> DEFINE K == {m.ts : m \in T}
  <2>1. K \in SUBSET (0..MaxTime) /\ K # {}
    BY <1>1, <1>4, StampsOf, StoreAssumption
  <2>2. PICK t \in K : \A s \in K : t >= s
    BY <2>1, Greatest
  <2>3. PICK x \in T : x.ts = t
    BY <2>2
  <2> DEFINE B == {n \in S : n.ts < x.ts}
  <2>4. \A y \in T : x.ts >= y.ts
    BY <2>2, <2>3
  <2>5. T \ {x} \in SUBSET B
    <3>1. SUFFICES ASSUME NEW y \in T, y # x PROVE y.ts < x.ts
      BY <1>1
    <3>2. x \in S /\ y \in S /\ x.ts # y.ts
      BY <1>1, <3>1
    <3>3. x.ts \in Nat /\ y.ts \in Nat
      BY <3>2, MessageTime
    <3>4. QED
      BY <2>4, <3>2, <3>3
  <2>6. Cardinality(B) < Limit
    BY DEF OldestOf
  <2>7. B \in SUBSET S
    OBVIOUS
  <2> HIDE DEF B, K, T
  <2>8. IsFiniteSet(B)
    BY <2>7, FS_Subset
  <2>9. Cardinality(T \ {x}) = Cardinality(T) - 1
    BY <1>2, FS_RemoveElement
  <2>10. Cardinality(T \ {x}) <= Cardinality(B)
    BY <2>5, <2>8, FS_Subset
  <2>11. Cardinality(T) \in Nat /\ Cardinality(B) \in Nat
    BY <1>2, <2>8, FS_CardinalityType
  <2>12. Cardinality(T) <= Limit
    BY <2>6, <2>9, <2>10, <2>11, StoreAssumption
  <2>13. QED
    BY <1>1, <1>2, <2>12 DEF T
<1>5. QED
  BY <1>3, <1>4

\* The cursor of a request for older or newer messages is the timestamp of one
\* the reader holds; no message of the reader's is newer than the latter.
LEMMA EdgeStamps ==
  ASSUME NEW S \in SUBSET Message, S # {}
  PROVE  /\ Earliest(S) \in 0..MaxTime /\ Latest(S) \in 0..MaxTime
         /\ \E m \in S : m.ts = Earliest(S)
         /\ \A m \in S : m.ts <= Latest(S)
<1> DEFINE K == {m.ts : m \in S}
<1>1. K \in SUBSET (1..MaxTime) /\ K # {}
  BY StampsOf
<1>2. K \in SUBSET Nat /\ K \in SUBSET (0..MaxTime) /\ \A m \in S : m.ts \in K
  BY <1>1, StoreAssumption
<1>3. \A t : (\A s \in K : t <= s) <=> (\A m \in S : t <= m.ts)
  OBVIOUS
<1>4. \A t : (\A s \in K : t >= s) <=> (\A m \in S : t >= m.ts)
  OBVIOUS
<1>5. Earliest(S) = CHOOSE t \in K : \A m \in S : t <= m.ts
  BY DEF Earliest
<1>6. Latest(S) = CHOOSE t \in K : \A m \in S : t >= m.ts
  BY DEF Latest
<1> HIDE DEF K
<1>7. \E t \in K : \A m \in S : t <= m.ts
  BY <1>1, <1>2, <1>3, Least
<1>8. \E t \in K : \A m \in S : t >= m.ts
  BY <1>1, <1>2, <1>4, Greatest
<1>9. Earliest(S) \in K /\ Latest(S) \in K
  BY <1>5, <1>6, <1>7, <1>8
<1>10. \E m \in S : m.ts = Earliest(S)
  BY <1>9 DEF K
<1>11. \A m \in S : Latest(S) >= m.ts
  BY <1>6, <1>8
<1>12. \A m \in S : m.ts \in Nat /\ Latest(S) \in Nat
  BY <1>2, <1>9
<1>13. QED
  BY <1>2, <1>9, <1>10, <1>11, <1>12

\* The initial state has the types.
LEMMA InitTypes == Init => TInv
<1> SUFFICES ASSUME Init PROVE TInv
  OBVIOUS
<1>1. IInv
  BY InitInv
<1>2. StampsInv
  BY FS_EmptySet DEF Init, StampsInv
<1>3. RequestType
  BY DEF Init, RequestType
<1>4. complete \in BOOLEAN
  BY Zenon DEF Init
<1>5. \A p \in Publishers : draft[p] = NoDraft
  BY DEF Init
<1>6. known \subseteq Channels /\ got \subseteq Message /\ opened \subseteq Message
  BY StoreAssumption DEF Init
<1>7. restarts \in 0..MaxRestarts
  BY StoreAssumption DEF Init
<1>8. RestType
  BY <1>4, <1>5, <1>6, <1>7 DEF RestType
<1>9. QED
  BY <1>1, <1>2, <1>3, <1>8 DEF TInv

\* No two messages get the same timestamp.
LEMMA StepStamps == TInv /\ [Next]_vars => StampsInv'
<1> SUFFICES ASSUME TInv, [Next]_vars PROVE StampsInv'
  OBVIOUS
<1> USE StoreAssumption DEF TInv, IInv, publishing
<1>1. ASSUME NEW p \in Publishers, NEW ch \in Channels, NEW u \in Users, Stamp(p, ch, u)
      PROVE StampsInv'
  <2>1. draft'[p] = [channel |-> ch, user |-> u, ts |-> now + 1] /\ now \in Nat
    BY <1>1 DEF Stamp, Typing
  <2>2. \A m \in Message : m.ts <= now => m.ts # draft'[p].ts
    BY <2>1, MessageTime
  <2>3. \A m \in rows : m.ts # draft'[p].ts
    BY <2>2 DEF Typing, PastInv
  <2>4. \A q \in Publishers : q # p => stage'[q] = stage[q] /\ draft'[q] = draft[q]
    BY <1>1 DEF Stamp, Typing
  <2>5. \A q \in Publishers : q # p /\ stage[q] # "idle" => draft[q].ts # draft'[p].ts
    BY <2>2 DEF Typing, PastInv
  <2>6. rows' = rows
    BY <1>1 DEF Stamp
  <2>7. QED
    BY <2>3, <2>4, <2>5, <2>6 DEF StampsInv
<1>2. ASSUME NEW p \in Publishers, Insert(p) PROVE StampsInv'
  <2>1. \A q \in Publishers : q # p => stage'[q] = stage[q]
    BY <1>2 DEF Insert, Typing
  <2>2. stage[p] = "stamped" /\ stage'[p] = "stored" /\ draft' = draft
    BY <1>2 DEF Insert, Typing
  <2>3. rows' = rows \cup {draft[p]}
    BY <1>2 DEF Insert
  <2>4. IsFiniteSet(rows')
    BY <2>3, FS_AddElement DEF StampsInv
  <2>5. \A m \in rows : m.ts # draft[p].ts
    BY <2>2 DEF StampsInv
  <2>6. \A m, n \in rows' : m.ts = n.ts => m = n
    BY <2>3, <2>5 DEF StampsInv
  <2>7. \A q \in Publishers : stage'[q] = "stamped" => \A m \in rows' : m.ts # draft'[q].ts
    BY <2>1, <2>2, <2>3 DEF StampsInv
  <2>8. QED
    BY <2>1, <2>2, <2>4, <2>6, <2>7 DEF StampsInv
<1>3. ASSUME UNCHANGED rows, NEW p \in Publishers,
             stage' = [stage EXCEPT ![p] = "idle"], draft' = [draft EXCEPT ![p] = NoDraft]
      PROVE StampsInv'
  BY <1>3 DEF StampsInv, Typing
<1>4. ASSUME rows' \subseteq rows, UNCHANGED publishing PROVE StampsInv'
  <2>1. IsFiniteSet(rows')
    BY <1>4, FS_Subset DEF StampsInv
  <2>2. QED
    BY <1>4, <2>1 DEF StampsInv
<1>5. CASE Restart
  BY <1>5 DEF Restart, StampsInv
<1>6. QED
  BY <1>1, <1>2, <1>3, <1>4, <1>5
  DEF Next, vars, InsertFails, Announce, Prune, DeleteByUser, Ask, Query,
      ApplyRetention, Receive, RequestLost, Tick

\* A request keeps its form, and its page is no longer than was asked for.
LEMMA StepRequestType == TInv /\ [Next]_vars => RequestType'
<1> SUFFICES ASSUME TInv, [Next]_vars PROVE RequestType'
  OBVIOUS
<1> USE StoreAssumption DEF TInv, IInv
<1>1. ASSUME NEW kind \in Kinds, Ask(kind) PROVE RequestType'
  <2> DEFINE dd == erased \cup {m \in rows : Expired(m)}
             c == Cursor(kind)
  <2>1. c \in 0..MaxTime
    <3>1. CASE kind = "latest"
      BY <3>1 DEF Cursor
    <3>2. CASE kind # "latest"
      <4>1. got \in SUBSET Message /\ got # {}
        BY <1>1, <3>2 DEF Ask, RestType
      <4>2. kind \in {"older", "since"}
        BY <3>2 DEF Kinds
      <4>3. QED
        BY <4>1, <4>2, EdgeStamps DEF Cursor
    <3>3. QED
      BY <3>1, <3>2
  <2>2. dd \subseteq Message
    BY DEF Typing
  <2>3. request' = [at |-> "asked", kind |-> kind, cursor |-> c,
                    page |-> {}, newer |-> {}, dead |-> dd]
    BY <1>1 DEF Ask
  <2>4. IsFiniteSet({}) /\ Cardinality({}) = 0
    BY FS_EmptySet
  <2> HIDE DEF dd, c
  <2>5. QED
    BY <2>1, <2>2, <2>3, <2>4 DEF RequestType
<1>2. CASE Query
  <2> DEFINE pg == IF request.kind = "since" THEN FetchSince(request.cursor)
                                             ELSE FetchBefore(request.cursor)
             nw == IF request.kind = "since" THEN NewerThan(request.cursor) ELSE {}
             newer == NewerThan(request.cursor)
             older == {m \in rows : m.channel = Home
                         /\ (request.cursor > 0 => m.ts < request.cursor)}
  <2>1. newer \in SUBSET rows /\ older \in SUBSET rows
    BY DEF NewerThan
  <2>2. FetchSince(request.cursor) = OldestOf(newer)
    BY DEF FetchSince
  <2>3. FetchBefore(request.cursor) = NewestOf(older)
    BY DEF FetchBefore
  <2>4. nw \subseteq rows
    BY <2>1
  <2> HIDE DEF newer, older
  <2>5. /\ newer \in SUBSET Message /\ older \in SUBSET Message
        /\ \A m, n \in newer : m.ts = n.ts => m = n
        /\ \A m, n \in older : m.ts = n.ts => m = n
    BY <2>1 DEF Typing, StampsInv
  <2>6. IsFiniteSet(newer) /\ IsFiniteSet(older)
    BY <2>1, FS_Subset DEF StampsInv
  <2>7. /\ OldestOf(newer) \subseteq newer
        /\ IsFiniteSet(OldestOf(newer)) /\ Cardinality(OldestOf(newer)) <= Limit
    BY <2>5, <2>6, FewOldest
  <2>8. /\ NewestOf(older) \subseteq older
        /\ IsFiniteSet(NewestOf(older)) /\ Cardinality(NewestOf(older)) <= Limit
    BY <2>5, <2>6, FewNewest
  <2>9. pg \subseteq Message /\ IsFiniteSet(pg) /\ Cardinality(pg) <= Limit
    BY <2>2, <2>3, <2>5, <2>7, <2>8
  <2>10. nw \subseteq Message
    BY <2>4 DEF Typing
  <2>11. /\ request # NoRequest
         /\ request' = [request EXCEPT !.at = "fetched", !.page = pg, !.newer = nw]
    BY <1>2 DEF Query
  <2> HIDE DEF pg, nw
  <2>12. request' = [at |-> "fetched", kind |-> request.kind, cursor |-> request.cursor,
                     page |-> pg, newer |-> nw, dead |-> request.dead]
    BY <2>11 DEF RequestType
  <2>13. QED
    BY <2>9, <2>10, <2>11, <2>12 DEF RequestType
<1>3. CASE ApplyRetention
  <2> DEFINE pg == WithinRetention(request.page)
  <2>1. /\ request # NoRequest
        /\ request' = [request EXCEPT !.at = "served", !.page = pg]
    BY <1>3 DEF ApplyRetention
  <2>2. pg \in SUBSET request.page
    BY DEF WithinRetention
  <2> HIDE DEF pg
  <2>3. /\ IsFiniteSet(request.page) /\ Cardinality(request.page) <= Limit
        /\ request.page \subseteq Message
    BY <2>1 DEF RequestType
  <2>4. IsFiniteSet(pg) /\ Cardinality(pg) <= Cardinality(request.page)
    BY <2>2, <2>3, FS_Subset
  <2>5. Cardinality(pg) \in Nat /\ Cardinality(request.page) \in Nat
    BY <2>3, <2>4, FS_CardinalityType
  <2>6. Cardinality(pg) <= Limit
    BY <2>3, <2>4, <2>5
  <2>7. request' = [at |-> "served", kind |-> request.kind, cursor |-> request.cursor,
                    page |-> pg, newer |-> request.newer, dead |-> request.dead]
    BY <2>1 DEF RequestType
  <2>8. QED
    BY <2>1, <2>2, <2>3, <2>4, <2>6, <2>7 DEF RequestType
<1>4. CASE request' = NoRequest
  BY <1>4 DEF RequestType
<1>5. CASE request' = request
  BY <1>5 DEF RequestType
<1>6. QED
  BY <1>1, <1>2, <1>3, <1>4, <1>5
  DEF Next, vars, reader, Stamp, Insert, InsertFails, Announce, Prune, DeleteByUser,
      Receive, RequestLost, Tick, Restart

\* The remaining variables keep their types.
LEMMA StepRest == TInv /\ [Next]_vars => RestType'
<1> SUFFICES ASSUME TInv, [Next]_vars PROVE RestType'
  OBVIOUS
<1> USE StoreAssumption DEF TInv, IInv, publishing, reader
<1>1. known' \subseteq Channels
  <2>1. CASE \E p \in Publishers : Announce(p)
    <3>1. PICK p \in Publishers : Announce(p)
      BY <2>1
    <3>2. draft[p] \in Message
      BY <3>1 DEF Announce, Typing
    <3>3. draft[p].channel \in Channels
      BY <3>2 DEF Message
    <3>4. QED
      BY <3>1, <3>3 DEF Announce, RestType
  <2>2. CASE Restart \/ known' = known
    BY <2>2 DEF Restart, RestType
  <2>3. QED
    BY <2>1, <2>2
    DEF Next, vars, Stamp, Insert, InsertFails, Prune, DeleteByUser, Ask, Query,
        ApplyRetention, Receive, RequestLost, Tick
<1>2. \A p \in Publishers : stage'[p] = "idle" => draft'[p] = NoDraft
  BY DEF Typing, RestType, Next, vars, Stamp, Insert, InsertFails, Announce, Prune,
         DeleteByUser, Ask, Query, ApplyRetention, Receive, RequestLost, Tick, Restart
<1>3. got' \subseteq Message /\ complete' \in BOOLEAN
  <2>1. CASE Receive
    <3>1. request.page \subseteq Message
      BY <2>1 DEF Receive, RequestType
    <3>2. complete' \in BOOLEAN
      BY <2>1, Zenon DEF Receive
    <3>3. got' \subseteq Message
      BY <2>1, <3>1 DEF Receive, RestType
    <3>4. QED
      BY <3>2, <3>3
  <2>2. CASE UNCHANGED <<got, complete>>
    BY <2>2 DEF RestType
  <2>3. QED
    BY <2>1, <2>2
    DEF Next, vars, Stamp, Insert, InsertFails, Announce, Prune, DeleteByUser, Ask,
        Query, ApplyRetention, RequestLost, Tick, Restart
<1>4. opened' \subseteq Message
  <2>1. CASE \E kind \in Kinds : Ask(kind)
    BY <2>1 DEF Ask, Typing, RestType
  <2>2. CASE opened' = opened
    BY <2>2 DEF RestType
  <2>3. QED
    BY <2>1, <2>2
    DEF Next, vars, Stamp, Insert, InsertFails, Announce, Prune, DeleteByUser,
        Query, ApplyRetention, Receive, RequestLost, Tick, Restart
<1>5. restarts' \in 0..MaxRestarts
  <2>1. CASE Restart
    BY <2>1 DEF Restart, RestType
  <2>2. CASE restarts' = restarts
    BY <2>2 DEF RestType
  <2>3. QED
    BY <2>1, <2>2
    DEF Next, vars, Stamp, Insert, InsertFails, Announce, Prune, DeleteByUser, Ask,
        Query, ApplyRetention, Receive, RequestLost, Tick
<1>6. QED
  BY <1>1, <1>2, <1>3, <1>4, <1>5 DEF RestType

\* The types and what they rest on are inductive.
LEMMA StepTypes == TInv /\ [Next]_vars => TInv'
<1>1. TInv /\ [Next]_vars => IInv'
  BY StepTyping, StepPast, StepFresh, StepLanded, StepAnnounced, StepRequest DEF TInv, IInv
<1>2. QED
  BY <1>1, StepStamps, StepRequestType, StepRest DEF TInv

\* Every variable keeps its type, and no page is longer than the limit
\* (server.go:228-270): the timestamps Publish takes are different.
THEOREM TypeCorrect == Spec => []TypeOK
<1>1. TInv => TypeOK
  <2> SUFFICES ASSUME TInv PROVE TypeOK
    OBVIOUS
  <2>1. \A p \in Publishers :
          draft[p] \in (IF stage[p] = "idle" THEN {NoDraft} ELSE Message)
    BY DEF TInv, IInv, Typing, RestType
  <2>2. request = NoRequest \/
          /\ request.at \in {"asked", "fetched", "served"}
          /\ request.kind \in Kinds
          /\ request.cursor \in 0..MaxTime
          /\ request.page \subseteq Message
          /\ request.newer \subseteq Message
          /\ request.dead \subseteq Message
          /\ Cardinality(request.page) <= Limit
    BY DEF TInv, RequestType
  <2>3. QED
    BY <2>1, <2>2 DEF TInv, IInv, Typing, RestType, TypeOK
<1>2. QED
  BY InitTypes, StepTypes, <1>1, PTL DEF Spec

-----------------------------------------------------------------------------
(* Paging.  The reader's messages have no hole: a message of the channel   *)
(* it opened is in its hands, or dead, or older than everything in its     *)
(* hands.  A page of older messages continues where they end, and a page   *)
(* that left something out was full before the filter ran.                 *)

\* What the reader opened has been in the channel's table: nobody is about to
\* insert it.
OpenedInv ==
  /\ \A m \in opened : m \in Message /\ m.channel = Home /\ m.ts <= now
  /\ \A p \in Publishers : stage[p] = "stamped" => draft[p] \notin opened

NoHole ==
  \A m \in opened \cap rows : m \in got \/ Expired(m) \/ \A g \in got : m.ts < g.ts

\* A request goes on from the reader's oldest message, or from its newest.
CursorInv ==
  request # NoRequest =>
    /\ request.kind = "latest" => request.cursor = 0 /\ got = {}
    /\ request.kind = "older" => \E g \in got : g.ts = request.cursor
    /\ request.kind = "since" => got # {} /\ \A g \in got : g.ts <= request.cursor

\* A message older than the cursor is on the page, or dead, or older than the
\* whole page, which is full.
OnPage(m) ==
  \/ m \in request.page
  \/ Expired(m)
  \/ Cardinality(request.page) >= Limit /\ \A n \in request.page : m.ts < n.ts

PageInv ==
  request # NoRequest /\ request.at # "asked" =>
    /\ request.kind = "since" => \A n \in request.page : n.ts > request.cursor
    /\ request.kind # "since" =>
         \A m \in opened \cap rows : (request.cursor > 0 => m.ts < request.cursor) => OnPage(m)

PagingInv ==
  TInv /\ OpenedInv /\ NoHole /\ CursorInv /\ PageInv /\ PagingComplete

\* What ORDER BY timestamp DESC with a LIMIT leaves out is older than the page,
\* and the page is full.
LEMMA LeftOut ==
  ASSUME NEW S \in SUBSET Message, IsFiniteSet(S), NEW m \in S, m \notin NewestOf(S)
  PROVE  /\ Cardinality(NewestOf(S)) >= Limit
         /\ \A n \in NewestOf(S) : m.ts < n.ts
<1> DEFINE T == NewestOf(S)
           Above(t) == {n \in S : n.ts > t}
<1>1. \A n \in S : n \in T <=> Cardinality(Above(n.ts)) < Limit
  BY DEF NewestOf
<1>2. T \in SUBSET S /\ \A t : Above(t) \in SUBSET S
  BY DEF NewestOf
<1>3. \A n \in S : n.ts \in Nat
  BY MessageTime
<1>4. \A a, b \in S : a.ts <= b.ts => Above(b.ts) \in SUBSET Above(a.ts)
  BY <1>3
<1>5. \A t, n : n \in Above(t) <=> n \in S /\ n.ts > t
  OBVIOUS
<1> HIDE DEF T, Above
<1>6. IsFiniteSet(T) /\ \A t : IsFiniteSet(Above(t)) /\ Cardinality(Above(t)) \in Nat
  BY <1>2, FS_Subset, FS_CardinalityType
<1>7. ASSUME NEW n \in T PROVE m.ts < n.ts
  <2>1. SUFFICES ASSUME n.ts <= m.ts PROVE FALSE
    BY <1>2, <1>3
  <2>2. Above(m.ts) \in SUBSET Above(n.ts)
    BY <1>2, <1>4, <2>1
  <2>3. Cardinality(Above(m.ts)) <= Cardinality(Above(n.ts))
    BY <1>6, <2>2, FS_Subset
  <2>4. Cardinality(Above(n.ts)) < Limit
    BY <1>1, <1>2
  <2>5. Cardinality(Above(m.ts)) < Limit
    BY <1>6, <2>3, <2>4, StoreAssumption
  <2>6. QED
    BY <1>1, <2>5 DEF T
<1>8. Cardinality(T) >= Limit
  <2> DEFINE R == S \ T
             K == {n.ts : n \in R}
  <2>1. R \in SUBSET Message /\ R # {}
    BY DEF T
  <2>2. K \in SUBSET (0..MaxTime) /\ K # {}
    BY <2>1, StampsOf, StoreAssumption
  <2>3. PICK t \in K : \A s \in K : t >= s
    BY <2>2, Greatest
  <2>4. PICK x \in R : x.ts = t
    BY <2>3
  <2>5. \A y \in R : ~(y.ts > x.ts)
    BY <1>3, <2>3, <2>4
  <2>6. Above(x.ts) \in SUBSET T
    BY <1>5, <2>5
  <2>7. ~(Cardinality(Above(x.ts)) < Limit)
    BY <1>1
  <2>8. Cardinality(Above(x.ts)) <= Cardinality(T)
    BY <1>6, <2>6, FS_Subset
  <2>9. Cardinality(T) \in Nat
    BY <1>6, FS_CardinalityType
  <2>10. QED
    BY <1>6, <2>7, <2>8, <2>9, StoreAssumption
<1>9. QED
  BY <1>7, <1>8 DEF T

\* Only opening the channel again adds to what the reader is to be given: what
\* was opened never enters the table a second time.
LEMMA OpenedMoves ==
  ASSUME PagingInv, [Next]_vars, ~ \E kind \in Kinds : Ask(kind)
  PROVE  opened' = opened /\ \A m \in opened : m \in rows' => m \in rows
<1> USE DEF PagingInv, TInv, IInv, publishing, reader
<1>1. opened' = opened
  BY DEF Next, vars, Stamp, Insert, InsertFails, Announce, Prune, DeleteByUser,
         Query, ApplyRetention, Receive, RequestLost, Tick, Restart
<1>2. CASE \E p \in Publishers : Insert(p)
  BY <1>1, <1>2 DEF Insert, OpenedInv
<1>3. CASE rows' \subseteq rows
  BY <1>1, <1>3
<1>4. QED
  BY <1>2, <1>3
  DEF Next, vars, Stamp, InsertFails, Announce, Prune, DeleteByUser, Query,
      ApplyRetention, Receive, RequestLost, Tick, Restart

\* Nobody is about to insert what the reader opened.
LEMMA StepOpened == PagingInv /\ [Next]_vars => OpenedInv'
<1> SUFFICES ASSUME PagingInv, [Next]_vars PROVE OpenedInv'
  OBVIOUS
<1> USE StoreAssumption DEF PagingInv, TInv, IInv, publishing, reader
<1>0. /\ now \in Nat /\ now' \in Nat /\ now' >= now
      /\ \A m \in Message : m.ts <= now => m.ts <= now'
  BY ClockMoves, MessageTime DEF Typing
<1>1. ASSUME NEW p \in Publishers, NEW ch \in Channels, NEW u \in Users, Stamp(p, ch, u)
      PROVE OpenedInv'
  <2>1. draft'[p].ts = now + 1 /\ opened' = opened
    BY <1>1 DEF Stamp, Typing
  <2>2. draft'[p] \notin opened
    BY <1>0, <2>1, MessageTime DEF OpenedInv
  <2>3. \A q \in Publishers : q # p => stage'[q] = stage[q] /\ draft'[q] = draft[q]
    BY <1>1 DEF Stamp, Typing
  <2>4. \A m \in opened' : m \in Message /\ m.channel = Home /\ m.ts <= now'
    BY <1>0, <2>1 DEF OpenedInv
  <2>5. \A q \in Publishers : stage'[q] = "stamped" => draft'[q] \notin opened'
    BY <2>1, <2>2, <2>3 DEF OpenedInv
  <2>6. QED
    BY <2>4, <2>5 DEF OpenedInv
<1>2. ASSUME NEW kind \in Kinds, Ask(kind) PROVE OpenedInv'
  <2>1. UNCHANGED <<stage, draft, now>>
    BY <1>2 DEF Ask
  <2>2. opened' = opened \/ opened' = {m \in rows : m.channel = Home}
    BY <1>2 DEF Ask
  <2>3. \A m \in rows : m \in Message /\ m.ts <= now
    BY DEF Typing, PastInv
  <2>4. \A p \in Publishers : stage[p] = "stamped" => draft[p] \notin rows
    BY DEF FreshInv
  <2>5. QED
    BY <2>1, <2>2, <2>3, <2>4 DEF OpenedInv
<1>3. CASE /\ opened' = opened
           /\ \A p \in Publishers :
                stage'[p] = "stamped" => stage[p] = "stamped" /\ draft'[p] = draft[p]
  <2>1. \A m \in opened' : m \in Message /\ m.channel = Home /\ m.ts <= now'
    BY <1>0, <1>3 DEF OpenedInv
  <2>2. QED
    BY <1>3, <2>1 DEF OpenedInv
<1>4. QED
  BY <1>1, <1>2, <1>3
  DEF Typing, Next, vars, Insert, InsertFails, Announce, Prune, DeleteByUser, Query,
      ApplyRetention, Receive, RequestLost, Tick, Restart

\* What the reader holds has no hole.
LEMMA StepHole == PagingInv /\ [Next]_vars => NoHole'
<1> SUFFICES ASSUME PagingInv, [Next]_vars, NEW m \in opened', m \in rows'
             PROVE  m \in got' \/ Expired(m)' \/ \A g \in got' : m.ts < g.ts
  BY DEF NoHole
<1> USE DEF PagingInv, TInv
<1>1. ASSUME NEW kind \in Kinds, Ask(kind)
      PROVE  m \in got' \/ Expired(m)' \/ \A g \in got' : m.ts < g.ts
  <2>1. got' = got /\ rows' = rows /\ now' = now
    BY <1>1 DEF Ask
  <2>2. CASE kind = "latest"
    BY <1>1, <2>1, <2>2 DEF Ask
  <2>3. CASE kind # "latest"
    <3>1. opened' = opened
      BY <1>1, <2>3 DEF Ask
    <3>2. m \in got \/ Expired(m) \/ \A g \in got : m.ts < g.ts
      BY <2>1, <3>1 DEF NoHole
    <3>3. QED
      BY <2>1, <3>2 DEF Expired
  <2>4. QED
    BY <2>2, <2>3
<1>2. CASE ~ \E kind \in Kinds : Ask(kind)
  <2>1. m \in opened /\ m \in rows
    BY <1>2, OpenedMoves
  <2>2. m \in Message
    BY <2>1 DEF OpenedInv
  <2>3. Expired(m) => Expired(m)'
    BY <2>2, StepDead
  <2>4. m \in got \/ Expired(m) \/ \A g \in got : m.ts < g.ts
    BY <2>1 DEF NoHole
  <2>5. CASE Receive
    <3>1. request # NoRequest /\ request.at = "served" /\ got' = got \cup request.page
      BY <2>5 DEF Receive
    <3>2. SUFFICES ASSUME m \notin got, ~Expired(m), m \notin request.page
                   PROVE  \A n \in request.page : m.ts < n.ts
      BY <2>3, <2>4, <3>1
    <3>3. \A g \in got : m.ts < g.ts
      BY <2>4, <3>2
    <3>4. m.ts \in Nat /\ request.cursor \in Nat
      BY <2>2, <3>1, MessageTime DEF RequestType
    <3>5. CASE request.kind = "since"
      <4>1. PICK g \in got : g.ts <= request.cursor
        BY <3>1, <3>5 DEF CursorInv
      <4>2. g.ts \in Nat /\ m.ts < request.cursor
        BY <3>3, <3>4, <4>1, MessageTime DEF RestType
      <4>3. \A n \in request.page : n.ts \in Nat /\ n.ts > request.cursor
        BY <3>1, <3>5, MessageTime DEF RequestType, PageInv
      <4>4. QED
        BY <3>4, <4>2, <4>3
    <3>6. CASE request.kind # "since"
      <4>1. request.cursor > 0 => m.ts < request.cursor
        BY <3>1, <3>3, <3>6 DEF CursorInv, RequestType, Kinds
      <4>2. OnPage(m)
        BY <2>1, <3>1, <3>6, <4>1 DEF PageInv
      <4>3. QED
        BY <3>2, <4>2 DEF OnPage
    <3>7. QED
      BY <3>5, <3>6
  <2>6. CASE got' = got
    BY <2>3, <2>4, <2>6
  <2>7. QED
    BY <1>2, <2>5, <2>6
    DEF Next, vars, reader, Stamp, Insert, InsertFails, Announce, Prune, DeleteByUser,
        Query, ApplyRetention, RequestLost, Tick, Restart
<1>3. QED
  BY <1>1, <1>2

\* A request's cursor stays the edge of what the reader holds.
LEMMA StepCursor == PagingInv /\ [Next]_vars => CursorInv'
<1> SUFFICES ASSUME PagingInv, [Next]_vars PROVE CursorInv'
  OBVIOUS
<1> USE DEF PagingInv, TInv
<1>1. ASSUME NEW kind \in Kinds, Ask(kind) PROVE CursorInv'
  <2>1. request'.kind = kind /\ request'.cursor = Cursor(kind) /\ got' = got
    BY <1>1 DEF Ask
  <2>2. kind = "latest" <=> got = {}
    BY <1>1 DEF Ask
  <2>3. got \in SUBSET Message
    BY DEF RestType
  <2>4. CASE kind = "latest"
    BY <2>1, <2>2, <2>4 DEF CursorInv, Cursor
  <2>5. CASE kind = "older"
    <3>1. \E g \in got : g.ts = Cursor(kind)
      BY <2>2, <2>3, <2>5, EdgeStamps DEF Cursor
    <3>2. QED
      BY <2>1, <2>5, <3>1 DEF CursorInv
  <2>6. CASE kind = "since"
    <3>1. \A g \in got : g.ts <= Cursor(kind)
      BY <2>2, <2>3, <2>6, EdgeStamps DEF Cursor
    <3>2. QED
      BY <2>1, <2>2, <2>6, <3>1 DEF CursorInv
  <2>7. QED
    BY <2>4, <2>5, <2>6 DEF Kinds
<1>2. CASE Query \/ ApplyRetention
  <2>1. request # NoRequest /\ got' = got
    BY <1>2 DEF Query, ApplyRetention
  <2>2. request'.kind = request.kind /\ request'.cursor = request.cursor
    BY <1>2, <2>1 DEF Query, ApplyRetention, RequestType
  <2>3. QED
    BY <2>1, <2>2 DEF CursorInv
<1>3. CASE request' = NoRequest
  BY <1>3 DEF CursorInv
<1>4. CASE request' = request /\ got' = got
  BY <1>4 DEF CursorInv
<1>5. QED
  BY <1>1, <1>2, <1>3, <1>4
  DEF Next, vars, reader, Stamp, Insert, InsertFails, Announce, Prune, DeleteByUser,
      Receive, RequestLost, Tick, Restart

\* A page that is cut or filtered still accounts for every older message.
LEMMA StepPage == PagingInv /\ [Next]_vars => PageInv'
<1> SUFFICES ASSUME PagingInv, [Next]_vars PROVE PageInv'
  OBVIOUS
<1> USE DEF PagingInv, TInv
<1>1. ASSUME NEW kind \in Kinds, Ask(kind) PROVE PageInv'
  BY <1>1 DEF Ask, PageInv
<1>2. CASE Query
  <2> DEFINE newer == NewerThan(request.cursor)
             older == {m \in rows : m.channel = Home
                         /\ (request.cursor > 0 => m.ts < request.cursor)}
             pg == IF request.kind = "since" THEN OldestOf(newer) ELSE NewestOf(older)
             nw == IF request.kind = "since" THEN newer ELSE {}
  <2>1. /\ request # NoRequest /\ opened' = opened /\ rows' = rows /\ now' = now
        /\ request' = [request EXCEPT !.at = "fetched", !.page = pg, !.newer = nw]
    BY <1>2 DEF Query, FetchSince, FetchBefore
  <2>2. /\ \A n \in OldestOf(newer) : n.ts > request.cursor
        /\ older \in SUBSET rows
        /\ \A m \in rows : m \in older <=>
             m.channel = Home /\ (request.cursor > 0 => m.ts < request.cursor)
    BY DEF OldestOf, NewerThan
  <2>3. request.kind = "since" => pg = OldestOf(newer)
    OBVIOUS
  <2>4. request.kind # "since" => pg = NewestOf(older)
    OBVIOUS
  <2> HIDE DEF newer, older, pg, nw
  <2>5. /\ request'.kind = request.kind /\ request'.cursor = request.cursor
        /\ request'.page = pg
    BY <2>1 DEF RequestType
  <2>6. older \in SUBSET Message /\ IsFiniteSet(older)
    BY <2>2, FS_Subset DEF StampsInv, IInv, Typing
  <2>7. ASSUME NEW m \in opened, m \in rows, request.kind # "since",
               request.cursor > 0 => m.ts < request.cursor
        PROVE  OnPage(m)'
    <3>1. m \in older
      BY <2>2, <2>7 DEF OpenedInv
    <3>2. m \in pg \/ (Cardinality(pg) >= Limit /\ \A n \in pg : m.ts < n.ts)
      BY <2>4, <2>6, <2>7, <3>1, LeftOut
    <3>3. QED
      BY <2>5, <3>2 DEF OnPage
  <2>8. request.kind = "since" => \A n \in pg : n.ts > request.cursor
    BY <2>2, <2>3
  <2>9. QED
    BY <2>1, <2>5, <2>7, <2>8 DEF PageInv
<1>3. CASE ApplyRetention
  <2> DEFINE pg == WithinRetention(request.page)
  <2>1. /\ request # NoRequest /\ request.at = "fetched"
        /\ opened' = opened /\ rows' = rows /\ now' = now
        /\ request' = [request EXCEPT !.at = "served", !.page = pg]
    BY <1>3 DEF ApplyRetention
  <2>2. \A n : n \in pg <=> n \in request.page /\ ~Expired(n)
    BY DEF WithinRetention
  <2> HIDE DEF pg
  <2>3. /\ request'.kind = request.kind /\ request'.cursor = request.cursor
        /\ request'.page = pg
    BY <2>1 DEF RequestType
  <2>4. ASSUME NEW m \in opened, m \in rows, request.kind # "since",
               request.cursor > 0 => m.ts < request.cursor
        PROVE  OnPage(m)'
    <3>1. SUFFICES ASSUME ~Expired(m), m \notin pg
                   PROVE  Cardinality(pg) >= Limit /\ \A n \in pg : m.ts < n.ts
      BY <2>1, <2>3 DEF OnPage, Expired
    <3>2. OnPage(m)
      BY <2>1, <2>4 DEF PageInv
    <3>3. Cardinality(request.page) >= Limit /\ \A n \in request.page : m.ts < n.ts
      BY <2>2, <3>1, <3>2 DEF OnPage
    <3>4. m \in Message /\ request.page \subseteq Message /\ now \in Nat
      BY <2>1, StoreAssumption DEF OpenedInv, RequestType, IInv, Typing
    <3>5. ASSUME NEW n \in request.page PROVE ~Expired(n)
      <4>1. m.ts \in Nat /\ n.ts \in Nat /\ m.ts < n.ts
        BY <3>3, <3>4, MessageTime
      <4>2. QED
        BY <3>1, <3>4, <4>1, StoreAssumption DEF Expired
    <3>6. pg = request.page
      BY <2>2, <3>5
    <3>7. QED
      BY <3>3, <3>6
  <2>5. request.kind = "since" => \A n \in pg : n.ts > request.cursor
    BY <2>1, <2>2 DEF PageInv
  <2>6. QED
    BY <2>1, <2>3, <2>4, <2>5 DEF PageInv
<1>4. CASE request' = NoRequest
  BY <1>4 DEF PageInv
<1>5. CASE request' = request /\ ~ \E kind \in Kinds : Ask(kind)
  <2>1. SUFFICES ASSUME request # NoRequest, request.at # "asked" PROVE PageInv'
    BY <1>5 DEF PageInv
  <2>2. ASSUME NEW m \in opened', m \in rows', request.kind # "since",
               request.cursor > 0 => m.ts < request.cursor
        PROVE  OnPage(m)'
    <3>1. m \in opened /\ m \in rows
      BY <1>5, <2>2, OpenedMoves
    <3>2. OnPage(m) /\ m \in Message
      BY <2>1, <2>2, <3>1 DEF PageInv, OpenedInv
    <3>3. Expired(m) => Expired(m)'
      BY <3>2, StepDead
    <3>4. QED
      BY <1>5, <3>2, <3>3 DEF OnPage
  <2>3. request.kind = "since" => \A n \in request.page : n.ts > request.cursor
    BY <2>1 DEF PageInv
  <2>4. QED
    BY <1>5, <2>1, <2>2, <2>3 DEF PageInv
<1>6. QED
  BY <1>1, <1>2, <1>3, <1>4, <1>5
  DEF Next, vars, reader, Stamp, Insert, InsertFails, Announce, Prune, DeleteByUser,
      Receive, RequestLost, Tick, Restart

\* A short page ends the paging with nothing left out.
LEMMA StepComplete == PagingInv /\ [Next]_vars => PagingComplete'
<1> SUFFICES ASSUME PagingInv, [Next]_vars, complete', NEW m \in opened', m \in rows'
             PROVE  Expired(m)' \/ m \in got'
  BY DEF PagingComplete
<1> USE DEF PagingInv, TInv
<1>1. ASSUME NEW kind \in Kinds, Ask(kind) PROVE Expired(m)' \/ m \in got'
  <2>1. complete /\ kind = "since"
    BY <1>1 DEF Ask
  <2>2. opened' = opened /\ rows' = rows /\ got' = got /\ now' = now
    BY <1>1, <2>1 DEF Ask
  <2>3. QED
    BY <2>1, <2>2 DEF PagingComplete, Expired
<1>2. CASE ~ \E kind \in Kinds : Ask(kind)
  <2>1. m \in opened /\ m \in rows
    BY <1>2, OpenedMoves
  <2>2. m \in Message
    BY <2>1 DEF OpenedInv
  <2>3. Expired(m) => Expired(m)'
    BY <2>2, StepDead
  <2>4. CASE Receive
    <3>1. request # NoRequest /\ request.at = "served" /\ got' = got \cup request.page
      BY <2>4 DEF Receive
    <3>2. CASE complete
      BY <2>1, <2>3, <3>1, <3>2 DEF PagingComplete
    <3>3. CASE request.kind # "since" /\ Cardinality(request.page) < Limit
      <4>1. SUFFICES ASSUME m \notin got, ~Expired(m) PROVE m \in request.page
        BY <2>3, <3>1
      <4>2. \A g \in got : m.ts < g.ts
        BY <2>1, <4>1 DEF NoHole
      <4>3. request.cursor > 0 => m.ts < request.cursor
        BY <3>1, <3>3, <4>2 DEF CursorInv, RequestType, Kinds
      <4>4. OnPage(m)
        BY <2>1, <3>1, <3>3, <4>3 DEF PageInv
      <4>5. Cardinality(request.page) \in Nat
        BY <3>1, FS_CardinalityType DEF RequestType
      <4>6. ~(Cardinality(request.page) >= Limit)
        BY <3>3, <4>5, StoreAssumption
      <4>7. QED
        BY <4>1, <4>4, <4>6 DEF OnPage
    <3>4. QED
      BY <2>4, <3>2, <3>3 DEF Receive
  <2>5. CASE got' = got /\ complete' = complete
    BY <2>1, <2>3, <2>5 DEF PagingComplete
  <2>6. QED
    BY <1>2, <2>4, <2>5
    DEF Next, vars, reader, Stamp, Insert, InsertFails, Announce, Prune, DeleteByUser,
        Query, ApplyRetention, RequestLost, Tick, Restart
<1>3. QED
  BY <1>1, <1>2

\* Paging backwards until a short page loses nothing that was in the channel
\* when it was opened and still is: a page is cut to the limit before the
\* expired rows are dropped from it (server.go:228-270, 308-320), and whatever
\* is inserted, pruned, deleted or lost in between.
THEOREM PagingLosesNothing == Spec => []PagingComplete
<1>1. Init => PagingInv
  <2> SUFFICES ASSUME Init PROVE PagingInv
    OBVIOUS
  <2>1. TInv
    BY InitTypes
  <2>2. OpenedInv
    BY DEF Init, OpenedInv
  <2>3. NoHole /\ CursorInv /\ PageInv /\ PagingComplete
    BY DEF Init, NoHole, CursorInv, PageInv, PagingComplete
  <2>4. QED
    BY <2>1, <2>2, <2>3 DEF PagingInv
<1>2. PagingInv /\ [Next]_vars => TInv'
  BY StepTypes DEF PagingInv
<1>3. PagingInv /\ [Next]_vars => PagingInv'
  BY <1>2, StepOpened, StepHole, StepCursor, StepPage, StepComplete DEF PagingInv
<1>4. PagingInv => PagingComplete
  BY DEF PagingInv
<1>5. QED
  BY <1>1, <1>3, <1>4, PTL DEF Spec

=============================================================================
