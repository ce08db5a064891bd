----------------------------- MODULE RelayStore -----------------------------
(***************************************************************************)
(* The reference relay's REST side: publishing a message (backend.go), the *)
(* SQLite store and its history pages (store.go, server.go), the retention *)
(* window with its background pruner (cmd/relay/main.go), deletion of a    *)
(* user's data, and a restart of the process, which keeps only the         *)
(* database.                                                               *)
(*                                                                         *)
(* HTTP handlers run concurrently.  The store has one connection, so one   *)
(* SQL statement is one step; what a handler does between two statements   *)
(* is a step of its own.  The reader uses the history API as docs/RELAY.md *)
(* describes it; what the TUI makes of the pages is in TuiSession.  Time   *)
(* is a counter that every timestamp advances: the cursors of the history  *)
(* API are strict comparisons of nanoseconds without a tie-break, so two   *)
(* messages with one timestamp are not modelled, and the timestamp serves  *)
(* as the message id.                                                      *)
(***************************************************************************)
EXTENDS Naturals, FiniteSets

CONSTANTS
  Publishers,  \* HTTP handlers of POST /message and POST /file
  Users,       \* usernames, which are the user ids of the local backend
  Channels,    \* channel names
  Home,        \* the default channel, which the reader reads
  Retention,   \* the retention window; 0 keeps messages forever
  Limit,       \* the page size the reader asks for
  MaxTime,     \* bound: the last reading of the clock
  MaxRestarts  \* bound: restarts of the relay

ASSUME StoreAssumption ==
  /\ Home \in Channels
  /\ Retention \in Nat
  /\ Limit \in Nat \ {0}
  /\ MaxTime \in Nat
  /\ MaxRestarts \in Nat

VARIABLES
  now,       \* the clock
  rows,      \* the messages table
  known,     \* b.channels, kept in memory only
  stage,     \* where each publisher is in Publish
  draft,     \* the message a publisher has in hand
  aired,     \* messages broadcast and acknowledged with their id
  erased,    \* messages a deletion request removed
  request,   \* the reader's history request, if any
  got,       \* messages the reader holds (external)
  complete,  \* a short page told the reader there is nothing older (external)
  opened,    \* the channel's rows when the reader opened it
  restarts   \* bounded by MaxRestarts

publishing == <<stage, draft>>
reader     == <<request, got, complete, opened>>
vars == <<now, rows, known, publishing, aired, erased, reader, restarts>>

Message == [channel : Channels, user : Users, ts : 1..MaxTime]
NoDraft == [ts |-> 0]

Kinds == {"latest", "older", "since"}
NoRequest == [at |-> "idle"]

TypeOK ==
  /\ now \in 0..MaxTime
  /\ rows \subseteq Message
  /\ known \subseteq Channels
  /\ stage \in [Publishers -> {"idle", "stamped", "stored"}]
  /\ \A p \in Publishers :
       draft[p] \in (IF stage[p] = "idle" THEN {NoDraft} ELSE Message)
  /\ aired \subseteq Message
  /\ erased \subseteq Message
  /\ request = NoRequest \/
       /\ request.at \in {"asked", "fetched", "served"}
       /\ request.kind \in Kinds
       /\ request.cursor \in 0..MaxTime
       /\ request.page \subseteq Message
       /\ request.newer \subseteq Message
       /\ request.dead \subseteq Message
       /\ Cardinality(request.page) <= Limit
  /\ got \subseteq Message
  /\ complete \in BOOLEAN
  /\ opened \subseteq Message
  /\ restarts \in 0..MaxRestarts

Init ==
  /\ now = 0
  /\ rows = {}
  /\ known = {Home}
  /\ stage = [p \in Publishers |-> "idle"]
  /\ draft = [p \in Publishers |-> NoDraft]
  /\ aired = {}
  /\ erased = {}
  /\ request = NoRequest
  /\ got = {}
  /\ complete = FALSE
  /\ opened = {}
  /\ restarts = 0

Expired(m) == Retention > 0 /\ m.ts + Retention < now

-----------------------------------------------------------------------------
(* Publish: stamp, insert, remember the channel, broadcast.                *)

\* The message gets its timestamp when the handler enters Publish.
Stamp(p, ch, u) ==
  /\ stage[p] = "idle"
  /\ now < MaxTime
  /\ now' = now + 1
  /\ stage' = [stage EXCEPT ![p] = "stamped"]
  /\ draft' = [draft EXCEPT ![p] = [channel |-> ch, user |-> u, ts |-> now + 1]]
  /\ UNCHANGED <<rows, known, aired, erased, reader, restarts>>

\* The INSERT succeeds.
Insert(p) ==
  /\ stage[p] = "stamped"
  /\ rows' = rows \cup {draft[p]}
  /\ stage' = [stage EXCEPT ![p] = "stored"]
  /\ UNCHANGED <<now, known, draft, aired, erased, reader, restarts>>

\* The INSERT fails: the handler answers 500 and nothing is broadcast.
InsertFails(p) ==
  /\ stage[p] = "stamped"
  /\ stage' = [stage EXCEPT ![p] = "idle"]
  /\ draft' = [draft EXCEPT ![p] = NoDraft]
  /\ UNCHANGED <<now, rows, known, aired, erased, reader, restarts>>

\* b.channels under b.mu, hub.BroadcastMessage, the answer with the id.  The
\* table of channels is read by ListChannels alone.
Announce(p) ==
  /\ stage[p] = "stored"
  /\ known' = known \cup {draft[p].channel}
  /\ aired' = aired \cup {draft[p]}
  /\ stage' = [stage EXCEPT ![p] = "idle"]
  /\ draft' = [draft EXCEPT ![p] = NoDraft]
  /\ UNCHANGED <<now, rows, erased, reader, restarts>>

-----------------------------------------------------------------------------
(* Rows disappear: the pruner and the two delete endpoints.                *)

\* [fault] the pruner's comparison admits the row on the boundary.
PruneOneTooMany ==
  /\ Retention > 0
  /\ rows' = {m \in rows : m.ts + Retention > now}
  /\ UNCHANGED <<now, known, publishing, aired, erased, reader, restarts>>

\* PruneOlderThan.  The cutoff is read just before the DELETE runs; an older
\* one would only delete less.
Prune ==
  /\ Retention > 0
  /\ rows' = {m \in rows : ~Expired(m)}
  /\ UNCHANGED <<now, known, publishing, aired, erased, reader, restarts>>

DeleteByUser(u) ==
  LET mine == {m \in rows : m.user = u} IN
  /\ mine # {}
  /\ rows' = rows \ mine
  /\ erased' = erased \cup mine
  /\ UNCHANGED <<now, known, publishing, aired, reader, restarts>>

-----------------------------------------------------------------------------
(* History requests of one reader.  The handler fetches a page and then    *)
(* filters it by the retention window at a later time.                     *)

\* [fault] a page without LIMIT.
WholeOf(S) == S

\* ORDER BY timestamp ... LIMIT: the Limit oldest, the Limit newest messages.
OldestOf(S) == {m \in S : Cardinality({n \in S : n.ts < m.ts}) < Limit}
NewestOf(S) == {m \in S : Cardinality({n \in S : n.ts > m.ts}) < Limit}

FetchBefore(before) ==
  NewestOf({m \in rows : m.channel = Home /\ (before > 0 => m.ts < before)})

\* FetchSince, and the truncation to the limit that handleHistory applies.
NewerThan(since) == {m \in rows : m.channel = Home /\ m.ts > since}
FetchSince(since) == OldestOf(NewerThan(since))

Earliest(S) == CHOOSE t \in {m.ts : m \in S} : \A m \in S : t <= m.ts
Latest(S)   == CHOOSE t \in {m.ts : m \in S} : \A m \in S : t >= m.ts

Cursor(kind) ==
  CASE kind = "latest" -> 0
    [] kind = "older"  -> Earliest(got)
    [] kind = "since"  -> Latest(got)

\* The reader opens the channel, scrolls to older messages or catches up.
\* newer, dead and opened record what the properties compare against.
Ask(kind) ==
  /\ request = NoRequest
  /\ (kind = "latest") <=> (got = {})
  /\ kind # "since" => ~complete
  /\ request' = [at |-> "asked", kind |-> kind, cursor |-> Cursor(kind),
                 page |-> {}, newer |-> {},
                 dead |-> erased \cup {m \in rows : Expired(m)}]
  /\ opened' = IF kind = "latest" THEN {m \in rows : m.channel = Home} ELSE opened
  /\ UNCHANGED <<now, rows, known, publishing, aired, erased, got, complete, restarts>>

\* handleHistory runs its query.
Query ==
  /\ request # NoRequest
  /\ request.at = "asked"
  /\ request' = [request EXCEPT
       !.at = "fetched",
       !.page = IF request.kind = "since" THEN FetchSince(request.cursor)
                                          ELSE FetchBefore(request.cursor),
       !.newer = IF request.kind = "since" THEN NewerThan(request.cursor) ELSE {}]
  /\ UNCHANGED <<now, rows, known, publishing, aired, erased, got, complete,
                 opened, restarts>>

\* [fault] expired rows are left to the pruner.
KeepStale(page) == page

\* applyRetention.
WithinRetention(page) == {m \in page : ~Expired(m)}

ApplyRetention ==
  /\ request # NoRequest
  /\ request.at = "fetched"
  /\ request' = [request EXCEPT !.at = "served",
                                !.page = WithinRetention(request.page)]
  /\ UNCHANGED <<now, rows, known, publishing, aired, erased, got, complete,
                 opened, restarts>>

\* The reader takes the page; one shorter than the limit ends the paging.
Receive ==
  /\ request # NoRequest
  /\ request.at = "served"
  /\ got' = got \cup request.page
  /\ complete' = (complete \/ (/\ request.kind # "since"
                               /\ Cardinality(request.page) < Limit))
  /\ request' = NoRequest
  /\ UNCHANGED <<now, rows, known, publishing, aired, erased, opened, restarts>>

\* The request or its answer is lost; the reader asks again later.
RequestLost ==
  /\ request # NoRequest
  /\ request' = NoRequest
  /\ UNCHANGED <<now, rows, known, publishing, aired, erased, got, complete,
                 opened, restarts>>

-----------------------------------------------------------------------------
Tick ==
  /\ now < MaxTime
  /\ now' = now + 1
  /\ UNCHANGED <<rows, known, publishing, aired, erased, reader, restarts>>

\* The process ends and starts again on the same database: handlers and
\* requests in flight are gone, b.channels is seeded anew.
Restart ==
  /\ restarts < MaxRestarts
  /\ restarts' = restarts + 1
  /\ known' = {Home}
  /\ stage' = [p \in Publishers |-> "idle"]
  /\ draft' = [p \in Publishers |-> NoDraft]
  /\ request' = NoRequest
  /\ UNCHANGED <<now, rows, aired, erased, got, complete, opened>>

Next ==
  \/ \E p \in Publishers :
       \/ \E ch \in Channels, u \in Users : Stamp(p, ch, u)
       \/ Insert(p)
       \/ InsertFails(p)
       \/ Announce(p)
  \/ Prune
  \/ \E u \in Users : DeleteByUser(u)
  \/ \E kind \in Kinds : Ask(kind)
  \/ Query
  \/ ApplyRetention
  \/ Receive
  \/ RequestLost
  \/ Tick
  \/ Restart

Spec == Init /\ [][Next]_vars

-----------------------------------------------------------------------------
(* Properties.                                                             *)

\* Nothing that was acknowledged and broadcast is ever missing from the
\* table, restarts included, unless its window is over or its author asked
\* for its deletion: Publish stores before it broadcasts, the pruner deletes
\* only what is past the window.
AnnouncedIsKept == \A m \in aired : m \in rows \/ Expired(m) \/ m \in erased

\* A page never holds a message that was past the retention window, or
\* deleted by its author, when the request was made, whatever the pruner has
\* or has not swept: docs/RELAY.md, "a stale row is never served".
StaleNeverServed ==
  (request # NoRequest /\ request.at = "served")
     => request.page \cap request.dead = {}

\* Paging backwards until a short page loses nothing: the reader then holds
\* every message that was in the channel when it was opened and still is, in
\* spite of inserts, pruning, deletions, lost requests and restarts between
\* the pages, and although a page is cut to the limit before expired rows are
\* dropped from it.
PagingComplete ==
  complete => \A m \in opened \cap rows : Expired(m) \/ m \in got

\* An empty answer to a since request means that there was nothing newer to
\* give: docs/RELAY.md, "since returns messages strictly newer".
EmptySinceIsCaughtUp ==
  (request # NoRequest /\ request.at = "served" /\ request.kind = "since"
      /\ request.page = {})
     => \A m \in request.newer : Expired(m)
=============================================================================
