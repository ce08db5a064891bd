---------------------------- MODULE MatrixHistory ----------------------------
(***************************************************************************)
(* Paging backwards through a Matrix room: FetchHistory with its table of  *)
(* pagination tokens (network/matrix/adapter.go) and the part of the TUI   *)
(* that opens the room, asks for pages, merges them and decides when there *)
(* are no more (tui/tui.go).                                               *)
(*                                                                         *)
(* The user leaves the room and opens it again; its events are numbered    *)
(* from the oldest.  The homeserver is external: it answers with the       *)
(* events before a position and with the position where the next page      *)
(* begins, or with no token when there is none.  Of two calls that are     *)
(* alike one is kept, and a list stays below the 1000 lines at which a     *)
(* live message cuts it.  Names are prefixed so that the networks can be   *)
(* checked side by side.                                                   *)
(***************************************************************************)
EXTENDS MatrixEvents, Naturals, FiniteSets, Sequences, FiniteSetsExt

CONSTANTS
  PageLimit,  \* the limit the TUI asks with, and compares an answer with
  RoomKinds,  \* kinds of events the room has
  MaxEvents,  \* bound: events of the room
  MaxOpens    \* bound: how often the room is opened

ASSUME MatrixHistoryAssumption ==
  /\ PageLimit \in Nat \ {0}
  /\ RoomKinds \subseteq EventKinds
  /\ MaxEvents \in Nat \ {0} /\ MaxOpens \in Nat

VARIABLES
  mhRoom,      \* the kinds of its events, oldest first (external)
  mhToken,     \* a.histTokens: where the next page ends, 0 for ""
  mhCalls,     \* calls of FetchHistory between the read of the token and the answer
  mhAnswers,   \* FetchResultMsg and localHistoryMsg on their way to Update
  mhShown,     \* m.channel is the room
  mhScreen,    \* m.msgs: events of the room in it
  mhDisk,      \* the local store: events of the room in it
  mhLoading,   \* m.loadingHistory
  mhAllLoaded, \* m.allHistoryLoaded
  mhLoaded,    \* m.historyLoaded
  mhStray,     \* history: positions of before this opening, and what followed them
  mhOpens      \* bounded by MaxOpens

mhFlags == <<mhLoading, mhAllLoaded, mhLoaded>>
mhView  == <<mhShown, mhScreen, mhOpens>>
mhVars  == <<mhRoom, mhToken, mhCalls, mhAnswers, mhView, mhDisk, mhFlags, mhStray>>

Positions == 1..MaxEvents
HistoryCall == [from : 0..MaxEvents, cursor : BOOLEAN]

MhTypeOK ==
  /\ mhRoom \in Seq(RoomKinds \cup {"text"}) /\ Len(mhRoom) <= MaxEvents
  /\ mhToken \in 0..MaxEvents
  /\ mhCalls \subseteq HistoryCall
  /\ mhAnswers \subseteq [kind : {"page", "local", "error"}, page : SUBSET Positions]
  /\ {mhShown, mhLoading, mhAllLoaded, mhLoaded} \subseteq BOOLEAN
  /\ mhStray \subseteq 0..MaxEvents
  /\ {mhScreen, mhDisk} \subseteq SUBSET Positions
  /\ mhOpens \in 0..MaxOpens

\* Another channel is on screen.
MhInit ==
  /\ mhRoom \in UNION {[1..n -> RoomKinds] : n \in 1..MaxEvents}
  /\ mhToken = 0
  /\ mhCalls = {}
  /\ mhAnswers = {}
  /\ mhShown = FALSE
  /\ mhScreen = {}
  /\ mhDisk = {}
  /\ mhLoading = FALSE
  /\ mhAllLoaded = FALSE
  /\ mhLoaded = FALSE
  /\ mhStray = {}
  /\ mhOpens = 0

-----------------------------------------------------------------------------
(* The TUI asks.                                                           *)

\* The newest of a set of events, as many as a page has.
NewestPage(s) == {i \in s : Cardinality({j \in s : j > i}) < PageLimit}

\* [fault] an opening goes on from where the last paging ended.
TokenAlways(cursor) == mhToken

\* The token a call begins with: none without a cursor.
TokenFor(cursor) == IF cursor THEN mhToken ELSE 0

MhCall(cursor) ==
  mhCalls' = mhCalls \cup {[from |-> TokenFor(cursor), cursor |-> cursor]}

\* SwitchChannelMsg of the room, also when it is on screen: an empty list, the
\* local store and a page.  An older page stays marked as under way.
OpenRoom ==
  /\ mhOpens < MaxOpens
  /\ mhOpens' = mhOpens + 1
  /\ mhShown' = TRUE
  /\ mhScreen' = {}
  /\ mhAllLoaded' = FALSE
  /\ mhLoaded' = FALSE
  /\ MhCall(FALSE)
  /\ mhStray' = {mhToken} \cup {call.from : call \in mhCalls}
  /\ mhAnswers' = mhAnswers \cup {[kind |-> "local", page |-> NewestPage(mhDisk)]}
  /\ UNCHANGED <<mhRoom, mhToken, mhDisk, mhLoading>>

\* SwitchChannelMsg of another channel.
LeaveRoom ==
  /\ mhShown
  /\ mhShown' = FALSE
  /\ mhScreen' = {}
  /\ mhAllLoaded' = FALSE
  /\ mhLoaded' = FALSE
  /\ UNCHANGED <<mhRoom, mhToken, mhCalls, mhAnswers, mhOpens, mhDisk, mhLoading,
                 mhStray>>

\* The page of another channel arrives there.
OtherPage ==
  /\ ~mhShown
  /\ mhLoading' = FALSE
  /\ UNCHANGED <<mhRoom, mhToken, mhCalls, mhAnswers, mhView, mhDisk, mhAllLoaded,
                 mhLoaded, mhStray>>

\* /history, and scrolling up, which asks for historyLoaded too: with a cursor,
\* which only says to go on from the token.
LoadOlder ==
  /\ mhShown
  /\ ~mhLoading /\ ~mhAllLoaded
  /\ mhLoading' = TRUE
  /\ MhCall(TRUE)
  /\ UNCHANGED <<mhRoom, mhToken, mhAnswers, mhView, mhDisk, mhAllLoaded, mhLoaded,
                 mhStray>>

-----------------------------------------------------------------------------
(* FetchHistory.                                                           *)

\* A page of events up to a position, the newest ones for 0 (external).
Chunk(from) ==
  LET last == IF from = 0 THEN Len(mhRoom) ELSE from
  IN  {i \in 1..last : i > last - PageLimit}

\* Where the page after it begins; no token at the start of the room (external).
End(from) == Min(Chunk(from)) - 1

InHistory(i) == InPage(mhRoom[i])

\* A page that goes on from a position of before this opening.
Stray(call) == call.cursor /\ call.from \in mhStray \ {0}

\* The homeserver answers: the token is stored, the chunk filtered.
Answer(call) ==
  /\ mhCalls' = mhCalls \ {call}
  /\ mhToken' = End(call.from)
  /\ mhAnswers' = mhAnswers \cup {[kind |-> "page",
                                   page |-> {i \in Chunk(call.from) : InHistory(i)}]}
  /\ mhStray' = IF Stray(call) THEN mhStray \cup {mhToken'} ELSE mhStray \ {mhToken'}
  /\ UNCHANGED <<mhRoom, mhView, mhDisk, mhFlags>>

FetchFails(call) ==
  /\ mhCalls' = mhCalls \ {call}
  /\ mhAnswers' = mhAnswers \cup {[kind |-> "error", page |-> {}]}
  /\ UNCHANGED <<mhRoom, mhToken, mhView, mhDisk, mhFlags, mhStray>>

-----------------------------------------------------------------------------
(* Update.                                                                 *)

\* FetchResultMsg: a page shorter than the limit is taken for the last; what it
\* has is shown and stored.  Without an answer the user may ask again.
OnFetchResult(a) ==
  /\ a.kind # "local"
  /\ mhAnswers' = mhAnswers \ {a}
  /\ IF mhShown
     THEN /\ mhLoading' = FALSE
          /\ mhAllLoaded' = (mhAllLoaded \/ (a.kind = "page"
                                             /\ Cardinality(a.page) < PageLimit))
          /\ mhLoaded' = (mhLoaded \/ a.page # {})
          /\ mhScreen' = mhScreen \cup a.page
          /\ mhDisk' = mhDisk \cup a.page
     ELSE UNCHANGED <<mhFlags, mhScreen, mhDisk>>
  /\ UNCHANGED <<mhRoom, mhToken, mhCalls, mhShown, mhOpens, mhStray>>

\* localHistoryMsg.
OnLocalHistory(a) ==
  /\ a.kind = "local"
  /\ mhAnswers' = mhAnswers \ {a}
  /\ IF mhShown
     THEN /\ mhScreen' = mhScreen \cup a.page
          /\ mhLoaded' = (mhLoaded \/ a.page # {})
     ELSE UNCHANGED <<mhScreen, mhLoaded>>
  /\ UNCHANGED <<mhRoom, mhToken, mhCalls, mhShown, mhOpens, mhDisk, mhLoading,
                 mhAllLoaded, mhStray>>

\* A live message, at once at the homeserver and in the TUI: shown or not, it is
\* stored.
LiveMessage ==
  /\ Len(mhRoom) < MaxEvents
  /\ mhRoom' = Append(mhRoom, "text")
  /\ mhScreen' = IF mhShown THEN mhScreen \cup {Len(mhRoom')} ELSE mhScreen
  /\ mhDisk' = mhDisk \cup {Len(mhRoom')}
  /\ UNCHANGED <<mhToken, mhCalls, mhAnswers, mhShown, mhOpens, mhFlags, mhStray>>

-----------------------------------------------------------------------------
MhNext ==
  \/ OpenRoom \/ LeaveRoom \/ OtherPage \/ LoadOlder \/ LiveMessage
  \/ \E call \in mhCalls : Answer(call) \/ FetchFails(call)
  \/ \E a \in mhAnswers : OnFetchResult(a) \/ OnLocalHistory(a)

MhSpec == MhInit /\ [][MhNext]_mhVars

-----------------------------------------------------------------------------
(* Properties.                                                             *)

MhQuiet == mhShown /\ mhCalls = {} /\ mhAnswers = {}

\* What the room has that the TUI would show.
MhMessages == {i \in 1..Len(mhRoom) : InHistory(i)}

\* The pages of an opening join: no message lies between what is on screen and
\* where the next page will begin, over live messages, other channels, openings,
\* pages that fail or arrive late, and calls under way at once.  The one exception
\* is a token that was read before the room was opened, by a page that was still
\* under way or by one that was asked for before the first had come, and is
\* answered last: until a page from the newest message is answered after it.
PagesJoin ==
  MhQuiet /\ mhToken \notin mhStray
    => {i \in MhMessages : i > mhToken} \subseteq mhScreen

\* When the TUI has stopped asking for older messages because there are none,
\* every message of the room is on screen.
AllLoadedMeansAll == MhQuiet /\ mhAllLoaded => MhMessages \subseteq mhScreen
==============================================================================
