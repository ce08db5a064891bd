----------------------------- MODULE IrcAdapter -----------------------------
(***************************************************************************)
(* internal/network/irc/adapter.go: the connect and reconnect loop run,    *)
(* the handlers the girc library calls for the lines of a session, the     *)
(* table of subscribed channels that TUI goroutines write and a reconnect  *)
(* joins again, the table of present nicks, and Disconnect.                *)
(*                                                                         *)
(* The library and the server are external.  A dial returns when its       *)
(* session is over and no handler runs; the handlers run one at a time; a  *)
(* command is carried out when it is sent, or lost with the session.       *)
(* Names are prefixed so that the networks can be checked side by side.    *)
(***************************************************************************)
EXTENDS Naturals, FiniteSets, Sequences

CONSTANTS
  IrcChannels,    \* channels the TUI opens
  IrcNicks,       \* other users
  IrcBuffer,      \* capacity of the events channel
  IrcBudgets      \* bounds: how many sessions the server accepts, how many
                  \* calls the TUI makes, how many lines the server sends

ASSUME IrcAssumption ==
  /\ IrcBuffer \in Nat \ {0}
  /\ IrcBudgets \subseteq [sessions : Nat, calls : Nat, lines : Nat]
  /\ IsFiniteSet(IrcChannels)

VARIABLES
  ircLoop,      \* where run is
  ircBackoff,   \* how often its backoff has been doubled
  ircConnected, \* a.connected: the session has reached CONNECTED
  ircHandler,   \* the handler that runs: where, its event, channels to join
  ircSubs,      \* a.subs
  ircMembers,   \* a.members
  ircEvents,    \* a.events
  ircOpen,      \* a.events is not closed
  ircCancelled, \* a.ctx is cancelled
  ircCloser,    \* where Disconnect is
  ircCalls,     \* Subscribe and Unsubscribe between the table and the command
  ircSession,   \* the connection (external)
  ircJoined,    \* channels the server has us in (external)
  ircHeard,     \* history: channel and nick pairs told in this session
  ircRaced,     \* history: channels on which two of these calls overlapped, until
                \* the next session or a call that is alone
  ircMissed,    \* history: Disconnect came when a dial was about to begin
  ircBudget     \* what is left of the bounds

ircLife  == <<ircLoop, ircBackoff, ircConnected>>
ircStop  == <<ircCancelled, ircCloser, ircMissed>>
ircTable == <<ircSubs, ircCalls, ircRaced>>
ircWho   == <<ircMembers, ircHeard>>
ircVars == <<ircLife, ircStop, ircTable, ircWho, ircHandler, ircEvents, ircOpen,
             ircSession, ircJoined, ircBudget>>

IrcEvent == {"connected", "reconnecting", "message", "users"}
IrcCall  == [op : {"join", "part"}, channel : IrcChannels]
IrcDoublings == 5  \* 2 s doubled five times is cut to maxBackoff, 60 s

IrcIdle == [at |-> "idle", event |-> "users", todo |-> {}]
NoMembers == [c \in IrcChannels |-> {}]

IrcTypeOK ==
  /\ ircLoop \in {"top", "dial", "session", "dialed", "report", "wait", "ended"}
  /\ ircBackoff \in 0..IrcDoublings
  /\ ircConnected \in BOOLEAN
  /\ ircHandler \in [at : {"idle", "line", "status", "copy", "join"},
                     event : IrcEvent, todo : SUBSET IrcChannels]
  /\ ircSubs \subseteq IrcChannels
  /\ ircMembers \in [IrcChannels -> SUBSET IrcNicks]
  /\ ircEvents \in Seq(IrcEvent) /\ Len(ircEvents) <= IrcBuffer
  /\ ircOpen \in BOOLEAN
  /\ ircCancelled \in BOOLEAN
  /\ ircCloser \in {"none", "closing", "returned"}
  /\ ircCalls \subseteq IrcCall
  /\ ircSession \in {"none", "opening", "up"}
  /\ ircJoined \subseteq IrcChannels
  /\ ircHeard \subseteq IrcChannels \X IrcNicks
  /\ ircRaced \subseteq IrcChannels
  /\ ircMissed \in BOOLEAN
  /\ ircBudget \in [sessions : Nat, calls : Nat, lines : Nat]

\* New, then Connect.
IrcInit ==
  /\ ircLoop = "top"
  /\ ircBackoff = 0
  /\ ircConnected = FALSE
  /\ ircHandler = IrcIdle
  /\ ircSubs = {}
  /\ ircMembers = NoMembers
  /\ ircEvents = <<>>
  /\ ircOpen = TRUE
  /\ ircCancelled = FALSE
  /\ ircCloser = "none"
  /\ ircCalls = {}
  /\ ircSession = "none"
  /\ ircJoined = {}
  /\ ircHeard = {}
  /\ ircRaced = {}
  /\ ircMissed = FALSE
  /\ ircBudget \in IrcBudgets

IrcSpend(what) ==
  /\ ircBudget[what] > 0
  /\ ircBudget' = [ircBudget EXCEPT ![what] = @ - 1]

\* emit: sent when there is room, dropped once the context is cancelled; with
\* both, either.
IrcEmit(e) ==
  \/ /\ Len(ircEvents) < IrcBuffer
     /\ ircEvents' = Append(ircEvents, e)
  \/ /\ ircCancelled
     /\ UNCHANGED ircEvents

-----------------------------------------------------------------------------
(* run                                                                     *)

\* The loop returns: closeEvents is deferred.
IrcReturn ==
  /\ ircLoop' = "ended"
  /\ ircOpen' = FALSE

\* The look at the context before a dial.
IrcTop ==
  /\ ircLoop = "top"
  /\ IF ircCancelled
     THEN IrcReturn /\ UNCHANGED ircConnected
     ELSE ircLoop' = "dial" /\ ircConnected' = FALSE /\ UNCHANGED ircOpen
  /\ UNCHANGED <<ircBackoff, ircStop, ircTable, ircWho, ircHandler, ircEvents,
                 ircSession, ircJoined, ircBudget>>

\* a.dial connects, or fails.
IrcDial ==
  /\ ircLoop = "dial"
  /\ \/ /\ IrcSpend("sessions")
        /\ ircSession' = "opening"
        /\ ircHeard' = {}
        /\ ircLoop' = "session"
     \/ /\ ircLoop' = "dialed"
        /\ UNCHANGED <<ircSession, ircHeard, ircBudget>>
  /\ UNCHANGED <<ircBackoff, ircConnected, ircStop, ircTable, ircMembers,
                 ircHandler, ircEvents, ircOpen, ircJoined>>

\* a.dial returns after a session.
IrcDialReturns ==
  /\ ircLoop = "session"
  /\ ircSession = "none"
  /\ ircHandler = IrcIdle
  /\ ircLoop' = "dialed"
  /\ UNCHANGED <<ircBackoff, ircConnected, ircStop, ircTable, ircWho, ircHandler,
                 ircEvents, ircOpen, ircSession, ircJoined, ircBudget>>

\* [fault] the nicks of the last session are kept.
KeepMembers == UNCHANGED ircMembers

ResetMembers == ircMembers' = NoMembers

\* resetMembers, the context again, and the backoff of a session that was one.
IrcDialed ==
  /\ ircLoop = "dialed"
  /\ ResetMembers
  /\ IF ircCancelled
     THEN IrcReturn /\ UNCHANGED ircBackoff
     ELSE /\ ircLoop' = "report"
          /\ ircBackoff' = IF ircConnected THEN 0 ELSE ircBackoff
          /\ UNCHANGED ircOpen
  /\ UNCHANGED <<ircConnected, ircStop, ircTable, ircHeard, ircHandler,
                 ircEvents, ircSession, ircJoined, ircBudget>>

IrcReport ==
  /\ ircLoop = "report"
  /\ IrcEmit("reconnecting")
  /\ ircLoop' = "wait"
  /\ UNCHANGED <<ircBackoff, ircConnected, ircStop, ircTable, ircWho, ircHandler,
                 ircOpen, ircSession, ircJoined, ircBudget>>

\* [fault] the backoff is not cut.
DoubledAlways(backoff) == backoff + 1

\* min(backoff*2, maxBackoff).
Doubled(backoff) == IF backoff < IrcDoublings THEN backoff + 1 ELSE backoff

\* The timer or the context ends the wait.
IrcWait ==
  /\ ircLoop = "wait"
  /\ \/ /\ ircLoop' = "top"
        /\ ircBackoff' = Doubled(ircBackoff)
        /\ UNCHANGED ircOpen
     \/ /\ ircCancelled
        /\ IrcReturn
        /\ UNCHANGED ircBackoff
  /\ UNCHANGED <<ircConnected, ircStop, ircTable, ircWho, ircHandler, ircEvents,
                 ircSession, ircJoined, ircBudget>>

-----------------------------------------------------------------------------
(* The handlers.                                                           *)

InFlight(c) == \E call \in ircCalls : call.channel = c

\* CONNECTED: onConnected begins.  What is not under way any more is over.
IrcWelcome ==
  /\ ircSession = "opening"
  /\ ircHandler = IrcIdle
  /\ ircSession' = "up"
  /\ ircConnected' = TRUE
  /\ ircHandler' = [at |-> "status", event |-> "connected", todo |-> {}]
  /\ ircRaced' = {c \in ircRaced : InFlight(c)}
  /\ UNCHANGED <<ircLoop, ircBackoff, ircStop, ircSubs, ircCalls, ircWho, ircEvents,
                 ircOpen, ircJoined, ircBudget>>

\* The emit at the end of a line's handler, or in the middle of onConnected.
IrcHandlerEmit ==
  /\ ircHandler.at \in {"line", "status"}
  /\ IrcEmit(ircHandler.event)
  /\ ircHandler' = IF ircHandler.at = "line" THEN IrcIdle
                   ELSE [ircHandler EXCEPT !.at = "copy"]
  /\ UNCHANGED <<ircLife, ircStop, ircTable, ircWho, ircOpen, ircSession,
                 ircJoined, ircBudget>>

\* [fault] onConnected joins only what was subscribed when it began.
CopyNothing ==
  /\ ircHandler.at = "copy"
  /\ ircHandler' = IrcIdle
  /\ UNCHANGED <<ircLife, ircStop, ircTable, ircWho, ircEvents, ircOpen,
                 ircSession, ircJoined, ircBudget>>

\* The copy of a.subs under a.mu.
IrcCopySubs ==
  /\ ircHandler.at = "copy"
  /\ ircHandler' = IF ircSubs = {} THEN IrcIdle
                   ELSE [ircHandler EXCEPT !.at = "join", !.todo = ircSubs]
  /\ UNCHANGED <<ircLife, ircStop, ircTable, ircWho, ircEvents, ircOpen,
                 ircSession, ircJoined, ircBudget>>

\* A command on a session that is up takes effect, on another it is lost.
Joining(c) == IF ircSession = "up" THEN ircJoined \cup {c} ELSE ircJoined
Parting(c) == ircJoined \ {c}

IrcRejoin(c) ==
  /\ ircHandler.at = "join"
  /\ c \in ircHandler.todo
  /\ ircJoined' = Joining(c)
  /\ ircHandler' = IF ircHandler.todo = {c} THEN IrcIdle
                   ELSE [ircHandler EXCEPT !.todo = @ \ {c}]
  /\ UNCHANGED <<ircLife, ircStop, ircTable, ircWho, ircEvents, ircOpen,
                 ircSession, ircBudget>>

\* The next line of a session, once the last one's handler is done.
IrcLine(event) ==
  /\ ircSession = "up"
  /\ ircHandler = IrcIdle
  /\ IrcSpend("lines")
  /\ ircHandler' = [at |-> "line", event |-> event, todo |-> {}]
  /\ UNCHANGED <<ircLife, ircStop, ircTable, ircEvents, ircOpen, ircSession,
                 ircJoined>>

\* onMessage; eventToMessage drops what is not chat before it is an event.
OnMessage == IrcLine("message") /\ UNCHANGED ircWho

\* onJoin, and onNames for a list: the nicks join the channel's set.
OnJoinOrNames(c, nicks) ==
  /\ c \in ircJoined
  /\ IrcLine("users")
  /\ ircMembers' = [ircMembers EXCEPT ![c] = @ \cup nicks]
  /\ ircHeard' = ircHeard \cup ({c} \X nicks)

OnPart(c, n) ==
  /\ c \in ircJoined
  /\ IrcLine("users")
  /\ ircMembers' = [ircMembers EXCEPT ![c] = @ \ {n}]
  /\ UNCHANGED ircHeard

OnQuit(n) ==
  /\ IrcLine("users")
  /\ ircMembers' = [c \in IrcChannels |-> ircMembers[c] \ {n}]
  /\ UNCHANGED ircHeard

\* The server or the network ends the session; girc notices.
IrcBreak ==
  /\ ircSession # "none"
  /\ ircSession' = "none"
  /\ ircJoined' = {}
  /\ UNCHANGED <<ircLife, ircStop, ircTable, ircWho, ircHandler, ircEvents,
                 ircOpen, ircBudget>>

-----------------------------------------------------------------------------
(* The TUI's goroutines.                                                   *)

\* Subscribe up to the unlock of a.mu.
IrcSubscribe(c) ==
  LET call == [op |-> "join", channel |-> c] IN
  /\ call \notin ircCalls
  /\ IrcSpend("calls")
  /\ ircSubs' = ircSubs \cup {c}
  /\ ircCalls' = ircCalls \cup {call}
  /\ ircRaced' = IF InFlight(c) THEN ircRaced \cup {c} ELSE ircRaced \ {c}
  /\ UNCHANGED <<ircLife, ircStop, ircWho, ircHandler, ircEvents, ircOpen,
                 ircSession, ircJoined>>

\* Unsubscribe up to the unlock; onConnected may still hold an older copy.
IrcUnsubscribe(c) ==
  LET call == [op |-> "part", channel |-> c] IN
  /\ call \notin ircCalls
  /\ IrcSpend("calls")
  /\ ircSubs' = ircSubs \ {c}
  /\ ircCalls' = ircCalls \cup {call}
  /\ ircRaced' = IF InFlight(c) \/ c \in ircHandler.todo
                 THEN ircRaced \cup {c} ELSE ircRaced \ {c}
  /\ UNCHANGED <<ircLife, ircStop, ircWho, ircHandler, ircEvents, ircOpen,
                 ircSession, ircJoined>>

\* IsConnected and the command.
IrcCommand(call) ==
  /\ call \in ircCalls
  /\ ircCalls' = ircCalls \ {call}
  /\ ircJoined' = IF call.op = "join" THEN Joining(call.channel)
                                      ELSE Parting(call.channel)
  /\ UNCHANGED <<ircLife, ircStop, ircSubs, ircRaced, ircWho, ircHandler,
                 ircEvents, ircOpen, ircSession, ircBudget>>

\* [fault] Disconnect closes the event channel itself.
DisconnectCloses ==
  /\ ircCloser = "none"
  /\ ircCancelled' = TRUE
  /\ ircCloser' = "closing"
  /\ ircOpen' = FALSE
  /\ UNCHANGED <<ircLife, ircMissed, ircTable, ircWho, ircHandler, ircEvents,
                 ircSession, ircJoined, ircBudget>>

\* Disconnect cancels the context ...
IrcDisconnect ==
  /\ ircCloser = "none"
  /\ ircCancelled' = TRUE
  /\ ircCloser' = "closing"
  /\ UNCHANGED <<ircLife, ircMissed, ircTable, ircWho, ircHandler, ircEvents,
                 ircOpen, ircSession, ircJoined, ircBudget>>

\* ... and closes the client, which ends the session in being.  run may be past
\* its look at the context with the session still to come: nothing ends that.
IrcClose ==
  /\ ircCloser = "closing"
  /\ ircCloser' = "returned"
  /\ ircSession' = "none"
  /\ ircJoined' = {}
  /\ ircMissed' = (ircLoop = "dial")
  /\ UNCHANGED <<ircLife, ircCancelled, ircTable, ircWho, ircHandler, ircEvents,
                 ircOpen, ircBudget>>

IrcReceive ==
  /\ ircEvents # <<>>
  /\ ircEvents' = Tail(ircEvents)
  /\ UNCHANGED <<ircLife, ircStop, ircTable, ircWho, ircHandler, ircOpen,
                 ircSession, ircJoined, ircBudget>>

-----------------------------------------------------------------------------
IrcRun == IrcTop \/ IrcDial \/ IrcDialReturns \/ IrcDialed \/ IrcReport \/ IrcWait

IrcHandle ==
  \/ IrcHandlerEmit
  \/ IrcCopySubs
  \/ \E c \in IrcChannels : IrcRejoin(c)

IrcServer ==
  \/ IrcWelcome
  \/ OnMessage
  \/ \E c \in IrcChannels :
       \/ \E nicks \in SUBSET IrcNicks : OnJoinOrNames(c, nicks)
       \/ \E n \in IrcNicks : OnPart(c, n)
  \/ \E n \in IrcNicks : OnQuit(n)
  \/ IrcBreak

IrcUser ==
  \/ \E c \in IrcChannels : IrcSubscribe(c) \/ IrcUnsubscribe(c)
  \/ \E call \in IrcCall : IrcCommand(call)
  \/ IrcDisconnect
  \/ IrcClose
  \/ IrcReceive

IrcNext == IrcRun \/ IrcHandle \/ IrcServer \/ IrcUser

IrcSpec == IrcInit /\ [][IrcNext]_ircVars

\* The goroutines of the adapter run; a call of Disconnect that has begun goes
\* on.  Nothing is asked of the server, of the network or of the TUI.
IrcFairness ==
  /\ WF_ircVars(IrcRun)
  /\ WF_ircVars(IrcHandle)
  /\ WF_ircVars(IrcClose)

-----------------------------------------------------------------------------
(* Properties.                                                             *)

IrcOffered ==
  IF ircLoop = "report" THEN "reconnecting"
  ELSE IF ircHandler.at \in {"line", "status"} THEN ircHandler.event
  ELSE "none"

Irc == INSTANCE EventStream WITH
         Events <- IrcEvent, NoEvent <- "none", Capacity <- IrcBuffer,
         queue <- ircEvents, offered <- IrcOffered, open <- ircOpen,
         stopping <- ircCancelled

\* The adapter is an event stream: what a handler or the loop has begun to send
\* arrives, however slow the TUI, until Disconnect; the channel is closed once,
\* only after that, and no handler sends on it afterwards, whatever was blocked
\* on a full channel at that moment.
IrcIsStream == Irc!StreamSpec

\* With no call and no handler under way, a session that is up is in exactly
\* the channels that are subscribed, over any number of reconnects.  Two calls
\* for one channel that overlap, or one that overlaps the join of an older copy of
\* the table, can leave it otherwise, but no longer than to the next reconnect or
\* to the next call for that channel that is alone.
JoinedIsSubscribed ==
  (ircSession = "up" /\ ircHandler = IrcIdle /\ ircCalls = {})
    => \A c \in IrcChannels \ ircRaced : c \in ircJoined <=> c \in ircSubs

\* Who is listed was announced in this session: nobody is carried over from the
\* one before, during which they may have left.
NoNickAcrossSessions ==
  ircSession = "up" => \A c \in IrcChannels : {c} \X ircMembers[c] \subseteq ircHeard

\* Disconnect closes the event channel in the end, also when a handler or the
\* loop is blocked on it and nobody reads any more, unless it fell between the
\* loop's look at the context and the dial, when the session that follows is
\* left to the server.
IrcCloses == ircCancelled ~> (~ircOpen \/ ircMissed)
=============================================================================
