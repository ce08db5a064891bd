------------------------------ MODULE IrcProofs ------------------------------
(***************************************************************************)
(* Proofs about IrcAdapter, for any channels and nicks, an events channel  *)
(* of every capacity, and any number of sessions, calls and lines.         *)
(***************************************************************************)
EXTENDS IrcAdapter, TLAPS

-----------------------------------------------------------------------------
(* Types.                                                                  *)

\* What is told apart by arithmetic, records and sequences ...
FlowTypes ==
  /\ ircLoop \in {"top", "dial", "session", "dialed", "report", "wait", "ended"}
  /\ ircBackoff \in 0..IrcDoublings
  /\ ircHandler \in [at : {"idle", "line", "status", "copy", "join"},
                     event : IrcEvent, todo : SUBSET IrcChannels]
  /\ ircEvents \in Seq(IrcEvent) /\ Len(ircEvents) <= IrcBuffer
  /\ ircCloser \in {"none", "closing", "returned"}
  /\ ircSession \in {"none", "opening", "up"}
  /\ ircBudget \in [sessions : Nat, calls : Nat, lines : Nat]

\* ... the tables ...
TableTypes ==
  /\ ircSubs \subseteq IrcChannels
  /\ ircMembers \in [IrcChannels -> SUBSET IrcNicks]
  /\ ircCalls \subseteq IrcCall
  /\ ircJoined \subseteq IrcChannels
  /\ ircHeard \subseteq IrcChannels \X IrcNicks
  /\ ircRaced \subseteq IrcChannels

\* ... and what is true or false.
FlagTypes ==
  /\ ircConnected \in BOOLEAN
  /\ ircOpen \in BOOLEAN
  /\ ircCancelled \in BOOLEAN
  /\ ircMissed \in BOOLEAN

LEMMA TypesSplit == FlowTypes /\ TableTypes /\ FlagTypes => IrcTypeOK
  BY Zenon DEF FlowTypes, TableTypes, FlagTypes, IrcTypeOK

LEMMA InitTypes == IrcInit => FlowTypes /\ TableTypes /\ FlagTypes
<1> SUFFICES ASSUME IrcInit PROVE FlowTypes /\ TableTypes /\ FlagTypes
  OBVIOUS
<1>1. FlowTypes
  BY IrcAssumption DEF IrcInit, FlowTypes, IrcDoublings, IrcIdle, IrcEvent
<1>2. TableTypes
  BY DEF IrcInit, TableTypes, NoMembers
<1>3. FlagTypes
  BY Zenon DEF IrcInit, FlagTypes
<1>4. QED
  BY <1>1, <1>2, <1>3

\* What a send leaves in the events channel.
LEMMA EmitTypes ==
  ASSUME FlowTypes, NEW e \in IrcEvent, IrcEmit(e)
  PROVE  ircEvents' \in Seq(IrcEvent) /\ Len(ircEvents') <= IrcBuffer
  BY IrcAssumption DEF IrcEmit, FlowTypes

LEMMA SpendTypes ==
  ASSUME FlowTypes, NEW what \in {"sessions", "calls", "lines"}, IrcSpend(what)
  PROVE  ircBudget' \in [sessions : Nat, calls : Nat, lines : Nat]
  BY DEF IrcSpend, FlowTypes

LEMMA FlowTypesStep ==
  FlowTypes /\ TableTypes /\ [IrcNext]_ircVars => FlowTypes'
<1> SUFFICES ASSUME FlowTypes, TableTypes, [IrcNext]_ircVars PROVE FlowTypes'
  OBVIOUS
<1> USE DEF ircLife, ircStop, ircTable, ircWho
<1>1. CASE IrcTop \/ IrcDialReturns
  BY <1>1 DEF IrcTop, IrcDialReturns, IrcReturn, FlowTypes
<1>2. CASE IrcDial
  BY <1>2, SpendTypes DEF IrcDial, FlowTypes
<1>3. CASE IrcDialed \/ IrcWait
  BY <1>3 DEF IrcDialed, IrcWait, IrcReturn, FlowTypes, Doubled, IrcDoublings
<1>4. CASE IrcReport
  <2>1. ircEvents' \in Seq(IrcEvent) /\ Len(ircEvents') <= IrcBuffer
    BY <1>4, EmitTypes DEF IrcReport, IrcEvent
  <2>2. QED
    BY <1>4, <2>1 DEF IrcReport, FlowTypes
<1>5. CASE IrcHandlerEmit
  <2>1. ircEvents' \in Seq(IrcEvent) /\ Len(ircEvents') <= IrcBuffer
    BY <1>5, EmitTypes DEF IrcHandlerEmit, FlowTypes
  <2>2. QED
    BY <1>5, <2>1 DEF IrcHandlerEmit, FlowTypes, IrcIdle, IrcEvent
<1>6. CASE IrcCopySubs
  BY <1>6 DEF IrcCopySubs, FlowTypes, TableTypes, IrcIdle, IrcEvent
<1>7. ASSUME NEW c \in IrcChannels, IrcRejoin(c) PROVE FlowTypes'
  BY <1>7 DEF IrcRejoin, FlowTypes, IrcIdle, IrcEvent
<1>8. CASE IrcWelcome
  BY <1>8 DEF IrcWelcome, FlowTypes, IrcEvent
<1>9. ASSUME NEW e \in {"message", "users"}, IrcLine(e) PROVE FlowTypes'
  BY <1>9, SpendTypes DEF IrcLine, FlowTypes, IrcEvent
<1>10. CASE IrcBreak \/ IrcDisconnect \/ IrcClose
  BY <1>10 DEF IrcBreak, IrcDisconnect, IrcClose, FlowTypes
<1>11. ASSUME NEW c \in IrcChannels, IrcSubscribe(c) \/ IrcUnsubscribe(c)
       PROVE  FlowTypes'
  BY <1>11, SpendTypes DEF IrcSubscribe, IrcUnsubscribe, FlowTypes
<1>12. CASE IrcReceive
  BY <1>12, IrcAssumption DEF IrcReceive, FlowTypes
<1>13. CASE UNCHANGED <<ircLoop, ircBackoff, ircHandler, ircEvents, ircCloser,
                        ircSession, ircBudget>>
  BY <1>13 DEF FlowTypes
<1>14. ASSUME NEW call \in IrcCall, IrcCommand(call) PROVE FlowTypes'
  BY <1>13, <1>14 DEF IrcCommand
<1>15. QED
  BY <1>1, <1>2, <1>3, <1>4, <1>5, <1>6, <1>7, <1>8, <1>9, <1>10, <1>11, <1>12,
     <1>13, <1>14
  DEF IrcNext, IrcRun, IrcHandle, IrcServer, IrcUser, ircVars, OnMessage,
      OnJoinOrNames, OnPart, OnQuit

LEMMA TableTypesStep == TableTypes /\ [IrcNext]_ircVars => TableTypes'
<1> SUFFICES ASSUME TableTypes, [IrcNext]_ircVars PROVE TableTypes'
  OBVIOUS
<1> USE DEF TableTypes, ircLife, ircStop, ircTable, ircWho
<1>1. CASE IrcRun
  BY <1>1 DEF IrcRun, IrcTop, IrcDial, IrcDialReturns, IrcDialed, ResetMembers,
              NoMembers, IrcReport, IrcWait
<1>2. CASE IrcHandlerEmit \/ IrcCopySubs \/ IrcWelcome \/ OnMessage
  BY <1>2 DEF IrcHandlerEmit, IrcCopySubs, IrcWelcome, OnMessage, IrcLine
<1>3. ASSUME NEW c \in IrcChannels, IrcRejoin(c) PROVE TableTypes'
  BY <1>3 DEF IrcRejoin, Joining
<1>4. ASSUME NEW c \in IrcChannels, NEW nicks \in SUBSET IrcNicks,
             OnJoinOrNames(c, nicks)
      PROVE  TableTypes'
  BY <1>4 DEF OnJoinOrNames, IrcLine
<1>5. ASSUME NEW n \in IrcNicks, OnQuit(n) \/ \E c \in IrcChannels : OnPart(c, n)
      PROVE  TableTypes'
  BY <1>5 DEF OnPart, OnQuit, IrcLine
<1>6. CASE IrcBreak \/ IrcDisconnect \/ IrcClose \/ IrcReceive
  BY <1>6 DEF IrcBreak, IrcDisconnect, IrcClose, IrcReceive
<1>7. ASSUME NEW c \in IrcChannels, IrcSubscribe(c) \/ IrcUnsubscribe(c)
      PROVE  TableTypes'
  BY <1>7 DEF IrcSubscribe, IrcUnsubscribe, IrcCall
<1>8. ASSUME NEW call \in IrcCall, IrcCommand(call) PROVE TableTypes'
  BY <1>8 DEF IrcCommand, IrcCall, Joining, Parting
<1>9. CASE UNCHANGED ircVars
  BY <1>9 DEF ircVars
<1>10. QED
  BY <1>1, <1>2, <1>3, <1>4, <1>5, <1>6, <1>7, <1>8, <1>9
  DEF IrcNext, IrcHandle, IrcServer, IrcUser

LEMMA FlagTypesStep == FlagTypes /\ [IrcNext]_ircVars => FlagTypes'
<1> SUFFICES ASSUME FlagTypes, [IrcNext]_ircVars PROVE FlagTypes'
  OBVIOUS
<1> USE DEF FlagTypes
<1>1. CASE UNCHANGED <<ircConnected, ircOpen, ircCancelled, ircMissed>>
  BY <1>1
<1>2. CASE IrcTop
  BY <1>2, Zenon DEF IrcTop, IrcReturn, ircStop
<1>3. CASE IrcDialed
  BY <1>3, Zenon DEF IrcDialed, IrcReturn, ircStop
<1>4. CASE IrcWait
  BY <1>4, Zenon DEF IrcWait, IrcReturn, ircStop
<1>5. CASE IrcWelcome
  BY <1>5, Zenon DEF IrcWelcome, ircStop
<1>6. CASE IrcDisconnect
  BY <1>6, Zenon DEF IrcDisconnect, ircLife
<1>7. CASE IrcClose
  BY <1>7, Zenon DEF IrcClose, ircLife
<1>8. QED
  BY <1>1, <1>2, <1>3, <1>4, <1>5, <1>6, <1>7
  DEF IrcNext, IrcRun, IrcHandle, IrcServer, IrcUser, ircVars, ircLife, ircStop,
      IrcDial, IrcDialReturns, IrcReport, IrcHandlerEmit, IrcCopySubs, IrcRejoin,
      OnMessage, OnJoinOrNames, OnPart, OnQuit, IrcLine, IrcBreak, IrcSubscribe,
      IrcUnsubscribe, IrcCommand, IrcReceive

LEMMA TypesInvariance == IrcSpec => [](FlowTypes /\ TableTypes /\ FlagTypes)
  BY InitTypes, FlowTypesStep, TableTypesStep, FlagTypesStep, PTL DEF IrcSpec

\* Type correctness: the events channel never holds more than its capacity, and
\* the backoff never exceeds maxBackoff (irc/adapter.go).
THEOREM IrcTypeCorrect == IrcSpec => []IrcTypeOK
  BY TypesInvariance, TypesSplit, PTL

-----------------------------------------------------------------------------
(* Sessions: who runs when.                                                *)

\* A session and its handlers live inside a dial; the channel is closed as the
\* loop returns.
SessionInv ==
  /\ ircOpen <=> ircLoop # "ended"
  /\ ircSession # "none" => ircLoop = "session"
  /\ ircLoop # "session" => ircHandler = IrcIdle
  /\ ircSession = "opening" => ircHandler = IrcIdle
  /\ ircSession # "up" => ircJoined = {}

\* What a handler holds: only the one that joins has channels left to join.
HandlerInv ==
  /\ ircHandler.at = "idle" => ircHandler = IrcIdle
  /\ ircHandler.at = "join" <=> ircHandler.todo # {}

LEMMA HandlerStep == FlowTypes /\ HandlerInv /\ [IrcNext]_ircVars => HandlerInv'
<1> SUFFICES ASSUME FlowTypes, HandlerInv, [IrcNext]_ircVars PROVE HandlerInv'
  OBVIOUS
<1> USE DEF HandlerInv, ircLife, ircStop, ircTable, ircWho
<1>1. CASE UNCHANGED ircHandler
  BY <1>1
<1>2. CASE IrcHandlerEmit
  BY <1>2 DEF IrcHandlerEmit, IrcIdle, FlowTypes
<1>3. CASE IrcCopySubs
  BY <1>3 DEF IrcCopySubs, IrcIdle, FlowTypes
<1>4. ASSUME NEW c \in IrcChannels, IrcRejoin(c) PROVE HandlerInv'
  BY <1>4 DEF IrcRejoin, IrcIdle, FlowTypes
<1>5. CASE IrcWelcome
  BY <1>5 DEF IrcWelcome
<1>6. ASSUME NEW e, IrcLine(e) PROVE HandlerInv'
  BY <1>6 DEF IrcLine
<1>7. QED
  BY <1>1, <1>2, <1>3, <1>4, <1>5, <1>6
  DEF IrcNext, IrcRun, IrcHandle, IrcServer, IrcUser, ircVars, IrcTop, IrcDial,
      IrcDialReturns, IrcDialed, IrcReport, IrcWait, OnMessage, OnJoinOrNames,
      OnPart, OnQuit, IrcBreak, IrcSubscribe, IrcUnsubscribe, IrcCommand,
      IrcDisconnect, IrcClose, IrcReceive

LEMMA SessionStep ==
  FlowTypes /\ SessionInv /\ [IrcNext]_ircVars => SessionInv'
<1> SUFFICES ASSUME FlowTypes, SessionInv, [IrcNext]_ircVars PROVE SessionInv'
  OBVIOUS
<1> USE DEF SessionInv, ircLife, ircStop, ircTable, ircWho
<1>1. CASE IrcRun
  BY <1>1 DEF IrcRun, IrcTop, IrcDial, IrcDialReturns, IrcDialed, IrcReport,
              IrcWait, IrcReturn, FlowTypes
<1>2. CASE UNCHANGED <<ircLoop, ircOpen, ircSession, ircJoined, ircHandler>>
  BY <1>2
<1>3. CASE IrcHandlerEmit \/ IrcCopySubs
  BY <1>3 DEF IrcHandlerEmit, IrcCopySubs, IrcIdle
<1>4. ASSUME NEW c \in IrcChannels, IrcRejoin(c) PROVE SessionInv'
  BY <1>4 DEF IrcRejoin, Joining, IrcIdle
<1>5. CASE IrcWelcome
  BY <1>5 DEF IrcWelcome
<1>6. ASSUME NEW e, IrcLine(e), UNCHANGED <<ircLoop, ircOpen>> PROVE SessionInv'
  BY <1>6 DEF IrcLine
<1>7. CASE IrcBreak \/ IrcClose
  BY <1>7 DEF IrcBreak, IrcClose
<1>8. ASSUME NEW call \in IrcCall, IrcCommand(call) PROVE SessionInv'
  BY <1>8 DEF IrcCommand, Joining, Parting
<1>9. QED
  BY <1>1, <1>2, <1>3, <1>4, <1>5, <1>6, <1>7, <1>8
  DEF IrcNext, IrcHandle, IrcServer, IrcUser, ircVars, OnMessage, OnJoinOrNames,
      OnPart, OnQuit, IrcLine, IrcSubscribe, IrcUnsubscribe, IrcDisconnect,
      IrcReceive

LEMMA SessionInvariance == IrcSpec => [](SessionInv /\ HandlerInv)
<1>1. IrcInit => SessionInv /\ HandlerInv
  BY DEF IrcInit, SessionInv, HandlerInv, IrcIdle
<1>2. QED
  BY <1>1, HandlerStep, SessionStep, TypesInvariance, PTL DEF IrcSpec

-----------------------------------------------------------------------------
(* Who is listed.                                                          *)

\* The table is empty from resetMembers to the session, and holds no more than
\* was heard in it.
MembersInv ==
  /\ ircLoop \in {"top", "dial", "report", "wait"} => ircMembers = NoMembers
  /\ ircLoop = "session" => \A c \in IrcChannels : {c} \X ircMembers[c] \subseteq ircHeard

LEMMA MembersStep ==
  TableTypes /\ SessionInv /\ MembersInv /\ [IrcNext]_ircVars => MembersInv'
<1> SUFFICES ASSUME TableTypes, SessionInv, MembersInv, [IrcNext]_ircVars
             PROVE  MembersInv'
  OBVIOUS
<1> USE DEF MembersInv, ircLife, ircStop, ircTable, ircWho
<1>1. CASE IrcDial
  BY <1>1 DEF IrcDial, NoMembers
<1>2. CASE IrcTop \/ IrcDialReturns \/ IrcDialed \/ IrcReport \/ IrcWait
  BY <1>2 DEF IrcTop, IrcDialReturns, IrcDialed, IrcReport, IrcWait, ResetMembers,
              NoMembers, IrcReturn
<1>3. ASSUME NEW c \in IrcChannels, NEW nicks \in SUBSET IrcNicks,
             OnJoinOrNames(c, nicks)
      PROVE  MembersInv'
  <2>1. /\ ircLoop = "session" /\ ircLoop' = "session"
        /\ ircMembers' = [ircMembers EXCEPT ![c] = @ \cup nicks]
        /\ ircHeard' = ircHeard \cup ({c} \X nicks)
    BY <1>3 DEF OnJoinOrNames, IrcLine, SessionInv
  <2>2. QED
    BY <2>1 DEF TableTypes
<1>4. ASSUME NEW n \in IrcNicks, OnQuit(n) \/ \E c \in IrcChannels : OnPart(c, n)
      PROVE  MembersInv'
  <2>1. /\ ircLoop = "session" /\ ircLoop' = "session" /\ ircHeard' = ircHeard
        /\ \A c \in IrcChannels : ircMembers'[c] \subseteq ircMembers[c]
    BY <1>4 DEF OnPart, OnQuit, IrcLine, SessionInv, TableTypes
  <2>2. QED
    BY <2>1
<1>5. CASE UNCHANGED <<ircLoop, ircMembers, ircHeard>>
  BY <1>5
<1>6. QED
  BY <1>1, <1>2, <1>3, <1>4, <1>5
  DEF IrcNext, IrcRun, IrcHandle, IrcServer, IrcUser, ircVars, IrcHandlerEmit,
      IrcCopySubs, IrcRejoin, IrcWelcome, OnMessage, IrcLine, IrcBreak,
      IrcSubscribe, IrcUnsubscribe, IrcCommand, IrcDisconnect, IrcClose, IrcReceive

\* Who is listed in a session was announced in it: the table of present nicks is
\* emptied between two sessions, whatever line, call or Disconnect falls between
\* (resetMembers in run, addMember and removeMember in the handlers).
THEOREM NobodyCarriedOver == IrcSpec => []NoNickAcrossSessions
<1>1. IrcInit => MembersInv
  BY DEF IrcInit, MembersInv
<1>2. SessionInv /\ MembersInv => NoNickAcrossSessions
  BY DEF SessionInv, MembersInv, NoNickAcrossSessions
<1>3. QED
  BY <1>1, <1>2, MembersStep, TypesInvariance, SessionInvariance, PTL DEF IrcSpec

-----------------------------------------------------------------------------
(* What is joined.                                                         *)

JoinCall(c) == [op |-> "join", channel |-> c]
PartCall(c) == [op |-> "part", channel |-> c]

\* The call on its way and the copy of the handler agree with the table ...
AgreesWithTable(c) ==
  /\ JoinCall(c) \in ircCalls => c \in ircSubs
  /\ PartCall(c) \in ircCalls => c \notin ircSubs
  /\ c \in ircHandler.todo => c \in ircSubs

\* ... and where the session differs from it, one of them will make it agree.
WillAgree(c) ==
  /\ c \in ircJoined => c \in ircSubs \/ PartCall(c) \in ircCalls
  /\ c \in ircSubs => \/ c \in ircJoined
                      \/ JoinCall(c) \in ircCalls
                      \/ ircHandler.at \in {"status", "copy"}
                      \/ c \in ircHandler.todo

\* Channels whose calls overlapped are left out until that is mended.
JoinedInv ==
  \A c \in IrcChannels \ ircRaced :
    AgreesWithTable(c) /\ (ircSession = "up" => WillAgree(c))

\* Steps that leave the calls alone: the handler's.
LEMMA HandlerJoins ==
  ASSUME FlowTypes, HandlerInv, JoinedInv, UNCHANGED ircTable,
         \/ UNCHANGED ircSession /\ (IrcHandlerEmit \/ IrcCopySubs)
         \/ \E c \in IrcChannels : IrcRejoin(c)
  PROVE  JoinedInv'
<1> SUFFICES ASSUME NEW d \in IrcChannels \ ircRaced
             PROVE  AgreesWithTable(d)' /\ (ircSession' = "up" => WillAgree(d)')
  BY DEF JoinedInv, ircTable
<1> USE DEF JoinedInv, AgreesWithTable, WillAgree, JoinCall, PartCall, ircTable
<1>1. CASE IrcHandlerEmit /\ UNCHANGED ircSession
  BY <1>1 DEF IrcHandlerEmit, IrcIdle, FlowTypes, HandlerInv
<1>2. CASE IrcCopySubs
  BY <1>2 DEF IrcCopySubs, IrcIdle, FlowTypes, HandlerInv
<1>3. ASSUME NEW c \in IrcChannels, IrcRejoin(c)
      PROVE  AgreesWithTable(d)' /\ (ircSession' = "up" => WillAgree(d)')
  BY <1>3 DEF IrcRejoin, IrcIdle, Joining, FlowTypes, HandlerInv
<1>4. QED
  BY <1>1, <1>2, <1>3

LEMMA CallJoins ==
  ASSUME FlowTypes, TableTypes, JoinedInv, NEW c \in IrcChannels,
         IrcSubscribe(c) \/ IrcUnsubscribe(c)
  PROVE  JoinedInv'
<1> SUFFICES ASSUME NEW d \in IrcChannels \ ircRaced'
             PROVE  AgreesWithTable(d)' /\ (ircSession' = "up" => WillAgree(d)')
  BY DEF JoinedInv
<1>1. c # d => /\ d \notin ircRaced
               /\ AgreesWithTable(d) /\ (ircSession = "up" => WillAgree(d))
  BY DEF IrcSubscribe, IrcUnsubscribe, JoinedInv
<1>2. CASE c = d /\ IrcSubscribe(c)
  <2>1. JoinCall(d) \notin ircCalls /\ PartCall(d) \notin ircCalls
    BY <1>2 DEF IrcSubscribe, InFlight, JoinCall, PartCall
  <2>2. /\ ircSubs' = ircSubs \cup {d} /\ ircCalls' = ircCalls \cup {JoinCall(d)}
        /\ UNCHANGED <<ircSession, ircJoined, ircHandler>>
    BY <1>2 DEF IrcSubscribe, JoinCall
  <2>3. QED
    BY <1>1, <2>1, <2>2 DEF AgreesWithTable, WillAgree, JoinCall, PartCall
<1>3. CASE c = d /\ IrcUnsubscribe(c)
  <2>1. /\ JoinCall(d) \notin ircCalls /\ PartCall(d) \notin ircCalls
        /\ d \notin ircHandler.todo
    BY <1>3 DEF IrcUnsubscribe, InFlight, JoinCall, PartCall
  <2>2. /\ ircSubs' = ircSubs \ {d} /\ ircCalls' = ircCalls \cup {PartCall(d)}
        /\ UNCHANGED <<ircSession, ircJoined, ircHandler>>
    BY <1>3 DEF IrcUnsubscribe, PartCall
  <2>3. QED
    BY <1>1, <2>1, <2>2 DEF AgreesWithTable, WillAgree, JoinCall, PartCall
<1>4. CASE c # d
  BY <1>1, <1>4 DEF IrcSubscribe, IrcUnsubscribe, AgreesWithTable, WillAgree,
                    JoinCall, PartCall
<1>5. QED
  BY <1>2, <1>3, <1>4

LEMMA CommandJoins ==
  ASSUME JoinedInv, NEW call \in IrcCall, IrcCommand(call)
  PROVE  JoinedInv'
<1> SUFFICES ASSUME NEW d \in IrcChannels \ ircRaced
             PROVE  AgreesWithTable(d)' /\ (ircSession' = "up" => WillAgree(d)')
  BY DEF JoinedInv, IrcCommand
<1>1. AgreesWithTable(d) /\ (ircSession = "up" => WillAgree(d))
  BY DEF JoinedInv
<1>2. PICK c \in IrcChannels : call = JoinCall(c) \/ call = PartCall(c)
  BY DEF IrcCall, JoinCall, PartCall
<1>3. /\ call \in ircCalls /\ ircCalls' = ircCalls \ {call}
      /\ UNCHANGED <<ircSubs, ircSession, ircHandler>>
      /\ call = JoinCall(c) => ircJoined' = Joining(c)
      /\ call = PartCall(c) => ircJoined' = Parting(c)
  BY <1>2 DEF IrcCommand, JoinCall, PartCall
<1>4. QED
  BY <1>1, <1>2, <1>3
  DEF AgreesWithTable, WillAgree, JoinCall, PartCall, Joining, Parting

LEMMA JoinedStep ==
  FlowTypes /\ TableTypes /\ SessionInv /\ HandlerInv /\ JoinedInv /\ [IrcNext]_ircVars
    => JoinedInv'
<1> SUFFICES ASSUME FlowTypes, TableTypes, SessionInv, HandlerInv, JoinedInv,
                    [IrcNext]_ircVars
             PROVE  JoinedInv'
  OBVIOUS
<1>1. CASE UNCHANGED <<ircTable, ircHandler, ircSession, ircJoined>>
  BY <1>1 DEF JoinedInv, AgreesWithTable, WillAgree, ircTable
<1>2. CASE IrcDial \/ IrcBreak \/ IrcClose
  BY <1>2 DEF IrcDial, IrcBreak, IrcClose, JoinedInv, AgreesWithTable, ircTable,
              SessionInv
<1>3. CASE IrcWelcome
  <2>1. /\ ircHandler' = [at |-> "status", event |-> "connected", todo |-> {}]
        /\ ircRaced' = {c \in ircRaced : InFlight(c)}
        /\ ircJoined' = ircJoined /\ ircJoined = {}
        /\ UNCHANGED <<ircSubs, ircCalls>>
    BY <1>3 DEF IrcWelcome, SessionInv
  <2>2. \A c \in IrcChannels \ ircRaced' : AgreesWithTable(c)'
    BY <2>1 DEF JoinedInv, AgreesWithTable, InFlight, JoinCall, PartCall
  <2>3. \A c \in IrcChannels : WillAgree(c)'
    BY <2>1 DEF WillAgree
  <2>4. QED
    BY <2>2, <2>3 DEF JoinedInv
<1>4. ASSUME NEW e, IrcLine(e) PROVE JoinedInv'
  BY <1>4 DEF IrcLine, JoinedInv, AgreesWithTable, WillAgree, ircTable, IrcIdle
<1>5. CASE IrcHandle
  BY <1>5, HandlerJoins DEF IrcHandle, IrcHandlerEmit, IrcCopySubs, IrcRejoin
<1>6. ASSUME NEW c \in IrcChannels, IrcSubscribe(c) \/ IrcUnsubscribe(c)
      PROVE  JoinedInv'
  BY <1>6, CallJoins
<1>7. ASSUME NEW call \in IrcCall, IrcCommand(call) PROVE JoinedInv'
  BY <1>7, CommandJoins
<1>8. QED
  BY <1>1, <1>2, <1>3, <1>4, <1>5, <1>6, <1>7
  DEF IrcNext, IrcRun, IrcServer, IrcUser, ircVars, ircTable, IrcTop, IrcDialReturns,
      IrcDialed, IrcReport, IrcWait, OnMessage, OnJoinOrNames, OnPart, OnQuit,
      IrcDisconnect, IrcReceive

\* A session that is up, with nothing under way, is in exactly the channels that
\* are subscribed, for any number of channels, sessions and calls: no JOIN or PART
\* is lost or undone by a reconnect, but for channels with overlapping calls
\* (Subscribe, Unsubscribe and onConnected's copy of a.subs, irc/adapter.go).
THEOREM JoinedWhatIsSubscribed == IrcSpec => []JoinedIsSubscribed
<1>1. IrcInit => JoinedInv
  BY DEF IrcInit, JoinedInv, AgreesWithTable, IrcIdle
<1>2. JoinedInv => JoinedIsSubscribed
  BY DEF JoinedInv, AgreesWithTable, WillAgree, JoinedIsSubscribed, IrcIdle
<1>3. QED
  BY <1>1, <1>2, JoinedStep, TypesInvariance, SessionInvariance, PTL DEF IrcSpec

-----------------------------------------------------------------------------
(* The adapter implements EventStream.                                     *)

\* Outside the report, and with no handler at its send, nothing is offered.
LEMMA NothingOffered ==
  /\ ircLoop # "report" /\ ircHandler = IrcIdle => IrcOffered = "none"
  /\ ircLoop' # "report" /\ ircHandler' = IrcIdle => IrcOffered' = "none"
  BY DEF IrcOffered, IrcIdle

LEMMA IrcStreamStarts == IrcInit => Irc!StreamInit
<1> SUFFICES ASSUME IrcInit PROVE Irc!StreamInit
  OBVIOUS
<1>1. IrcOffered = "none" /\ ircEvents = <<>>
  BY NothingOffered DEF IrcInit
<1>2. ircOpen = TRUE /\ ircCancelled = FALSE
  BY Zenon DEF IrcInit
<1>3. QED
  BY <1>1, <1>2, Zenon DEF Irc!StreamInit

\* Nothing is being sent but what the loop reports or a handler ends with.
LEMMA IrcStreamSteps ==
  FlowTypes /\ FlagTypes /\ SessionInv /\ HandlerInv /\ [IrcNext]_ircVars
    => [Irc!StreamNext]_(Irc!streamVars)
<1> SUFFICES ASSUME FlowTypes, FlagTypes, SessionInv, HandlerInv, [IrcNext]_ircVars
             PROVE  [Irc!StreamNext]_(Irc!streamVars)
  OBVIOUS
<1> USE DEF Irc!StreamNext, Irc!streamVars, ircLife, ircStop, ircTable, ircWho
<1>1. CASE UNCHANGED <<IrcOffered, ircEvents, ircOpen, ircCancelled>>
  BY <1>1
<1>2. CASE IrcTop
  <2>1. IrcOffered = "none" /\ IrcOffered' = "none"
    BY <1>2, NothingOffered DEF IrcTop, IrcReturn, SessionInv
  <2>2. UNCHANGED <<ircOpen, ircEvents, ircCancelled>> \/ Irc!Close
    BY <1>2, <2>1 DEF IrcTop, IrcReturn, SessionInv, Irc!Close
  <2>3. QED
    BY <2>1, <2>2
<1>3. CASE IrcDialed
  <2>1. IrcOffered = "none"
    BY <1>3 DEF IrcDialed, IrcOffered, SessionInv, IrcIdle
  <2>2. Irc!Close \/ Irc!Offer("reconnecting")
    BY <1>3, <2>1 DEF IrcDialed, IrcReturn, SessionInv, Irc!Close, Irc!Offer, IrcOffered
  <2>3. QED
    BY <2>2 DEF IrcEvent
<1>4. CASE IrcReport
  <2>1. IrcOffered = "reconnecting" /\ IrcOffered' = "none"
    BY <1>4 DEF IrcReport, IrcOffered, SessionInv, IrcIdle
  <2>2. Irc!Send \/ Irc!Drop
    BY <1>4, <2>1 DEF IrcReport, IrcEmit, SessionInv, Irc!Send, Irc!Drop, IrcEvent
  <2>3. QED
    BY <2>2
<1>5. CASE IrcWait
  <2>1. IrcOffered = "none" /\ IrcOffered' = "none"
    BY <1>5, NothingOffered DEF IrcWait, IrcReturn, SessionInv
  <2>2. UNCHANGED <<ircOpen, ircEvents, ircCancelled>> \/ Irc!Close
    BY <1>5, <2>1 DEF IrcWait, IrcReturn, SessionInv, Irc!Close
  <2>3. QED
    BY <2>1, <2>2
<1>6. CASE IrcHandlerEmit
  <2>1. ircLoop = "session" /\ ircOpen
    BY <1>6 DEF IrcHandlerEmit, SessionInv, IrcIdle
  <2>2. IrcOffered = ircHandler.event /\ IrcOffered' = "none"
    BY <1>6, <2>1 DEF IrcHandlerEmit, IrcOffered, IrcIdle, FlowTypes
  <2>3. Irc!Send \/ Irc!Drop
    BY <1>6, <2>1, <2>2
    DEF IrcHandlerEmit, IrcEmit, Irc!Send, Irc!Drop, FlowTypes
  <2>4. QED
    BY <2>3
<1>7. CASE IrcCopySubs \/ \E c \in IrcChannels : IrcRejoin(c)
  <2>1. /\ ircLoop' = ircLoop
        /\ ircHandler.at \notin {"line", "status"}
        /\ ircHandler'.at \notin {"line", "status"}
    <3>1. CASE IrcCopySubs
      BY <3>1 DEF IrcCopySubs, IrcIdle, FlowTypes, ircLife
    <3>2. ASSUME NEW c \in IrcChannels, IrcRejoin(c)
          PROVE  /\ ircLoop' = ircLoop
                 /\ ircHandler.at \notin {"line", "status"}
                 /\ ircHandler'.at \notin {"line", "status"}
      BY <3>2 DEF IrcRejoin, IrcIdle, FlowTypes, ircLife
    <3>3. QED
      BY <1>7, <3>1, <3>2
  <2>2. IrcOffered' = IrcOffered
    BY <2>1 DEF IrcOffered
  <2>3. QED
    BY <1>7, <2>2 DEF IrcCopySubs, IrcRejoin
<1>8. CASE IrcWelcome
  <2>1. Irc!Offer("connected")
    BY <1>8 DEF IrcWelcome, IrcOffered, SessionInv, IrcIdle, Irc!Offer
  <2>2. QED
    BY <2>1 DEF IrcEvent
<1>9. ASSUME NEW e \in {"message", "users"}, IrcLine(e)
      PROVE  [Irc!StreamNext]_(Irc!streamVars)
  <2>1. Irc!Offer(e)
    BY <1>9 DEF IrcLine, IrcOffered, SessionInv, IrcIdle, Irc!Offer
  <2>2. QED
    BY <2>1 DEF IrcEvent
<1>10. CASE IrcDisconnect
  <2>1. Irc!Stop
    BY <1>10 DEF IrcDisconnect, Irc!Stop, IrcOffered
  <2>2. QED
    BY <2>1
<1>11. CASE IrcReceive
  <2>1. Irc!Receive
    BY <1>11 DEF IrcReceive, Irc!Receive, IrcOffered
  <2>2. QED
    BY <2>1
<1>12. CASE IrcDial \/ IrcDialReturns
  BY <1>12 DEF IrcDial, IrcDialReturns, IrcOffered
<1>13. QED
  BY <1>1, <1>2, <1>3, <1>4, <1>5, <1>6, <1>7, <1>8, <1>9, <1>10, <1>11, <1>12
  DEF IrcNext, IrcRun, IrcHandle, IrcServer, IrcUser, ircVars, IrcOffered,
      OnMessage, OnJoinOrNames, OnPart, OnQuit, IrcBreak, IrcSubscribe,
      IrcUnsubscribe, IrcCommand, IrcClose

\* The IRC adapter implements the event stream of network/interface.go: what a
\* handler or the loop has begun to send arrives in order, and the channel is
\* closed once, by the loop, only after Disconnect (emit, run and closeEvents).
THEOREM IrcStreams == IrcSpec => IrcIsStream
  BY IrcStreamStarts, IrcStreamSteps, TypesInvariance, SessionInvariance, PTL
  DEF IrcSpec, IrcIsStream, Irc!StreamSpec
=============================================================================
