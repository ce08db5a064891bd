---------------------------- MODULE MatrixAdapter ----------------------------
(***************************************************************************)
(* internal/network/matrix/adapter.go after Connect: the sync loop with    *)
(* its retries, the handlers that run inside a sync, and Disconnect.       *)
(* Verification models the other senders on the same event channel,        *)
(* MatrixLogin what Connect does first.                                    *)
(*                                                                         *)
(* The homeserver and mautrix are external: a sync hands the events of the *)
(* rooms to the handlers, one at a time, until it fails or is stopped.     *)
(***************************************************************************)
EXTENDS MatrixEvents, Naturals, Sequences

CONSTANTS
  MxKinds,     \* kinds of live events
  MxBuffer,    \* capacity of the events channel
  MaxMxEvents, \* bound: events the homeserver has
  MaxMxFails   \* bound: syncs that fail

ASSUME MatrixAssumption ==
  /\ MxKinds \subseteq EventKinds
  /\ MxBuffer \in Nat \ {0}
  /\ {MaxMxEvents, MaxMxFails} \subseteq Nat

VARIABLES
  mxLoop,      \* where syncLoop is
  mxSending,   \* the event that the loop or a handler is sending, or "none"
  mxEvents,    \* a.events
  mxOpen,      \* a.events is not closed
  mxCancelled, \* syncCtx is cancelled (Disconnect)
  mxSeen,      \* bounded by MaxMxEvents
  mxFails      \* bounded by MaxMxFails

mxCount == <<mxSeen, mxFails>>
mxVars == <<mxLoop, mxSending, mxEvents, mxOpen, mxCancelled, mxCount>>

MxEvent == {"connected", "reconnecting", "message_create", "message_update",
            "reaction_add", "typing"}

MxTypeOK ==
  /\ mxLoop \in {"start", "check", "sync", "failed", "wait", "ended"}
  /\ mxSending \in MxEvent \cup {"none"}
  /\ mxEvents \in Seq(MxEvent) /\ Len(mxEvents) <= MxBuffer
  /\ {mxOpen, mxCancelled} \subseteq BOOLEAN
  /\ mxSeen \in 0..MaxMxEvents
  /\ mxFails \in 0..MaxMxFails

\* Connect has started syncLoop.
MxInit ==
  /\ mxLoop = "start"
  /\ mxSending = "connected"
  /\ mxEvents = <<>>
  /\ mxOpen = TRUE
  /\ mxCancelled = FALSE
  /\ mxSeen = 0
  /\ mxFails = 0

\* [fault] a full channel loses the event.
MxEmitOrDrop(e) ==
  mxEvents' = IF Len(mxEvents) < MxBuffer THEN Append(mxEvents, e) ELSE mxEvents

\* emit: waits for room or for the end of the context.
MxEmit(e) ==
  \/ /\ Len(mxEvents) < MxBuffer
     /\ mxEvents' = Append(mxEvents, e)
  \/ /\ mxCancelled
     /\ UNCHANGED mxEvents

\* The loop's status or a handler's event is sent.
MxSend ==
  /\ mxSending # "none"
  /\ MxEmit(mxSending)
  /\ mxSending' = "none"
  /\ mxLoop' = CASE mxLoop = "start"  -> "check"
                 [] mxLoop = "failed" -> "wait"
                 [] OTHER             -> mxLoop
  /\ UNCHANGED <<mxOpen, mxCancelled, mxCount>>

\* syncLoop returns: the deferred close.
MxReturn == mxLoop' = "ended" /\ mxOpen' = FALSE

MxCheck ==
  /\ mxLoop = "check"
  /\ IF mxCancelled THEN MxReturn ELSE mxLoop' = "sync" /\ UNCHANGED mxOpen
  /\ UNCHANGED <<mxSending, mxEvents, mxCancelled, mxCount>>

\* A sync hands an event to its handler, if it has one.  A typing notice of several
\* users is several of these in a row.
MxRoomEvent(kind) ==
  /\ mxLoop = "sync"
  /\ mxSending = "none"
  /\ mxSeen < MaxMxEvents
  /\ mxSeen' = mxSeen + 1
  /\ mxSending' = OnRoomEvent(kind)
  /\ UNCHANGED <<mxLoop, mxEvents, mxOpen, mxCancelled, mxFails>>

\* SyncWithContext returns: stopped, or with an error while the context lives.
MxSyncReturns ==
  /\ mxLoop = "sync"
  /\ mxSending = "none"
  /\ \/ /\ mxCancelled
        /\ MxReturn
        /\ UNCHANGED <<mxSending, mxFails>>
     \/ /\ ~mxCancelled
        /\ mxFails < MaxMxFails
        /\ mxFails' = mxFails + 1
        /\ mxLoop' = "failed"
        /\ mxSending' = "reconnecting"
        /\ UNCHANGED mxOpen
  /\ UNCHANGED <<mxEvents, mxCancelled, mxSeen>>

\* The pause after a failure, ended by the timer or the context.
MxWait ==
  /\ mxLoop = "wait"
  /\ \/ mxLoop' = "check" /\ UNCHANGED mxOpen
     \/ mxCancelled /\ MxReturn
  /\ UNCHANGED <<mxSending, mxEvents, mxCancelled, mxCount>>

\* Disconnect cancels the context of the sync; StopSync and the close of the
\* crypto store change nothing here.
MxDisconnect ==
  /\ ~mxCancelled
  /\ mxCancelled' = TRUE
  /\ UNCHANGED <<mxLoop, mxSending, mxEvents, mxOpen, mxCount>>

MxReceive ==
  /\ mxEvents # <<>>
  /\ mxEvents' = Tail(mxEvents)
  /\ UNCHANGED <<mxLoop, mxSending, mxOpen, mxCancelled, mxCount>>

-----------------------------------------------------------------------------
MxLoopStep == MxSend \/ MxCheck \/ MxSyncReturns \/ MxWait

MxNext ==
  \/ MxLoopStep
  \/ \E kind \in MxKinds : MxRoomEvent(kind)
  \/ MxDisconnect
  \/ MxReceive

MxSpec == MxInit /\ [][MxNext]_mxVars

\* The goroutine of syncLoop runs, and a sync whose context is cancelled
\* returns.
MxFairness == WF_mxVars(MxLoopStep)

-----------------------------------------------------------------------------
(* Properties.                                                             *)

Matrix == INSTANCE EventStream WITH
            Events <- MxEvent, NoEvent <- "none", Capacity <- MxBuffer,
            queue <- mxEvents, offered <- mxSending, open <- mxOpen,
            stopping <- mxCancelled

\* The sync loop and its handlers are an event stream: every status and every
\* event of a room reaches the TUI in order, however long the channel was full,
\* until Disconnect; the channel is closed once and nothing is sent after that.
MatrixIsStream == Matrix!StreamSpec

\* Disconnect ends the loop also out of a send that nobody receives.
MatrixCloses == mxCancelled ~> ~mxOpen
==============================================================================
