----------------------------- MODULE DemoAdapter -----------------------------
(***************************************************************************)
(* internal/network/demo/adapter.go: the scripted network of marga --demo. *)
(* One goroutine announces itself and then repeats its script; between two *)
(* steps it waits for a timer or the end of its context.                   *)
(***************************************************************************)
EXTENDS Naturals, Sequences

CONSTANTS
  Opening,    \* the events before the script, in order
  Script,     \* what the steps emit, "typing" or "message"
  DemoBuffer  \* capacity of the events channel

ASSUME DemoAssumption ==
  /\ Opening \in Seq({"connected", "users", "presence"}) /\ Opening # <<>>
  /\ Script \in Seq({"typing", "message"}) /\ Script # <<>>
  /\ DemoBuffer \in Nat \ {0}

VARIABLES
  demoNext,      \* the step run is at, counted over the opening and the script
  demoSending,   \* the event it is sending, or "none"
  demoRuns,      \* the goroutine has not returned
  demoEvents,    \* a.events; closed when the goroutine has returned
  demoCancelled  \* the context is cancelled (Disconnect)

demoVars == <<demoNext, demoSending, demoRuns, demoEvents, demoCancelled>>

DemoEvent == {"connected", "users", "presence", "typing", "message"}
DemoSteps == Len(Opening) + Len(Script)

\* What a step emits.
DemoStep(i) == IF i <= Len(Opening) THEN Opening[i] ELSE Script[i - Len(Opening)]

\* After the last step the script starts again.
StepAfter(i) == IF i = DemoSteps THEN Len(Opening) + 1 ELSE i + 1

DemoTypeOK ==
  /\ demoNext \in 1..DemoSteps
  /\ demoSending \in DemoEvent \cup {"none"}
  /\ {demoRuns, demoCancelled} \subseteq BOOLEAN
  /\ demoEvents \in Seq(DemoEvent) /\ Len(demoEvents) <= DemoBuffer

DemoInit ==
  /\ demoNext = 1
  /\ demoSending = Opening[1]
  /\ demoRuns = TRUE
  /\ demoEvents = <<>>
  /\ demoCancelled = FALSE

\* [fault] the context does not end a send.
DemoEmitOrBlock ==
  /\ Len(demoEvents) < DemoBuffer
  /\ demoEvents' = Append(demoEvents, demoSending)

\* emit: with room and a dead context, either.
DemoEmit ==
  \/ /\ Len(demoEvents) < DemoBuffer
     /\ demoEvents' = Append(demoEvents, demoSending)
  \/ /\ demoCancelled
     /\ UNCHANGED demoEvents

DemoSent ==
  /\ demoSending # "none"
  /\ DemoEmit
  /\ demoNext' = StepAfter(demoNext)
  /\ demoSending' = "none"
  /\ UNCHANGED <<demoRuns, demoCancelled>>

\* The next step begins: at once in the opening, with its timer in the script.
DemoBegin ==
  /\ demoRuns
  /\ demoSending = "none"
  /\ demoSending' = DemoStep(demoNext)
  /\ UNCHANGED <<demoNext, demoRuns, demoEvents, demoCancelled>>

\* The context ends the wait for a step of the script, and run with it: the deferred close.
DemoReturns ==
  /\ demoRuns
  /\ demoSending = "none"
  /\ demoNext > Len(Opening)
  /\ demoCancelled
  /\ demoRuns' = FALSE
  /\ UNCHANGED <<demoNext, demoSending, demoEvents, demoCancelled>>

DemoDisconnect ==
  /\ ~demoCancelled
  /\ demoCancelled' = TRUE
  /\ UNCHANGED <<demoNext, demoSending, demoRuns, demoEvents>>

DemoReceive ==
  /\ demoEvents # <<>>
  /\ demoEvents' = Tail(demoEvents)
  /\ UNCHANGED <<demoNext, demoSending, demoRuns, demoCancelled>>

DemoNext == DemoSent \/ DemoBegin \/ DemoReturns \/ DemoDisconnect \/ DemoReceive

DemoSpec == DemoInit /\ [][DemoNext]_demoVars

\* The goroutine runs; when the timer and the context are both ready it may be
\* taken for the timer any number of times, but not for ever.
DemoFairness ==
  /\ WF_demoVars(DemoSent)
  /\ WF_demoVars(DemoBegin)
  /\ SF_demoVars(DemoReturns)

-----------------------------------------------------------------------------
(* Properties.                                                             *)

Demo == INSTANCE EventStream WITH
          Events <- DemoEvent, NoEvent <- "none", Capacity <- DemoBuffer,
          queue <- demoEvents, offered <- demoSending, open <- demoRuns,
          stopping <- demoCancelled

\* The demo network is an event stream like the real ones: what it has begun
\* to send arrives, and only Disconnect ends it.
DemoIsStream == Demo!StreamSpec

\* Disconnect closes the stream in the end, also out of a send that nobody
\* receives.
DemoCloses == demoCancelled ~> ~demoRuns
=============================================================================
