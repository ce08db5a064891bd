---------------------------- MODULE Verification ----------------------------
(***************************************************************************)
(* Interactive device verification: the modal of the TUI (tui/verify.go),  *)
(* the shim that turns the callbacks of mautrix's verification helper into *)
(* events (network/matrix/verification.go), and the adapter's event stream *)
(* with its end (network/matrix/adapter.go).                               *)
(*                                                                         *)
(* The helper is external: it has a lock, calls back with the lock held,   *)
(* and keeps the state of every transaction.  Its callbacks come from the  *)
(* goroutine that syncs or from the goroutines that the shim and the TUI   *)
(* start, each of which makes one call.  Several transactions may be under *)
(* way.  Left out are the other events of the stream, the names and        *)
(* pictures that a prompt carries, the palette and the setup wizard, which *)
(* take the keys while they are open, and a device without SAS.            *)
(***************************************************************************)
EXTENDS Naturals, Sequences

CONSTANTS
  Txns,         \* verification transactions
  Outgoing,     \* those begun by /verify; the others by another device
  None,         \* no transaction
  EventBuffer   \* capacity of a.events

ASSUME VerificationAssumption ==
  /\ None \notin Txns
  /\ Outgoing \subseteq Txns
  /\ EventBuffer \in Nat \ {0}

VARIABLES
  helper,     \* the state of each transaction (external)
  confirms,   \* who confirmed it (external)
  lock,       \* the call that holds the helper's lock, and its callback (external)
  tasks,      \* goroutines about to call the helper
  events,     \* a.events
  closed,     \* a.events is closed
  syncing,    \* the context of syncLoop
  process,    \* the program runs, has exited or has panicked
  modal,      \* m.verify; m.verifyVisible says whether there is one
  compared,   \* transactions the user matched while their string was on screen
  over        \* transactions whose end the TUI has handled

device == <<helper, confirms>>
stream == <<events, closed>>
life   == <<syncing, process>>
dialog == <<modal, compared, over>>
vars == <<device, lock, tasks, stream, life, dialog>>

Phases  == {"requested", "ready", "showSAS", "done", "cancelled"}
Prompt  == [txn : Txns, phase : Phases]

\* [fault] a cancellation is taken for one more step.
FinalDone == {"done"}

\* The phases that close the modal.
Final   == {"done", "cancelled"}

Free    == [by |-> "nobody"]
NoModal == [txn |-> None]
Calls   == {"start", "accept", "startSAS", "confirm", "cancel"}
Task    == [call : Calls, txn : Txns]
Stages  == {"none", "asked", "requested", "ready", "started", "showSAS",
            "done", "cancelled"}
Live    == Stages \ {"none", "done", "cancelled"}

TypeOK ==
  /\ helper \in [Txns -> Stages]
  /\ confirms \in [Txns -> SUBSET {"us", "them"}]
  /\ lock = Free \/ lock \in [by : {"sync", "task"}, prompt : Prompt]
  /\ tasks \subseteq Task
  /\ events \in Seq(Prompt)
  /\ Len(events) <= EventBuffer
  /\ {closed, syncing} \subseteq BOOLEAN
  /\ process \in {"running", "exited", "panicked"}
  /\ modal = NoModal \/
       modal \in [txn : Txns, phase : {"requested", "ready", "showSAS"}, confirmed : BOOLEAN]
  /\ compared \subseteq Txns
  /\ over \subseteq Txns

Init ==
  /\ helper = [t \in Txns |-> "none"]
  /\ confirms = [t \in Txns |-> {}]
  /\ lock = Free
  /\ tasks = {}
  /\ events = <<>>
  /\ closed = FALSE
  /\ syncing = TRUE
  /\ process = "running"
  /\ modal = NoModal
  /\ compared = {}
  /\ over = {}

Running == process = "running"

-----------------------------------------------------------------------------
(* The helper (external).  A step that calls back keeps the lock until the *)
(* callback returns.                                                       *)

Move(t, stage) == helper' = [helper EXCEPT ![t] = stage]

CallBack(by, t, phase) == lock' = [by |-> by, prompt |-> [txn |-> t, phase |-> phase]]

\* The goroutine that syncs brings what the other device does.
Sync(t, from, stage) ==
  /\ Running /\ syncing
  /\ lock = Free
  /\ helper[t] \in from
  /\ Move(t, stage)
  /\ UNCHANGED <<tasks, stream, life, dialog>>

OtherRequests(t) ==
  /\ t \notin Outgoing
  /\ Sync(t, {"none"}, "requested")
  /\ CallBack("sync", t, "requested")
  /\ UNCHANGED confirms

OtherAccepts(t) ==
  /\ Sync(t, {"asked"}, "ready")
  /\ CallBack("sync", t, "ready")
  /\ UNCHANGED confirms

OtherStarts(t) ==
  /\ Sync(t, {"ready"}, "started")
  /\ UNCHANGED <<confirms, lock>>

KeysArrive(t) ==
  /\ Sync(t, {"started"}, "showSAS")
  /\ CallBack("sync", t, "showSAS")
  /\ UNCHANGED confirms

OtherConfirms(t) ==
  /\ "them" \notin confirms[t]
  /\ Sync(t, {"showSAS"}, IF "us" \in confirms[t] THEN "done" ELSE "showSAS")
  /\ confirms' = [confirms EXCEPT ![t] = @ \cup {"them"}]
  /\ IF "us" \in confirms[t] THEN CallBack("sync", t, "done") ELSE UNCHANGED lock

\* The other device cancels or rejects, or the transaction times out.
OtherCancels(t) ==
  /\ Sync(t, Live, "cancelled")
  /\ CallBack("sync", t, "cancelled")
  /\ UNCHANGED confirms

-----------------------------------------------------------------------------
(* The goroutines' calls.                                                  *)

\* A call finds the lock free and the transaction in the stage it needs.
Run(call, t, from, stage) ==
  /\ Running
  /\ lock = Free
  /\ [call |-> call, txn |-> t] \in tasks
  /\ helper[t] \in from
  /\ Move(t, stage)
  /\ tasks' = tasks \ {[call |-> call, txn |-> t]}
  /\ UNCHANGED <<stream, life, dialog>>

StartVerification(t) ==
  /\ Run("start", t, {"none"}, "asked")
  /\ UNCHANGED <<confirms, lock>>

AcceptVerification(t) ==
  /\ Run("accept", t, {"requested"}, "ready")
  /\ CallBack("task", t, "ready")
  /\ UNCHANGED confirms

StartSAS(t) ==
  /\ Run("startSAS", t, {"ready"}, "started")
  /\ UNCHANGED <<confirms, lock>>

ConfirmSAS(t) ==
  /\ Run("confirm", t, {"showSAS"}, IF "them" \in confirms[t] THEN "done" ELSE "showSAS")
  /\ confirms' = [confirms EXCEPT ![t] = @ \cup {"us"}]
  /\ IF "them" \in confirms[t] THEN CallBack("task", t, "done") ELSE UNCHANGED lock

\* Whether the helper calls back for our own cancellation is left open.
CancelVerification(t, told) ==
  /\ Run("cancel", t, Live, "cancelled")
  /\ IF told THEN CallBack("task", t, "cancelled") ELSE UNCHANGED lock
  /\ UNCHANGED confirms

\* The call ends with an error: the network fails, or the transaction is not in
\* the stage for it.
CallFails(task) ==
  /\ Running
  /\ lock = Free
  /\ tasks' = tasks \ {task}
  /\ UNCHANGED <<device, lock, stream, life, dialog>>

-----------------------------------------------------------------------------
(* The shim's callbacks: emit, then start what follows.                    *)

Follow(p) ==
  CASE p.phase = "requested" -> {[call |-> "accept", txn |-> p.txn]}
    [] p.phase = "ready"     -> {[call |-> "startSAS", txn |-> p.txn]}
    [] OTHER                 -> {}

\* [fault] StartSAS called by the callback itself, which waits for its own lock.
ReturnAfterSAS ==
  /\ tasks' = tasks \cup Follow(lock.prompt)
  /\ IF lock.prompt.phase = "ready" THEN UNCHANGED lock ELSE lock' = Free

\* The follow-up runs in a goroutine of its own; the callback returns.
Return ==
  /\ tasks' = tasks \cup Follow(lock.prompt)
  /\ lock' = Free

\* [fault] events emitted from goroutines of their own overtake each other.
Overtake(p) == events' = <<p>> \o events

Enqueue(p) == events' = Append(events, p)

\* emit, with room in the channel.
Emit ==
  /\ Running
  /\ lock # Free
  /\ ~closed
  /\ Len(events) < EventBuffer
  /\ Enqueue(lock.prompt)
  /\ Return
  /\ UNCHANGED <<device, closed, life, dialog>>

\* emit, with the context of the sync loop cancelled.  That of the goroutines is
\* the program's, which is cancelled on the way out.
EmitCancelled ==
  /\ Running
  /\ lock # Free
  /\ lock.by = "sync" /\ ~syncing
  /\ Return
  /\ UNCHANGED <<device, stream, life, dialog>>

\* The process is gone, and what it had in memory.
Gone(how) ==
  /\ process' = how
  /\ lock' = Free
  /\ tasks' = {}
  /\ events' = <<>>
  /\ modal' = NoModal
  /\ UNCHANGED <<device, closed, syncing, compared, over>>

\* emit on the closed channel panics.
EmitPanics ==
  /\ Running
  /\ lock # Free
  /\ closed
  /\ Gone("panicked")

-----------------------------------------------------------------------------
(* The end: Disconnect cancels the sync loop's context; the loop closes    *)
(* the channel when it returns.  The program exits after that.             *)

Disconnect ==
  /\ Running /\ syncing
  /\ syncing' = FALSE
  /\ UNCHANGED <<device, lock, tasks, stream, process, dialog>>

\* SyncWithContext has returned: no callback of its goroutine is running.
SyncLoopReturns ==
  /\ Running /\ ~syncing /\ ~closed
  /\ lock # Free => lock.by # "sync"
  /\ closed' = TRUE
  /\ UNCHANGED <<device, lock, tasks, events, life, dialog>>

\* p.Quit(): Run returns, and with it main.
ProgramExits ==
  /\ Running /\ ~syncing
  /\ Gone("exited")

-----------------------------------------------------------------------------
(* The modal.                                                              *)

\* A later prompt of the same transaction keeps the answer.
Raise(p) == [txn |-> p.txn, phase |-> p.phase,
             confirmed |-> modal.txn = p.txn /\ modal.confirmed]

\* onVerificationEvent: a final phase closes the modal, any other raises it.
OnVerificationEvent ==
  /\ Running
  /\ events # <<>>
  /\ LET p == Head(events) IN
       IF p.phase \in Final
       THEN /\ modal' = NoModal
            /\ over' = over \cup {p.txn}
       ELSE /\ modal' = Raise(p)
            /\ UNCHANGED over
  /\ events' = Tail(events)
  /\ UNCHANGED <<device, lock, tasks, closed, life, compared>>

OnScreen == {t \in Txns : modal.txn = t /\ modal.phase = "showSAS"}

\* [fault] "y" is taken in any phase.
ConfirmEarly ==
  /\ Running
  /\ modal # NoModal
  /\ ~modal.confirmed
  /\ modal' = [modal EXCEPT !.confirmed = TRUE]
  /\ tasks' = tasks \cup {[call |-> "confirm", txn |-> modal.txn]}
  /\ compared' = compared \cup OnScreen
  /\ UNCHANGED <<device, lock, stream, life, over>>

\* confirmVerify.
ConfirmVerify ==
  /\ Running
  /\ modal # NoModal
  /\ modal.phase = "showSAS"
  /\ ~modal.confirmed
  /\ modal' = [modal EXCEPT !.confirmed = TRUE]
  /\ tasks' = tasks \cup {[call |-> "confirm", txn |-> modal.txn]}
  /\ compared' = compared \cup OnScreen
  /\ UNCHANGED <<device, lock, stream, life, over>>

\* cancelVerify.
CancelVerify ==
  /\ Running
  /\ modal # NoModal
  /\ modal' = NoModal
  /\ tasks' = tasks \cup {[call |-> "cancel", txn |-> modal.txn]}
  /\ UNCHANGED <<device, lock, stream, life, compared, over>>

\* startVerification, /verify, which makes a new transaction; the modal takes all
\* keys while it is open.
StartVerify(t) ==
  /\ Running
  /\ modal = NoModal
  /\ t \in Outgoing /\ helper[t] = "none"
  /\ tasks' = tasks \cup {[call |-> "start", txn |-> t]}
  /\ UNCHANGED <<device, lock, stream, life, dialog>>

-----------------------------------------------------------------------------
CallEnds(t) ==
  \/ StartVerification(t)
  \/ AcceptVerification(t)
  \/ StartSAS(t)
  \/ ConfirmSAS(t)
  \/ \E told \in BOOLEAN : CancelVerification(t, told)

Next ==
  \/ \E t \in Txns :
       \/ OtherRequests(t)
       \/ OtherAccepts(t)
       \/ OtherStarts(t)
       \/ KeysArrive(t)
       \/ OtherConfirms(t)
       \/ OtherCancels(t)
       \/ CallEnds(t)
       \/ StartVerify(t)
  \/ \E task \in tasks : CallFails(task)
  \/ Emit
  \/ EmitCancelled
  \/ EmitPanics
  \/ Disconnect
  \/ SyncLoopReturns
  \/ ProgramExits
  \/ OnVerificationEvent
  \/ ConfirmVerify
  \/ CancelVerify

Spec == Init /\ [][Next]_vars

\* Goroutines run, the TUI handles its events, and once the networks are
\* disconnected the program exits.
Fairness ==
  /\ WF_vars(Emit)
  /\ WF_vars(EmitCancelled)
  /\ WF_vars(ProgramExits)
  /\ WF_vars(OnVerificationEvent)

FairSpec == Spec /\ Fairness

-----------------------------------------------------------------------------
(* Properties.                                                             *)

\* A device is verified only after the user said that the strings match while
\* the string of that very transaction was on screen, although prompts of
\* several transactions take turns in one modal and a confirmation reaches the
\* helper some time after the key.
VerifiedMeansCompared == \A t \in Txns : helper[t] = "done" => t \in compared

\* The modal never shows a transaction whose end has been handled.
NoGhost == modal.txn \notin over

\* The helper's lock always becomes free again, although callbacks run under it
\* and may have to wait for room in the event channel: verification.go, "must
\* therefore be called from a fresh goroutine to avoid a self-deadlock".
LockFreed == lock # Free ~> lock = Free

\* A modal that waits for the other device stays until that transaction ends or
\* the user cancels it: verify.go, "The modal stays open in a waiting state".
WaitsForOther ==
  [][(modal # NoModal /\ modal.confirmed /\ modal'.txn # modal.txn)
       => \/ ~Running'
          \/ modal.txn \in over'
          \/ [call |-> "cancel", txn |-> modal.txn] \in tasks']_vars
=============================================================================
