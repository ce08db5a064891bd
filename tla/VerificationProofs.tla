------------------------- MODULE VerificationProofs -------------------------
(***************************************************************************)
(* Proofs about Verification, for every set of transactions and every      *)
(* capacity of the event channel.                                          *)
(***************************************************************************)
EXTENDS Verification, SequenceTheorems, TLAPS

DeviceTypes ==
  /\ helper \in [Txns -> Stages]
  /\ confirms \in [Txns -> SUBSET {"us", "them"}]

Asked(call, t) == [call |-> call, txn |-> t]

(* The user compared the strings of t.                                     *)
AnswerInv ==
  \A t \in Txns :
    /\ Asked("confirm", t) \in tasks => t \in compared
    /\ "us" \in confirms[t] => t \in compared
    /\ helper[t] = "done" => "us" \in confirms[t]

IInv == DeviceTypes /\ AnswerInv

-----------------------------------------------------------------------------

LEMMA InitInv == Init => IInv
  BY DEF Init, IInv, DeviceTypes, AnswerInv, Stages

\* Steps that ask the helper for no new confirmation and leave its state alone.
LEMMA Untouched ==
  ASSUME IInv, UNCHANGED device, compared \subseteq compared',
         \A t \in Txns : Asked("confirm", t) \in tasks' =>
                           Asked("confirm", t) \in tasks \/ t \in compared'
  PROVE  IInv'
  BY DEF IInv, DeviceTypes, AnswerInv, device

\* Steps that move a transaction to a stage other than done.
LEMMA Moved ==
  ASSUME IInv, NEW t \in Txns, NEW stage \in Stages \ {"done"}, Move(t, stage),
         confirms' = confirms, compared' = compared, tasks' \subseteq tasks
  PROVE  IInv'
<1>1. helper' = [helper EXCEPT ![t] = stage]
  BY DEF Move
<1>2. DeviceTypes'
  BY <1>1 DEF IInv, DeviceTypes
<1>3. \A s \in Txns : helper'[s] = "done" => helper[s] = "done"
  BY <1>1 DEF IInv, DeviceTypes
<1>4. AnswerInv'
  BY <1>3 DEF IInv, AnswerInv
<1>5. QED
  BY <1>2, <1>4 DEF IInv

\* A confirmation, ours or the other device's, that completes t or not.
LEMMA Confirmed ==
  ASSUME IInv, NEW t \in Txns, NEW who \in {"us", "them"}, NEW stage \in {"done", "showSAS"},
         Move(t, stage), confirms' = [confirms EXCEPT ![t] = @ \cup {who}],
         compared' = compared, tasks' \subseteq tasks,
         who = "us" => t \in compared,
         stage = "done" => "us" \in confirms[t] \/ who = "us"
  PROVE  IInv'
<1>1. helper' = [helper EXCEPT ![t] = stage]
  BY DEF Move
<1>2. /\ helper'[t] = stage /\ confirms'[t] = confirms[t] \cup {who}
      /\ \A s \in Txns : s # t => helper'[s] = helper[s] /\ confirms'[s] = confirms[s]
  BY <1>1 DEF IInv, DeviceTypes
<1>3. helper' \in [Txns -> Stages]
  BY <1>1 DEF IInv, DeviceTypes, Stages
<1>4. confirms' \in [Txns -> SUBSET {"us", "them"}]
  BY DEF IInv, DeviceTypes
<1>5. AnswerInv'
  BY <1>2 DEF IInv, AnswerInv
<1>6. QED
  BY <1>3, <1>4, <1>5 DEF IInv, DeviceTypes

\* What the other device does.
LEMMA OtherStep ==
  ASSUME IInv, NEW t \in Txns,
         \/ OtherRequests(t) \/ OtherAccepts(t) \/ OtherStarts(t)
         \/ KeysArrive(t) \/ OtherConfirms(t) \/ OtherCancels(t)
  PROVE  IInv'
<1>1. CASE OtherRequests(t)
  BY <1>1, Moved DEF OtherRequests, Sync, dialog, Stages
<1>2. CASE OtherAccepts(t)
  BY <1>2, Moved DEF OtherAccepts, Sync, dialog, Stages
<1>3. CASE OtherStarts(t)
  BY <1>3, Moved DEF OtherStarts, Sync, dialog, Stages
<1>4. CASE KeysArrive(t)
  BY <1>4, Moved DEF KeysArrive, Sync, dialog, Stages
<1>5. CASE OtherConfirms(t)
  BY <1>5, Confirmed DEF OtherConfirms, Sync, dialog
<1>6. CASE OtherCancels(t)
  BY <1>6, Moved DEF OtherCancels, Sync, dialog, Stages, Live
<1>7. QED
  BY <1>1, <1>2, <1>3, <1>4, <1>5, <1>6

\* The calls that the shim and the TUI make.
LEMMA CallStep ==
  ASSUME IInv, NEW t \in Txns, CallEnds(t)
  PROVE  IInv'
<1>1. CASE StartVerification(t)
  BY <1>1, Moved DEF StartVerification, Run, dialog, Stages
<1>2. CASE AcceptVerification(t)
  BY <1>2, Moved DEF AcceptVerification, Run, dialog, Stages
<1>3. CASE StartSAS(t)
  BY <1>3, Moved DEF StartSAS, Run, dialog, Stages
<1>4. CASE ConfirmSAS(t)
  <2>1. t \in compared
    BY <1>4 DEF ConfirmSAS, Run, IInv, AnswerInv, Asked
  <2>2. QED
    BY <1>4, <2>1, Confirmed DEF ConfirmSAS, Run, dialog
<1>5. ASSUME NEW told \in BOOLEAN, CancelVerification(t, told)
      PROVE  IInv'
  BY <1>5, Moved DEF CancelVerification, Run, dialog, Stages, Live
<1>6. QED
  BY <1>1, <1>2, <1>3, <1>4, <1>5 DEF CallEnds

\* A callback starts no confirmation.
LEMMA ReturnAsks ==
  ASSUME Return, NEW t \in Txns, Asked("confirm", t) \in tasks'
  PROVE  Asked("confirm", t) \in tasks
  BY DEF Return, Follow, Asked

LEMMA StepInv == IInv /\ [Next]_vars => IInv'
<1> SUFFICES ASSUME IInv, [Next]_vars PROVE IInv'
  OBVIOUS
<1>1. CASE UNCHANGED vars
  BY <1>1, Untouched DEF vars, dialog
<1>2. ASSUME NEW t \in Txns,
             \/ OtherRequests(t) \/ OtherAccepts(t) \/ OtherStarts(t)
             \/ KeysArrive(t) \/ OtherConfirms(t) \/ OtherCancels(t)
      PROVE  IInv'
  BY <1>2, OtherStep
<1>3. ASSUME NEW t \in Txns, CallEnds(t)
      PROVE  IInv'
  BY <1>3, CallStep
<1>4. ASSUME NEW t \in Txns, StartVerify(t)
      PROVE  IInv'
  BY <1>4, Untouched DEF StartVerify, dialog, Asked
<1>5. ASSUME NEW task \in tasks, CallFails(task)
      PROVE  IInv'
  BY <1>5, Untouched DEF CallFails, dialog
<1>6. CASE Emit \/ EmitCancelled
  <2>1. Return /\ UNCHANGED device /\ compared' = compared
    BY <1>6 DEF Emit, EmitCancelled, dialog
  <2>2. QED
    BY <2>1, ReturnAsks, Untouched
<1>7. CASE EmitPanics \/ ProgramExits
  BY <1>7, Untouched DEF EmitPanics, ProgramExits, Gone
<1>8. CASE Disconnect \/ SyncLoopReturns
  BY <1>8, Untouched DEF Disconnect, SyncLoopReturns, dialog
<1>9. CASE OnVerificationEvent
  BY <1>9, Untouched DEF OnVerificationEvent
<1>10. CASE ConfirmVerify
  <2>1. /\ tasks' = tasks \cup {Asked("confirm", modal.txn)}
        /\ compared' = compared \cup OnScreen
        /\ modal.phase = "showSAS"
        /\ UNCHANGED device
    BY <1>10 DEF ConfirmVerify, Asked
  <2>2. ASSUME NEW t \in Txns, Asked("confirm", t) = Asked("confirm", modal.txn)
        PROVE  t \in compared'
    <3>1. t = modal.txn
      BY <2>2 DEF Asked
    <3>2. QED
      BY <2>1, <3>1 DEF OnScreen
  <2>3. QED
    BY <2>1, <2>2, Untouched
<1>11. CASE CancelVerify
  BY <1>11, Untouched DEF CancelVerify, Asked
<1>12. QED
  BY <1>1, <1>2, <1>3, <1>4, <1>5, <1>6, <1>7, <1>8, <1>9, <1>10, <1>11 DEF Next

\* The inductive invariant.
THEOREM Invariance == Spec => []IInv
  BY InitInv, StepInv, PTL DEF Spec

\* No device is verified without the user's comparison of its own string, for any
\* number of transactions that share the modal (verify.go, confirmVerify;
\* verification.go, ConfirmSAS).
THEOREM ComparedFirst == Spec => []VerifiedMeansCompared
<1>1. IInv => VerifiedMeansCompared
  BY DEF IInv, AnswerInv, VerifiedMeansCompared
<1>2. QED
  BY Invariance, <1>1, PTL

-----------------------------------------------------------------------------
(* The type of the rest: prompts, tasks and the modal.                     *)

PromptTypes ==
  /\ lock = Free \/ lock \in [by : {"sync", "task"}, prompt : Prompt]
  /\ tasks \subseteq Task
  /\ events \in Seq(Prompt)
  /\ Len(events) <= EventBuffer
  /\ process \in {"running", "exited", "panicked"}
  /\ modal = NoModal \/
       modal \in [txn : Txns, phase : {"requested", "ready", "showSAS"}, confirmed : BOOLEAN]
  /\ compared \subseteq Txns
  /\ over \subseteq Txns

Switches == {closed, syncing} \subseteq BOOLEAN

LEMMA FollowIs == ASSUME NEW p \in Prompt PROVE Follow(p) \subseteq Task
  BY DEF Follow, Prompt, Task, Calls

\* The lock is free, or its callback has a prompt.
LEMMA LockIs ==
  ASSUME PromptTypes, lock # Free
  PROVE  lock.prompt \in Prompt
  BY DEF PromptTypes

LEMMA CallBackIs ==
  ASSUME NEW t \in Txns, NEW phase \in Phases, NEW by \in {"sync", "task"},
         CallBack(by, t, phase)
  PROVE  lock' \in [by : {"sync", "task"}, prompt : Prompt]
         /\ lock'.prompt.txn = t /\ lock'.prompt.phase = phase
  BY DEF CallBack, Prompt

\* What the modal shows after a prompt that is not the last one.
LEMMA RaiseIs ==
  ASSUME NEW p \in Prompt, p.phase \notin Final
  PROVE  /\ Raise(p) \in [txn : Txns, phase : {"requested", "ready", "showSAS"},
                          confirmed : BOOLEAN]
         /\ Raise(p).txn = p.txn
<1>1. (modal.txn = p.txn /\ modal.confirmed) \in BOOLEAN
  OBVIOUS
<1>2. p.txn \in Txns /\ p.phase \in {"requested", "ready", "showSAS"}
  BY DEF Prompt, Phases, Final
<1>3. Raise(p) = [txn |-> p.txn, phase |-> p.phase,
                  confirmed |-> modal.txn = p.txn /\ modal.confirmed]
  BY DEF Raise
<1>4. QED
  BY <1>1, <1>2, <1>3

LEMMA PromptTypesStep == PromptTypes /\ [Next]_vars => PromptTypes'
<1> SUFFICES ASSUME PromptTypes, [Next]_vars PROVE PromptTypes'
  OBVIOUS
<1> USE DEF stream, life, dialog
<1>1. ASSUME UNCHANGED <<stream, life, dialog>>, tasks' \subseteq Task,
             lock' = lock \/ lock' \in [by : {"sync", "task"}, prompt : Prompt]
      PROVE  PromptTypes'
  BY <1>1 DEF PromptTypes
<1>2. tasks \subseteq Task
  BY DEF PromptTypes
<1>3. ASSUME NEW t \in Txns,
             \/ OtherRequests(t) \/ OtherAccepts(t) \/ OtherStarts(t)
             \/ KeysArrive(t) \/ OtherConfirms(t) \/ OtherCancels(t)
      PROVE  PromptTypes'
  <2>1. UNCHANGED <<tasks, stream, life, dialog>>
    BY <1>3 DEF OtherRequests, OtherAccepts, OtherStarts, KeysArrive, OtherConfirms,
                OtherCancels, Sync
  <2>2. lock' = lock \/ \E phase \in Phases : CallBack("sync", t, phase)
    BY <1>3 DEF OtherRequests, OtherAccepts, OtherStarts, KeysArrive, OtherConfirms,
                OtherCancels, Phases
  <2>3. QED
    BY <1>1, <1>2, <2>1, <2>2, CallBackIs
<1>4. ASSUME NEW t \in Txns, CallEnds(t) PROVE PromptTypes'
  <2>1. UNCHANGED <<stream, life, dialog>> /\ tasks' \subseteq tasks
    BY <1>4 DEF CallEnds, StartVerification, AcceptVerification, StartSAS, ConfirmSAS,
                CancelVerification, Run
  <2>2. lock' = lock \/ \E phase \in Phases : CallBack("task", t, phase)
    BY <1>4 DEF CallEnds, StartVerification, AcceptVerification, StartSAS, ConfirmSAS,
                CancelVerification, Phases
  <2>3. QED
    BY <1>1, <1>2, <2>1, <2>2, CallBackIs
<1>5. ASSUME NEW t \in Txns, StartVerify(t) PROVE PromptTypes'
  BY <1>1, <1>2, <1>5 DEF StartVerify, Task, Calls
<1>6. ASSUME NEW task \in tasks, CallFails(task) PROVE PromptTypes'
  BY <1>1, <1>2, <1>6 DEF CallFails
<1>7. CASE Emit
  <2>1. lock.prompt \in Prompt /\ events \in Seq(Prompt)
    BY <1>7, LockIs DEF Emit, PromptTypes
  <2>2. events' = Append(events, lock.prompt) /\ Len(events) < EventBuffer
    BY <1>7 DEF Emit, Enqueue
  <2>3. events' \in Seq(Prompt) /\ Len(events') = Len(events) + 1
    BY <2>1, <2>2, AppendProperties
  <2>4. Len(events') <= EventBuffer
    BY <2>1, <2>2, <2>3, VerificationAssumption
  <2>5. lock' = Free /\ tasks' \subseteq Task
    BY <1>2, <1>7, <2>1, FollowIs DEF Emit, Return
  <2>6. QED
    BY <1>7, <2>3, <2>4, <2>5 DEF Emit, PromptTypes
<1>8. CASE EmitCancelled
  <2>1. lock' = Free /\ tasks' \subseteq Task
    BY <1>2, <1>8, LockIs, FollowIs DEF EmitCancelled, Return
  <2>2. QED
    BY <1>8, <2>1 DEF EmitCancelled, PromptTypes
<1>9. CASE EmitPanics \/ ProgramExits
  <2>1. <<>> \in Seq(Prompt) /\ Len(<<>>) <= EventBuffer
    BY VerificationAssumption
  <2>2. QED
    BY <1>9, <2>1 DEF EmitPanics, ProgramExits, Gone, PromptTypes
<1>10. CASE Disconnect \/ SyncLoopReturns
  BY <1>10 DEF Disconnect, SyncLoopReturns, PromptTypes
<1>11. CASE OnVerificationEvent
  <2>1. events \in Seq(Prompt) /\ events # <<>>
    BY <1>11 DEF OnVerificationEvent, PromptTypes
  <2>2. Head(events) \in Prompt /\ events' \in Seq(Prompt) /\ Len(events') = Len(events) - 1
    BY <1>11, <2>1, HeadTailProperties DEF OnVerificationEvent
  <2>3. Len(events') <= EventBuffer
    BY <2>1, <2>2, VerificationAssumption DEF PromptTypes
  <2>4. over' \subseteq Txns
    BY <1>11, <2>2 DEF OnVerificationEvent, PromptTypes, Prompt
  <2>5. \/ modal' = NoModal
        \/ modal' \in [txn : Txns, phase : {"requested", "ready", "showSAS"},
                       confirmed : BOOLEAN]
    BY <1>11, <2>2, RaiseIs DEF OnVerificationEvent
  <2>6. QED
    BY <1>11, <2>2, <2>3, <2>4, <2>5 DEF OnVerificationEvent, PromptTypes
<1>12. CASE ConfirmVerify
  <2>1. modal.txn \in Txns
        /\ modal' \in [txn : Txns, phase : {"requested", "ready", "showSAS"},
                       confirmed : BOOLEAN]
    BY <1>12 DEF ConfirmVerify, PromptTypes
  <2>2. QED
    BY <1>12, <2>1 DEF ConfirmVerify, OnScreen, Task, Calls, PromptTypes
<1>13. CASE CancelVerify
  BY <1>13 DEF CancelVerify, Task, Calls, PromptTypes
<1>14. CASE UNCHANGED vars
  BY <1>14 DEF vars, PromptTypes
<1>15. QED
  BY <1>3, <1>4, <1>5, <1>6, <1>7, <1>8, <1>9, <1>10, <1>11, <1>12, <1>13, <1>14 DEF Next

LEMMA SwitchesStep == Switches /\ [Next]_vars => Switches'
<1> SUFFICES ASSUME Switches, [Next]_vars PROVE Switches'
  OBVIOUS
<1>1. closed' \in {closed, TRUE} /\ syncing' \in {syncing, FALSE}
  BY DEF Next, vars, stream, life, CallEnds, OtherRequests, OtherAccepts, OtherStarts,
         KeysArrive, OtherConfirms, OtherCancels, Sync, StartVerification,
         AcceptVerification, StartSAS, ConfirmSAS, CancelVerification, Run, StartVerify,
         CallFails, Emit, EmitCancelled, EmitPanics, ProgramExits, Gone, Disconnect,
         SyncLoopReturns, OnVerificationEvent, ConfirmVerify, CancelVerify
<1>2. QED
  BY Zenon, <1>1 DEF Switches

-----------------------------------------------------------------------------
(* No prompt comes after the last one of its transaction.                  *)

Ended == {"done", "cancelled"}
LastOf(p) == p.phase \in Final

\* What has been handled, or is told to be over, is over for the helper.
EndedInv ==
  /\ \A t \in over : helper[t] \in Ended
  /\ \A k \in DOMAIN events : LastOf(events[k]) => helper[events[k].txn] \in Ended
  /\ lock # Free /\ LastOf(lock.prompt) => helper[lock.prompt.txn] \in Ended

\* Of a transaction that is over nothing more is on its way, ...
QuietInv ==
  /\ \A k \in DOMAIN events : events[k].txn \notin over
  /\ lock # Free => lock.prompt.txn \notin over

\* ... and nothing is on its way behind the prompt that says so.
LastInv ==
  /\ \A k, l \in DOMAIN events :
       k < l /\ LastOf(events[k]) => events[l].txn # events[k].txn
  /\ lock # Free => \A k \in DOMAIN events :
       LastOf(events[k]) => events[k].txn # lock.prompt.txn

GhostInv == EndedInv /\ QuietInv /\ LastInv /\ NoGhost

\* The helper never leaves the end of a transaction.
LEMMA EndedStays ==
  ASSUME DeviceTypes, [Next]_vars, NEW t \in Txns, helper[t] \in Ended
  PROVE  helper'[t] \in Ended
<1> USE DEF device, Ended
<1>1. ASSUME NEW u \in Txns, NEW stage, helper[u] \notin Ended, Move(u, stage)
      PROVE  helper'[t] \in Ended
  BY <1>1 DEF Move, DeviceTypes
<1>2. ASSUME NEW u \in Txns,
             \/ OtherRequests(u) \/ OtherAccepts(u) \/ OtherStarts(u)
             \/ KeysArrive(u) \/ OtherConfirms(u) \/ OtherCancels(u)
      PROVE  helper'[t] \in Ended
  BY <1>1, <1>2 DEF OtherRequests, OtherAccepts, OtherStarts, KeysArrive, OtherConfirms,
                    OtherCancels, Sync, Live
<1>3. ASSUME NEW u \in Txns, CallEnds(u) PROVE helper'[t] \in Ended
  BY <1>1, <1>3 DEF CallEnds, StartVerification, AcceptVerification, StartSAS, ConfirmSAS,
                    CancelVerification, Run, Live
<1>4. QED
  BY <1>2, <1>3 DEF Next, vars, StartVerify, CallFails, Emit, EmitCancelled, EmitPanics,
     ProgramExits, Gone, Disconnect, SyncLoopReturns, OnVerificationEvent, ConfirmVerify,
     CancelVerify

\* A step of the helper: a prompt is put on its way for a transaction that was
\* not over, or none is.
LEMMA GhostMoved ==
  ASSUME PromptTypes, GhostInv, UNCHANGED <<stream, dialog>>,
         \A t \in Txns : helper[t] \in Ended => helper'[t] \in Ended,
         \/ lock' = lock \/ lock' = Free
         \/ \E t \in Txns, phase \in Phases, by \in {"sync", "task"} :
              /\ CallBack(by, t, phase)
              /\ helper[t] \notin Ended
              /\ phase \in Final => helper'[t] \in Ended
  PROVE  GhostInv'
<1>1. UNCHANGED <<events, over, modal>>
  BY DEF stream, dialog
<1>2. over \subseteq Txns /\ \A k \in DOMAIN events : events[k].txn \in Txns
  <2>1. \A k \in DOMAIN events : events[k] \in Prompt
    BY DEF PromptTypes
  <2>2. QED
    BY <2>1 DEF PromptTypes, Prompt
<1>3. (\A t \in over : helper'[t] \in Ended)
      /\ \A k \in DOMAIN events : LastOf(events[k]) => helper'[events[k].txn] \in Ended
  BY <1>2 DEF GhostInv, EndedInv
<1>4. CASE lock' = lock \/ lock' = Free
  <2>1. lock # Free => lock.prompt.txn \in Txns
    BY LockIs DEF Prompt
  <2>2. QED
    BY <1>1, <1>3, <1>4, <2>1 DEF GhostInv, EndedInv, QuietInv, LastInv, NoGhost
<1>5. ASSUME NEW t \in Txns, NEW phase \in Phases, NEW by \in {"sync", "task"},
             CallBack(by, t, phase), helper[t] \notin Ended,
             phase \in Final => helper'[t] \in Ended
      PROVE  GhostInv'
  <2>1. lock'.prompt.txn = t /\ lock'.prompt.phase = phase
    BY <1>5, CallBackIs
  <2>2. t \notin over /\ \A k \in DOMAIN events : LastOf(events[k]) => events[k].txn # t
    BY <1>5 DEF GhostInv, EndedInv
  <2>3. EndedInv'
    BY <1>1, <1>3, <1>5, <2>1 DEF EndedInv, LastOf
  <2>4. QuietInv' /\ LastInv' /\ NoGhost'
    BY <1>1, <2>1, <2>2 DEF GhostInv, QuietInv, LastInv, NoGhost
  <2>5. QED
    BY <2>3, <2>4 DEF GhostInv
<1>6. QED
  BY <1>4, <1>5

LEMMA GhostStep == DeviceTypes /\ PromptTypes /\ GhostInv /\ [Next]_vars => GhostInv'
<1> SUFFICES ASSUME DeviceTypes, PromptTypes, GhostInv, [Next]_vars PROVE GhostInv'
  OBVIOUS
<1>0. \A t \in Txns : helper[t] \in Ended => helper'[t] \in Ended
  BY EndedStays
<1>1. over \subseteq Txns /\ None \notin Txns
  BY VerificationAssumption DEF PromptTypes
<1> USE DEF stream, life, device
<1>2. ASSUME UNCHANGED <<stream, dialog>>, lock' = lock \/ lock' = Free PROVE GhostInv'
  BY <1>0, <1>2, GhostMoved
<1>3. ASSUME NEW t \in Txns,
             \/ OtherRequests(t) \/ OtherAccepts(t) \/ OtherStarts(t)
             \/ KeysArrive(t) \/ OtherConfirms(t) \/ OtherCancels(t)
      PROVE  GhostInv'
  <2>1. UNCHANGED <<stream, dialog>> /\ helper[t] \notin Ended
    BY <1>3 DEF OtherRequests, OtherAccepts, OtherStarts, KeysArrive, OtherConfirms,
                OtherCancels, Sync, Ended, Live
  <2>2. ASSUME NEW stage, Move(t, stage) PROVE helper'[t] = stage
    BY <2>2 DEF Move, DeviceTypes
  <2>3. \/ lock' = lock
        \/ \E phase \in Phases : /\ CallBack("sync", t, phase)
                                 /\ phase \in Final => helper'[t] \in Ended
    BY <1>3, <2>2 DEF OtherRequests, OtherAccepts, OtherStarts, KeysArrive, OtherConfirms,
                OtherCancels, Sync, Phases, Final, Ended
  <2>4. QED
    BY <1>0, <2>1, <2>3, GhostMoved
<1>4. ASSUME NEW t \in Txns, CallEnds(t) PROVE GhostInv'
  <2>1. UNCHANGED <<stream, dialog>> /\ helper[t] \notin Ended
    BY <1>4 DEF CallEnds, StartVerification, AcceptVerification, StartSAS, ConfirmSAS,
                CancelVerification, Run, Ended, Live
  <2>2. ASSUME NEW stage, Move(t, stage) PROVE helper'[t] = stage
    BY <2>2 DEF Move, DeviceTypes
  <2>3. \/ lock' = lock
        \/ \E phase \in Phases : /\ CallBack("task", t, phase)
                                 /\ phase \in Final => helper'[t] \in Ended
    BY <1>4, <2>2 DEF CallEnds, StartVerification, AcceptVerification, StartSAS, ConfirmSAS,
                CancelVerification, Run, Phases, Final, Ended
  <2>4. QED
    BY <1>0, <2>1, <2>3, GhostMoved
<1>5. CASE \E t \in Txns : StartVerify(t)
  BY <1>2, <1>5 DEF StartVerify
<1>6. CASE \E task \in tasks : CallFails(task)
  BY <1>2, <1>6 DEF CallFails
<1>7. CASE Emit
  <2>1. lock # Free /\ lock' = Free /\ events' = Append(events, lock.prompt)
        /\ UNCHANGED <<helper, over, modal>>
    BY <1>7 DEF Emit, Return, Enqueue, dialog
  <2>2. events \in Seq(Prompt) /\ lock.prompt \in Prompt
    BY <2>1, LockIs DEF PromptTypes
  <2>3. /\ Len(events') = Len(events) + 1
        /\ \A k \in 1..Len(events) : events'[k] = events[k]
        /\ events'[Len(events) + 1] = lock.prompt
        /\ DOMAIN events' = 1..(Len(events) + 1) /\ DOMAIN events = 1..Len(events)
        /\ Len(events) \in Nat
    BY <2>1, <2>2, AppendProperties
  <2>4. EndedInv'
    BY <2>1, <2>3 DEF GhostInv, EndedInv
  <2>5. QuietInv'
    BY <2>1, <2>3 DEF GhostInv, QuietInv
  <2>6. LastInv'
    <3>1. ASSUME NEW k \in DOMAIN events', NEW l \in DOMAIN events', k < l,
                 LastOf(events'[k])
          PROVE  events'[l].txn # events'[k].txn
      BY <2>1, <2>3, <3>1 DEF GhostInv, LastInv
    <3>2. QED
      BY <2>1, <3>1 DEF LastInv
  <2>7. QED
    BY <2>1, <2>4, <2>5, <2>6 DEF GhostInv, NoGhost
<1>8. CASE EmitCancelled
  BY <1>2, <1>8 DEF EmitCancelled, Return
<1>9. CASE EmitPanics \/ ProgramExits
  <2>1. lock' = Free /\ events' = <<>> /\ modal' = NoModal /\ UNCHANGED <<helper, over>>
    BY <1>9 DEF EmitPanics, ProgramExits, Gone
  <2>2. QED
    BY <1>1, <2>1 DEF GhostInv, EndedInv, QuietInv, LastInv, NoGhost, NoModal
<1>10. CASE Disconnect
  BY <1>2, <1>10 DEF Disconnect
<1>11. CASE SyncLoopReturns
  BY <1>11 DEF SyncLoopReturns, dialog, GhostInv, EndedInv, QuietInv, LastInv, NoGhost
<1>12. CASE OnVerificationEvent
  <2>1. events \in Seq(Prompt) /\ events # <<>>
    BY <1>12 DEF OnVerificationEvent, PromptTypes
  <2>2. events' = Tail(events) /\ UNCHANGED <<helper, lock>>
    BY <1>12 DEF OnVerificationEvent
  <2>3. /\ Head(events) = events[1] /\ Head(events) \in Prompt
        /\ Len(events) \in Nat \ {0} /\ 1 \in DOMAIN events
        /\ DOMAIN events = 1..Len(events) /\ DOMAIN events' = 1..(Len(events) - 1)
        /\ \A k \in 1..(Len(events) - 1) : events'[k] = events[k + 1]
    BY <2>1, <2>2
  <2>4. \A k \in DOMAIN events' : k + 1 \in DOMAIN events /\ 1 < k + 1
                                  /\ events'[k] = events[k + 1]
    BY <2>3
  <2>5. LastInv'
    <3>1. ASSUME NEW k \in DOMAIN events', NEW l \in DOMAIN events', k < l,
                 LastOf(events'[k])
          PROVE  events'[l].txn # events'[k].txn
      <4>1. k + 1 < l + 1
        BY <2>3, <3>1
      <4>2. QED
        BY <2>4, <3>1, <4>1 DEF GhostInv, LastInv
    <3>2. QED
      BY <2>2, <2>4, <3>1 DEF GhostInv, LastInv
  <2>6. CASE LastOf(Head(events))
    <3>1. modal' = NoModal /\ over' = over \cup {Head(events).txn}
      BY <1>12, <2>6 DEF OnVerificationEvent, LastOf
    <3>2. EndedInv'
      BY <2>2, <2>3, <2>4, <2>6, <3>1 DEF GhostInv, EndedInv
    <3>3. QuietInv'
      BY <2>2, <2>3, <2>4, <2>6, <3>1 DEF GhostInv, QuietInv, LastInv
    <3>4. NoGhost'
      BY <1>1, <2>3, <3>1 DEF NoGhost, NoModal, Prompt
    <3>5. QED
      BY <2>5, <3>2, <3>3, <3>4 DEF GhostInv
  <2>7. CASE ~LastOf(Head(events))
    <3>1. modal' = Raise(Head(events)) /\ over' = over
      BY <1>12, <2>7 DEF OnVerificationEvent, LastOf
    <3>2. modal'.txn = Head(events).txn
      BY <2>3, <2>7, <3>1, RaiseIs DEF LastOf
    <3>3. EndedInv'
      BY <2>2, <2>4, <3>1 DEF GhostInv, EndedInv
    <3>4. QuietInv'
      BY <2>2, <2>4, <3>1 DEF GhostInv, QuietInv
    <3>5. NoGhost'
      BY <2>3, <3>1, <3>2 DEF GhostInv, QuietInv, NoGhost
    <3>6. QED
      BY <2>5, <3>3, <3>4, <3>5 DEF GhostInv
  <2>8. QED
    BY <2>6, <2>7
<1>13. CASE ConfirmVerify
  <2>1. modal'.txn = modal.txn /\ UNCHANGED <<events, helper, lock, over>>
    BY <1>13 DEF ConfirmVerify, PromptTypes
  <2>2. QED
    BY <2>1 DEF GhostInv, EndedInv, QuietInv, LastInv, NoGhost
<1>14. CASE CancelVerify
  BY <1>1, <1>14 DEF CancelVerify, GhostInv, EndedInv, QuietInv, LastInv, NoGhost, NoModal
<1>15. CASE UNCHANGED vars
  BY <1>2, <1>15 DEF vars
<1>16. QED
  BY <1>3, <1>4, <1>5, <1>6, <1>7, <1>8, <1>9, <1>10, <1>11, <1>12, <1>13, <1>14, <1>15
  DEF Next

LEMMA StartTypes == Init => PromptTypes
<1>1. <<>> \in Seq(Prompt) /\ Len(<<>>) <= EventBuffer
  BY VerificationAssumption
<1>2. QED
  BY <1>1 DEF Init, PromptTypes

LEMMA StartSwitches == Init => Switches
  BY Zenon DEF Init, Switches

\* The types of the whole component, for any number of transactions and any
\* capacity of the channel.
THEOREM TypeCorrect == Spec => []TypeOK
<1>1. DeviceTypes /\ PromptTypes /\ Switches => TypeOK
  BY DEF DeviceTypes, PromptTypes, Switches, TypeOK
<1>2. IInv => DeviceTypes
  BY DEF IInv
<1>3. QED
  BY <1>1, <1>2, Invariance, StartTypes, StartSwitches, PromptTypesStep, SwitchesStep, PTL
  DEF Spec

\* The modal never shows a transaction whose end was handled: nothing of it is on
\* its way any more, although several transactions share the channel, callbacks
\* come from several goroutines and emit may drop prompts (verification.go, emit;
\* verify.go, onVerificationEvent).
THEOREM GhostFree == Spec => []NoGhost
<1>1. Init => GhostInv
  BY VerificationAssumption
  DEF Init, GhostInv, EndedInv, QuietInv, LastInv, NoGhost, NoModal
<1>2. IInv => DeviceTypes
  BY DEF IInv
<1>3. GhostInv => NoGhost
  BY DEF GhostInv
<1>4. QED
  BY <1>1, <1>2, <1>3, Invariance, StartTypes, PromptTypesStep, GhostStep, PTL DEF Spec
=============================================================================
