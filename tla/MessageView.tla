---------------------------- MODULE MessageView ----------------------------
(***************************************************************************)
(* Writing into a channel (internal/tui: actions.go, the select modes and  *)
(* enter and esc of tui.go, insertSorted of messages.go): replies, edits,  *)
(* the pickers for both, and the answers of the edit calls, while messages *)
(* arrive and the channel changes.                                         *)
(*                                                                         *)
(* A picker holds an index into m.msgs, ctrl+r a pointer into the slice,   *)
(* the edit mode a copy.  A message is its number, in the order of the     *)
(* timestamps; what it says is left out, but the text in the input         *)
(* remembers the message it was taken from.  One network; the list of      *)
(* messages itself is checked in TuiSession.  Names are prefixed so that   *)
(* the client's parts can be checked side by side.                         *)
(***************************************************************************)
EXTENDS Integers, FiniteSets, Sequences, SequencesExt

CONSTANTS
  MvChannels,  \* channels that can be on screen
  MvKind,      \* of each message: "own", "locked" (own, not editable), "other"
  MvPlace,     \* the channel of each message
  MvShown,     \* how many messages a live one leaves in the list (1000)
  MaxMvKeys,   \* bound: keys the user presses
  MaxMvLines   \* bound: lines of the client itself in the list

MvIds  == DOMAIN MvKind
System == 0  \* a line of the client itself

ASSUME MessageViewAssumption ==
  /\ IsFiniteSet(MvIds) /\ MvIds \subseteq Nat \ {System}
  /\ MvKind \in [MvIds -> {"own", "locked", "other"}]
  /\ MvPlace \in [MvIds -> MvChannels]
  /\ MvShown \in Nat \ {0}
  /\ {MaxMvKeys, MaxMvLines} \subseteq Nat

VARIABLES
  mvChannel,  \* m.channel
  mvMsgs,     \* m.msgs
  mvPick,     \* the picker that is open: m.replySelectMode, m.editSelectMode
  mvIdx,      \* its index, 0 for none
  mvReply,    \* m.replyTo: nil, a pointer to a slot of m.msgs, or to a copy
  mvEditing,  \* m.editingMessage, 0 for nil
  mvDraft,    \* the input: empty, typed, or the message it was filled from
  mvEdits,    \* edit calls in flight
  mvCall,     \* history: the last call of Send or Edit
  mvChosen,   \* history: the message confirmed in the reply picker, 0 for none
  mvMixed,    \* history: messages in whose edit the text of another was put back
  mvCrashed,  \* an index out of range has ended the program
  mvLive,     \* messages that have arrived
  mvKeys      \* bounded by MaxMvKeys

mvPicker == <<mvPick, mvIdx>>
mvAnswer == <<mvReply, mvChosen>>
mvEdit   == <<mvEditing, mvDraft, mvMixed>>
mvCalls  == <<mvEdits, mvCall>>
mvList   == <<mvChannel, mvMsgs, mvLive>>
mvVars   == <<mvList, mvPicker, mvAnswer, mvEdit, mvCalls, mvCrashed, mvKeys>>

NoReply == [at |-> "nil", slot |-> 0, id |-> 0]
Slot(i) == [at |-> "slot", slot |-> i, id |-> 0]
Copy(m) == [at |-> "copy", slot |-> 0, id |-> m]
NoCall  == [op |-> "none", target |-> 0, draft |-> 0, listed |-> FALSE]

\* What the input holds, when it is not the text of a message.
Empty == 0
Typed == -1

MvTypeOK ==
  /\ mvChannel \in MvChannels
  /\ mvMsgs \in Seq(MvIds \cup {System})
  /\ mvPick \in {"none", "reply", "edit"}
  /\ mvIdx \in Nat
  /\ mvReply \in {NoReply} \cup {Slot(i) : i \in DOMAIN mvMsgs}
                 \cup {Copy(m) : m \in MvIds \cup {System}}
  /\ mvEditing \in MvIds \cup {0}
  /\ mvDraft \in MvIds \cup {Empty, Typed}
  /\ mvEdits \subseteq [target : MvIds, draft : MvIds \cup {Typed}]
  /\ mvCall \in [op : {"none", "send", "edit"}, target : MvIds \cup {0},
                 draft : MvIds \cup {Empty, Typed}, listed : BOOLEAN]
  /\ mvChosen \in MvIds \cup {0}
  /\ mvCrashed \in BOOLEAN
  /\ {mvMixed, mvLive} \subseteq SUBSET MvIds
  /\ mvKeys \in 0..MaxMvKeys

MvInit ==
  /\ mvChannel \in MvChannels
  /\ mvMsgs = <<>>
  /\ mvPick = "none"
  /\ mvIdx = 0
  /\ mvReply = NoReply
  /\ mvEditing = 0
  /\ mvDraft = Empty
  /\ mvEdits = {}
  /\ mvCall = NoCall
  /\ mvChosen = 0
  /\ mvMixed = {}
  /\ mvCrashed = FALSE
  /\ mvLive = {}
  /\ mvKeys = 0

Press == mvKeys < MaxMvKeys /\ mvKeys' = mvKeys + 1

IsOwn(m) == MvKind[m] \in {"own", "locked"}
Editable(m) == MvKind[m] = "own"

\* The greatest of a set of indexes, 0 for none.
Newest(indexes) == IF indexes = {} THEN 0 ELSE CHOOSE i \in indexes :
                                                  \A j \in indexes : j <= i
Messages == {i \in DOMAIN mvMsgs : mvMsgs[i] # System}
OwnMessages == {i \in Messages : IsOwn(mvMsgs[i])}
MayEditAt == {i \in OwnMessages : Editable(mvMsgs[i])}

\* m.replyTo.ID: through a pointer into the list, whatever is there now.
ReplyId == CASE mvReply.at = "slot" -> mvMsgs[mvReply.slot]
             [] mvReply.at = "copy" -> mvReply.id
             [] OTHER               -> 0

\* The list moves to a new array: the pointer keeps the old one alive.
Detached == IF mvReply.at = "slot" THEN Copy(ReplyId) ELSE mvReply

\* A line of the client at the end of the list.
AddLine ==
  /\ Len(SelectSeq(mvMsgs, LAMBDA m : m = System)) < MaxMvLines
  /\ mvMsgs' = Append(mvMsgs, System)

\* ... in the array it has, or in a new one.
RefuseWithLine == AddLine /\ mvReply' \in {mvReply, Detached}

-----------------------------------------------------------------------------
(* The list.                                                               *)

\* Before which element a message goes: the first that is later.  A line of the
\* client carries the client's clock and may be either.
Places(m) ==
  {p \in 1..(Len(mvMsgs) + 1) :
     /\ \A i \in 1..(p - 1) : mvMsgs[i] < m
     /\ p <= Len(mvMsgs) => mvMsgs[p] = System \/ mvMsgs[p] > m}

\* A live message of the channel on screen: insertSorted, in place if the array
\* has room, when a pointer at or behind the place sees its slot shifted; then
\* the oldest are cut off, which leaves a pointer where it is.
OnMessageHere(m) ==
  /\ m \notin mvLive \cup Range(mvMsgs)
  /\ MvPlace[m] = mvChannel
  /\ mvLive' = mvLive \cup {m}
  /\ \E p \in Places(m), inPlace \in BOOLEAN :
       LET all == InsertAt(mvMsgs, p, m)
           cut == IF Len(all) > MvShown THEN Len(all) - MvShown ELSE 0
       IN /\ mvMsgs' = SubSeq(all, cut + 1, Len(all))
          /\ mvReply' = IF mvReply.at # "slot" \/ ~inPlace THEN Detached
                        ELSE IF mvReply.slot > cut THEN Slot(mvReply.slot - cut)
                        ELSE Copy(all[mvReply.slot])
  /\ UNCHANGED <<mvChannel, mvPicker, mvChosen, mvEdit, mvCalls, mvCrashed, mvKeys>>

\* A page of history of the channel on screen brings a message: mergeMessages,
\* into a new array.  A longer page is several of these in a row.
OnPage(m) ==
  /\ m \notin Range(mvMsgs)
  /\ MvPlace[m] = mvChannel
  /\ \E p \in Places(m) : mvMsgs' = InsertAt(mvMsgs, p, m)
  /\ mvReply' = Detached
  /\ UNCHANGED <<mvChannel, mvLive, mvPicker, mvChosen, mvEdit, mvCalls, mvCrashed,
                 mvKeys>>

\* SwitchChannelMsg: the reply is given up; a picker and an edit stay.
ShowChannel(c) ==
  /\ Press
  /\ mvChannel' = c
  /\ mvMsgs' = <<System>>
  /\ mvReply' = NoReply
  /\ mvChosen' = 0
  /\ UNCHANGED <<mvLive, mvPicker, mvEdit, mvCalls, mvCrashed>>

\* DeleteChannelMsg of the channel on screen: the reply stays as well.
LeaveChannel(c) ==
  /\ Press
  /\ c # mvChannel
  /\ mvChannel' = c
  /\ mvMsgs' = <<System>>
  /\ mvReply' = Detached
  /\ UNCHANGED <<mvLive, mvPicker, mvChosen, mvEdit, mvCalls, mvCrashed>>

-----------------------------------------------------------------------------
(* Choosing a message.                                                     *)

\* ctrl+r: the newest message, by a pointer into the list.
ReplyToNewest ==
  /\ Press
  /\ Messages # {}
  /\ mvReply' = Slot(Newest(Messages))
  /\ mvChosen' = 0
  /\ UNCHANGED <<mvList, mvPicker, mvEdit, mvCalls, mvCrashed>>

\* alt+r, ctrl+g.
StartReplyPicker ==
  /\ mvPick = "none"
  /\ Press
  /\ mvPick' = "reply"
  /\ mvIdx' = Newest(Messages)
  /\ UNCHANGED <<mvList, mvAnswer, mvEdit, mvCalls, mvCrashed>>

\* startEdit, before it looks for the target.
GiveUpReply == mvReply' = NoReply /\ mvChosen' = 0

\* startEdit without a target: alt+e and ctrl+e outside a picker, and /edit.
StartEditPicker ==
  /\ Press
  /\ GiveUpReply
  /\ mvPick' = "edit"
  /\ mvIdx' = Newest(MayEditAt)
  /\ mvEditing' = 0
  /\ IF MayEditAt # {} THEN UNCHANGED mvMsgs
     ELSE AddLine
  /\ UNCHANGED <<mvChannel, mvLive, mvDraft, mvMixed, mvCalls, mvCrashed>>

Stops == IF mvPick = "reply" THEN Messages ELSE OwnMessages

\* up in a picker: the nearest message before the index.  The first element
\* read is the one before it, which may be behind the end of the list by now.
MovePickUp ==
  /\ mvPick # "none"
  /\ Press
  /\ IF mvMsgs # <<>> /\ mvIdx - 1 > Len(mvMsgs)
     THEN mvCrashed' = TRUE /\ UNCHANGED mvIdx
     ELSE LET before == {i \in Stops : i < mvIdx} IN
          /\ before # {}
          /\ mvIdx' = Newest(before)
          /\ UNCHANGED mvCrashed
  /\ UNCHANGED <<mvList, mvPick, mvAnswer, mvEdit, mvCalls>>

MovePickDown ==
  LET after == {i \in Stops : i > mvIdx} IN
  /\ mvPick # "none"
  /\ after # {}
  /\ Press
  /\ mvIdx' = Min(after)
  /\ UNCHANGED <<mvList, mvPick, mvAnswer, mvEdit, mvCalls, mvCrashed>>

ClosePicker == mvPick' = "none" /\ mvIdx' = 0

\* [fault] a pointer into the list, as ctrl+r has.
KeepSlot(i) == Slot(i)

\* What the picker puts into m.replyTo.
PickReply(i) == Copy(mvMsgs[i])

\* enter in the reply picker; the index may have run behind the list.
ConfirmReply ==
  /\ mvPick = "reply"
  /\ Press
  /\ IF mvIdx \in Messages
     THEN mvReply' = PickReply(mvIdx) /\ mvChosen' = mvMsgs[mvIdx]
     ELSE UNCHANGED mvAnswer
  /\ ClosePicker
  /\ UNCHANGED <<mvList, mvEdit, mvCalls, mvCrashed>>

\* [fault] the message under the index is taken for one that may be edited.
AnyIndex == Messages

\* A call of an edit of the message is in flight.
BeingEdited(m) == \E call \in mvEdits : call.target = m

\* The message in the input, and edited from now on.  A wrong text of an edit that
\* is over is forgotten.
BeginEdit(m) == /\ mvEditing' = m
                /\ mvDraft' = m
                /\ mvMixed' = {n \in mvMixed : BeingEdited(n)}

\* The checks of prefillEditFromIndex.
PrefillIndex == MayEditAt

\* enter in the edit picker.  A refusal is a line, and the picker stays.
ConfirmEdit ==
  /\ mvPick = "edit"
  /\ Press
  /\ \/ /\ mvIdx \notin DOMAIN mvMsgs
        /\ ClosePicker
        /\ UNCHANGED <<mvMsgs, mvReply, mvEdit>>
     \/ /\ mvIdx \in PrefillIndex
        /\ ClosePicker
        /\ BeginEdit(mvMsgs[mvIdx])
        /\ UNCHANGED <<mvMsgs, mvReply>>
     \/ /\ mvIdx \in DOMAIN mvMsgs \ PrefillIndex
        /\ RefuseWithLine
        /\ UNCHANGED <<mvPicker, mvEdit>>
  /\ UNCHANGED <<mvChannel, mvLive, mvChosen, mvCalls, mvCrashed>>

\* StartEditMsg with a target, "last" or a message: /edit.  A picker of edits
\* stays open if the message is refused.
StartEditOf(m) ==
  /\ Press
  /\ GiveUpReply
  /\ IF \E i \in PrefillIndex : mvMsgs[i] = m
     THEN ClosePicker /\ BeginEdit(m) /\ UNCHANGED mvMsgs
     ELSE /\ AddLine
          /\ IF mvPick = "reply" THEN ClosePicker ELSE UNCHANGED mvPicker
          /\ UNCHANGED mvEdit
  /\ UNCHANGED <<mvChannel, mvLive, mvCalls, mvCrashed>>

-----------------------------------------------------------------------------
(* The input.                                                              *)

\* Runes; outside the pickers.
Type ==
  /\ mvPick = "none"
  /\ mvDraft = Empty
  /\ Press
  /\ mvDraft' = Typed
  /\ UNCHANGED <<mvList, mvPicker, mvAnswer, mvEditing, mvMixed, mvCalls, mvCrashed>>

\* ctrl+u, the last backspace, and enter on a command, whose message comes later.
Erase ==
  /\ mvPick = "none"
  /\ mvDraft # Empty
  /\ Press
  /\ mvDraft' = Empty
  /\ UNCHANGED <<mvList, mvPicker, mvAnswer, mvEditing, mvMixed, mvCalls, mvCrashed>>

\* esc ends one thing at a time.
Escape ==
  /\ Press
  /\ \/ /\ mvPick # "none"
        /\ ClosePicker
        /\ UNCHANGED <<mvAnswer, mvEdit>>
     \/ /\ mvPick = "none" /\ mvReply # NoReply
        /\ GiveUpReply
        /\ UNCHANGED <<mvPicker, mvEdit>>
     \/ /\ mvPick = "none" /\ mvReply = NoReply
        /\ mvEditing' = 0 /\ mvDraft' = Empty
        /\ UNCHANGED <<mvPicker, mvAnswer, mvMixed>>
  /\ UNCHANGED <<mvList, mvCalls, mvCrashed>>

\* EditMessage.
CallEdit(m, draft) ==
  LET call == [target |-> m, draft |-> draft] IN
  /\ call \notin mvEdits
  /\ mvEdits' = mvEdits \cup {call}
  /\ mvCall' = [op |-> "edit", target |-> m, draft |-> draft,
                listed |-> m \in Range(mvMsgs)]

\* enter: an edit goes first, whatever is replied to; the mode ends with the
\* answer of the call.
SubmitEdit ==
  /\ mvPick = "none"
  /\ mvDraft # Empty
  /\ mvEditing # 0
  /\ Press
  /\ CallEdit(mvEditing, mvDraft)
  /\ mvDraft' = Empty
  /\ UNCHANGED <<mvList, mvPicker, mvAnswer, mvEditing, mvMixed, mvCrashed>>

\* enter: sendWithEcho.
SubmitMessage ==
  /\ mvPick = "none"
  /\ mvDraft # Empty
  /\ mvEditing = 0
  /\ Press
  /\ mvCall' = [op |-> "send", target |-> ReplyId, draft |-> mvDraft,
                listed |-> FALSE]
  /\ GiveUpReply
  /\ mvDraft' = Empty
  /\ UNCHANGED <<mvList, mvPicker, mvEditing, mvMixed, mvEdits, mvCrashed>>

\* EditMessageMsg, /edit with a message and the text: handleEditCommand.  A
\* message that is not in the list is left to the server.
EditCommand(m) ==
  /\ Press
  /\ IF m \in Range(mvMsgs) /\ ~(IsOwn(m) /\ Editable(m))
     THEN RefuseWithLine /\ UNCHANGED mvCalls
     ELSE CallEdit(m, Typed) /\ UNCHANGED <<mvMsgs, mvReply>>
  /\ UNCHANGED <<mvChannel, mvLive, mvPicker, mvChosen, mvEdit, mvCrashed>>

\* The same with "last": own, but editable is not asked for.
EditLastCommand ==
  /\ Press
  /\ IF OwnMessages = {}
     THEN RefuseWithLine /\ UNCHANGED mvCalls
     ELSE CallEdit(mvMsgs[Newest(OwnMessages)], Typed) /\ UNCHANGED <<mvMsgs, mvReply>>
  /\ UNCHANGED <<mvChannel, mvLive, mvPicker, mvChosen, mvEdit, mvCrashed>>

\* EditResultMsg without an error ends the edit of whatever message.
OnEdited(call) ==
  /\ call \in mvEdits
  /\ mvEdits' = mvEdits \ {call}
  /\ mvEditing' = 0
  /\ UNCHANGED <<mvList, mvPicker, mvAnswer, mvDraft, mvMixed, mvCall, mvCrashed,
                 mvKeys>>

\* EditResultMsg with an error puts the text back if a message is edited, another
\* one than that of the call as well.
OnEditFailed(call) ==
  /\ call \in mvEdits
  /\ mvEdits' = mvEdits \ {call}
  /\ IF mvEditing = 0 THEN UNCHANGED <<mvDraft, mvMixed>>
     ELSE /\ mvDraft' = call.draft
          /\ mvMixed' = IF call.target = mvEditing THEN mvMixed
                        ELSE mvMixed \cup {mvEditing}
  /\ UNCHANGED <<mvList, mvPicker, mvAnswer, mvEditing, mvCall, mvCrashed, mvKeys>>

-----------------------------------------------------------------------------
MvUser ==
  \/ ReplyToNewest \/ StartReplyPicker \/ StartEditPicker
  \/ MovePickUp \/ MovePickDown \/ ConfirmReply \/ ConfirmEdit
  \/ Type \/ Erase \/ Escape \/ SubmitEdit \/ SubmitMessage \/ EditLastCommand
  \/ \E m \in MvIds : StartEditOf(m) \/ EditCommand(m)
  \/ \E c \in MvChannels : ShowChannel(c) \/ LeaveChannel(c)

MvRest ==
  \/ \E m \in MvIds : OnMessageHere(m) \/ OnPage(m)
  \/ \E call \in mvEdits : OnEdited(call) \/ OnEditFailed(call)

MvNext == ~mvCrashed /\ (MvUser \/ MvRest)

MvSpec == MvInit /\ [][MvNext]_mvVars

-----------------------------------------------------------------------------
(* Properties.                                                             *)

\* A message chosen in the reply picker is the one the reply is sent to, however
\* many messages arrive, are inserted before it or fall off the list meanwhile.
PickedReplyKept ==
  [][mvCall' # mvCall /\ mvCall'.op = "send" /\ mvChosen # 0
       => mvCall'.target = mvChosen]_mvVars

\* No edit is called for a message on screen that is another user's, wherever the
\* list has moved under the index of the picker.  And what the input holds while a
\* message is edited, and what an edit is sent with, is its own text or a typed
\* one, also when edits fail late and their texts are put back; unless the text
\* was put back into the edit of another message, which the code does not tell
\* apart: that message is excepted while its edit or a call of it lasts.
EditsAreOwn ==
  /\ mvCall.op = "edit" /\ mvCall.listed => MvKind[mvCall.target] # "other"
  /\ mvEditing # 0 /\ mvDraft \in MvIds => mvDraft = mvEditing \/ mvEditing \in mvMixed
  /\ \A call \in mvEdits :
       call.draft \in MvIds => call.draft = call.target \/ call.target \in mvMixed

\* "Move to previous non-system message" (tui.go:1290) whatever has become of the
\* list since the picker was opened: no key ends the program.
PickerStaysInList == ~mvCrashed
=============================================================================
