----------------------------- MODULE LocalStore -----------------------------
(***************************************************************************)
(* What the screen and the local store say of a message (internal/tui      *)
(* onMessageEvent, FetchResultMsg, localHistoryMsg, EditResultMsg;         *)
(* mergeMessages; internal/db InsertMessage, UpdateMessage, GetMessages).  *)
(* Every write and read of the store is a command of its own: a goroutine  *)
(* that the Update loop does not wait for, so they take effect in any      *)
(* order.                                                                  *)
(*                                                                         *)
(* A message has a text, which the network counts up with each edit, and   *)
(* the number of reactions to it.  Of the other columns nothing is kept.   *)
(* One network and one database; TuiSession has the lists of messages.     *)
(***************************************************************************)
EXTENDS Naturals, FiniteSets, Sequences, SequencesExt

CONSTANTS
  LsChannels,   \* channels that can be on screen
  LsPlace,      \* the channel of each message
  MaxLsTexts,   \* bound: texts of a message, the first and its edits
  MaxLsReacts,  \* bound: reactions to a message
  MaxLsWrites,  \* bound: writes in flight
  MaxLsOpens    \* bound: channel switches

LsIds == DOMAIN LsPlace

ASSUME LocalStoreAssumption ==
  /\ IsFiniteSet(LsIds)
  /\ LsPlace \in [LsIds -> LsChannels]
  /\ {MaxLsTexts, MaxLsReacts, MaxLsWrites, MaxLsOpens} \subseteq Nat

VARIABLES
  lsChannel,   \* m.channel
  lsShown,     \* m.msgs
  lsRows,      \* the messages table
  lsWrites,    \* writes that have been issued and have not happened
  lsReads,     \* loadLocalHistory: issued, or with what it has read
  lsMade,      \* how many texts a message has on its network
  lsHeard,     \* how many of them have come as events
  lsAnswers,   \* the user's edits: answers of the calls that are under way
  lsTold,      \* history: the text of a message that the network last brought
  lsDisturbed, \* history: messages about which a write or a read overlapped
  lsBlurred,   \* history: those of which a read may bring an older text
  lsOpens      \* bounded by MaxLsOpens

lsNetwork == <<lsMade, lsHeard, lsAnswers>>
lsVars == <<lsChannel, lsShown, lsRows, lsWrites, lsReads, lsNetwork, lsTold,
            lsDisturbed, lsBlurred, lsOpens>>

LsTexts == 1..MaxLsTexts
LsRecord == [text : LsTexts, reacts : 0..MaxLsReacts]
LsTables == UNION {[ids -> LsRecord] : ids \in SUBSET LsIds}

LsTypeOK ==
  /\ lsChannel \in LsChannels
  /\ {lsShown, lsRows} \subseteq LsTables
  /\ lsWrites \in Seq([op : {"insert", "update"}, id : LsIds, row : LsRecord])
  /\ Len(lsWrites) <= MaxLsWrites
  /\ lsReads \in Seq([channel : LsChannels, done : BOOLEAN, got : LsTables])
  /\ lsMade \in [LsIds -> 0..MaxLsTexts]
  /\ \A m \in LsIds : lsHeard[m] \in 0..lsMade[m]
  /\ lsAnswers \subseteq [id : LsIds, text : LsTexts]
  /\ lsTold \in [LsIds -> 0..MaxLsTexts]
  /\ lsBlurred \subseteq lsDisturbed /\ lsDisturbed \subseteq LsIds
  /\ lsOpens \in 0..MaxLsOpens

NoTable == [m \in {} |-> [text |-> 1, reacts |-> 0]]
LsRead(c) == [channel |-> c, done |-> FALSE, got |-> NoTable]

\* The program has started, with an empty store.
LsInit ==
  /\ lsChannel \in LsChannels
  /\ lsShown = NoTable
  /\ lsRows = NoTable
  /\ lsWrites = <<>>
  /\ lsReads = <<LsRead(lsChannel)>>
  /\ lsMade = [m \in LsIds |-> 0]
  /\ lsHeard = [m \in LsIds |-> 0]
  /\ lsAnswers = {}
  /\ lsTold = [m \in LsIds |-> 0]
  /\ lsDisturbed = {}
  /\ lsBlurred = {}
  /\ lsOpens = 0

With(table, m, row) == [k \in DOMAIN table \cup {m} |-> IF k = m THEN row ELSE table[k]]
Shows(m) == m \in DOMAIN lsShown
InFlight(m) == \E k \in DOMAIN lsWrites : lsWrites[k].id = m
BeingRead(m) == \E k \in DOMAIN lsReads : lsReads[k].channel = LsPlace[m]

-----------------------------------------------------------------------------
(* The network (external).                                                 *)

\* A message is sent, or edited by its author at another client.
NewText(m) ==
  /\ lsMade[m] < MaxLsTexts
  /\ lsMade' = [lsMade EXCEPT ![m] = @ + 1]
  /\ UNCHANGED <<lsChannel, lsShown, lsRows, lsWrites, lsReads, lsHeard, lsAnswers,
                 lsTold, lsDisturbed, lsBlurred, lsOpens>>

\* The user's edit of a message on screen has reached the network, which will
\* answer the call and send the event as for any other.
OwnEdit(m) ==
  /\ Shows(m)
  /\ lsMade[m] < MaxLsTexts
  /\ lsMade' = [lsMade EXCEPT ![m] = @ + 1]
  /\ lsAnswers' = lsAnswers \cup {[id |-> m, text |-> lsMade[m] + 1]}
  /\ UNCHANGED <<lsChannel, lsShown, lsRows, lsWrites, lsReads, lsHeard, lsTold,
                 lsDisturbed, lsBlurred, lsOpens>>

-----------------------------------------------------------------------------
(* The store.                                                              *)

\* persistMessage, persistMessageUpdate: the write has been issued.
IssueWrite(op, m, row) ==
  /\ Len(lsWrites) < MaxLsWrites
  /\ lsWrites' = Append(lsWrites, [op |-> op, id |-> m, row |-> row])

\* Nothing else is under way for m.
Undisturbed(m) == ~InFlight(m) /\ ~BeingRead(m)

\* A word of the network about m, which is shown if m is, and clear.  A read that
\* is under way may bring the one before it to the screen.
Told(m, text, clear) ==
  /\ lsTold' = [lsTold EXCEPT ![m] = text]
  /\ lsDisturbed' = IF clear /\ Undisturbed(m) THEN lsDisturbed \ {m}
                                               ELSE lsDisturbed \cup {m}
  /\ lsBlurred' = IF clear /\ ~BeingRead(m) THEN lsBlurred \ {m}
                                            ELSE lsBlurred \cup {m}

\* What a write puts into the table: the upsert of InsertMessage, or the UPDATE,
\* which finds no row if the message was never inserted.
Written(w, row) ==
  IF w.op = "insert" \/ w.id \in DOMAIN lsRows THEN With(lsRows, w.id, row) ELSE lsRows

\* A write happens.  Its copy of the message shares the reactions with the list on
\* screen, where they may have been counted up or down in the meantime.
WriteRow(k) ==
  /\ k \in DOMAIN lsWrites
  /\ LET w == lsWrites[k]
     IN  \/ lsRows' = Written(w, w.row)
         \/ /\ w.row.reacts > 0 /\ Shows(w.id)
            /\ lsRows' = Written(w, [w.row EXCEPT !.reacts = lsShown[w.id].reacts])
  /\ lsWrites' = RemoveAt(lsWrites, k)
  /\ UNCHANGED <<lsChannel, lsShown, lsReads, lsNetwork, lsTold, lsDisturbed, lsBlurred,
                 lsOpens>>

\* The store is busy or full: the error is shown, the row stays.
WriteRowFails(k) ==
  /\ k \in DOMAIN lsWrites
  /\ lsWrites' = RemoveAt(lsWrites, k)
  /\ lsDisturbed' = lsDisturbed \cup {lsWrites[k].id}
  /\ UNCHANGED <<lsChannel, lsShown, lsRows, lsReads, lsNetwork, lsTold, lsBlurred,
                 lsOpens>>

\* GetMessages of loadLocalHistory.
ReadRows(k) ==
  /\ k \in DOMAIN lsReads
  /\ ~lsReads[k].done
  /\ LET here == {m \in DOMAIN lsRows : LsPlace[m] = lsReads[k].channel}
     IN  lsReads' = [lsReads EXCEPT ![k].done = TRUE,
                                    ![k].got = [m \in here |-> lsRows[m]]]
  /\ UNCHANGED <<lsChannel, lsShown, lsRows, lsWrites, lsNetwork, lsTold, lsDisturbed,
                 lsBlurred, lsOpens>>

-----------------------------------------------------------------------------
(* The Update loop.                                                        *)

\* mergeMessageFields: the text is taken over, the reactions are not.
Merged(m, row) == IF Shows(m) THEN [lsShown[m] EXCEPT !.text = row.text] ELSE row

Original == [text |-> 1, reacts |-> 0]

\* A new message is put into the list, if it is not there already, and inserted as
\* it came.
OnNewMessage(m) ==
  /\ lsHeard[m] = 0 /\ lsMade[m] > 0
  /\ lsHeard' = [lsHeard EXCEPT ![m] = 1]
  /\ lsShown' = IF lsChannel = LsPlace[m] /\ ~Shows(m) THEN With(lsShown, m, Original)
                                                       ELSE lsShown
  /\ IssueWrite("insert", m, Original)
  /\ Told(m, 1, ~Shows(m) \/ lsShown[m].text = 1)
  /\ UNCHANGED <<lsChannel, lsRows, lsReads, lsMade, lsAnswers, lsOpens>>

\* applyMessageUpdate on a message in the list.
ApplyText(m, text) ==
  lsShown' = IF Shows(m) THEN [lsShown EXCEPT ![m].text = text] ELSE lsShown

\* [fault] a message that is not in the list is left to the next page.
IssueIfShown(m, text) ==
  IF Shows(m) THEN IssueWrite("update", m, [text |-> text, reacts |-> lsShown[m].reacts])
              ELSE UNCHANGED lsWrites

\* The message as it is on screen now, or the event as it came, without reactions.
IssueUpdate(m, text) ==
  IssueWrite("update", m, [text |-> text, reacts |-> IF Shows(m) THEN lsShown[m].reacts ELSE 0])

\* message_update.
OnUpdate(m) ==
  /\ lsHeard[m] \in 1..(lsMade[m] - 1)
  /\ lsHeard' = [lsHeard EXCEPT ![m] = @ + 1]
  /\ ApplyText(m, lsHeard[m] + 1)
  /\ IssueUpdate(m, lsHeard[m] + 1)
  /\ Told(m, lsHeard[m] + 1, TRUE)
  /\ UNCHANGED <<lsChannel, lsRows, lsReads, lsMade, lsAnswers, lsOpens>>

\* EditResultMsg: nothing is done about a message that is not in the list.
OnEditAnswer(a) ==
  /\ a \in lsAnswers
  /\ lsAnswers' = lsAnswers \ {a}
  /\ IF Shows(a.id)
     THEN /\ ApplyText(a.id, a.text)
          /\ IssueUpdate(a.id, a.text)
          /\ Told(a.id, a.text, TRUE)
     ELSE UNCHANGED <<lsShown, lsWrites, lsTold, lsDisturbed, lsBlurred>>
  /\ UNCHANGED <<lsChannel, lsRows, lsReads, lsMade, lsHeard, lsOpens>>

\* updateReactions: one added or removed; none is removed of none.
Counted(n) == {n + 1, IF n = 0 THEN 0 ELSE n - 1}

\* The message in the list is counted up or down and written; a reaction to one
\* that is not there is dropped.
OnReaction(m) ==
  /\ Shows(m)
  /\ \E n \in Counted(lsShown[m].reacts) \cap (0..MaxLsReacts) :
       LET row == [lsShown[m] EXCEPT !.reacts = n]
       IN  lsShown' = With(lsShown, m, row) /\ IssueWrite("update", m, row)
  /\ lsDisturbed' = IF Undisturbed(m) THEN lsDisturbed ELSE lsDisturbed \cup {m}
  /\ UNCHANGED <<lsChannel, lsRows, lsReads, lsMade, lsHeard, lsAnswers, lsTold,
                 lsBlurred, lsOpens>>

\* FetchResultMsg: a page has the text the message was sent with, or the present
\* one; merged, and inserted as it came.  A longer page is several in a row.
OnFetched(m) ==
  /\ lsMade[m] > 0 /\ LsPlace[m] = lsChannel
  /\ \E text \in {1, lsMade[m]} :
       LET row == [text |-> text, reacts |-> 0]
       IN  /\ lsShown' = With(lsShown, m, Merged(m, row))
           /\ IssueWrite("insert", m, row)
           /\ Told(m, text, TRUE)
  /\ UNCHANGED <<lsChannel, lsRows, lsReads, lsNetwork, lsOpens>>

\* localHistoryMsg: merged, if its channel is on screen and it could be read.
OnLocalRows(k) ==
  /\ k \in DOMAIN lsReads
  /\ lsReads[k].done
  /\ LET got == lsReads[k].got
     IN  \/ /\ lsReads[k].channel = lsChannel
            /\ lsShown' = [m \in DOMAIN lsShown \cup DOMAIN got |->
                             IF m \in DOMAIN got THEN Merged(m, got[m]) ELSE lsShown[m]]
         \/ UNCHANGED lsShown
  /\ lsReads' = RemoveAt(lsReads, k)
  /\ UNCHANGED <<lsChannel, lsRows, lsWrites, lsNetwork, lsTold, lsDisturbed, lsBlurred,
                 lsOpens>>

\* SwitchChannelMsg, also to the channel on screen.
SwitchTo(c) ==
  /\ lsOpens < MaxLsOpens
  /\ lsOpens' = lsOpens + 1
  /\ lsChannel' = c
  /\ lsShown' = NoTable
  /\ lsReads' = Append(lsReads, LsRead(c))
  /\ LET overtaken == {m \in LsIds : LsPlace[m] = c /\ InFlight(m)}
         misread   == {m \in lsDisturbed : LsPlace[m] = c}
     IN  /\ lsDisturbed' = lsDisturbed \cup overtaken
         /\ lsBlurred' = lsBlurred \cup overtaken \cup misread
  /\ UNCHANGED <<lsRows, lsWrites, lsNetwork, lsTold>>

-----------------------------------------------------------------------------
LsNext ==
  \/ \E m \in LsIds :
       \/ NewText(m) \/ OwnEdit(m)
       \/ OnNewMessage(m) \/ OnUpdate(m) \/ OnReaction(m) \/ OnFetched(m)
  \/ \E a \in lsAnswers : OnEditAnswer(a)
  \/ \E k \in DOMAIN lsWrites : WriteRow(k) \/ WriteRowFails(k)
  \/ \E k \in DOMAIN lsReads : ReadRows(k) \/ OnLocalRows(k)
  \/ \E c \in LsChannels : SwitchTo(c)

LsSpec == LsInit /\ [][LsNext]_lsVars

-----------------------------------------------------------------------------
(* Properties.                                                             *)

\* The screen shows the text that the network last brought, however many writes are
\* under way, overtake each other or fail, and also after the channel was left and
\* is read from the store again; and the store has it once the write has happened,
\* with the reactions on the screen or without any.  Excepted until the network
\* next brings the message with nothing under way are: from the store, one with two
\* writes under way, a write that failed, or a read beside a write; from the
\* screen, one of these that was read again, or for which a read was under way.
\* The code orders none of them.
LastWordKept ==
  /\ \A m \in LsIds \ lsBlurred : Shows(m) => lsShown[m].text = lsTold[m]
  /\ \A m \in LsIds \ lsDisturbed :
       m \in DOMAIN lsRows /\ ~InFlight(m)
         => /\ lsRows[m].text = lsTold[m]
            /\ Shows(m) => lsRows[m].reacts \in {0, lsShown[m].reacts}
=============================================================================
