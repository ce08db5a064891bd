------------------------------ MODULE Mentions ------------------------------
(***************************************************************************)
(* The list of mentions and its table (internal/tui onMessageEvent,        *)
(* updateCheckMsg, ClearNotificationsMsg, New; internal/db                 *)
(* InsertNotification, GetNotifications, ClearNotifications).  The list    *)
(* changes at once, the table in goroutines that nobody waits for; the     *)
(* next start reads the list from the table.                               *)
(*                                                                         *)
(* A mention is the message it is made of: one with the user's name, from  *)
(* somebody else, in a channel that is not muted.  The same message comes  *)
(* again after a start, when a network repeats what it has sent.  Left out *)
(* is one with the very text of a message the user has just sent, which is *)
(* taken for that message and gets no row.                                 *)
(***************************************************************************)
EXTENDS Naturals, FiniteSets, Sequences, SequencesExt

CONSTANTS
  MnIds,       \* messages that mention the user
  MnNotice,    \* the id, an empty one, of the news that there is an update
  MaxMnWrites, \* bound: commands on the table in flight
  MaxMnStarts, \* bound: starts after the first
  MaxMnClears  \* bound: clears

ASSUME MentionsAssumption ==
  /\ IsFiniteSet(MnIds) /\ MnNotice \notin MnIds
  /\ {MaxMnWrites, MaxMnStarts, MaxMnClears} \subseteq Nat

VARIABLES
  mnList,      \* m.notifications
  mnTable,     \* the notifications table
  mnWrites,    \* commands on the table that are under way: an insert, or the clear
  mnSaid,      \* what the networks, or the update check, have said since the start
  mnDue,       \* history: mentions that came after the last clear
  mnDisturbed, \* history: mentions whose row an insert and a clear ran for
  mnMisread,   \* history: those of which the list was read from that row
  mnStarts,    \* bounded by MaxMnStarts
  mnClears     \* bounded by MaxMnClears

mnVars == <<mnList, mnTable, mnWrites, mnSaid, mnDue, mnDisturbed, mnMisread, mnStarts,
            mnClears>>

MnRows == MnIds \cup {MnNotice}
MnClear == [op |-> "clear"]
MnInsert(id) == [op |-> "insert", id |-> id]

MnTypeOK ==
  /\ mnList \in Seq(MnRows)
  /\ mnTable \subseteq MnRows
  /\ mnWrites \in Seq({MnClear} \cup {MnInsert(id) : id \in MnIds})
  /\ Len(mnWrites) <= MaxMnWrites
  /\ mnSaid \subseteq MnRows
  /\ mnDue \subseteq MnIds
  /\ {mnDisturbed, mnMisread} \subseteq SUBSET MnIds
  /\ mnStarts \in 0..MaxMnStarts
  /\ mnClears \in 0..MaxMnClears

MnInit ==
  /\ mnList = <<>>
  /\ mnTable = {}
  /\ mnWrites = <<>>
  /\ mnSaid = {}
  /\ mnDue = {}
  /\ mnDisturbed = {}
  /\ mnMisread = {}
  /\ mnStarts = 0
  /\ mnClears = 0

Inserting == {id \in MnIds : \E k \in DOMAIN mnWrites : mnWrites[k] = MnInsert(id)}
Clearing == \E k \in DOMAIN mnWrites : mnWrites[k] = MnClear

-----------------------------------------------------------------------------
(* The Update loop.                                                        *)

\* A new message that is a mention.
OnMention(id) ==
  /\ id \notin mnSaid
  /\ Len(mnWrites) < MaxMnWrites
  /\ mnSaid' = mnSaid \cup {id}
  /\ mnList' = Append(mnList, id)
  /\ mnWrites' = Append(mnWrites, MnInsert(id))
  /\ mnDue' = mnDue \cup {id}
  /\ mnDisturbed' = IF Clearing \/ id \in Inserting THEN mnDisturbed \cup {id}
                                                    ELSE mnDisturbed \ {id}
  /\ mnMisread' = mnMisread \ {id}
  /\ UNCHANGED <<mnTable, mnStarts, mnClears>>

\* updateCheckMsg: on top of the list, and into the table at once, where the row of
\* an earlier one stays.
OnUpdateCheck ==
  /\ MnNotice \notin mnSaid
  /\ mnSaid' = mnSaid \cup {MnNotice}
  /\ mnList' = <<MnNotice>> \o mnList
  /\ mnTable' \in {mnTable, mnTable \cup {MnNotice}}
  /\ UNCHANGED <<mnWrites, mnDue, mnDisturbed, mnMisread, mnStarts, mnClears>>

\* [fault] the list alone.
ForgetOnScreen == UNCHANGED mnWrites

\* The table is emptied by a goroutine.
ForgetRows == Len(mnWrites) < MaxMnWrites /\ mnWrites' = Append(mnWrites, MnClear)

ClearMentions ==
  /\ mnClears < MaxMnClears
  /\ mnClears' = mnClears + 1
  /\ mnList' = <<>>
  /\ ForgetRows
  /\ mnDue' = {}
  /\ mnDisturbed' = Inserting
  /\ mnMisread' = {}
  /\ UNCHANGED <<mnTable, mnSaid, mnStarts>>

-----------------------------------------------------------------------------
(* The table.                                                              *)

\* InsertNotification, which leaves a row that is there, or ClearNotifications.
WriteHappens(k) ==
  /\ mnTable' = IF mnWrites[k] = MnClear THEN {} ELSE mnTable \cup {mnWrites[k].id}
  /\ mnWrites' = RemoveAt(mnWrites, k)
  /\ UNCHANGED <<mnList, mnSaid, mnDue, mnDisturbed, mnMisread, mnStarts, mnClears>>

\* The mentions a command is about: all that have a row, or its own.
About(w) == IF w = MnClear THEN mnTable \cap MnIds ELSE {w.id}

\* The store is busy or full; of a clear nobody hears.
WriteFails(k) ==
  /\ mnWrites' = RemoveAt(mnWrites, k)
  /\ mnDisturbed' = mnDisturbed \cup About(mnWrites[k])
  /\ UNCHANGED <<mnList, mnTable, mnSaid, mnDue, mnMisread, mnStarts, mnClears>>

\* The program ends, with what is under way, and starts again: New reads the table,
\* in the order of the timestamps, which is left open here.
StartAgain ==
  /\ mnStarts < MaxMnStarts
  /\ mnStarts' = mnStarts + 1
  /\ mnList' = SetToSeq(mnTable)
  /\ mnWrites' = <<>>
  /\ mnSaid' = {}
  /\ mnDisturbed' = mnDisturbed \cup UNION {About(mnWrites[k]) : k \in DOMAIN mnWrites}
  /\ mnMisread' = mnDisturbed'
  /\ UNCHANGED <<mnTable, mnDue, mnClears>>

-----------------------------------------------------------------------------
MnNext ==
  \/ \E id \in MnIds : OnMention(id)
  \/ OnUpdateCheck
  \/ ClearMentions
  \/ \E k \in DOMAIN mnWrites : WriteHappens(k) \/ WriteFails(k)
  \/ StartAgain

MnSpec == MnInit /\ [][MnNext]_mnVars

-----------------------------------------------------------------------------
(* Properties.                                                             *)

\* The list has the mentions that came since it was cleared and no other, whatever
\* overtakes what and fails below, also after the program has ended and started
\* again; and so has the table when nothing is under way.  Excepted until the next
\* clear, or until it comes again, is in the table a mention that came while a clear
\* was under way, was on its way when it was cleared, or whose write or clear failed
\* or was overtaken by the end, and in the list one that was read from such a row.
\* The code orders none of them.
MentionsKept ==
  /\ \A id \in MnIds \ mnMisread : id \in Range(mnList) <=> id \in mnDue
  /\ \A id \in MnIds \ mnDisturbed :
       id \notin Inserting /\ ~Clearing => (id \in mnTable <=> id \in mnDue)
=============================================================================
