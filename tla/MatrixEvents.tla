---------------------------- MODULE MatrixEvents ----------------------------
(***************************************************************************)
(* How internal/network/matrix maps the events of a room to what the TUI   *)
(* is given, live (onRoomMessage, onReaction, onTyping) and in a page of   *)
(* history (FetchHistory).  An event is its kind; what it says, who wrote  *)
(* it and the attachments are left out.                                    *)
(***************************************************************************)

\* "locked": encrypted, and no session to decrypt it.  "blank": a reaction
\* without a target or a key.  "state": joins, topics and all other kinds.
EventKinds == {"text", "reply", "thread", "edit", "reaction", "blank", "typing",
               "locked", "state"}

\* The EventType of eventToMessage; "none" where it returns nil.
EventToMessage(kind) ==
  CASE kind \in {"text", "reply", "thread"} -> "message_create"
    [] kind = "edit" -> "message_update"
    [] OTHER -> "none"

ReactionToMessage(kind) == IF kind = "reaction" THEN "reaction_add" ELSE "none"

\* The handlers that registerHandlers sets up; other kinds have none.
OnRoomEvent(kind) ==
  IF kind = "typing" THEN "typing"
  ELSE IF kind \in {"reaction", "blank"} THEN ReactionToMessage(kind)
  ELSE EventToMessage(kind)

\* What FetchHistory keeps of a page.
InPage(kind) == EventToMessage(kind) = "message_create"
=============================================================================
