----------------------------- MODULE EventStream -----------------------------
(***************************************************************************)
(* What internal/network/interface.go promises the TUI of every network's  *)
(* Events(): one channel, "the fan-in source", on which events "flow until *)
(* ctx is cancelled or Disconnect is called" and which is "closed when the *)
(* adapter fully stops".  So it is closed once and only after a request to *)
(* stop; nothing is sent afterwards; and an event the adapter has begun to *)
(* send reaches the channel, in order, however slow the TUI is, unless the *)
(* adapter was asked to stop meanwhile.  The adapters implement this.      *)
(***************************************************************************)
EXTENDS Naturals, Sequences

CONSTANTS
  Events,    \* what is sent
  NoEvent,   \* nothing is being sent
  Capacity   \* of the channel

VARIABLES
  queue,    \* sent and not yet received
  offered,  \* the event being sent, or NoEvent
  open,     \* the channel is not closed
  stopping  \* the context is cancelled or Disconnect was called

streamVars == <<queue, offered, open, stopping>>

\* The adapter is started; one that never is has stopped from the beginning.
StreamInit ==
  /\ queue = <<>>
  /\ offered \in Events \cup {NoEvent}
  /\ open \in BOOLEAN
  /\ stopping = ~open

Offer(e) ==
  /\ open
  /\ offered = NoEvent
  /\ offered' = e
  /\ UNCHANGED <<queue, open, stopping>>

Send ==
  /\ open
  /\ offered \in Events
  /\ Len(queue) < Capacity
  /\ queue' = Append(queue, offered)
  /\ offered' = NoEvent
  /\ UNCHANGED <<open, stopping>>

\* Only an adapter that is being stopped gives an event up.
Drop ==
  /\ stopping
  /\ offered' = NoEvent
  /\ UNCHANGED <<queue, open, stopping>>

\* The TUI's listener; what was sent before the close is still received.
Receive ==
  /\ queue # <<>>
  /\ queue' = Tail(queue)
  /\ UNCHANGED <<offered, open, stopping>>

Stop ==
  /\ stopping' = TRUE
  /\ UNCHANGED <<queue, offered, open>>

Close ==
  /\ open
  /\ stopping
  /\ open' = FALSE
  /\ offered' = NoEvent
  /\ UNCHANGED <<queue, stopping>>

StreamNext ==
  (\E e \in Events : Offer(e)) \/ Send \/ Drop \/ Receive \/ Stop \/ Close

StreamSpec == StreamInit /\ [][StreamNext]_streamVars
==============================================================================
