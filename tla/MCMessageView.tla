--------------------------- MODULE MCMessageView ---------------------------
(* MessageView with three messages of one channel: the user's own, one of   *)
(* another user's, and an own one that cannot be edited.                    *)
EXTENDS MessageView, TLC

MCKind  == (1 :> "own") @@ (2 :> "other") @@ (3 :> "locked")
MCPlace == [m \in 1..3 |-> "a"]
=============================================================================
