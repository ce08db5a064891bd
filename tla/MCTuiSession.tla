---------------------------- MODULE MCTuiSession ----------------------------
(* TuiSession with budgets that bring out each group of its hazards        *)
(* without multiplying them: two messages around one action, one message   *)
(* around two actions, one around two connection changes, three changes,   *)
(* one of each.                                                            *)
EXTENDS TuiSession

MCBudgets ==
  {[posts |-> 2, changes |-> 0, acts |-> 1],
   [posts |-> 1, changes |-> 0, acts |-> 2],
   [posts |-> 1, changes |-> 2, acts |-> 0],
   [posts |-> 0, changes |-> 3, acts |-> 0],
   [posts |-> 1, changes |-> 1, acts |-> 1]}
=============================================================================
