---------------------------- MODULE MCRelayHub ----------------------------
(* Instances of RelayHub for TLC. *)
EXTENDS RelayHub, TLC

ConnSymmetry == Permutations(Conns)
=============================================================================
