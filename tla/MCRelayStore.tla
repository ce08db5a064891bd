---------------------------- MODULE MCRelayStore ----------------------------
(* RelayStore with interchangeable publishers.                             *)
EXTENDS RelayStore, TLC

PublisherSymmetry == Permutations(Publishers)
=============================================================================
