----------------------------- MODULE MCWsClient -----------------------------
(* WsClient as it is checked: no definition of its own is needed, the      *)
(* configurations give the constants their values.                         *)
EXTENDS WsClient
=============================================================================
