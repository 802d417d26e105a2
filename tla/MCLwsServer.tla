---------------------------- MODULE MCLwsServer -----------------------------
(* A small instance of LwsServer for TLC: two readers.                      *)
EXTENDS LwsServer

CONSTANTS c1, c2

MCPeers == {c1, c2}
=============================================================================
