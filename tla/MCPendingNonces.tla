---------------------------- MODULE MCPendingNonces ----------------------------
(* The TLC instance of PendingNonces: every order of insertions.            *)
EXTENDS PendingNonces
=============================================================================
