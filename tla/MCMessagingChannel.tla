-------------------------- MODULE MCMessagingChannel --------------------------
(* The TLC instance of MessagingChannel with the executor's view of it.     *)
EXTENDS ExecutionView
=============================================================================
