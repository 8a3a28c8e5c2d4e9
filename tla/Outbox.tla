-------------------------------- MODULE Outbox --------------------------------
(***************************************************************************)
(* What sending promises: every receiver has a log that only grows, by one *)
(* message at a time, and a message's nonce is its place in the log.       *)
(***************************************************************************)
EXTENDS Sequences

CONSTANTS Receiver, Message

VARIABLE log

TypeOK == log \in [Receiver -> Seq(Message)]

Init == log = [r \in Receiver |-> << >>]

Post(r, message) == log' = [log EXCEPT ![r] = Append(@, message)]

Next == \E r \in Receiver, message \in Message : Post(r, message)

Spec == Init /\ [][Next]_log
=============================================================================
