-------------------------------- MODULE Inbox --------------------------------
(***************************************************************************)
(* What a messaging channel promises its receiver, without accounts,       *)
(* counters, lists or windows.                                             *)
(*                                                                         *)
(* Every nonce gets a verdict, in any order and as often as the receive    *)
(* library likes: a message that may be delivered, or NIL, which blocks    *)
(* delivery.  A nonce can end only when every lower nonce has a verdict or *)
(* has ended itself, and it ends at most once: delivered with its current  *)
(* verdict, burnt with one, or skipped while it has none.                  *)
(***************************************************************************)
EXTENDS Integers, Sequences

CONSTANTS MaxNonce, Payload, NIL, NONE, DONE, SKIPPED, BURNT

VARIABLES
  verdict,   \* the standing verdict of every nonce
  fate       \* the ends every nonce came to

vars == <<verdict, fate>>
Nonce == 1..MaxNonce

Init ==
  /\ verdict = [n \in Nonce |-> NONE]
  /\ fate = [n \in Nonce |-> << >>]

Settled(n) == verdict[n] # NONE
Reached(n) == \A m \in 1..(n - 1) : Settled(m)

Decide(n, v) ==
  /\ verdict[n] # DONE
  /\ verdict' = [verdict EXCEPT ![n] = v]
  /\ UNCHANGED fate

End(n, how) ==
  /\ Reached(n)
  /\ verdict' = [verdict EXCEPT ![n] = DONE]
  /\ fate' = [fate EXCEPT ![n] = Append(@, how)]

Deliver(n, p) == verdict[n] = p /\ End(n, p)
Discard(n) == verdict[n] \notin {NONE, DONE} /\ End(n, BURNT)
Pass(n) == verdict[n] = NONE /\ End(n, SKIPPED)

Next == \E n \in Nonce :
  \/ \E v \in Payload \cup {NIL} : Decide(n, v)
  \/ \E p \in Payload : Deliver(n, p)
  \/ Discard(n)
  \/ Pass(n)

Spec == Init /\ [][Next]_vars
=============================================================================
