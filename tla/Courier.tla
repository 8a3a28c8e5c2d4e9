-------------------------------- MODULE Courier --------------------------------
(***************************************************************************)
(* What delivery promises about every message: it is credited once or      *)
(* dropped, and only what was credited composes a call, which is made once.*)
(***************************************************************************)
CONSTANT Nonce

VARIABLES outcome, call

TypeOK ==
  /\ outcome \in [Nonce -> {"waiting", "credited", "dropped"}]
  /\ call \in [Nonce -> {"none", "owed", "made"}]

Init ==
  /\ outcome = [n \in Nonce |-> "waiting"]
  /\ call = [n \in Nonce |-> "none"]

End(n, how) ==
  /\ outcome[n] = "waiting"
  /\ outcome' = [outcome EXCEPT ![n] = how]

Owe(n) ==
  /\ outcome'[n] = "credited"
  /\ call[n] = "none"
  /\ call' = [call EXCEPT ![n] = "owed"]

Make(n) ==
  /\ call[n] = "owed"
  /\ call' = [call EXCEPT ![n] = "made"]

Next == \E n \in Nonce :
  \/ End(n, "credited") /\ (UNCHANGED call \/ Owe(n))
  \/ End(n, "dropped") /\ UNCHANGED call
  \/ UNCHANGED outcome /\ (Owe(n) \/ Make(n))

Spec == Init /\ [][Next]_<<outcome, call>>
=============================================================================
