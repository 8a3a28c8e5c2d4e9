--------------------------- MODULE MCDvnMultisig ---------------------------
(* TLC instances of DvnMultisig: two honest keys, the second of which only *)
(* replaces the first committee, and a compromised one; two accounts that  *)
(* are admins, OApps or libraries; and the transactions there are.         *)
EXTENDS DvnMultisig

CONSTANTS h1, h2, f, alice, bob

Tx(expiration, call) == [vid |-> 1, expiration |-> expiration, call |-> call]

(* What the second key does not sign, what both sign and what neither      *)
(* does: changes of the committee, the admins and the lists (one of which  *)
(* is too long unless it comes second), and transactions of another        *)
(* program and of another DVN.                                             *)
SignedOnce ==
  { Tx(2, [kind |-> "Quorum", quorum |-> 1]),
    Tx(1, [kind |-> "Signers", signers |-> {h2}]),
    Tx(2, [kind |-> "Denylist", toggles |-> <<alice, bob>>]) }
SignedTwice ==
  { Tx(2, [kind |-> "Quorum", quorum |-> 2]),
    Tx(1, [kind |-> "Admins", admins |-> {bob}]),
    Tx(1, [kind |-> "Denylist", toggles |-> <<alice>>]),
    Tx(2, [kind |-> "Allowlist", toggles |-> <<bob>>]),
    Tx(1, [kind |-> "Msglibs", toggles |-> <<bob, alice>>]),
    Tx(2, [kind |-> "Msglibs", toggles |-> <<alice>>]),
    Tx(1, [kind |-> "Other"]),
    [vid |-> 2, expiration |-> 1, call |-> [kind |-> "Other"]] }
Unsigned == { Tx(2, [kind |-> "Paused", paused |-> TRUE]) }

Transactions == SignedOnce \cup SignedTwice \cup Unsigned
HonestSignatures ==
  [d \in Transactions |-> CASE d \in SignedOnce -> {h1}
                            [] d \in SignedTwice -> {h1, h2}
                            [] d \in Unsigned -> {}]

Genesis ==
  { [signers |-> {h1, f}, quorum |-> 2, admins |-> {alice}, msglibs |-> <<bob>>] }
=============================================================================
