------------------------------ MODULE MCReceive ------------------------------
(* TLC instance of Receive: one packet, which the remote chain may or may   *)
(* not include; an admin whose default configuration trusts the faulty DVN  *)
(* only; a receiver that uses the default or pins the honest DVN.           *)
EXTENDS Receive

CONSTANTS honest, faulty, msg

MCPacket == {<<1, msg>>}
Choice(conf, dvns, others) ==
  [confirmations |-> conf, required |-> dvns, optional |-> others, threshold |-> 0]
MCDefaultChoices == {Choice(1, {faulty}, {})}
MCCustomChoices == {Choice(0, {honest}, {}), Choice(1, {honest}, NIL)}

(* For the view: two nonces, a window of one, no trust to tell apart.       *)
ViewPacket == {<<1, msg>>, <<2, msg>>}
ViewDefaultChoices == {Choice(1, {honest}, {})}
ViewCustomChoices == {}
=============================================================================
