--------------------------- MODULE SimpleMessagelib ---------------------------
(***************************************************************************)
(* The fees of the simple message library: a fixed one in the native token *)
(* and a fixed one in the endpoint's token, kept by the library.           *)
(***************************************************************************)
EXTENDS WorkerUtils

CONSTANTS
  SIMPLE,       \* the library's own account
  SimpleFee     \* the fees its admin may set

ASSUME SimpleFeeAssumption == SimpleFee \subseteq Nat

VARIABLE simpleLib

SimpleInit == simpleLib = NONE

InitMessageLib(admin, fee, lzFee) ==
  /\ simpleLib = NONE
  /\ simpleLib' = [admin |-> admin, fee |-> fee, lzFee |-> lzFee]

SetFee(k, fee, lzFee) ==
  /\ simpleLib # NONE
  /\ k = simpleLib.admin
  /\ simpleLib' = [simpleLib EXCEPT !.fee = fee, !.lzFee = lzFee]

TransferSimpleAdmin(k, newAdmin) ==
  /\ simpleLib # NONE
  /\ k = simpleLib.admin
  /\ simpleLib' = [simpleLib EXCEPT !.admin = newAdmin]

SimpleNext == \E k \in Key :
  \/ \E fee, lzFee \in SimpleFee : InitMessageLib(k, fee, lzFee) \/ SetFee(k, fee, lzFee)
  \/ \E newAdmin \in Key : TransferSimpleAdmin(k, newAdmin)

-----------------------------------------------------------------------------
SimpleQuote(payInLz) ==
  IF simpleLib = NONE THEN {}
  ELSE {[native |-> simpleLib.fee, lz |-> IF payInLz THEN simpleLib.lzFee ELSE 0]}

SimpleReceipt(lzFee, payee) ==
  [native |-> simpleLib.fee, lz |-> lzFee,
   paid |-> [a \in payee |-> IF a = SIMPLE THEN simpleLib.fee ELSE 0]]

SimpleSend(nativeFee, payee) ==
  IF simpleLib = NONE THEN {}
  ELSE IF nativeFee < simpleLib.fee THEN {} ELSE {SimpleReceipt(0, payee)}

SimpleSendWithLzToken(nativeFee, lzFee, payee) ==
  IF simpleLib = NONE THEN {}
  ELSE IF nativeFee < simpleLib.fee \/ lzFee < simpleLib.lzFee THEN {}
  ELSE {SimpleReceipt(simpleLib.lzFee, payee)}
=============================================================================
