---------------------------- MODULE TransferFee ----------------------------
(***************************************************************************)
(* The transfer fee of a token-2022 mint, and the amounts by which an OFT  *)
(* that locks such a token makes up for it.  A fee is a share of the       *)
(* amount in parts of ONE, rounded up, and at most `maximum`.              *)
(*                                                                         *)
(* The code multiplies u64 amounts as u128 and checks every step; a result *)
(* beyond u64 fails the instruction, which is the caller's guard here.     *)
(***************************************************************************)
EXTENDS Integers

CONSTANT ONE         \* ONE_IN_BASIS_POINTS

ASSUME OneAssumption == ONE \in Nat \ {0}

TransferFees == [basisPoints : 0..ONE, maximum : Nat]

CeilDiv(n, d) == (n + d - 1) \div d

(* The fee that the token program withholds, and what arrives.             *)
FeeOf(fee, amount) ==
  LET raw == CeilDiv(amount * fee.basisPoints, ONE)
  IN  IF raw <= fee.maximum THEN raw ELSE fee.maximum
PostFee(fee, amount) == amount - FeeOf(fee, amount)

(* A mistake: the division rounds down.                                    *)
PreFeeFloor(fee, amount) ==
  IF fee.basisPoints = 0 \/ amount = 0 THEN amount
  ELSE IF fee.basisPoints = ONE THEN fee.maximum + amount
  ELSE LET raw == (amount * ONE) \div (ONE - fee.basisPoints)
       IN  IF raw - amount >= fee.maximum THEN amount + fee.maximum ELSE raw

(* calculate_pre_fee_amount.                                               *)
PreFee(fee, amount) ==
  IF fee.basisPoints = 0 \/ amount = 0 THEN amount
  ELSE IF fee.basisPoints = ONE THEN fee.maximum + amount
  ELSE LET raw == CeilDiv(amount * ONE, ONE - fee.basisPoints)
       IN  IF raw - amount >= fee.maximum THEN amount + fee.maximum ELSE raw

-----------------------------------------------------------------------------
(* What PreFee must be: after its fee exactly `amount` is left, as send     *)
(* says (send.rs:70), and no less would be enough.                         *)
Exact(fee, amount) == PostFee(fee, PreFee(fee, amount)) = amount
IsLeast(fee, amount, paid) == PostFee(fee, paid) >= amount => PreFee(fee, amount) <= paid
=============================================================================
