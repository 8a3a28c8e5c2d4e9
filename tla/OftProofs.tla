----------------------------- MODULE OftProofs -----------------------------
(***************************************************************************)
(* Proofs about an OFT: its transfers (Oft), and the rate limiter of a     *)
(* peer (RateLimiter), a system of its own.                                *)
(*                                                                         *)
(* For every fee and every amount, the amount to send that                 *)
(* calculate_pre_fee_amount computes is the least one that covers the      *)
(* amount to be received; so transfers are priced exactly.  A mint         *)
(* authority that was removed stays removed.  And the escrow of the        *)
(* adapter covers all that is abroad: every message and every supply is a  *)
(* summand, and a step moves an amount from one of them to another.        *)
(*                                                                         *)
(* A limiter that is brought up to date when it is used is a bucket that   *)
(* is filled every second, and the admin can always set it anew.           *)
(***************************************************************************)
EXTENDS Oft, RateLimiter, Sums

-----------------------------------------------------------------------------
(* Arithmetic: multiplication is monotonic, and rounding up.               *)
LEMMA TimesMonotonic ==
  ASSUME NEW a \in Nat, NEW b \in Nat, NEW d \in Nat, a <= b
  PROVE  a * d <= b * d
<1>1. PICK c \in Nat : b = a + c
  <2>1. b - a \in Nat /\ b = a + (b - a)
    OBVIOUS
  <2> QED  BY <2>1
<1>2. b * d = a * d + c * d
  BY <1>1
<1>3. c * d \in Nat /\ a * d \in Nat
  OBVIOUS
<1> QED  BY <1>2, <1>3

LEMMA CeilDivBounds ==
  ASSUME NEW n \in Nat, NEW d \in Nat \ {0}
  PROVE  /\ CeilDiv(n, d) \in Nat
         /\ CeilDiv(n, d) * d >= n
         /\ CeilDiv(n, d) * d < n + d
BY DEF CeilDiv

LEMMA CeilDivLeast ==
  ASSUME NEW n \in Nat, NEW d \in Nat \ {0}, NEW k \in Nat
  PROVE  CeilDiv(n, d) <= k <=> n <= k * d
<1> DEFINE q == CeilDiv(n, d)
<1>1. q \in Nat /\ q * d >= n /\ q * d < n + d
  BY CeilDivBounds
<1> HIDE DEF q
<1>2. ASSUME q <= k PROVE n <= k * d
  <2>1. q * d <= k * d
    BY <1>1, <1>2, TimesMonotonic
  <2>2. q * d \in Nat /\ k * d \in Nat
    BY <1>1
  <2> QED  BY <1>1, <2>1, <2>2
<1>3. ASSUME n <= k * d, k < q PROVE FALSE
  <2>1. (k + 1) * d <= q * d
    BY <1>1, <1>3, TimesMonotonic
  <2>2. (k + 1) * d = k * d + d /\ k * d \in Nat /\ q * d \in Nat
    BY <1>1
  <2> QED  BY <1>1, <1>3, <2>1, <2>2
<1>4. q <= k <=> n <= k * d
  BY <1>1, <1>2, <1>3
<1> QED  BY <1>4 DEF q

-----------------------------------------------------------------------------
(* What arrives, in one inequality: either the maximum is withheld or less *)
(* than that.                                                              *)
LEMMA PostFeeAtLeast ==
  ASSUME NEW f \in TransferFees, NEW x \in Nat, NEW y \in Nat
  PROVE  PostFee(f, x) >= y <=> \/ x >= y + f.maximum
                                \/ x >= y /\ x * f.basisPoints <= (x - y) * ONE
<1> DEFINE n == x * f.basisPoints
           raw == CeilDiv(n, ONE)
<1>1. f.basisPoints \in Nat /\ f.maximum \in Nat /\ ONE \in Nat \ {0}
  BY OneAssumption DEF TransferFees
<1>2. n \in Nat
  BY <1>1
<1>3. raw \in Nat
  BY <1>1, <1>2, CeilDivBounds
<1>4. PostFee(f, x) = x - (IF raw <= f.maximum THEN raw ELSE f.maximum)
  BY DEF PostFee, FeeOf
<1>5. x >= y => (raw <= x - y <=> n <= (x - y) * ONE)
  <2>1. SUFFICES ASSUME x >= y PROVE raw <= x - y <=> n <= (x - y) * ONE
    OBVIOUS
  <2>2. x - y \in Nat
    BY <2>1
  <2> HIDE DEF n
  <2> QED  BY <1>1, <1>2, <2>2, CeilDivLeast
<1>6. PostFee(f, x) >= y <=> x >= y + f.maximum \/ (x >= y /\ raw <= x - y)
  <2> HIDE DEF raw
  <2> QED  BY <1>1, <1>3, <1>4
<1> QED  BY <1>5, <1>6

(* x - x * b / ONE >= y, solved for x.                                     *)
LEMMA Solved ==
  ASSUME NEW b \in 0..ONE, b # ONE, NEW x \in Nat, NEW y \in Nat
  PROVE  (x >= y /\ x * b <= (x - y) * ONE) <=> CeilDiv(y * ONE, ONE - b) <= x
<1> DEFINE d == ONE - b
<1>1. d \in Nat \ {0} /\ b \in Nat /\ ONE \in Nat /\ y * ONE \in Nat
  BY OneAssumption
<1>2. CeilDiv(y * ONE, d) <= x <=> y * ONE <= x * d
  BY <1>1, CeilDivLeast
<1>3. x * d = x * ONE - x * b
  BY <1>1
<1>4. (x - y) * ONE = x * ONE - y * ONE
  BY <1>1
<1>5. x * b \in Nat /\ x * ONE \in Nat /\ y * ONE \in Nat
  BY <1>1
<1>6. x * b <= (x - y) * ONE <=> y * ONE <= x * d
  BY <1>3, <1>4, <1>5
<1>7. ASSUME y * ONE <= x * d PROVE x >= y
  <2>1. SUFFICES ASSUME x < y PROVE FALSE
    OBVIOUS
  <2>2. (x + 1) * ONE <= y * ONE
    BY <1>1, <2>1, TimesMonotonic
  <2>3. (x + 1) * ONE = x * ONE + ONE
    BY <1>1
  <2> QED  BY <1>1, <1>3, <1>5, <1>7, <2>2, <2>3
<1> QED  BY <1>2, <1>6, <1>7

(* Whatever is paid, it covers y if and only if it is at least the pre-fee *)
(* amount of y, for a y that is not zero.                                  *)
LEMMA PreFeeExact ==
  ASSUME NEW f \in TransferFees, NEW x \in Nat, NEW y \in Nat \ {0}
  PROVE  PostFee(f, x) >= y <=> PreFee(f, y) <= x
<1> DEFINE b == f.basisPoints
<1>1. b \in 0..ONE /\ f.maximum \in Nat /\ ONE \in Nat \ {0}
  BY OneAssumption DEF TransferFees
<1>2. PostFee(f, x) >= y <=> \/ x >= y + f.maximum
                             \/ x >= y /\ x * b <= (x - y) * ONE
  BY PostFeeAtLeast
<1>3. CASE b = 0
  <2>1. PreFee(f, y) = y
    BY <1>3 DEF PreFee
  <2>2. x * b = 0
    BY <1>3
  <2>3. x >= y => (x - y) * ONE >= 0
    <3>1. SUFFICES ASSUME x >= y PROVE (x - y) * ONE >= 0
      OBVIOUS
    <3>2. x - y \in Nat
      BY <3>1
    <3> QED  BY <1>1, <3>2
  <2> QED  BY <1>1, <1>2, <2>1, <2>2, <2>3
<1>4. CASE b = ONE
  <2>1. PreFee(f, y) = f.maximum + y
    BY <1>1, <1>4 DEF PreFee
  <2>2. x >= y => ~(x * ONE <= (x - y) * ONE)
    <3>1. (x - y) * ONE = x * ONE - y * ONE
      BY <1>1
    <3>2. 1 * ONE <= y * ONE
      BY <1>1, TimesMonotonic
    <3>3. x * ONE \in Nat /\ y * ONE \in Nat
      BY <1>1
    <3> QED  BY <1>1, <3>1, <3>2, <3>3
  <2> QED  BY <1>1, <1>2, <1>4, <2>1, <2>2
<1>5. CASE b # 0 /\ b # ONE
  <2> DEFINE raw == CeilDiv(y * ONE, ONE - b)
  <2>1. raw \in Nat
    <3>1. y * ONE \in Nat /\ ONE - b \in Nat \ {0}
      BY <1>1, <1>5
    <3> QED  BY <3>1, CeilDivBounds
  <2>2. PreFee(f, y) = IF raw - y >= f.maximum THEN y + f.maximum ELSE raw
    BY <1>5 DEF PreFee
  <2>3. (x >= y /\ x * b <= (x - y) * ONE) <=> raw <= x
    BY <1>1, <1>5, Solved
  <2> HIDE DEF raw, b
  <2> QED  BY <1>1, <1>2, <2>1, <2>2, <2>3
<1> QED  BY <1>3, <1>4, <1>5

-----------------------------------------------------------------------------
LEMMA PreFeeNat ==
  ASSUME NEW f \in TransferFees, NEW y \in Nat
  PROVE  PreFee(f, y) \in Nat
<1>1. f.basisPoints \in 0..ONE /\ f.maximum \in Nat /\ ONE \in Nat \ {0}
  BY OneAssumption DEF TransferFees
<1>2. ASSUME f.basisPoints # ONE PROVE CeilDiv(y * ONE, ONE - f.basisPoints) \in Nat
  <2>1. y * ONE \in Nat /\ ONE - f.basisPoints \in Nat \ {0}
    BY <1>1, <1>2
  <2> QED  BY <2>1, CeilDivBounds
<1> HIDE DEF CeilDiv
<1> QED  BY <1>1, <1>2 DEF PreFee

LEMMA PostFeeInt ==
  ASSUME NEW f \in TransferFees, NEW x \in Nat
  PROVE  PostFee(f, x) \in Int
<1>1. x * f.basisPoints \in Nat /\ f.maximum \in Nat /\ ONE \in Nat \ {0}
  BY OneAssumption DEF TransferFees
<1>2. CeilDiv(x * f.basisPoints, ONE) \in Nat
  BY <1>1, CeilDivBounds
<1> HIDE DEF CeilDiv
<1> QED  BY <1>1, <1>2 DEF PostFee, FeeOf

(* If x covers more than y, one less covers y.                             *)
LEMMA OneLess ==
  ASSUME NEW f \in TransferFees, NEW x \in Nat, NEW y \in Nat,
         PostFee(f, x) >= y + 1
  PROVE  x - 1 \in Nat /\ PostFee(f, x - 1) >= y
<1> DEFINE b == f.basisPoints
<1>1. b \in Nat /\ f.maximum \in Nat /\ ONE \in Nat \ {0}
  BY OneAssumption DEF TransferFees
<1>2. \/ x >= y + 1 + f.maximum
      \/ x >= y + 1 /\ x * b <= (x - (y + 1)) * ONE
  BY PostFeeAtLeast, y + 1 \in Nat
<1>3. x - 1 \in Nat
  BY <1>1, <1>2
<1>4. (x - 1) * b <= x * b
  BY <1>1, <1>3, TimesMonotonic
<1>5. (x - 1) * b \in Nat /\ x * b \in Nat
  BY <1>1, <1>3
<1>6. x - (y + 1) = (x - 1) - y
  OBVIOUS
<1>7. \/ x - 1 >= y + f.maximum
      \/ x - 1 >= y /\ (x - 1) * b <= ((x - 1) - y) * ONE
  <2>1. CASE x >= y + 1 + f.maximum
    BY <1>1, <2>1
  <2>2. CASE x >= y + 1 /\ x * b <= (x - (y + 1)) * ONE
    <3>1. x * b <= ((x - 1) - y) * ONE
      BY <1>6, <2>2
    <3>2. ((x - 1) - y) * ONE \in Int
      BY <1>1
    <3>3. (x - 1) * b <= ((x - 1) - y) * ONE
      BY <1>4, <1>5, <3>1, <3>2
    <3>4. x - 1 >= y
      BY <2>2
    <3> QED  BY <3>3, <3>4
  <2> QED  BY <1>2, <2>1, <2>2
<1> QED  BY <1>3, <1>7, PostFeeAtLeast

(* What an OFT takes for a transfer leaves, after the fee of the token     *)
(* program, exactly the amount it promises.                                *)
THEOREM PreFeeIsExact == \A f \in TransferFees, amount \in Nat : Exact(f, amount)
<1>1. SUFFICES ASSUME NEW f \in TransferFees, NEW amount \in Nat PROVE Exact(f, amount)
  OBVIOUS
<1> DEFINE paid == PreFee(f, amount)
<1>2. paid \in Nat /\ PostFee(f, paid) \in Int
  BY PreFeeNat, PostFeeInt
<1>3. CASE amount = 0
  <2>1. paid = 0
    BY <1>3 DEF PreFee
  <2>2. 0 * f.basisPoints <= (0 - 0) * ONE /\ f.maximum \in Nat
    BY OneAssumption DEF TransferFees
  <2>3. PostFee(f, 0) >= 0
    BY <2>2, PostFeeAtLeast
  <2>4. ~(PostFee(f, 0) >= 1)
    BY <2>2, PostFeeAtLeast
  <2> QED  BY <1>2, <1>3, <2>1, <2>3, <2>4 DEF Exact
<1>4. CASE amount # 0
  <2>1. PostFee(f, paid) >= amount
    BY <1>2, <1>4, PreFeeExact
  <2>2. ASSUME PostFee(f, paid) >= amount + 1 PROVE FALSE
    <3>1. paid - 1 \in Nat /\ PostFee(f, paid - 1) >= amount
      BY <1>2, <2>2, OneLess
    <3>2. paid <= paid - 1
      BY <1>4, <3>1, PreFeeExact
    <3> QED  BY <1>2, <3>2
  <2> QED  BY <1>2, <2>1, <2>2 DEF Exact
<1> QED  BY <1>3, <1>4

(* It is no more than any other amount that would do; so the sender never  *)
(* pays more than the amount whose post-fee value was promised.            *)
THEOREM PreFeeIsLeast ==
  \A f \in TransferFees, amount, paid \in Nat : IsLeast(f, amount, paid)
<1>1. SUFFICES ASSUME NEW f \in TransferFees, NEW amount \in Nat, NEW paid \in Nat
               PROVE  IsLeast(f, amount, paid)
  OBVIOUS
<1>2. CASE amount = 0
  BY <1>2 DEF IsLeast, PreFee
<1>3. CASE amount # 0
  BY <1>3, PreFeeExact DEF IsLeast
<1> QED  BY <1>2, <1>3

-----------------------------------------------------------------------------
(***************************************************************************)
(* The prices of an OFT.                                                   *)
(***************************************************************************)
LEMMA ConstantsTypes ==
  /\ MAX \in Nat /\ Total \in Nat /\ MaxMessages \in Nat
  /\ \A c \in Chain : Rate[c] \in Nat \ {0}
  /\ Fee \subseteq TransferFees
BY ChainAssumption, FeeAssumption, BoundsAssumption

LEMMA DustIsPart ==
  ASSUME NEW c \in Chain, NEW x \in Nat
  PROVE  RemoveDust(c, x) \in Nat /\ RemoveDust(c, x) <= x
<1>1. Rate[c] \in Nat \ {0}
  BY ConstantsTypes
<1>2. x % Rate[c] \in 0..x
  BY <1>1
<1> QED  BY <1>2 DEF RemoveDust

(* The fee is a part of the amount.                                        *)
LEMMA PostFeeIsPart ==
  ASSUME NEW f \in TransferFees, NEW x \in Nat
  PROVE  PostFee(f, x) \in 0..x
<1>1. f.basisPoints \in 0..ONE /\ f.maximum \in Nat /\ ONE \in Nat \ {0}
  BY OneAssumption DEF TransferFees
<1>2. f.basisPoints * x <= ONE * x /\ x * f.basisPoints \in Nat
  BY <1>1, TimesMonotonic
<1>3. x * f.basisPoints <= x * ONE
  BY <1>1, <1>2
<1>4. CeilDiv(x * f.basisPoints, ONE) <= x /\ CeilDiv(x * f.basisPoints, ONE) \in Nat
  BY <1>1, <1>2, <1>3, CeilDivLeast, CeilDivBounds
<1> HIDE DEF CeilDiv
<1> QED  BY <1>1, <1>4 DEF PostFee, FeeOf

(* Whatever fee is in force, a transfer costs exactly what is promised.    *)
LEMMA PricesAreFair ==
  ASSUME fee \in Fee
  PROVE  FairPrice
<1>1. SUFFICES ASSUME NEW c \in Chain, NEW amount \in 0..Total
               PROVE  /\ PostFeeAmount(c, AmountSent(c, amount)) = AmountReceived(c, amount)
                      /\ AmountSent(c, amount) <= amount
  BY DEF FairPrice
<1> DEFINE got == AmountReceived(c, amount)
<1>2. amount \in Nat /\ fee \in TransferFees
  BY ConstantsTypes
<1>3. PostFeeAmount(c, amount) \in 0..amount
  BY <1>2, PostFeeIsPart DEF PostFeeAmount
<1>4. got \in Nat /\ got <= PostFeeAmount(c, amount)
  BY <1>3, DustIsPart DEF AmountReceived
<1> HIDE DEF got
<1>5. CASE c = ADAPTER
  <2>1. PostFee(fee, PreFee(fee, got)) = got
    BY <1>2, <1>4, PreFeeIsExact DEF Exact
  <2>2. PreFee(fee, got) <= amount
    BY <1>2, <1>4, <1>5, PreFeeIsLeast DEF IsLeast, PostFeeAmount
  <2> QED  BY <1>5, <2>1, <2>2 DEF got, AmountSent, PostFeeAmount, PreFeeAmount
<1>6. CASE c # ADAPTER
  BY <1>3, <1>4, <1>6 DEF got, AmountSent, PostFeeAmount, PreFeeAmount
<1> QED  BY <1>5, <1>6

(* A transfer on any chain, at any fee, costs the sender exactly what      *)
(* leaves the promised amount (send.rs:62-76).                             *)
THEOREM TransfersArePricedFairly == Spec => []FairPrice
<1>1. Init => fee \in Fee
  BY DEF Init
<1>2. fee \in Fee /\ [Next]_vars => (fee \in Fee)'
  BY DEF Next, vars, NextEpoch, Send, LzReceive, MintTo, SetMintAuthority
<1>3. fee \in Fee => FairPrice
  BY PricesAreFair
<1> QED  BY <1>1, <1>2, <1>3, PTL DEF Spec

-----------------------------------------------------------------------------
(***************************************************************************)
(* Type correctness: no balance ever leaves its range.                     *)
(***************************************************************************)
LEMMA AmountsArePrices ==
  ASSUME TypeOK, NEW c \in Chain, NEW amount \in 0..Total
  PROVE  /\ AmountReceived(c, amount) \in Nat
         /\ AmountSent(c, amount) \in Nat
         /\ AmountReceived(c, amount) <= amount
<1>1. fee \in TransferFees /\ amount \in Nat
  BY ConstantsTypes DEF TypeOK
<1>2. PostFeeAmount(c, amount) \in 0..amount
  BY <1>1, PostFeeIsPart DEF PostFeeAmount
<1>3. AmountReceived(c, amount) \in Nat /\ AmountReceived(c, amount) <= amount
  BY <1>2, DustIsPart DEF AmountReceived
<1>4. AmountSent(c, amount) \in Nat
  BY <1>1, <1>3, PreFeeNat DEF AmountSent, PreFeeAmount
<1> QED  BY <1>3, <1>4

LEMMA SharedIsSmall ==
  ASSUME NEW c \in Chain, NEW x \in 0..MAX
  PROVE  Ld2Sd(c, x) \in 0..MAX
<1>1. Rate[c] \in Nat \ {0} /\ MAX \in Nat
  BY ConstantsTypes
<1>2. x \div Rate[c] \in 0..x
  <2>1. x \div Rate[c] \in Nat
    BY <1>1
  <2>2. x \div Rate[c] <= (x \div Rate[c]) * Rate[c]
    BY <1>1, <2>1, TimesMonotonic, 1 <= Rate[c], 1 \in Nat
  <2>3. (x \div Rate[c]) * Rate[c] <= x
    BY <1>1
  <2>4. (x \div Rate[c]) * Rate[c] \in Nat
    BY <1>1, <2>1
  <2> QED  BY <2>1, <2>2, <2>3, <2>4
<1> QED  BY <1>1, <1>2 DEF Ld2Sd

LEMMA SendTypes ==
  ASSUME TypeOK, NEW c \in Chain, NEW dst \in Chain, NEW amount \in 0..Total, NEW minAmount,
         Send(c, dst, amount, minAmount)
  PROVE  TypeOK'
<1> DEFINE paid == AmountSent(c, amount)
           got == AmountReceived(c, amount)
<1>1. paid \in Nat /\ got \in Nat /\ got <= amount
  BY AmountsArePrices
<1>2. sent' = sent + 1 /\ sent < MaxMessages /\ sent \in 0..MaxMessages /\ MaxMessages \in Nat
  BY ConstantsTypes DEF Send, TypeOK
<1>3. Ld2Sd(c, got) \in 0..MAX
  <2>1. got \in 0..MAX
    BY <1>1, BoundsAssumption
  <2> HIDE DEF got
  <2> QED  BY <2>1, SharedIsSmall
<1>4. inFlight' \subseteq Message
  <2>1. [id |-> sent + 1, src |-> c, dst |-> dst, amountSd |-> Ld2Sd(c, got)] \in Message
    <3> HIDE DEF got
    <3> QED  BY <1>2, <1>3 DEF Message
  <2> QED  BY <2>1 DEF Send, TypeOK
<1>5. fee' = fee /\ authority' = authority /\ minted' = minted
  BY DEF Send
<1>6. CASE c = ADAPTER
  <2>1. PostFee(fee, paid) \in 0..paid
    <3> HIDE DEF paid
    <3> QED  BY <1>1, PostFeeIsPart, ConstantsTypes DEF TypeOK
  <2>2. Lock(paid)
    BY <1>6 DEF Send
  <2>3. /\ paid <= outside /\ outside' = outside - paid
        /\ escrow' = escrow + PostFee(fee, paid) /\ supply' = supply
    BY <2>2 DEF Lock
  <2>4. escrow' \in 0..Total /\ outside' \in 0..(Total - escrow')
    <3> HIDE DEF paid
    <3> QED  BY <1>1, <2>1, <2>3, ConstantsTypes DEF TypeOK
  <2> QED  BY <1>2, <1>4, <1>5, <2>3, <2>4 DEF TypeOK
<1>7. CASE c # ADAPTER
  <2>1. c \in Native /\ Burn(c, paid)
    BY <1>7 DEF Send, Chain
  <2>2. /\ paid <= supply[c] /\ supply' = [supply EXCEPT ![c] = @ - paid]
        /\ outside' = outside /\ escrow' = escrow
    BY <2>1 DEF Burn
  <2>3. supply' \in [Native -> 0..MAX]
    <3> HIDE DEF paid
    <3> QED  BY <1>1, <2>1, <2>2, ConstantsTypes DEF TypeOK
  <2> QED  BY <1>2, <1>4, <1>5, <2>2, <2>3 DEF TypeOK
<1> QED  BY <1>6, <1>7

LEMMA MintTypes ==
  ASSUME TypeOK, NEW c \in Native, NEW amount \in Nat, Mint(c, amount)
  PROVE  supply' \in [Native -> 0..MAX] /\ outside' = outside /\ escrow' = escrow
BY ConstantsTypes DEF Mint, TypeOK

LEMMA ReceiveTypes ==
  ASSUME TypeOK, NEW m \in inFlight, LzReceive(m)
  PROVE  TypeOK'
<1> DEFINE ld == Sd2Ld(m.dst, m.amountSd)
<1>1. m \in Message
  BY DEF TypeOK
<1>2. m.dst \in Chain /\ m.amountSd \in Nat
  BY <1>1, ConstantsTypes DEF Message
<1>3. ld \in Nat
  BY <1>2, ConstantsTypes DEF Sd2Ld
<1>4. Credit(m) /\ inFlight' \subseteq Message
  BY DEF LzReceive, TypeOK
<1>5. fee' = fee /\ authority' = authority /\ minted' = minted /\ sent' = sent
  BY DEF LzReceive
<1> HIDE DEF ld
<1>6. CASE m.dst = ADAPTER
  <2>1. /\ ld <= escrow /\ escrow' = escrow - ld
        /\ outside' = outside + PostFee(fee, ld) /\ supply' = supply
    BY <1>4, <1>6 DEF Credit, Unlock, ld
  <2>2. PostFee(fee, ld) \in 0..ld
    BY <1>3, PostFeeIsPart, ConstantsTypes DEF TypeOK
  <2>3. escrow' \in 0..Total /\ outside' \in 0..(Total - escrow')
    BY <1>3, <2>1, <2>2, ConstantsTypes DEF TypeOK
  <2> QED  BY <1>4, <1>5, <2>1, <2>3 DEF TypeOK
<1>7. CASE m.dst # ADAPTER
  <2>1. m.dst \in Native /\ Mint(m.dst, ld)
    BY <1>2, <1>4, <1>7 DEF Credit, Chain, ld
  <2>2. supply' \in [Native -> 0..MAX] /\ outside' = outside /\ escrow' = escrow
    BY <1>3, <2>1, MintTypes
  <2> QED  BY <1>4, <1>5, <2>2 DEF TypeOK
<1> QED  BY <1>6, <1>7

(* Escrow, balances and supplies stay in range: the tokens of the adapter's*)
(* chain are never more than there are, and no supply becomes negative or  *)
(* exceeds u64.                                                            *)
THEOREM TypeCorrect == Spec => []TypeOK
<1>1. Init => TypeOK
  <2> SUFFICES ASSUME Init PROVE TypeOK
    OBVIOUS
  <2>1. escrow \in 0..Total /\ outside \in 0..(Total - escrow) /\ sent \in 0..MaxMessages
    BY ConstantsTypes DEF Init
  <2>2. supply \in [Native -> 0..MAX]
    BY ConstantsTypes DEF Init
  <2>3. authority \in [Native -> BOOLEAN]
    BY DEF Init
  <2>4. fee \in Fee /\ inFlight \subseteq Message /\ minted \in BOOLEAN
    BY DEF Init
  <2> QED  BY <2>1, <2>2, <2>3, <2>4, Zenon DEF TypeOK
<1>2. TypeOK /\ [Next]_vars => TypeOK'
  <2> SUFFICES ASSUME TypeOK, [Next]_vars PROVE TypeOK'
    OBVIOUS
  <2>1. ASSUME NEW f \in Fee, NextEpoch(f) PROVE TypeOK'
    BY <2>1 DEF NextEpoch, TypeOK, Message
  <2>2. ASSUME NEW c \in Chain, NEW dst \in Chain, NEW amount \in 0..Total, NEW minAmount,
               Send(c, dst, amount, minAmount)
        PROVE  TypeOK'
    BY <2>2, SendTypes
  <2>3. ASSUME NEW m \in inFlight, LzReceive(m) PROVE TypeOK'
    BY <2>3, ReceiveTypes
  <2>4. ASSUME NEW c \in Native, NEW amount \in 1..Total, MintTo(c, amount) PROVE TypeOK'
    <3>1. Mint(c, amount) /\ amount \in Nat
      BY <2>4, ConstantsTypes DEF MintTo
    <3>2. supply' \in [Native -> 0..MAX] /\ outside' = outside /\ escrow' = escrow
      BY <3>1, MintTypes
    <3> QED  BY <2>4, <3>2 DEF MintTo, TypeOK, Message
  <2>5. ASSUME NEW c \in Native, NEW some \in BOOLEAN, SetMintAuthority(c, some) PROVE TypeOK'
    BY <2>5 DEF SetMintAuthority, TypeOK, Message
  <2>6. CASE UNCHANGED vars
    BY <2>6 DEF vars, TypeOK, Message
  <2> QED  BY <2>1, <2>2, <2>3, <2>4, <2>5, <2>6 DEF Next
<1> QED  BY <1>1, <1>2, PTL DEF Spec

-----------------------------------------------------------------------------
(***************************************************************************)
(* The mint authority.                                                     *)
(***************************************************************************)
(* Messages are numbered in the order in which they are sent.              *)
Numbered ==
  /\ sent \in Nat
  /\ \A m \in inFlight : m.id \in Nat /\ m.id <= sent
  /\ authority \in [Native -> BOOLEAN]
  /\ DOMAIN supply = Native

LEMMA SendIsNew ==
  ASSUME Numbered, NEW c \in Chain, NEW dst \in Chain, NEW amount, NEW minAmount,
         Send(c, dst, amount, minAmount)
  PROVE  inFlight' # inFlight
<1> DEFINE m == [id |-> sent + 1, src |-> c, dst |-> dst,
                 amountSd |-> Ld2Sd(c, AmountReceived(c, amount))]
<1>1. m \in inFlight'
  BY DEF Send
<1>2. m \notin inFlight
  BY DEF Numbered
<1> QED  BY <1>1, <1>2

LEMMA NumberedInductive == Numbered /\ [Next]_vars => Numbered'
<1> SUFFICES ASSUME Numbered, [Next]_vars PROVE Numbered'
  OBVIOUS
<1> USE DEF Numbered
<1>1. ASSUME NEW f \in Fee, NextEpoch(f) PROVE Numbered'
  BY <1>1 DEF NextEpoch
<1>2. ASSUME NEW c \in Chain, NEW dst \in Chain, NEW amount, NEW minAmount,
             Send(c, dst, amount, minAmount)
      PROVE  Numbered'
  <2>1. sent' = sent + 1 /\ authority' = authority
    BY <1>2 DEF Send
  <2>2. \A m \in inFlight' : m \in inFlight \/ m.id = sent + 1
    BY <1>2 DEF Send
  <2>3. DOMAIN supply' = Native
    BY <1>2 DEF Send, Lock, Burn
  <2> QED  BY <2>1, <2>2, <2>3
<1>3. ASSUME NEW m \in inFlight, LzReceive(m) PROVE Numbered'
  BY <1>3 DEF LzReceive, Credit, Unlock, Mint
<1>4. ASSUME NEW c \in Native, NEW amount, MintTo(c, amount) PROVE Numbered'
  BY <1>4 DEF MintTo, Mint
<1>5. ASSUME NEW c \in Native, NEW some \in BOOLEAN, SetMintAuthority(c, some) PROVE Numbered'
  BY <1>5 DEF SetMintAuthority
<1>6. CASE UNCHANGED vars
  BY <1>6 DEF vars
<1> QED  BY <1>1, <1>2, <1>3, <1>4, <1>5, <1>6 DEF Next

(* Once a mint authority is removed it is gone for ever, and the supply of *)
(* its chain follows the messages (set_mint_authority.rs:32-36).           *)
THEOREM RemovedAuthorityStaysRemoved == Spec => AuthorityStaysRemoved
<1> DEFINE Stays == \A c \in Native : ~authority[c] =>
                      ~authority'[c] /\ (supply'[c] # supply[c] => inFlight' # inFlight)
<1>1. Init => Numbered
  BY DEF Init, Numbered
<1>2. Numbered /\ [Next]_vars => Stays \/ UNCHANGED vars
  <2> SUFFICES ASSUME Numbered, Next PROVE Stays
    OBVIOUS
  <2>1. ASSUME NEW f \in Fee, NextEpoch(f) PROVE Stays
    BY <2>1 DEF NextEpoch
  <2>2. ASSUME NEW c \in Chain, NEW dst \in Chain, NEW amount, NEW minAmount,
               Send(c, dst, amount, minAmount)
        PROVE  Stays
    <3>1. inFlight' # inFlight
      BY <2>2, SendIsNew
    <3> QED  BY <2>2, <3>1 DEF Send
  <2>3. ASSUME NEW m \in inFlight, LzReceive(m) PROVE Stays
    BY <2>3 DEF LzReceive
  <2>4. ASSUME NEW c \in Native, NEW amount, MintTo(c, amount) PROVE Stays
    BY <2>4 DEF MintTo, Mint, Numbered
  <2>5. ASSUME NEW c \in Native, NEW some \in BOOLEAN, SetMintAuthority(c, some)
        PROVE  Stays
    BY <2>5 DEF SetMintAuthority, Numbered
  <2> QED  BY <2>1, <2>2, <2>3, <2>4, <2>5 DEF Next
<1>3. Numbered /\ [Next]_vars => [Stays]_vars
  BY <1>2
<1> QED  BY <1>1, <1>3, NumberedInductive, PTL DEF Spec, AuthorityStaysRemoved

-----------------------------------------------------------------------------
(***************************************************************************)
(* The escrow.                                                             *)
(***************************************************************************)
(* The quotient and the remainder are the only ones.                       *)
LEMMA DivUnique ==
  ASSUME NEW x \in Nat, NEW r \in Nat \ {0}, NEW q \in Nat, NEW m \in 0..(r - 1), x = q * r + m
  PROVE  x \div r = q
<1> DEFINE p == x \div r
           n == x % r
<1>1. p \in Nat /\ n \in 0..(r - 1) /\ x = p * r + n
  OBVIOUS
<1> HIDE DEF p, n
<1>2. p * r \in Nat /\ q * r \in Nat
  BY <1>1
<1>3. ASSUME p < q PROVE FALSE
  <2>1. (p + 1) * r <= q * r
    BY <1>1, <1>3, TimesMonotonic
  <2>2. (p + 1) * r = p * r + r
    BY <1>1
  <2> QED  BY <1>1, <1>2, <2>1, <2>2
<1>4. ASSUME q < p PROVE FALSE
  <2>1. (q + 1) * r <= p * r
    BY <1>1, <1>4, TimesMonotonic
  <2>2. (q + 1) * r = q * r + r
    BY <1>1
  <2> QED  BY <1>1, <1>2, <2>1, <2>2
<1>5. p = q
  BY <1>1, <1>3, <1>4
<1> QED  BY <1>5 DEF p

(* Dividing a natural number.                                              *)
LEMMA DivMod ==
  ASSUME NEW x \in Nat, NEW r \in Nat \ {0}
  PROVE  x \div r \in Nat /\ x % r \in 0..(r - 1) /\ x = (x \div r) * r + (x % r)
OBVIOUS

(* Multiples add up.                                                       *)
LEMMA TimesAdds ==
  ASSUME NEW a \in Int, NEW b \in Int, NEW r \in Nat
  PROVE  (a + b) * r = a * r + b * r /\ a * r \in Int /\ b * r \in Int
OBVIOUS

(* Adding whole shared decimals adds as many.                              *)
LEMMA Ld2SdAdds ==
  ASSUME NEW c \in Chain, NEW x \in Nat, NEW k \in Nat
  PROVE  Ld2Sd(c, x + Sd2Ld(c, k)) = Ld2Sd(c, x) + k
<1> DEFINE r == Rate[c]
           q == x \div r
           m == x % r
<1>1. r \in Nat \ {0}
  BY ConstantsTypes
<1> HIDE DEF r
<1>2. q \in Nat /\ m \in 0..(r - 1) /\ x = q * r + m
  BY <1>1, DivMod
<1> HIDE DEF q, m
<1>3. (q + k) * r = q * r + k * r /\ k * r \in Nat /\ q * r \in Nat
  BY <1>1, <1>2
<1>4. x + k * r = (q + k) * r + m /\ x + k * r \in Nat
  BY <1>1, <1>2, <1>3
<1>5. (x + k * r) \div r = q + k
  BY <1>1, <1>2, <1>4, DivUnique
<1> QED  BY <1>5 DEF q, r, Ld2Sd, Sd2Ld

(* Without its dust an amount is a number of shared decimals.              *)
LEMMA NoDustIsShared ==
  ASSUME NEW c \in Chain, NEW x \in Nat
  PROVE  /\ Ld2Sd(c, RemoveDust(c, x)) \in Nat
         /\ RemoveDust(c, x) = Sd2Ld(c, Ld2Sd(c, RemoveDust(c, x)))
<1> DEFINE r == Rate[c]
           q == x \div r
           m == x % r
<1>1. r \in Nat \ {0}
  BY ConstantsTypes
<1>2. RemoveDust(c, x) = x - m
  BY DEF RemoveDust
<1> HIDE DEF r
<1>3. q \in Nat /\ m \in 0..(r - 1) /\ x = q * r + m
  BY <1>1, DivMod
<1> HIDE DEF q, m
<1>4. q * r \in Nat /\ q * r = q * r + 0 /\ 0 \in 0..(r - 1)
  BY <1>1, <1>3
<1>5. RemoveDust(c, x) = q * r
  BY <1>1, <1>2, <1>3, <1>4
<1>6. (q * r) \div r = q
  BY <1>1, <1>3, <1>4, DivUnique
<1> QED  BY <1>3, <1>5, <1>6 DEF r, Ld2Sd, Sd2Ld

(* What a transfer promises is a number of shared decimals: the one its    *)
(* message carries.                                                        *)
LEMMA PromiseIsShared ==
  ASSUME TypeOK, NEW c \in Chain, NEW amount \in 0..Total
  PROVE  /\ Ld2Sd(c, AmountReceived(c, amount)) \in Nat
         /\ AmountReceived(c, amount) = Sd2Ld(c, Ld2Sd(c, AmountReceived(c, amount)))
<1>1. fee \in TransferFees /\ amount \in Nat
  BY ConstantsTypes DEF TypeOK
<1>2. PostFeeAmount(c, amount) \in Nat
  BY <1>1, PostFeeIsPart DEF PostFeeAmount
<1> QED  BY <1>2, NoDustIsShared DEF AmountReceived

(* What a set of messages carries, and one message more.                   *)
LEMMA WayAdds ==
  ASSUME NEW S, IsFiniteSet(S), \A m \in S : m.amountSd \in Nat,
         NEW n, n \notin S, n.amountSd \in Nat
  PROVE  /\ SumFunction([m \in S |-> m.amountSd]) \in Nat
         /\ SumFunction([m \in S \cup {n} |-> m.amountSd]) =
              SumFunction([m \in S |-> m.amountSd]) + n.amountSd
<1> DEFINE f == [m \in S |-> m.amountSd]
           g == [m \in S \cup {n} |-> m.amountSd]
<1>1. SumFunction(f) = SumFunctionOnSet(f, S) /\ SumFunction(g) = SumFunctionOnSet(g, S \cup {n})
  BY Zenon DEF SumFunction
<1>2. /\ \A m \in S : f[m] \in Nat /\ f[m] = g[m]
      /\ \A m \in S \cup {n} : g[m] \in Int
      /\ g[n] = n.amountSd
  OBVIOUS
<1> HIDE DEF f, g
<1>3. SumFunctionOnSet(f, S) \in Nat
  BY <1>2, SumType
<1>4. SumFunctionOnSet(g, S \cup {n}) = g[n] + SumFunctionOnSet(g, S)
  BY <1>2, SumAdd
<1>5. SumFunctionOnSet(f, S) = SumFunctionOnSet(g, S)
  BY <1>2, SumSame
<1>6. /\ SumFunction(f) \in Nat
      /\ SumFunction(g) = SumFunction(f) + n.amountSd
  BY <1>1, <1>2, <1>3, <1>4, <1>5
<1> QED  BY <1>6 DEF f, g

(* What the chains hold, when one of them changes.                         *)
LEMMA HeldChanges ==
  ASSUME NEW s \in [Native -> 0..MAX], NEW t \in [Native -> 0..MAX],
         NEW c \in Native, \A d \in Native \ {c} : t[d] = s[d]
  PROVE  /\ SumFunction([d \in Native |-> Ld2Sd(d, s[d])]) \in Nat
         /\ SumFunction([d \in Native |-> Ld2Sd(d, t[d])]) =
              SumFunction([d \in Native |-> Ld2Sd(d, s[d])])
                - Ld2Sd(c, s[c]) + Ld2Sd(c, t[c])
<1> DEFINE f == [d \in Native |-> Ld2Sd(d, s[d])]
           g == [d \in Native |-> Ld2Sd(d, t[d])]
<1>1. SumFunction(f) = SumFunctionOnSet(f, Native) /\ SumFunction(g) = SumFunctionOnSet(g, Native)
  BY Zenon DEF SumFunction
<1>2. \A d \in Native : Ld2Sd(d, s[d]) \in Nat /\ Ld2Sd(d, t[d]) \in Nat
  BY SharedIsSmall, ConstantsTypes DEF Chain
<1>3. /\ \A d \in Native : f[d] \in Nat /\ g[d] \in Nat
      /\ \A d \in Native \ {c} : g[d] = f[d]
      /\ f[c] = Ld2Sd(c, s[c]) /\ g[c] = Ld2Sd(c, t[c])
  BY <1>2
<1> HIDE DEF f, g
<1>4. IsFiniteSet(Native)
  BY ChainAssumption
<1>5. SumFunctionOnSet(f, Native) \in Nat
  BY <1>3, <1>4, SumType
<1>6. SumFunctionOnSet(g, Native) = SumFunctionOnSet(f, Native) - f[c] + g[c]
  BY <1>3, <1>4, SumUpdate
<1>7. /\ SumFunction(f) \in Nat
      /\ SumFunction(g) = SumFunction(f) - Ld2Sd(c, s[c]) + Ld2Sd(c, t[c])
  BY <1>1, <1>3, <1>5, <1>6
<1> QED  BY <1>7 DEF f, g

(* The sums are natural numbers.                                           *)
LEMMA SumsAreNat ==
  ASSUME TypeOK, IsFiniteSet(inFlight)
  PROVE  /\ SumFunction(OnTheWay) \in Nat /\ SumFunction(Held) \in Nat
         /\ \A m \in inFlight : m \in Message /\ m.amountSd \in Nat
<1>1. \A m \in inFlight : m \in Message /\ m.amountSd \in Nat
  BY ConstantsTypes DEF TypeOK, Message
<1>2. \A m \in inFlight : OnTheWay[m] \in Nat
  BY <1>1 DEF OnTheWay
<1>3. \A c \in Native : Held[c] \in Nat
  BY SharedIsSmall, ConstantsTypes DEF Held, TypeOK, Chain
<1>4. /\ SumFunction(OnTheWay) = SumFunctionOnSet(OnTheWay, inFlight)
      /\ SumFunction(Held) = SumFunctionOnSet(Held, Native)
  BY Zenon DEF SumFunction, OnTheWay, Held
<1>5. SumFunctionOnSet(OnTheWay, inFlight) \in Nat
  BY <1>2, SumType
<1>6. SumFunctionOnSet(Held, Native) \in Nat
  BY <1>3, SumType, ChainAssumption
<1> QED  BY <1>1, <1>4, <1>5, <1>6

(* The invariant of the escrow: what it covers, and that there are finitely*)
(* many messages, each with a number of its own.                           *)
EscrowInv ==
  /\ TypeOK /\ Numbered /\ IsFiniteSet(inFlight)
  /\ Backed

(* A transfer from the adapter locks what its message carries; one from    *)
(* another chain moves that much from what the chain holds to the message. *)
LEMMA SendBacked ==
  ASSUME EscrowInv, TypeOK', NEW c \in Chain, NEW dst \in Chain, NEW amount \in 0..Total,
         NEW minAmount, Send(c, dst, amount, minAmount)
  PROVE  Backed' /\ IsFiniteSet(inFlight')
<1> DEFINE paid == AmountSent(c, amount)
           got == AmountReceived(c, amount)
           k == Ld2Sd(c, got)
           n == [id |-> sent + 1, src |-> c, dst |-> dst, amountSd |-> k]
           W == SumFunction(OnTheWay)
           H == SumFunction(Held)
           r == Rate[ADAPTER]
<1>1. /\ TypeOK /\ Numbered /\ IsFiniteSet(inFlight)
      /\ ~minted => escrow >= (W + H) * r
  BY Zenon DEF EscrowInv, Backed, Abroad, Sd2Ld
<1>2. W \in Nat /\ H \in Nat /\ \A m \in inFlight : m.amountSd \in Nat
  BY <1>1, SumsAreNat
<1>3. r \in Nat /\ escrow \in Nat
  BY <1>1, ConstantsTypes DEF Chain, TypeOK
<1>4. k \in Nat /\ got = Sd2Ld(c, k) /\ got \in Nat /\ paid \in Nat
  BY <1>1, PromiseIsShared, AmountsArePrices
<1>5. n \notin inFlight /\ n.amountSd = k
  BY <1>1 DEF Numbered
<1>6. inFlight' = inFlight \cup {n} /\ minted' = minted
  BY DEF Send
<1>7. paid = PreFeeAmount(c, got) /\ PostFeeAmount(c, paid) = got
  BY <1>1, PricesAreFair DEF TypeOK, FairPrice, AmountSent
<1>8. IsFiniteSet(inFlight')
  BY <1>1, <1>6, FS_AddElement
<1>9. IF c = ADAPTER THEN Lock(paid) ELSE Burn(c, paid)
  BY DEF Send
<1>10. SumFunction([m \in inFlight \cup {n} |-> m.amountSd]) = W + k
  <2> HIDE DEF n, k
  <2> QED  BY <1>1, <1>2, <1>4, <1>5, WayAdds DEF OnTheWay
<1>11. SumFunction(OnTheWay') = W + k
  BY <1>6, <1>10, Zenon DEF OnTheWay
<1> HIDE DEF n, k, paid, got, W, H, r
<1>12. CASE c = ADAPTER
  <2>1. escrow' = escrow + PostFee(fee, paid) /\ supply' = supply
    BY <1>9, <1>12 DEF Lock
  <2>2. PostFee(fee, paid) = k * r
    BY <1>4, <1>7, <1>12 DEF PostFeeAmount, Sd2Ld, r
  <2>3. SumFunction(Held') = H
    BY <2>1 DEF Held, H
  <2>4. (W + k + H) * r = (W + H) * r + k * r /\ (W + H) * r \in Int /\ k * r \in Int
    <3>1. W + k + H = (W + H) + k
      BY <1>2, <1>4
    <3> QED  BY <1>2, <1>3, <1>4, <3>1, TimesAdds
  <2>5. ~minted' => escrow' >= (W + k + H) * r
    BY <1>1, <1>3, <1>6, <2>1, <2>2, <2>4
  <2> QED  BY <1>8, <1>11, <2>3, <2>5, Zenon DEF Backed, Abroad, Sd2Ld, r
<1>13. CASE c # ADAPTER
  <2>1. c \in Native /\ supply \in [Native -> 0..MAX] /\ supply' \in [Native -> 0..MAX]
    BY <1>1, <1>13 DEF Chain, TypeOK
  <2>2. paid = got
    BY <1>7, <1>13 DEF PreFeeAmount
  <2>3. /\ got <= supply[c] /\ supply' = [supply EXCEPT ![c] = @ - got]
        /\ escrow' = escrow
    BY <1>9, <1>13, <2>2 DEF Burn
  <2>4. /\ supply'[c] \in Nat /\ supply[c] = supply'[c] + Sd2Ld(c, k)
        /\ \A d \in Native \ {c} : supply'[d] = supply[d]
    BY <1>4, <2>1, <2>3, ConstantsTypes
  <2>5. Ld2Sd(c, supply[c]) = Ld2Sd(c, supply'[c]) + k
    BY <1>4, <2>4, Ld2SdAdds
  <2>6. SumFunction(Held') = H - Ld2Sd(c, supply[c]) + Ld2Sd(c, supply'[c])
    BY <2>1, <2>4, HeldChanges DEF Held, H
  <2>7. Ld2Sd(c, supply'[c]) \in Nat
    BY <2>1, SharedIsSmall, ConstantsTypes
  <2>8. W + k + SumFunction(Held') = W + H
    BY <1>2, <1>4, <2>5, <2>6, <2>7
  <2>9. ~minted' => escrow' >= (W + k + SumFunction(Held')) * r
    BY <1>1, <1>6, <2>3, <2>8
  <2> QED  BY <1>8, <1>11, <2>9, Zenon DEF Backed, Abroad, Sd2Ld, r
<1> QED  BY <1>12, <1>13

(* A message to the adapter unlocks what it carries; one to another chain  *)
(* becomes what that chain holds.                                          *)
LEMMA ReceiveBacked ==
  ASSUME EscrowInv, TypeOK', NEW n \in inFlight, LzReceive(n)
  PROVE  Backed' /\ IsFiniteSet(inFlight')
<1> DEFINE k == n.amountSd
           W == SumFunction(OnTheWay)
           V == SumFunction(OnTheWay')
           H == SumFunction(Held)
           r == Rate[ADAPTER]
<1>1. /\ TypeOK /\ Numbered /\ IsFiniteSet(inFlight)
      /\ ~minted => escrow >= (W + H) * r
  BY Zenon DEF EscrowInv, Backed, Abroad, Sd2Ld
<1>2. W \in Nat /\ H \in Nat /\ \A m \in inFlight : m \in Message /\ m.amountSd \in Nat
  BY <1>1, SumsAreNat
<1>3. r \in Nat /\ escrow \in Nat
  BY <1>1, ConstantsTypes DEF Chain, TypeOK
<1>4. inFlight' = inFlight \ {n} /\ minted' = minted /\ Credit(n)
  BY DEF LzReceive
<1>5. IsFiniteSet(inFlight')
  BY <1>1, <1>4, FS_RemoveElement
<1>6. k \in Nat /\ n.dst \in Chain /\ (n.dst # ADAPTER => n.dst \in Native)
  BY <1>2 DEF Message, Chain
<1>7. W = V + k /\ V \in Nat
  <2>1. inFlight = inFlight' \cup {n} /\ n \notin inFlight'
    BY <1>4
  <2>2. \A m \in inFlight' : m.amountSd \in Nat
    BY <1>2, <1>4
  <2>3. /\ SumFunction([m \in inFlight' |-> m.amountSd]) \in Nat
        /\ SumFunction([m \in inFlight' \cup {n} |-> m.amountSd]) =
             SumFunction([m \in inFlight' |-> m.amountSd]) + k
    BY <1>2, <1>5, <2>1, <2>2, WayAdds
  <2> QED  BY <2>1, <2>3, Zenon DEF OnTheWay
<1> HIDE DEF k, W, V, H, r
<1>8. CASE n.dst = ADAPTER
  <2>1. escrow' = escrow - k * r /\ supply' = supply
    BY <1>4, <1>8 DEF Credit, Unlock, Sd2Ld, k, r
  <2>2. SumFunction(Held') = H
    BY <2>1 DEF Held, H
  <2>3. (W + H) * r = (V + H) * r + k * r /\ (V + H) * r \in Int /\ k * r \in Int
    <3>1. W + H = (V + H) + k
      BY <1>2, <1>6, <1>7
    <3> QED  BY <1>2, <1>3, <1>6, <1>7, <3>1, TimesAdds
  <2>4. ~minted' => escrow' >= (V + H) * r
    BY <1>1, <1>3, <1>4, <2>1, <2>3
  <2> QED  BY <1>5, <2>2, <2>4, Zenon DEF Backed, Abroad, Sd2Ld, V, r
<1>9. CASE n.dst # ADAPTER
  <2> DEFINE c == n.dst
  <2>1. c \in Native /\ supply \in [Native -> 0..MAX] /\ supply' \in [Native -> 0..MAX]
    BY <1>1, <1>6, <1>9 DEF TypeOK
  <2>2. /\ supply' = [supply EXCEPT ![c] = @ + Sd2Ld(c, k)]
        /\ escrow' = escrow
    BY <1>4, <1>9 DEF Credit, Mint, k
  <2> HIDE DEF c
  <2>3. /\ supply[c] \in Nat /\ supply'[c] = supply[c] + Sd2Ld(c, k)
        /\ \A d \in Native \ {c} : supply'[d] = supply[d]
    BY <2>1, <2>2, ConstantsTypes
  <2>4. c \in Chain /\ Ld2Sd(c, supply'[c]) = Ld2Sd(c, supply[c]) + k
    BY <1>6, <2>1, <2>3, Ld2SdAdds DEF Chain
  <2>5. SumFunction(Held') = H - Ld2Sd(c, supply[c]) + Ld2Sd(c, supply'[c])
    BY <2>1, <2>3, HeldChanges DEF Held, H
  <2>6. Ld2Sd(c, supply[c]) \in Nat
    BY <2>1, <2>4, SharedIsSmall, ConstantsTypes
  <2>7. V + SumFunction(Held') = W + H
    BY <1>2, <1>6, <1>7, <2>4, <2>5, <2>6
  <2>8. ~minted' => escrow' >= (V + SumFunction(Held')) * r
    BY <1>1, <1>4, <2>2, <2>7
  <2> QED  BY <1>5, <2>8, Zenon DEF Backed, Abroad, Sd2Ld, V, r
<1> QED  BY <1>8, <1>9

(* It is inductive.                                                        *)
LEMMA EscrowInvariant == Spec => []EscrowInv
<1>1. Init => IsFiniteSet(inFlight) /\ Backed
  <2> SUFFICES ASSUME Init PROVE IsFiniteSet(inFlight) /\ Backed
    OBVIOUS
  <2>1. inFlight = {} /\ supply = [c \in Native |-> 0] /\ escrow = 0
    BY DEF Init
  <2>2. IsFiniteSet(inFlight)
    BY <2>1, FS_EmptySet
  <2>3. SumFunction(OnTheWay) = 0
    <3>1. SumFunction(OnTheWay) = SumFunctionOnSet(OnTheWay, {})
      BY <2>1, Zenon DEF OnTheWay, SumFunction
    <3> QED  BY <3>1, SumEmpty
  <2>4. SumFunction(Held) = 0
    <3>1. SumFunction(Held) = SumFunctionOnSet(Held, Native)
      BY Zenon DEF Held, SumFunction
    <3>2. \A c \in Native : Held[c] = 0
      BY <2>1, ConstantsTypes, DivUnique DEF Held, Ld2Sd, Chain
    <3> QED  BY <3>1, <3>2, SumZero, ChainAssumption
  <2>5. Abroad = 0
    BY <2>3, <2>4 DEF Abroad
  <2> QED  BY <2>1, <2>2, <2>5, ConstantsTypes DEF Backed, Sd2Ld, Chain
<1>2. Init => Numbered
  BY DEF Init, Numbered
<1>3. EscrowInv /\ TypeOK' /\ [Next]_vars => EscrowInv'
  <2> SUFFICES ASSUME EscrowInv, TypeOK', [Next]_vars
               PROVE  IsFiniteSet(inFlight') /\ Backed'
    BY NumberedInductive DEF EscrowInv
  <2>1. ASSUME inFlight' = inFlight, supply' = supply, escrow' = escrow, minted' = minted
        PROVE  IsFiniteSet(inFlight') /\ Backed'
    BY <2>1, Zenon DEF EscrowInv, Backed, Abroad, OnTheWay, Held
  <2>2. ASSUME NEW f \in Fee, NextEpoch(f) PROVE IsFiniteSet(inFlight') /\ Backed'
    BY <2>1, <2>2 DEF NextEpoch
  <2>3. ASSUME NEW c \in Chain, NEW dst \in Chain, NEW amount \in 0..Total, NEW minAmount,
               Send(c, dst, amount, minAmount)
        PROVE  IsFiniteSet(inFlight') /\ Backed'
    BY <2>3, SendBacked
  <2>4. ASSUME NEW m \in inFlight, LzReceive(m) PROVE IsFiniteSet(inFlight') /\ Backed'
    BY <2>4, ReceiveBacked
  <2>5. ASSUME NEW c \in Native, NEW amount, MintTo(c, amount)
        PROVE  IsFiniteSet(inFlight') /\ Backed'
    BY <2>5, Zenon DEF EscrowInv, MintTo, Backed
  <2>6. ASSUME NEW c \in Native, NEW some \in BOOLEAN, SetMintAuthority(c, some)
        PROVE  IsFiniteSet(inFlight') /\ Backed'
    BY <2>1, <2>6 DEF SetMintAuthority
  <2>7. CASE UNCHANGED vars
    BY <2>1, <2>7 DEF vars
  <2> QED  BY <2>2, <2>3, <2>4, <2>5, <2>6, <2>7 DEF Next
<1>4. Init /\ TypeOK => EscrowInv
  BY <1>1, <1>2 DEF EscrowInv
<1> QED  BY <1>3, <1>4, TypeCorrect, PTL DEF Spec

(* On every chain, with every fee and in every order of delivery, as long  *)
(* as nobody mints, the escrow holds what can come back to it: a transfer  *)
(* to the adapter is never refused for lack of tokens (send.rs:23-76,      *)
(* lz_receive.rs:57-130).                                                  *)
THEOREM EscrowCoversEverything == Spec => []Backed
<1>1. EscrowInv => Backed
  BY DEF EscrowInv
<1> QED  BY <1>1, EscrowInvariant, PTL

(* What lz_receive demands to credit a message that it clears.             *)
MayCredit(m) ==
  /\ Sd2Ld(m.dst, m.amountSd) <= MAX
  /\ IF m.dst = ADAPTER THEN Sd2Ld(m.dst, m.amountSd) <= escrow
                        ELSE supply[m.dst] + Sd2Ld(m.dst, m.amountSd) <= MAX

(* There are no other demands: the rest is what the accounts become.       *)
LEMMA ReceiveIsGuarded ==
  ASSUME NEW m
  PROVE  LzReceive(m) <=>
           /\ m \in inFlight /\ MayCredit(m)
           /\ inFlight' = inFlight \ {m}
           /\ IF m.dst = ADAPTER
              THEN /\ escrow' = escrow - Sd2Ld(m.dst, m.amountSd)
                   /\ outside' = outside + PostFee(fee, Sd2Ld(m.dst, m.amountSd))
                   /\ UNCHANGED supply
              ELSE /\ supply' = [supply EXCEPT ![m.dst] = @ + Sd2Ld(m.dst, m.amountSd)]
                   /\ UNCHANGED <<outside, escrow>>
           /\ UNCHANGED <<fee, authority, sent, minted>>
BY Zenon DEF LzReceive, Credit, Unlock, Mint, MayCredit

(* A transfer home is never refused: whenever a message to the adapter     *)
(* arrives, before or after any others and whatever the fee is by then, the*)
(* escrow can pay it, as long as nobody has minted.  So a message that     *)
(* burnt its sender's tokens abroad cannot be stuck.                       *)
THEOREM ArrivalsArePaid ==
  Spec => [](~minted => \A m \in inFlight : m.dst = ADAPTER => MayCredit(m))
<1>1. ASSUME EscrowInv, ~minted, NEW m \in inFlight, m.dst = ADAPTER PROVE MayCredit(m)
  <2> DEFINE k == m.amountSd
             W == SumFunction(OnTheWay)
             H == SumFunction(Held)
             r == Rate[ADAPTER]
  <2>1. TypeOK /\ IsFiniteSet(inFlight) /\ escrow >= (W + H) * r
    BY <1>1, Zenon DEF EscrowInv, Backed, Abroad, Sd2Ld
  <2>2. W \in Nat /\ H \in Nat /\ \A q \in inFlight : q.amountSd \in Nat
    BY <2>1, SumsAreNat
  <2>3. k \in Nat /\ r \in Nat /\ escrow \in 0..Total /\ Total \in 0..MAX /\ MAX \in Nat
    BY <1>1, <2>1, <2>2, ConstantsTypes, BoundsAssumption DEF Chain, TypeOK
  <2>4. k <= W
    <3>1. W = SumFunctionOnSet(OnTheWay, inFlight)
      BY Zenon DEF SumFunction, OnTheWay
    <3>2. \A q \in inFlight : OnTheWay[q] = q.amountSd
      BY DEF OnTheWay
    <3>3. \A q \in inFlight : OnTheWay[q] \in Nat
      BY <2>2, <3>2
    <3>4. OnTheWay[m] <= SumFunctionOnSet(OnTheWay, inFlight)
      BY <2>1, <3>3, SumAtLeast
    <3> QED  BY <3>1, <3>2, <3>4
  <2> HIDE DEF k, W, H, r
  <2>5. k * r <= (W + H) * r
    BY <2>2, <2>3, <2>4, TimesMonotonic
  <2>6. k * r \in Nat /\ (W + H) * r \in Nat
    BY <2>2, <2>3
  <2>7. k * r <= escrow /\ k * r <= MAX
    BY <2>1, <2>3, <2>5, <2>6
  <2> QED  BY <1>1, <2>7 DEF MayCredit, Sd2Ld, k, r
<1>2. EscrowInv => (~minted => \A m \in inFlight : m.dst = ADAPTER => MayCredit(m))
  BY <1>1
<1> QED  BY <1>2, EscrowInvariant, PTL

-----------------------------------------------------------------------------
(***************************************************************************)
(* The rate limiter of a peer, for all amounts, rates and capacities,      *)
(* every bound on time and every width of the integers.                    *)
(***************************************************************************)
(* The product of elapsed time and rate, the only one in the module.       *)
LEMMA NewTokensNat ==
  ASSUME NEW l \in RateLimiter, now \in 0..MaxTime, l.lastRefillTime <= now, NEW extra \in Nat
  PROVE  /\ (now - l.lastRefillTime) * l.refillPerSecond \in Nat
         /\ NewTokens(l, extra) \in Nat
<1>1. now - l.lastRefillTime \in Nat /\ l.refillPerSecond \in Nat
  BY TimeAssumption DEF RateLimiter
<1> DEFINE elapsed == now - l.lastRefillTime
           rate == l.refillPerSecond
<1>2. elapsed \in Nat /\ rate \in Nat
  BY <1>1
<1>3. elapsed * rate \in Nat
  <2> HIDE DEF elapsed, rate
  <2> QED  BY <1>2
<1> QED  BY <1>3 DEF NewTokens

(* A limiter that has been refilled is well-formed and up to date.         *)
LEMMA RefilledTyped ==
  ASSUME NEW l \in RateLimiter, now \in 0..MaxTime, l.lastRefillTime <= now, NEW extra \in Nat
  PROVE  /\ Refilled(l, extra) \in RateLimiter
         /\ Refilled(l, extra).tokens <= l.capacity
         /\ Refilled(l, extra).tokens \in 0..U64_MAX
         /\ Refilled(l, extra).capacity = l.capacity
         /\ Refilled(l, extra).refillPerSecond = l.refillPerSecond
         /\ Refilled(l, extra).lastRefillTime = now
<1> DEFINE tokens == Lesser(l.capacity, Lesser(U64_MAX, l.tokens + NewTokens(l, extra)))
<1>1. NewTokens(l, extra) \in Nat /\ l.tokens \in 0..U64_MAX /\ l.capacity \in 0..U64_MAX
  BY NewTokensNat DEF RateLimiter
<1>2. tokens \in 0..U64_MAX /\ tokens <= l.capacity
  BY <1>1, TimeAssumption DEF Lesser
<1>3. Refilled(l, extra) = [l EXCEPT !.tokens = tokens, !.lastRefillTime = now]
  BY DEF Refilled
<1> HIDE DEF tokens
<1> QED  BY <1>2, <1>3 DEF RateLimiter

LEMMA DefaultTyped == Default \in RateLimiter
BY TimeAssumption DEF Default, RateLimiter

LEMMA WithCapacityTyped ==
  ASSUME NEW l \in RateLimiter, now \in 0..MaxTime, NEW capacity \in 0..U64_MAX
  PROVE  /\ WithCapacity(l, capacity) \in RateLimiter
         /\ WithCapacity(l, capacity).tokens = capacity
         /\ WithCapacity(l, capacity).capacity = capacity
         /\ WithCapacity(l, capacity).lastRefillTime = now
         /\ WithCapacity(l, capacity).refillPerSecond = l.refillPerSecond
BY DEF WithCapacity, RateLimiter

LEMMA WithRateTyped ==
  ASSUME NEW l \in RateLimiter, now \in 0..MaxTime, l.lastRefillTime <= now, NEW rate \in 0..U64_MAX
  PROVE  /\ WithRate(l, rate) \in RateLimiter
         /\ WithRate(l, rate).tokens = Refilled(l, 0).tokens
         /\ WithRate(l, rate).capacity = l.capacity
         /\ WithRate(l, rate).lastRefillTime = now
         /\ WithRate(l, rate).refillPerSecond = rate
<1>1. Refilled(l, 0) \in RateLimiter
  BY RefilledTyped
<1> HIDE DEF Refilled
<1> QED  BY <1>1, RefilledTyped DEF WithRate, RateLimiter

(* The limiter that set_rate_limit starts from, and the one it continues   *)
(* with when the capacity has been set.                                    *)
Old == IF limiter # NONE THEN limiter ELSE Default
New(capacity) == IF capacity # NONE THEN WithCapacity(Old, capacity) ELSE Old

LEMMA OldTyped ==
  ASSUME LimiterTypeOK, NEW capacity \in Value \cup {NONE}
  PROVE  /\ Old \in RateLimiter /\ Old.tokens <= Old.capacity /\ Old.lastRefillTime <= now
         /\ New(capacity) \in RateLimiter
         /\ New(capacity).tokens <= New(capacity).capacity
         /\ New(capacity).lastRefillTime <= now
         /\ New(capacity).refillPerSecond = Old.refillPerSecond
<1>1. Old \in RateLimiter /\ Old.tokens <= Old.capacity /\ Old.lastRefillTime <= now
  BY DefaultTyped, TimeAssumption DEF Old, LimiterTypeOK, Default
<1>2. CASE capacity = NONE
  BY <1>1, <1>2 DEF New
<1>3. CASE capacity # NONE
  <2>1. capacity \in 0..U64_MAX
    BY <1>3, ValueAssumption
  <2>2. New(capacity) = WithCapacity(Old, capacity)
    BY <1>3 DEF New
  <2> QED  BY <1>1, <2>1, <2>2, WithCapacityTyped, TimeAssumption DEF LimiterTypeOK
<1> QED  BY <1>2, <1>3

LEMMA SetRateLimitIs ==
  ASSUME NEW capacity, NEW rate, SetRateLimit(capacity, rate)
  PROVE  limiter' = IF rate # NONE THEN WithRate(New(capacity), rate) ELSE New(capacity)
BY DEF SetRateLimit, New, Old

LEMMA TypingStep == ASSUME LimiterTypeOK, [LimiterNext]_limiterVars PROVE LimiterTypeOK'
<1>1. CASE AdvanceTime
  BY <1>1, TimeAssumption DEF AdvanceTime, LimiterTypeOK, RateLimiter
<1>2. ASSUME NEW capacity \in Value \cup {NONE}, NEW rate \in Value \cup {NONE},
             SetRateLimit(capacity, rate)
      PROVE  LimiterTypeOK'
  <2>1. now' = now
    BY <1>2 DEF SetRateLimit
  <2>2. CASE rate = NONE
    <3>1. limiter' = New(capacity)
      BY <1>2, <2>2, SetRateLimitIs
    <3> QED  BY <2>1, <3>1, OldTyped DEF LimiterTypeOK
  <2>3. CASE rate # NONE
    <3>1. limiter' = WithRate(New(capacity), rate) /\ rate \in 0..U64_MAX
      BY <1>2, <2>3, SetRateLimitIs, ValueAssumption
    <3> QED
      BY <2>1, <3>1, OldTyped, WithRateTyped, RefilledTyped, TimeAssumption DEF LimiterTypeOK
  <2> QED  BY <2>2, <2>3
<1>3. CASE DisableRateLimit
  BY <1>3 DEF DisableRateLimit, LimiterTypeOK
<1>4. ASSUME NEW amount \in Value, TryConsume(amount) PROVE LimiterTypeOK'
  <2>1. limiter \in RateLimiter /\ limiter.lastRefillTime <= now /\ now \in 0..MaxTime
    BY <1>4 DEF TryConsume, LimiterTypeOK
  <2>2. amount \in Nat
    BY ValueAssumption, TimeAssumption
  <2> DEFINE r == Refilled(limiter, 0)
  <2>3. r \in RateLimiter /\ r.tokens <= r.capacity /\ r.lastRefillTime = now
    BY <2>1, RefilledTyped
  <2>4. amount <= r.tokens /\ limiter' = [r EXCEPT !.tokens = @ - amount] /\ now' = now
    BY <1>4 DEF TryConsume
  <2> HIDE DEF r
  <2> QED  BY <2>1, <2>2, <2>3, <2>4, TimeAssumption DEF LimiterTypeOK, RateLimiter
<1>5. ASSUME NEW amount \in Value, Refill(amount) PROVE LimiterTypeOK'
  <2>1. limiter \in RateLimiter /\ limiter.lastRefillTime <= now /\ now \in 0..MaxTime
    BY <1>5 DEF Refill, LimiterTypeOK
  <2>2. amount \in Nat
    BY ValueAssumption, TimeAssumption
  <2>3. limiter' = Refilled(limiter, amount) /\ now' = now
    BY <1>5 DEF Refill
  <2> QED  BY <2>1, <2>2, <2>3, RefilledTyped DEF LimiterTypeOK
<1>6. CASE UNCHANGED limiterVars
  BY <1>6 DEF limiterVars, LimiterTypeOK
<1> QED  BY <1>1, <1>2, <1>3, <1>4, <1>5, <1>6 DEF LimiterNext

LEMMA TypingInit == LimiterInit => LimiterTypeOK
BY TimeAssumption DEF LimiterInit, LimiterTypeOK

(* The tokens are never above the capacity.                                *)
THEOREM LimiterTypeCorrect == LimiterSpec => []LimiterTypeOK
<1> QED  BY TypingInit, TypingStep, PTL DEF LimiterSpec

-----------------------------------------------------------------------------
(* The level of a limiter at time t: a second later it has grown by the    *)
(* rate, up to the capacity.                                               *)
LevelAt(l, t) ==
  Lesser(l.capacity, l.tokens + (t - l.lastRefillTime) * l.refillPerSecond)

LEMMA LevelGrows ==
  ASSUME NEW l \in RateLimiter, NEW t \in Nat, l.lastRefillTime <= t
  PROVE  /\ LevelAt(l, t) \in Nat
         /\ LevelAt(l, t + 1) = Lesser(l.capacity, LevelAt(l, t) + l.refillPerSecond)
<1> DEFINE elapsed == t - l.lastRefillTime
           rate == l.refillPerSecond
<1>1. elapsed \in Nat /\ rate \in Nat /\ l.tokens \in Nat /\ l.capacity \in Nat
  BY TimeAssumption DEF RateLimiter
<1>2. (t + 1) - l.lastRefillTime = elapsed + 1
  BY TimeAssumption DEF RateLimiter
<1> HIDE DEF elapsed, rate
<1>3. elapsed * rate \in Nat /\ (elapsed + 1) * rate = elapsed * rate + rate
  BY <1>1
<1>4. LevelAt(l, t) = Lesser(l.capacity, l.tokens + elapsed * rate)
  BY DEF LevelAt, elapsed, rate
<1>5. LevelAt(l, t + 1) = Lesser(l.capacity, l.tokens + (elapsed + 1) * rate)
  BY <1>2 DEF LevelAt, rate
<1>6. LevelAt(l, t + 1) = Lesser(l.capacity, LevelAt(l, t) + rate)
  BY <1>1, <1>3, <1>4, <1>5 DEF Lesser
<1> QED  BY <1>1, <1>3, <1>4, <1>6 DEF Lesser, rate

(* Just after a refill the level is what the tokens say.                   *)
LEMMA LevelNow ==
  ASSUME NEW l \in RateLimiter, NEW t \in Nat, l.lastRefillTime = t, l.tokens <= l.capacity
  PROVE  LevelAt(l, t) = l.tokens
<1>1. t - l.lastRefillTime = 0
  OBVIOUS
<1>2. (t - l.lastRefillTime) * l.refillPerSecond = 0
  BY <1>1, TimeAssumption DEF RateLimiter
<1> QED  BY <1>2, TimeAssumption DEF LevelAt, RateLimiter, Lesser

(* Refilling brings the tokens to the level, and adds the extra ones.      *)
LEMMA RefilledLevel ==
  ASSUME NEW l \in RateLimiter, now \in 0..MaxTime, l.lastRefillTime <= now, NEW extra \in Nat
  PROVE  Refilled(l, extra).tokens = Lesser(l.capacity, LevelAt(l, now) + extra)
<1> DEFINE new == (now - l.lastRefillTime) * l.refillPerSecond
<1>1. new \in Nat /\ NewTokens(l, extra) = extra + new
  BY NewTokensNat DEF NewTokens
<1>2. l.tokens \in 0..U64_MAX /\ l.capacity \in 0..U64_MAX
  BY DEF RateLimiter
<1>3. Refilled(l, extra).tokens = Lesser(l.capacity, Lesser(U64_MAX, l.tokens + (extra + new)))
  BY <1>1 DEF Refilled, RateLimiter
<1>4. LevelAt(l, now) = Lesser(l.capacity, l.tokens + new)
  BY DEF LevelAt
<1> HIDE DEF new
<1> QED  BY <1>1, <1>2, <1>3, <1>4, TimeAssumption DEF Lesser

(* The bucket that a limiter implements.                                   *)
BucketOf(l, t) ==
  IF l = NONE THEN NONE
  ELSE [capacity |-> l.capacity, level |-> LevelAt(l, t), rate |-> l.refillPerSecond]

LEMMA BucketIs ==
  /\ LimiterTypeOK  => AsBucket  = BucketOf(limiter, now)
  /\ LimiterTypeOK' => AsBucket' = BucketOf(limiter', now')
<1>1. ASSUME NEW l \in RateLimiter, NEW t \in 0..MaxTime
      PROVE  0 + (t - l.lastRefillTime) * l.refillPerSecond
               = (t - l.lastRefillTime) * l.refillPerSecond
  BY TimeAssumption DEF RateLimiter
<1> QED  BY <1>1 DEF LimiterTypeOK, AsBucket, Level, NewTokens, BucketOf, LevelAt

LEMMA LevelBounded ==
  ASSUME NEW l \in RateLimiter, NEW t \in Nat, l.lastRefillTime <= t
  PROVE  LevelAt(l, t) <= l.capacity
<1>1. l.tokens + (t - l.lastRefillTime) * l.refillPerSecond \in Int
  BY TimeAssumption DEF RateLimiter
<1> QED  BY <1>1, TimeAssumption DEF LevelAt, Lesser, RateLimiter

(* NONE is neither a limiter nor a bucket.                                 *)
LEMMA BucketNotNone ==
  /\ NONE \notin RateLimiter
  /\ \A x, y, z \in Nat : [capacity |-> x, level |-> y, rate |-> z] # NONE
BY LimiterAssumption, TimeAssumption DEF RateLimiter

LEMMA BucketOfLimiter ==
  ASSUME NEW l \in RateLimiter, NEW t \in Nat, l.lastRefillTime <= t
  PROVE  /\ BucketOf(l, t) # NONE
         /\ BucketOf(l, t) = [capacity |-> l.capacity, level |-> LevelAt(l, t),
                              rate |-> l.refillPerSecond]
<1>1. l.capacity \in Nat /\ LevelAt(l, t) \in Nat /\ l.refillPerSecond \in Nat
  BY LevelGrows, TimeAssumption DEF RateLimiter
<1> QED  BY <1>1, BucketNotNone DEF BucketOf

(* Every step of the limiter is one of the bucket, or leaves it alone.     *)
BucketNext(b, c) ==
  \/ c = b
  \/ b # NONE /\ c = [b EXCEPT !.level = Lesser(b.capacity, @ + b.rate)]
  \/ \E amount \in Value : /\ b # NONE /\ amount <= b.level
                           /\ c = [b EXCEPT !.level = @ - amount]
  \/ \E amount \in Value : b # NONE /\ c = [b EXCEPT !.level = Lesser(b.capacity, @ + amount)]
  \/ \E capacity, rate \in Value \cup {NONE} :
       LET old == IF b # NONE THEN b ELSE [capacity |-> 0, level |-> 0, rate |-> 0]
       IN  c = [capacity |-> IF capacity # NONE THEN capacity ELSE old.capacity,
                level    |-> IF capacity # NONE THEN capacity ELSE old.level,
                rate     |-> IF rate # NONE THEN rate ELSE old.rate]
  \/ c = NONE

LEMMA RefinementStep ==
  ASSUME LimiterTypeOK, LimiterTypeOK', [LimiterNext]_limiterVars
  PROVE  BucketNext(BucketOf(limiter, now), BucketOf(limiter', now'))
<1> DEFINE b == BucketOf(limiter, now)
           c == BucketOf(limiter', now')
<1>1. now \in 0..MaxTime /\ now \in Nat
  BY TimeAssumption DEF LimiterTypeOK
<1>2. CASE AdvanceTime
  <2>1. limiter' = limiter /\ now' = now + 1
    BY <1>2 DEF AdvanceTime
  <2>2. CASE limiter = NONE
    BY <2>1, <2>2 DEF BucketOf, BucketNext
  <2>3. CASE limiter # NONE
    <3>1. limiter \in RateLimiter /\ limiter.lastRefillTime <= now
      BY <2>3 DEF LimiterTypeOK
    <3>2. LevelAt(limiter, now + 1)
            = Lesser(limiter.capacity, LevelAt(limiter, now) + limiter.refillPerSecond)
      BY <1>1, <3>1, LevelGrows
    <3>3. limiter.lastRefillTime <= now + 1
      BY <1>1, <3>1, TimeAssumption DEF RateLimiter
    <3>4. b # NONE /\ c = [b EXCEPT !.level = Lesser(b.capacity, @ + b.rate)]
      BY <1>1, <2>1, <3>1, <3>2, <3>3, BucketOfLimiter
    <3> QED  BY <3>4 DEF BucketNext
  <2> QED  BY <2>2, <2>3
<1>3. ASSUME NEW capacity \in Value \cup {NONE}, NEW rate \in Value \cup {NONE},
             SetRateLimit(capacity, rate)
      PROVE  BucketNext(b, c)
  <2> DEFINE old == IF b # NONE THEN b ELSE [capacity |-> 0, level |-> 0, rate |-> 0]
             n == New(capacity)
  <2>1. now' = now
    BY <1>3 DEF SetRateLimit
  <2>2. /\ Old \in RateLimiter /\ Old.lastRefillTime <= now
        /\ n \in RateLimiter /\ n.lastRefillTime <= now /\ n.tokens <= n.capacity
    BY OldTyped
  <2>3. /\ old.capacity = Old.capacity /\ old.level = LevelAt(Old, now)
        /\ old.rate = Old.refillPerSecond
    <3>1. CASE limiter = NONE
      <4>1. Old = Default /\ b = NONE
        BY <3>1 DEF Old, BucketOf
      <4>2. LevelAt(Default, now) = 0
        BY <1>1 DEF LevelAt, Default, Lesser
      <4> QED  BY <4>1, <4>2 DEF Default
    <3>2. CASE limiter # NONE
      <4>1. Old = limiter
        BY <3>2 DEF Old
      <4> QED  BY <1>1, <2>2, <4>1, BucketOfLimiter
    <3> QED  BY <3>1, <3>2
  <2>4. /\ n.capacity = IF capacity # NONE THEN capacity ELSE old.capacity
        /\ LevelAt(n, now) = IF capacity # NONE THEN capacity ELSE old.level
        /\ n.refillPerSecond = old.rate
    <3>1. CASE capacity = NONE
      BY <2>3, <3>1 DEF New
    <3>2. CASE capacity # NONE
      <4>1. capacity \in 0..U64_MAX /\ n = WithCapacity(Old, capacity)
        BY <3>2, ValueAssumption DEF New
      <4>2. /\ n.tokens = capacity /\ n.capacity = capacity /\ n.lastRefillTime = now
            /\ n.refillPerSecond = Old.refillPerSecond
        BY <1>1, <2>2, <4>1, WithCapacityTyped
      <4>3. LevelAt(n, now) = capacity
        BY <1>1, <2>2, <4>2, LevelNow
      <4> QED  BY <2>3, <3>2, <4>2, <4>3
    <3> QED  BY <3>1, <3>2
  <2>5. /\ limiter' \in RateLimiter
        /\ limiter'.capacity = n.capacity /\ LevelAt(limiter', now) = LevelAt(n, now)
        /\ limiter'.refillPerSecond = IF rate # NONE THEN rate ELSE n.refillPerSecond
    <3>1. CASE rate = NONE
      BY <1>3, <2>2, <3>1, SetRateLimitIs
    <3>2. CASE rate # NONE
      <4>1. limiter' = WithRate(n, rate) /\ rate \in 0..U64_MAX
        BY <1>3, <3>2, SetRateLimitIs, ValueAssumption
      <4>2. /\ limiter' \in RateLimiter /\ limiter'.capacity = n.capacity
            /\ limiter'.tokens = Refilled(n, 0).tokens /\ limiter'.lastRefillTime = now
            /\ limiter'.refillPerSecond = rate
        BY <1>1, <2>2, <4>1, WithRateTyped
      <4>3. Refilled(n, 0).tokens = Lesser(n.capacity, LevelAt(n, now) + 0)
        BY <1>1, <2>2, RefilledLevel
      <4>4. LevelAt(n, now) \in Nat /\ LevelAt(n, now) <= n.capacity
        BY <1>1, <2>2, LevelGrows, LevelBounded
      <4>5. limiter'.tokens = LevelAt(n, now)
        BY <2>2, <4>2, <4>3, <4>4 DEF Lesser, RateLimiter
      <4>6. LevelAt(limiter', now) = limiter'.tokens
        BY <1>1, <4>2, <4>4, <4>5, LevelNow
      <4> QED  BY <3>2, <4>2, <4>5, <4>6
    <3> QED  BY <3>1, <3>2
  <2>6. limiter' # NONE
    BY <2>5, BucketNotNone
  <2>7. c = [capacity |-> IF capacity # NONE THEN capacity ELSE old.capacity,
             level    |-> IF capacity # NONE THEN capacity ELSE old.level,
             rate     |-> IF rate # NONE THEN rate ELSE old.rate]
    BY <2>1, <2>4, <2>5, <2>6 DEF BucketOf
  <2> QED  BY <2>7 DEF BucketNext
<1>4. CASE DisableRateLimit
  BY <1>4 DEF DisableRateLimit, BucketOf, BucketNext
<1>5. ASSUME NEW amount \in Value, TryConsume(amount) PROVE BucketNext(b, c)
  <2>1. limiter # NONE /\ limiter \in RateLimiter /\ limiter.lastRefillTime <= now
    BY <1>5 DEF TryConsume, LimiterTypeOK
  <2>2. amount \in Nat /\ LevelAt(limiter, now) \in Nat
        /\ LevelAt(limiter, now) <= limiter.capacity
    BY <1>1, <2>1, LevelGrows, LevelBounded, ValueAssumption, TimeAssumption
  <2> DEFINE r == Refilled(limiter, 0)
  <2>3. /\ r \in RateLimiter /\ r.capacity = limiter.capacity /\ r.lastRefillTime = now
        /\ r.refillPerSecond = limiter.refillPerSecond
    BY <1>1, <2>1, RefilledTyped
  <2>4. r.tokens = LevelAt(limiter, now)
    <3>1. r.tokens = Lesser(limiter.capacity, LevelAt(limiter, now) + 0)
      BY <1>1, <2>1, RefilledLevel
    <3> QED  BY <2>1, <2>2, <3>1 DEF Lesser, RateLimiter
  <2>5. amount <= r.tokens /\ limiter' = [r EXCEPT !.tokens = @ - amount] /\ now' = now
    BY <1>5 DEF TryConsume
  <2> HIDE DEF r
  <2>6. /\ limiter' \in RateLimiter /\ limiter'.tokens = r.tokens - amount
        /\ limiter'.capacity = r.capacity /\ limiter'.lastRefillTime = now
        /\ limiter'.refillPerSecond = r.refillPerSecond
    BY <2>2, <2>3, <2>4, <2>5, TimeAssumption DEF RateLimiter
  <2>7. LevelAt(limiter', now) = r.tokens - amount
    BY <1>1, <2>2, <2>3, <2>4, <2>6, LevelNow DEF RateLimiter
  <2>8. b # NONE /\ b = [capacity |-> limiter.capacity, level |-> r.tokens,
                        rate |-> limiter.refillPerSecond]
    BY <1>1, <2>1, <2>4, BucketOfLimiter
  <2>9. limiter'.lastRefillTime <= now
    BY <1>1, <2>6
  <2>10. c = [capacity |-> limiter.capacity, level |-> r.tokens - amount,
              rate |-> limiter.refillPerSecond]
    BY <1>1, <2>3, <2>5, <2>6, <2>7, <2>9, BucketOfLimiter
  <2>11. amount <= b.level /\ c = [b EXCEPT !.level = @ - amount]
    BY <2>5, <2>8, <2>10
  <2> QED  BY <2>8, <2>11 DEF BucketNext
<1>6. ASSUME NEW amount \in Value, Refill(amount) PROVE BucketNext(b, c)
  <2>1. limiter # NONE /\ limiter \in RateLimiter /\ limiter.lastRefillTime <= now
    BY <1>6 DEF Refill, LimiterTypeOK
  <2>2. amount \in Nat
    BY ValueAssumption, TimeAssumption
  <2> DEFINE r == Refilled(limiter, amount)
  <2>3. /\ r \in RateLimiter /\ r.capacity = limiter.capacity /\ r.lastRefillTime = now
        /\ r.refillPerSecond = limiter.refillPerSecond /\ r.tokens <= r.capacity
        /\ r.tokens = Lesser(limiter.capacity, LevelAt(limiter, now) + amount)
    BY <1>1, <2>1, <2>2, RefilledTyped, RefilledLevel
  <2>4. limiter' = r /\ now' = now
    BY <1>6 DEF Refill
  <2> HIDE DEF r
  <2>5. LevelAt(r, now) = r.tokens
    BY <1>1, <2>3, LevelNow
  <2>6. b # NONE /\ c = [b EXCEPT !.level = Lesser(b.capacity, @ + amount)]
    BY <1>1, <2>1, <2>3, <2>4, <2>5, BucketOfLimiter
  <2> QED  BY <2>6 DEF BucketNext
<1>7. CASE UNCHANGED limiterVars
  BY <1>7 DEF limiterVars, BucketNext
<1> QED  BY <1>2, <1>3, <1>4, <1>5, <1>6, <1>7 DEF LimiterNext

(* The limiter, brought up to date only when it is used, is the bucket     *)
(* that is filled every second.                                            *)
THEOREM LimiterImplementsBucket == LimiterSpec => ImplementsBucket
<1>1. LimiterInit => Bucket!Init
  BY DEF LimiterInit, AsBucket, Bucket!Init
<1>2. LimiterTypeOK /\ LimiterTypeOK' /\ [LimiterNext]_limiterVars => [Bucket!Next]_AsBucket
  <2>1. SUFFICES ASSUME LimiterTypeOK, LimiterTypeOK', [LimiterNext]_limiterVars
                 PROVE  [Bucket!Next]_AsBucket
    OBVIOUS
  <2>2. BucketNext(AsBucket, AsBucket')
    BY <2>1, BucketIs, RefinementStep
  <2> QED
    BY <2>2
    DEF BucketNext, Bucket!Next, Bucket!Second, Bucket!Take, Bucket!PutBack, Bucket!Filled,
        Bucket!Lesser, Lesser, Bucket!Configure, Bucket!Or, Bucket!Remove
<1> QED  BY <1>1, <1>2, LimiterTypeCorrect, PTL DEF LimiterSpec, ImplementsBucket, Bucket!Spec

-----------------------------------------------------------------------------
(* What set_rate_limit demands: no overflow when it sets the rate.         *)
MaySetRateLimit(capacity, rate) == rate # NONE => CanRefill(New(capacity), 0)

(* It demands nothing else.                                                *)
LEMMA SetRateLimitIsGuarded ==
  ASSUME NEW capacity, NEW rate
  PROVE  SetRateLimit(capacity, rate) <=>
           /\ MaySetRateLimit(capacity, rate)
           /\ limiter' = IF rate # NONE THEN WithRate(New(capacity), rate) ELSE New(capacity)
           /\ UNCHANGED now
BY DEF SetRateLimit, MaySetRateLimit, New, Old

(* Whatever the limiter has become, and however many seconds ago, the admin*)
(* may set capacity and rate together: the capacity is set first, and no   *)
(* token is left to add.                                                   *)
THEOREM AdminsRecover ==
  LimiterSpec => [](\A capacity, rate \in Value : MaySetRateLimit(capacity, rate))
<1>1. ASSUME LimiterTypeOK, NEW capacity \in Value, NEW rate \in Value
      PROVE  MaySetRateLimit(capacity, rate)
  <2>1. capacity # NONE /\ capacity \in 0..U64_MAX
    BY ValueAssumption, TimeAssumption
  <2>2. New(capacity) = WithCapacity(Old, capacity)
    BY <2>1 DEF New
  <2>3. Old \in RateLimiter
    BY <1>1, OldTyped
  <2>4. New(capacity).lastRefillTime = now /\ New(capacity).refillPerSecond \in Nat
    BY <2>2, <2>3, TimeAssumption DEF WithCapacity, RateLimiter
  <2>5. now - now = 0
    BY <1>1, TimeAssumption DEF LimiterTypeOK
  <2>6. NewTokens(New(capacity), 0) = 0
    BY <2>4, <2>5 DEF NewTokens
  <2> QED  BY <2>6, TimeAssumption DEF MaySetRateLimit, CanRefill
<1>2. LimiterTypeOK => (\A capacity, rate \in Value : MaySetRateLimit(capacity, rate))
  BY <1>1
<1> QED  BY <1>2, LimiterTypeCorrect, PTL
=============================================================================
