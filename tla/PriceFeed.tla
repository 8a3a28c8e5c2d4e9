------------------------------ MODULE PriceFeed ------------------------------
(***************************************************************************)
(* Price feeds: what gas costs on other chains, in the native token, as    *)
(* some updaters report it and workers ask for it.                         *)
(***************************************************************************)
EXTENDS WorkerUtils

CONSTANTS
  Price,                 \* the prices an updater may report
  SolPrice,              \* the prices of the native token, or NONE
  RatioDenominator,      \* the denominators of ratios, the initial one included
  INITIAL_DENOMINATOR,   \* 10^20
  EID_MODULUS,
  UPDATERS_MAX_LEN, PRICES_DEFAULT_LEN, PRICES_MAX_LEN

(* model is NONE, [l2Gas, l1GasPerByte] or [l1Eid].                      *)
ASSUME PriceAssumption ==
  \A p \in Price : {p.ratio, p.gasPrice, p.gasPerByte} \subseteq Nat
ASSUME FeedAssumption ==
  /\ SolPrice \subseteq Nat \cup {NONE}
  /\ RatioDenominator \subseteq Nat
  /\ EID_MODULUS \in Nat \ {0}
  /\ {UPDATERS_MAX_LEN, PRICES_DEFAULT_LEN, PRICES_MAX_LEN} \subseteq Nat

VARIABLE priceFeed   \* the account of every feed

PriceFeedInit == priceFeed = [f \in Feed |-> NONE]

-----------------------------------------------------------------------------
InitPriceFeed(f, admin, updaters) ==
  /\ priceFeed[f] = NONE
  /\ Cardinality(updaters) <= UPDATERS_MAX_LEN
  /\ priceFeed' = [priceFeed EXCEPT ![f] =
       [admin |-> admin, updaters |-> updaters, denominator |-> INITIAL_DENOMINATOR,
        solPrice |-> NONE, prices |-> NoItems, extended |-> FALSE]]

SetPriceFeed(f, admin, updaters, denominator) ==
  /\ priceFeed[f] # NONE
  /\ admin = priceFeed[f].admin
  /\ Cardinality(updaters) <= UPDATERS_MAX_LEN
  /\ priceFeed' = [priceFeed EXCEPT ![f].updaters = updaters,
                                    ![f].denominator = denominator]

TransferFeedAdmin(f, admin, newAdmin) ==
  /\ priceFeed[f] # NONE
  /\ admin = priceFeed[f].admin
  /\ priceFeed' = [priceFeed EXCEPT ![f].admin = newAdmin]

ExtendPriceFeed(f, admin) ==
  /\ priceFeed[f] # NONE
  /\ admin = priceFeed[f].admin
  /\ priceFeed' = [priceFeed EXCEPT ![f].extended = TRUE]

MaxPrices(f) == IF priceFeed[f].extended THEN PRICES_MAX_LEN ELSE PRICES_DEFAULT_LEN

(* The eid is not reduced by the modulus, unlike in GetFee.                *)
SetPrice(f, updater, eid, price) ==
  /\ priceFeed[f] # NONE
  /\ updater \in priceFeed[f].updaters
  /\ MayPut(priceFeed[f].prices, eid, MaxPrices(f))
  /\ priceFeed' = [priceFeed EXCEPT ![f].prices = Put(@, eid, price)]

RemovePrice(f, updater, eid) ==
  /\ priceFeed[f] # NONE
  /\ updater \in priceFeed[f].updaters
  /\ eid \in DOMAIN priceFeed[f].prices
  /\ priceFeed' = [priceFeed EXCEPT ![f].prices = Removed(@, eid)]

SetSolPrice(f, updater, solPrice) ==
  /\ priceFeed[f] # NONE
  /\ updater \in priceFeed[f].updaters
  /\ priceFeed' = [priceFeed EXCEPT ![f].solPrice = solPrice]

PriceFeedNext == \E f \in Feed, k \in Key :
  \/ \E updaters \in SUBSET Key :
       \/ InitPriceFeed(f, k, updaters)
       \/ \E d \in RatioDenominator : SetPriceFeed(f, k, updaters, d)
  \/ \E new \in Key : TransferFeedAdmin(f, k, new)
  \/ ExtendPriceFeed(f, k)
  \/ \E e \in Eid : (\E p \in Price : SetPrice(f, k, e, p)) \/ RemovePrice(f, k, e)
  \/ \E s \in SolPrice : SetSolPrice(f, k, s)

-----------------------------------------------------------------------------
(* The three models of what gas and calldata cost.                         *)
PriceOf(p, gas, denominator) == (gas * p.gasPrice * p.ratio) \div denominator

DefaultModelFee(p, size, gas, denominator) ==
  PriceOf(p, gas + size * p.gasPerByte, denominator)

ArbitrumFee(p, size, gas, denominator) ==
  PriceOf(p, gas + p.model.l2Gas + size * p.model.l1GasPerByte + size * p.gasPerByte,
          denominator)

OptimismFee(p, size, gas, l1Price, denominator) ==
  DefaultModelFee(p, size, gas, denominator)
    + PriceOf(l1Price, size * l1Price.gasPerByte + 3188, denominator)

(* get_fee: the fee only; ratio, denominator and price of the native token *)
(* come with it in the code, and are read from the account here.           *)
PriceFor(f, eid) == Found(priceFeed[f].prices, eid % EID_MODULUS)

FeeByModel(f, p, size, gas) ==
  LET d == priceFeed[f].denominator
  IN IF p.model = NONE THEN {DefaultModelFee(p, size, gas, d)}
     ELSE IF "l2Gas" \in DOMAIN p.model THEN {ArbitrumFee(p, size, gas, d)}
     ELSE {OptimismFee(p, size, gas, l1, d) : l1 \in PriceFor(f, p.model.l1Eid)}

GetFee(f, eid, size, gas) ==
  IF priceFeed[f] = NONE THEN {}
  ELSE IF priceFeed[f].denominator = 0 THEN {}
  ELSE UNION {FeeByModel(f, p, size, gas) : p \in PriceFor(f, eid)}
=============================================================================
