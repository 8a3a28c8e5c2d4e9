------------------------------ MODULE WorkerFees ------------------------------
(***************************************************************************)
(* What an executor and a DVN ask for a message: both price the gas of the *)
(* destination by their price feed and add their margin.                   *)
(*                                                                         *)
(* An option for the executor is a record [type, index, gas, value]; the   *)
(* fields its type does not have are 0.                                    *)
(***************************************************************************)
EXTENDS PriceFeed, ExecutorConfig, DvnFees, FiniteSetsExt

OptionTypes == {"lzReceive", "nativeDrop", "lzCompose", "ordered"}

Have(options, type) == {i \in DOMAIN options : options[i].type = type}

(* The amounts an option asks for on the other chain.                      *)
TotalValue(options) == MapThenSumSet(LAMBDA i : options[i].value, DOMAIN options)

ReceiveGas(options) ==
  MapThenSumSet(LAMBDA i : options[i].gas, Have(options, "lzReceive"))

Composed(options) == {options[i].index : i \in Have(options, "lzCompose")}

ComposeGas(options, index) ==
  MapThenSumSet(LAMBDA i : options[i].gas,
                {i \in Have(options, "lzCompose") : options[i].index = index})

ValidOptions(dst, options) ==
  /\ \A i \in DOMAIN options : options[i].type \in OptionTypes
  /\ TotalValue(options) <= dst.cap
  /\ ReceiveGas(options) > 0
  /\ \A index \in Composed(options) : ComposeGas(options, index) > 0

(* Every composed message costs its base gas once, however many options    *)
(* give it gas; ordered execution costs 2% more.                           *)
TotalGas(dst, options) ==
  LET gas == dst.baseGas + ReceiveGas(options)
        + MapThenSumSet(LAMBDA index : dst.composeGas + ComposeGas(options, index),
                        Composed(options))
  IN IF Have(options, "ordered") = {} THEN gas ELSE (gas * 102) \div 100

-----------------------------------------------------------------------------
(* The price of `gas`, with the worker's margin.                           *)
MultiplierFor(config, dst) == IF dst.multiplier = NONE THEN config.multiplier ELSE dst.multiplier

GasFee(config, dst, eid, size, gas) ==
  UNION {IncreasedFee(fee, MultiplierFor(config, dst), dst.floorMargin,
                      priceFeed[config.priceFeed].solPrice) :
         fee \in GetFee(config.priceFeed, eid, size, gas)}

(* The destination's configuration, of a worker that serves the OApp.      *)
DstFor(config, lib, oapp, eid) ==
  IF config = NONE THEN {}
  ELSE IF ~Serves(config, oapp, lib) THEN {}
  ELSE Found(config.dst, eid)

(* The executor's quote.                                                   *)
ValueFee(config, dst, price, value) ==
  ((value * price.ratio * MultiplierFor(config, dst))
     \div priceFeed[config.priceFeed].denominator) \div 10000

ExecutorQuote(x, lib, oapp, eid, size, options) ==
  LET config == executorConfig[x]
      served == {dst \in DstFor(config, lib, oapp, eid) :
                   dst.baseGas > 0 /\ ValidOptions(dst, options)}
      fees(dst) == {gasFee + ValueFee(config, dst, price, TotalValue(options)) :
                      gasFee \in GasFee(config, dst, eid, size, TotalGas(dst, options)),
                      price \in PriceFor(config.priceFeed, eid)}
  IN UNION {AsU64(fee) : fee \in UNION {fees(dst) : dst \in served}}

(* The DVN's quote: its job is one verify, with the signatures of a quorum.*)
PaddedTo32(n) == n + ((32 - (n % 32)) % 32)

CalldataSize(quorum) == 68 + 320 + PaddedTo32(quorum * 65) + 64

DvnQuote(d, lib, oapp, eid) ==
  LET config == dvnConfig[d]
      served == {dst \in DstFor(config, lib, oapp, eid) : dst.gas > 0}
  IN UNION {AsU64(fee) : fee \in
       UNION {GasFee(config, dst, eid, CalldataSize(config.quorum), dst.gas) : dst \in served}}
=============================================================================
