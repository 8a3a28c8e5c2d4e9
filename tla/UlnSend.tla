-------------------------------- MODULE UlnSend --------------------------------
(***************************************************************************)
(* The sending half of the ULN message library, for one OApp and one       *)
(* destination: whom a message hires, what they ask, and who is paid what. *)
(*                                                                         *)
(* A message is its length.  The receiving half of the configurations is   *)
(* modelled in ReceiveUln.tla.                                             *)
(***************************************************************************)
EXTENDS WorkerFees

CONSTANTS
  ULN,           \* the library's own account
  Sender,        \* the OApp that sends
  DstEid,        \* the destination
  SendUln,       \* the DVN configurations, valid or not, that may be set
  SendExecutor,  \* the [maxSize, executor] that may be set
  Treasury,      \* the treasuries that may be set, or NONE
  Mint           \* tokens

ASSUME SendConfigAssumption == SendUln \subseteq Config
(* Who can be paid.  Accounts of different programs differ, and there are  *)
(* finitely many of them.                                                  *)
Payee == Executor \cup Dvn \cup Key \cup Lib

ASSUME PayeeAssumption ==
  /\ Executor \cap Dvn = {} /\ (Executor \cup Dvn) \cap (Key \cup Lib) = {}
  /\ IsFiniteSet(Payee)
(* lz is NONE or [fee, mint], the mint of the receiving token account.     *)
ASSUME TreasuryAssumption == \A t \in Treasury \ {NONE} :
  /\ DOMAIN t = {"admin", "receiver", "bps", "lz"}
  /\ t.receiver \in Payee
  /\ t.bps \in Nat
  /\ t.lz # NONE => t.lz.fee \in Nat

VARIABLES
  ulnSettings,   \* UlnSettings: admin and treasury
  sendConfig     \* the default SendConfig and the OApp's own

ulnVars == <<ulnSettings, sendConfig>>

UlnInit ==
  /\ ulnSettings = NONE
  /\ sendConfig = [default |-> NONE, own |-> NONE]

(* SendConfig::default()                                                   *)
NoSendConfig == [uln |-> NoConfig, executor |-> [maxSize |-> 0, executor |-> NONE]]

(* An account that is absent is not one that is there.                     *)
ASSUME AccountAssumption ==
  /\ NONE \notin [admin : Key, treasury : Treasury \cup {NONE}]
  /\ NONE \notin [uln : Config, executor : SendExecutor \cup {NoSendConfig.executor}]

-----------------------------------------------------------------------------
InitUln(admin) ==
  /\ ulnSettings = NONE
  /\ ulnSettings' = [admin |-> admin, treasury |-> NONE]
  /\ UNCHANGED sendConfig

IsUlnAdmin(k) == ulnSettings # NONE /\ k = ulnSettings.admin

TransferUlnAdmin(k, newAdmin) ==
  /\ IsUlnAdmin(k)
  /\ ulnSettings' = [ulnSettings EXCEPT !.admin = newAdmin]
  /\ UNCHANGED sendConfig

IsTreasuryAdmin(k) ==
  /\ ulnSettings # NONE
  /\ ulnSettings.treasury # NONE
  /\ k = ulnSettings.treasury.admin

BPS_DENOMINATOR == 10000

ValidTreasury(t) == t # NONE => t.bps <= BPS_DENOMINATOR

(* set_treasury: by the admin, or by the treasury's own.                   *)
SetTreasury(k, t) ==
  /\ IsUlnAdmin(k) \/ IsTreasuryAdmin(k)
  /\ ValidTreasury(t)
  /\ ulnSettings' = [ulnSettings EXCEPT !.treasury = t]
  /\ UNCHANGED sendConfig

ValidDefaultExecutor(e) == e.executor # NONE /\ e.maxSize > 0

InitDefaultSendConfig(k, c, e) ==
  /\ IsUlnAdmin(k)
  /\ sendConfig.default = NONE
  /\ ValidDefaultConfig(c) /\ ValidDefaultExecutor(e)
  /\ sendConfig' = [sendConfig EXCEPT !.default = [uln |-> c, executor |-> e]]
  /\ UNCHANGED ulnSettings

(* set_default_config: each of the two is optional.                        *)
SetDefaultSendConfig(k, c, e) ==
  /\ IsUlnAdmin(k)
  /\ sendConfig.default # NONE
  /\ c # NONE => ValidDefaultConfig(c)
  /\ e # NONE => ValidDefaultExecutor(e)
  /\ sendConfig' = [sendConfig EXCEPT
       !.default.uln = IF c = NONE THEN @ ELSE c,
       !.default.executor = IF e = NONE THEN @ ELSE e]
  /\ UNCHANGED ulnSettings

(* init_config and set_config, called through the endpoint.                *)
InitSendConfig ==
  /\ ulnSettings # NONE
  /\ sendConfig.own = NONE
  /\ sendConfig' = [sendConfig EXCEPT !.own = NoSendConfig]
  /\ UNCHANGED ulnSettings

SetSendExecutor(e) ==
  /\ sendConfig.own # NONE /\ sendConfig.default # NONE
  /\ sendConfig' = [sendConfig EXCEPT !.own.executor = e]
  /\ UNCHANGED ulnSettings

SetSendUln(c) ==
  /\ sendConfig.own # NONE /\ sendConfig.default # NONE
  /\ ValidConfig(c)
  /\ UsableConfig(sendConfig.default.uln, c)
  /\ sendConfig' = [sendConfig EXCEPT !.own.uln = c]
  /\ UNCHANGED ulnSettings

UlnAdminNext == \E k \in Key :
  \/ InitUln(k)
  \/ \E newAdmin \in Key : TransferUlnAdmin(k, newAdmin)
  \/ \E t \in Treasury : SetTreasury(k, t)
  \/ \E c \in SendUln, e \in SendExecutor : InitDefaultSendConfig(k, c, e)
  \/ \E c \in SendUln \cup {NONE}, e \in SendExecutor \cup {NONE} :
       SetDefaultSendConfig(k, c, e)

-----------------------------------------------------------------------------
(***************************************************************************)
(* decode_options.  Options are a record of their format: 1 [format, gas], *)
(* 2 [format, gas, amount, receiverSize] and 3 [format, items], items being*)
(* a sequence of [worker, option].  What a DVN is given is never read.     *)
(***************************************************************************)
Option(type, gas, value) == [type |-> type, index |-> 0, gas |-> gas, value |-> value]

Decoded(o) ==
  CASE o.format = 1 -> {<< Option("lzReceive", o.gas, 0) >>}
    [] o.format = 2 /\ o.receiverSize = 32 ->
         {<< Option("lzReceive", o.gas, 0), Option("nativeDrop", 0, o.amount) >>}
    [] o.format = 3 /\ \A i \in DOMAIN o.items : o.items[i].worker \in {"executor", "dvn"} ->
         LET given == {i \in DOMAIN o.items : o.items[i].worker = "executor"}
         IN {[i \in given |-> o.items[i].option]}
    [] OTHER -> {}

(* A mistake: the default wins over the OApp's own.                        *)
DefaultWins(default, own) == default

(* ExecutorConfig::get_config and get_send_config.                         *)
EffectiveExecutor(default, own) ==
  [maxSize |-> IF own.maxSize = 0 THEN default.maxSize ELSE own.maxSize,
   executor |-> IF own.executor = NONE THEN default.executor ELSE own.executor]

OwnSendConfig == IF sendConfig.own = NONE THEN NoSendConfig ELSE sendConfig.own

EffectiveUln == EffectiveConfig(sendConfig.default.uln, OwnSendConfig.uln)
HiredExecutor == EffectiveExecutor(sendConfig.default.executor, OwnSendConfig.executor)
HiredDvns == EffectiveUln.required \cup EffectiveUln.optional

Sendable ==
  /\ ulnSettings # NONE
  /\ sendConfig.default # NONE
  /\ UsableConfig(sendConfig.default.uln, OwnSendConfig.uln)

-----------------------------------------------------------------------------
(* A mistake: a DVN that is both required and optional has one job.        *)
OneJob(d) == IF d \in HiredDvns THEN 1 ELSE 0

(* A DVN is asked, and paid, once for every list it is in.                 *)
Jobs(d) == Cardinality({l \in {"required", "optional"} : d \in EffectiveUln[l]})

QuoteExecutor(size, o) ==
  IF size > HiredExecutor.maxSize \/ HiredExecutor.executor \notin Executor THEN {}
  ELSE UNION {ExecutorQuote(HiredExecutor.executor, ULN, Sender, DstEid, size, options) :
              options \in Decoded(o)}

(* One quote of every DVN, or none at all.                                 *)
QuotesOf(dvns) ==
  LET quotes == [d \in dvns |-> DvnQuote(d, ULN, Sender, DstEid)]
  IN {asked \in [dvns -> UNION {quotes[d] : d \in dvns}] : \A d \in dvns : asked[d] \in quotes[d]}

Total(fees) == SumFunction(fees)

(* quote_executor and quote_dvns: what every worker gets for the message.  *)
JobFees(fee, asked) ==
  [w \in {HiredExecutor.executor} \cup HiredDvns |->
     IF w \in HiredDvns THEN Jobs(w) * asked[w] ELSE fee]

WorkerFees(size, o) ==
  IF ~Sendable THEN {}
  ELSE {fees \in {JobFees(fee, asked) : fee \in QuoteExecutor(size, o),
                                         asked \in QuotesOf(HiredDvns)} :
          Total(fees) \in 0..U64_MAX}

NativeShare(workerFee) ==
  LET t == ulnSettings.treasury
  IN IF t = NONE THEN {0} ELSE {product \div BPS_DENOMINATOR :
                                 product \in AsU64(workerFee * t.bps)}

(* quote_treasury; a library without treasury has no fee in the token.     *)
LzFeeOf(t) == IF t.lz = NONE THEN {} ELSE {t.lz.fee}

(* quote                                                                   *)
NativeQuote(workerFee) ==
  {[native |-> total, lz |-> 0] : total \in
     UNION {AsU64(workerFee + share) : share \in NativeShare(workerFee)}}

LzTokenQuote(workerFee) ==
  {[native |-> workerFee, lz |-> share] : share \in
     IF ulnSettings.treasury = NONE THEN {0} ELSE LzFeeOf(ulnSettings.treasury)}

UlnQuote(size, o, payInLz) ==
  UNION {IF payInLz THEN LzTokenQuote(workerFee) ELSE NativeQuote(workerFee) :
         workerFee \in {Total(fees) : fees \in WorkerFees(size, o)}}

-----------------------------------------------------------------------------
(* What changes hands: the receipt's fee, and what every account receives. *)
Paid(fees) == [a \in Payee |-> IF a \in DOMAIN fees THEN fees[a] ELSE 0]

PaidShare(fees, share) ==
  IF ulnSettings.treasury = NONE THEN Paid(fees)
  ELSE [Paid(fees) EXCEPT ![ulnSettings.treasury.receiver] = @ + share]

(* Mistakes: the workers alone must be paid for; or more than the fee must *)
(* be offered.                                                             *)
WorkersAreCovered(nativeFee, workerFee, share) == nativeFee >= workerFee
MoreThanCovers(nativeFee, workerFee, share) == nativeFee > workerFee + share

Covers(nativeFee, workerFee, share) == nativeFee >= workerFee + share

(* send: the treasury takes its share of the native fee.                   *)
SendFor(fees, workerFee, nativeFee) ==
  {[native |-> workerFee + share, lz |-> 0, paid |-> PaidShare(fees, share)] :
     share \in {s \in NativeShare(workerFee) :
       AsU64(workerFee + s) # {} /\ Covers(nativeFee, workerFee, s)}}

UlnSend(size, o, nativeFee) ==
  UNION {SendFor(fees, Total(fees), nativeFee) : fees \in WorkerFees(size, o)}

(* send_with_lz_token: the treasury takes its fee in the endpoint's token, *)
(* on an account of that token.                                            *)
UlnSendWithLzToken(size, o, nativeFee, lzFee, mint) ==
  LET t == ulnSettings.treasury
      shares == IF t = NONE THEN {} ELSE {s \in LzFeeOf(t) : lzFee >= s /\ t.lz.mint = mint}
  IN {[native |-> Total(fees), lz |-> share, paid |-> Paid(fees)] :
        fees \in {f \in WorkerFees(size, o) : nativeFee >= Total(f)}, share \in shares}
=============================================================================
