----------------------------- MODULE SendProofs -----------------------------
(***************************************************************************)
(* Proofs about Send, for any OApps, libraries, workers and configurations:*)
(* whatever happens around the sends, messages are numbered without a gap. *)
(***************************************************************************)
EXTENDS Send, Sums

USE NoneAssumption, MaxSendsAssumption

Count(r) == IF outboundNonce[r] = NONE THEN 0 ELSE outboundNonce[r]

(* Every packet has a number up to its receiver's counter, and there are as*)
(* many packets as the counter says.                                       *)
NumberedUpTo(r) ==
  /\ IsFiniteSet(Logged(r))
  /\ Cardinality(Logged(r)) = Count(r)
  /\ \A p \in Logged(r) : p.nonce \in 1..Count(r)

OutboxInv ==
  /\ outboundNonce \in [Receiver -> Nat \cup {NONE}]
  /\ packets \subseteq [receiver : Receiver, nonce : Nat, message : Message]
  /\ \A r \in Receiver : NumberedUpTo(r)

-----------------------------------------------------------------------------
(* Nobody but a sender touches the packets, and counters only start at 0.  *)
LEMMA SettingsTouchNoPackets ==
  ASSUME OutboxInv, AdminNext
  PROVE  /\ UNCHANGED packets
         /\ outboundNonce' \in [Receiver -> Nat \cup {NONE}]
         /\ \A r \in Receiver : Count(r)' = Count(r)
<1>1. UNCHANGED packets
  BY DEF AdminNext, sendingVars
<1>2. ASSUME NEW k \in Key, NEW r \in Receiver, InitNonce(k, r)
      PROVE  /\ outboundNonce' \in [Receiver -> Nat \cup {NONE}]
             /\ \A q \in Receiver : Count(q)' = Count(q)
  BY <1>2 DEF InitNonce, Count, OutboxInv
<1>3. CASE UNCHANGED outboundNonce
  BY <1>1, <1>3 DEF Count, OutboxInv
<1>4. UNCHANGED outboundNonce \/ \E k \in Key, r \in Receiver : InitNonce(k, r)
  BY DEF AdminNext, sendingVars, OAppNext, InitSendLibrary, SetSendLibrary, InitConfig, SetConfig
<1> QED  BY <1>1, <1>2, <1>3, <1>4

(* A send adds the packet of the next number.                              *)
LEMMA SendAddsTheNext ==
  ASSUME OutboxInv, NEW r \in Receiver, NEW message \in Message, NEW o, NEW nativeFee, NEW lzFee,
         Send(r, message, o, nativeFee, lzFee)
  PROVE  LET packet == [receiver |-> r, nonce |-> Count(r) + 1, message |-> message]
         IN /\ outboundNonce' \in [Receiver -> Nat \cup {NONE}]
            /\ Count(r) \in Nat /\ Count(r)' = Count(r) + 1
            /\ Logged(r)' = Logged(r) \cup {packet}
            /\ packet \notin Logged(r)
            /\ packets' = packets \cup {packet}
            /\ \A q \in Receiver \ {r} : Count(q)' = Count(q) /\ Logged(q)' = Logged(q)
<1> DEFINE packet == [receiver |-> r, nonce |-> Count(r) + 1, message |-> message]
<1>1. outboundNonce[r] \in Nat /\ outboundNonce[r] # NONE
  BY DEF Send
<1>2. outboundNonce' = [outboundNonce EXCEPT ![r] = Count(r) + 1]
  BY <1>1 DEF Send, IncrementNonce, Count, OutboxInv
<1>3. packets' = packets \cup {packet}
  BY <1>2 DEF Send, OutboxInv
<1>4. Count(r) \in Nat /\ Count(r)' = Count(r) + 1
  BY <1>1, <1>2 DEF Count, OutboxInv
<1>5. outboundNonce' \in [Receiver -> Nat \cup {NONE}]
  BY <1>2, <1>4 DEF OutboxInv
<1>6. Logged(r)' = Logged(r) \cup {packet}
  BY <1>3 DEF Logged
<1>7. packet \notin Logged(r)
  BY <1>4 DEF OutboxInv, NumberedUpTo
<1>8. ASSUME NEW q \in Receiver \ {r}
      PROVE  Count(q)' = Count(q) /\ Logged(q)' = Logged(q)
  BY <1>2, <1>3 DEF Count, Logged, OutboxInv
<1> QED  BY <1>3, <1>4, <1>5, <1>6, <1>7, <1>8

-----------------------------------------------------------------------------
(* Numbers and counters agree after every step.                            *)
LEMMA OutboxInvariant == Spec => []OutboxInv
<1>1. Init => OutboxInv
  <2> SUFFICES ASSUME Init PROVE OutboxInv
    OBVIOUS
  <2>1. \A r \in Receiver : Logged(r) = {} /\ Count(r) = 0
    BY DEF Init, Logged, Count
  <2> QED  BY <2>1, FS_EmptySet DEF Init, OutboxInv, NumberedUpTo
<1>2. OutboxInv /\ [Next]_vars => OutboxInv'
  <2> SUFFICES ASSUME OutboxInv, [Next]_vars PROVE OutboxInv'
    OBVIOUS
  <2>1. CASE AdminNext
    BY <2>1, SettingsTouchNoPackets DEF OutboxInv, NumberedUpTo, Logged
  <2>2. ASSUME NEW r \in Receiver, NEW message \in Message, NEW o, NEW nativeFee, NEW lzFee,
               Send(r, message, o, nativeFee, lzFee)
        PROVE  OutboxInv'
    <3> DEFINE packet == [receiver |-> r, nonce |-> Count(r) + 1, message |-> message]
    <3>1. /\ outboundNonce' \in [Receiver -> Nat \cup {NONE}]
          /\ Count(r) \in Nat /\ Count(r)' = Count(r) + 1
          /\ Logged(r)' = Logged(r) \cup {packet}
          /\ packet \notin Logged(r)
          /\ packets' = packets \cup {packet}
          /\ \A q \in Receiver \ {r} : Count(q)' = Count(q) /\ Logged(q)' = Logged(q)
      BY <2>2, SendAddsTheNext
    <3>2. packets' \subseteq [receiver : Receiver, nonce : Nat, message : Message]
      BY <3>1 DEF OutboxInv
    <3>3. NumberedUpTo(r)'
      <4>1. IsFiniteSet(Logged(r)') /\ Cardinality(Logged(r)') = Cardinality(Logged(r)) + 1
        BY <3>1, FS_AddElement DEF OutboxInv, NumberedUpTo
      <4>2. \A p \in Logged(r)' : p.nonce \in 1..Count(r)'
        BY <3>1 DEF OutboxInv, NumberedUpTo
      <4> QED  BY <3>1, <4>1, <4>2 DEF OutboxInv, NumberedUpTo
    <3>4. ASSUME NEW q \in Receiver \ {r} PROVE NumberedUpTo(q)'
      BY <3>1 DEF OutboxInv, NumberedUpTo
    <3> QED  BY <3>1, <3>2, <3>3, <3>4 DEF OutboxInv
  <2>3. CASE UNCHANGED vars
    BY <2>3 DEF vars, sendingVars, OutboxInv, NumberedUpTo, Logged, Count
  <2> QED  BY <2>1, <2>2, <2>3 DEF Next, SendNext
<1> QED  BY <1>1, <1>2, PTL DEF Spec

-----------------------------------------------------------------------------
(* The log of a receiver, by its numbers.                                  *)
Numbered(r, n) == {p.message : p \in {q \in Logged(r) : q.nonce = n}}

(* A send appends its message to the log of its receiver alone.            *)
LEMMA SendPosts ==
  ASSUME OutboxInv, NEW r \in Receiver, NEW message \in Message, NEW o, NEW nativeFee, NEW lzFee,
         Send(r, message, o, nativeFee, lzFee)
  PROVE  O!Post(r, {message})
<1> DEFINE packet == [receiver |-> r, nonce |-> Count(r) + 1, message |-> message]
           k == Count(r)
           before == [n \in 1..k |-> Numbered(r, n)]
<1>1. /\ k \in Nat /\ k' = k + 1
      /\ Logged(r)' = Logged(r) \cup {packet}
      /\ packet \notin Logged(r)
      /\ \A q \in Receiver \ {r} : Count(q)' = Count(q) /\ Logged(q)' = Logged(q)
  BY SendAddsTheNext
<1>2. /\ IsFiniteSet(Logged(r)) /\ Cardinality(Logged(r)) = k
      /\ \A p \in Logged(r) : p.nonce \in 1..k
  BY DEF OutboxInv, NumberedUpTo
<1>3. Cardinality(Logged(r)') = k + 1
  BY <1>1, <1>2, FS_AddElement
<1>4. Log'[r] = [n \in 1..(k + 1) |-> Numbered(r, n)']
  BY <1>3 DEF Log, Numbered
<1>5. Log[r] = before
  BY <1>2 DEF Log, Numbered
<1>6. \A n \in 1..k : Numbered(r, n)' = Numbered(r, n)
  BY <1>1 DEF Numbered
<1>7. ASSUME NEW n \in Nat, n = k + 1 PROVE Numbered(r, n)' = {message}
  <2>1. {q \in Logged(r)' : q.nonce = n} = {packet}
    BY <1>1, <1>2, <1>7
  <2>2. packet.message = message
    OBVIOUS
  <2>3. {p.message : p \in {q \in Logged(r)' : q.nonce = n}} = {message}
    <3> HIDE DEF packet
    <3> QED  BY <2>1, <2>2
  <2> QED  BY <2>3 DEF Numbered
<1>8. before \in Seq(SUBSET Message) /\ Len(before) = k
  <2>1. before \in [1..k -> SUBSET Message]
    <3> SUFFICES ASSUME NEW n \in 1..k PROVE Numbered(r, n) \subseteq Message
      OBVIOUS
    <3> QED  BY DEF Numbered, Logged, OutboxInv
  <2> QED  BY <1>1, <2>1
<1>9. Append(before, {message}) = [n \in 1..(k + 1) |-> IF n <= k THEN before[n] ELSE {message}]
  BY <1>1, <1>8
<1>10. Log'[r] = Append(Log[r], {message})
  <2>1. \A n \in 1..(k + 1) : Numbered(r, n)' = IF n <= k THEN before[n] ELSE {message}
    BY <1>1, <1>6, <1>7
  <2> QED  BY <1>4, <1>5, <1>9, <2>1
<1>11. ASSUME NEW q \in Receiver \ {r} PROVE Log'[q] = Log[q]
  BY <1>1, <1>11 DEF Log
<1>12. Log' = [Log EXCEPT ![r] = Append(@, {message})]
  BY <1>10, <1>11 DEF Log
<1> QED  BY <1>12 DEF O!Post

(* Sending implements the outbox: every receiver's messages are numbered 1,*)
(* 2, 3 ... in the order of the sends, through whichever libraries, and    *)
(* whatever was set in between.                                            *)
THEOREM SendImplementsOutbox == Spec => ImplementsOutbox
<1>1. Init => O!Init
  <2> SUFFICES ASSUME Init, NEW r \in Receiver PROVE Log[r] = << >>
    BY DEF O!Init, Log
  <2>1. Logged(r) = {}
    BY DEF Init, Logged
  <2>2. Cardinality(Logged(r)) = 0
    BY <2>1, FS_EmptySet
  <2> QED  BY <2>2 DEF Log
<1>2. OutboxInv /\ [Next]_vars => [O!Next]_Log
  <2> SUFFICES ASSUME OutboxInv, [Next]_vars PROVE [O!Next]_Log
    OBVIOUS
  <2>1. CASE UNCHANGED packets
    BY <2>1 DEF Log, Logged
  <2>2. ASSUME NEW r \in Receiver, NEW message \in Message, NEW o, NEW nativeFee, NEW lzFee,
               Send(r, message, o, nativeFee, lzFee)
        PROVE  O!Next
    BY <2>2, SendPosts DEF O!Next
  <2> QED  BY <2>1, <2>2, SettingsTouchNoPackets DEF Next, SendNext, vars, sendingVars
<1> QED  BY <1>1, <1>2, OutboxInvariant, PTL DEF Spec, ImplementsOutbox, O!Spec

-----------------------------------------------------------------------------
(* The stored configurations; the default one has no NIL.                  *)
Configured(executors) == [uln : Config, executor : executors]

SendConfigOK ==
  /\ sendConfig \in
       [default : {NONE} \cup Configured(SendExecutor),
        own : {NONE} \cup Configured(SendExecutor \cup {NoSendConfig.executor})]
  /\ sendConfig.default # NONE => Literal(sendConfig.default.uln)

(* The configuration of a new account is one, of all-default fields.       *)
LEMMA NoConfigIsConfig == NoConfig \in Config
<1>1. Cardinality(Dvn) \in Nat
  BY DvnAssumption, FS_CardinalityType
<1> QED  BY <1>1, ConfirmationsAssumption DEF NoConfig, Config, Depth

(* No setter of the ULN, by admin or OApp, stores anything else.           *)
LEMMA SendConfigInvariant == Spec => []SendConfigOK
<1>1. Init => SendConfigOK
  BY DEF Init, UlnInit, SendConfigOK
<1>2. SendConfigOK /\ [Next]_vars => SendConfigOK'
  <2> SUFFICES ASSUME SendConfigOK, [Next]_vars PROVE SendConfigOK'
    OBVIOUS
  <2>1. CASE UNCHANGED sendConfig
    BY <2>1 DEF SendConfigOK
  <2>2. ASSUME NEW k \in Key, NEW c \in SendUln, NEW e \in SendExecutor,
               InitDefaultSendConfig(k, c, e)
        PROVE  SendConfigOK'
    BY <2>2, SendConfigAssumption
    DEF SendConfigOK, Configured, InitDefaultSendConfig, ValidDefaultConfig
  <2>3. ASSUME NEW k \in Key, NEW c \in SendUln \cup {NONE}, NEW e \in SendExecutor \cup {NONE},
               SetDefaultSendConfig(k, c, e)
        PROVE  SendConfigOK'
    BY <2>3, SendConfigAssumption
    DEF SendConfigOK, Configured, SetDefaultSendConfig, ValidDefaultConfig
  <2>4. CASE InitSendConfig
    BY <2>4, NoConfigIsConfig DEF SendConfigOK, Configured, InitSendConfig, NoSendConfig
  <2>5. ASSUME NEW e \in SendExecutor, SetSendExecutor(e) PROVE SendConfigOK'
    BY <2>5 DEF SendConfigOK, Configured, SetSendExecutor
  <2>6. ASSUME NEW c \in SendUln, SetSendUln(c) PROVE SendConfigOK'
    BY <2>6, SendConfigAssumption DEF SendConfigOK, Configured, SetSendUln
  <2>7. CASE UlnAdminNext
    BY <2>1, <2>2, <2>3, <2>7 DEF UlnAdminNext, InitUln, TransferUlnAdmin, SetTreasury
  <2>8. CASE OAppNext
    BY <2>1, <2>4, <2>5, <2>6, <2>8
    DEF OAppNext, InitSendLibrary, SetSendLibrary, InitConfig, SetConfig, InitNonce, ulnVars
  <2> QED  BY <2>1, <2>7, <2>8 DEF Next, AdminNext, ulnVars, vars
<1> QED  BY <1>1, <1>2, PTL DEF Spec

(* The accounts that are hired are DVNs.                                   *)
LEMMA HiredAreDvns ==
  ASSUME SendConfigOK, Sendable
  PROVE  HiredDvns \subseteq Dvn
<1> DEFINE default == sendConfig.default.uln
           own == OwnSendConfig.uln
<1>1. default \in Config /\ Literal(default)
  BY DEF SendConfigOK, Configured, Sendable
<1>2. own \in Config
  BY NoConfigIsConfig DEF SendConfigOK, Configured, OwnSendConfig, NoSendConfig
<1>3. /\ MergeDvns(default.required, own.required) \subseteq Dvn
      /\ MergeDvns(default.optional, own.optional) \subseteq Dvn
  BY <1>1, <1>2, NilAssumption DEF Config, Literal, MergeDvns
<1> QED  BY <1>3 DEF HiredDvns, EffectiveUln, EffectiveConfig

-----------------------------------------------------------------------------
(* What the workers ask is a natural number.                               *)
LEMMA QuotesAreNatural ==
  /\ \A size, o : QuoteExecutor(size, o) \subseteq Nat
  /\ \A d : DvnQuote(d, ULN, Sender, DstEid) \subseteq Nat
BY WidthAssumption DEF QuoteExecutor, ExecutorQuote, DvnQuote, AsU64

(* So is the share of the treasury.                                        *)
LEMMA SharesAreNatural == \A fee : NativeShare(fee) \subseteq Nat
BY WidthAssumption DEF NativeShare, AsU64, BPS_DENOMINATOR

(* A DVN has a job for every list it is in.                                *)
LEMMA JobsOfDvn ==
  ASSUME NEW d \in HiredDvns
  PROVE  Jobs(d) = IF d \in EffectiveUln.required \cap EffectiveUln.optional THEN 2 ELSE 1
<1> DEFINE lists == {l \in {"required", "optional"} : d \in EffectiveUln[l]}
<1>1. CASE d \in EffectiveUln.required \cap EffectiveUln.optional
  <2>1. lists = {"required", "optional"}
    BY <1>1
  <2>2. Cardinality({"required"} \cup {"optional"}) = 2
    <3>1. IsFiniteSet({"required"}) /\ Cardinality({"required"}) = 1
      BY FS_Singleton
    <3>2. "optional" \notin {"required"}
      OBVIOUS
    <3>3. Cardinality({"required"} \cup {"optional"}) = Cardinality({"required"}) + 1
      BY <3>1, <3>2, FS_AddElement
    <3> QED  BY <3>1, <3>3
  <2> QED  BY <1>1, <2>1, <2>2 DEF Jobs
<1>2. CASE d \notin EffectiveUln.required \cap EffectiveUln.optional
  <2>1. lists = {"required"} \/ lists = {"optional"}
    BY <1>2 DEF HiredDvns
  <2> QED  BY <1>2, <2>1, FS_Singleton DEF Jobs
<1> QED  BY <1>1, <1>2

(* The fees that are paid are those that were asked.                       *)
AskedFees(fees, size, o) ==
  /\ Sendable
  /\ HiredExecutor.executor \in Executor
  /\ DOMAIN fees = {HiredExecutor.executor} \cup HiredDvns
  /\ fees[HiredExecutor.executor] \in QuoteExecutor(size, o)
  /\ \A d \in HiredDvns : \E asked \in DvnQuote(d, ULN, Sender, DstEid) :
       fees[d] = Jobs(d) * asked

(* The fees that the ULN assigns are the ones that its workers ask.        *)
LEMMA FeesAreAsked ==
  ASSUME SendConfigOK, NEW size, NEW o, NEW fees \in WorkerFees(size, o)
  PROVE  AskedFees(fees, size, o)
<1> DEFINE hired == HiredExecutor.executor
<1>1. Sendable
  BY DEF WorkerFees
<1>2. PICK fee \in QuoteExecutor(size, o), asked \in QuotesOf(HiredDvns) :
        fees = JobFees(fee, asked)
  BY DEF WorkerFees
<1>3. hired \in Executor
  BY <1>2 DEF QuoteExecutor
<1>4. hired \notin HiredDvns
  BY <1>1, <1>3, HiredAreDvns, PayeeAssumption
<1>5. \A d \in HiredDvns : asked[d] \in DvnQuote(d, ULN, Sender, DstEid)
  BY <1>2 DEF QuotesOf
<1> QED  BY <1>1, <1>2, <1>3, <1>4, <1>5 DEF JobFees, AskedFees

(* Nobody receives less than his fee, whoever takes the treasury's share.  *)
LEMMA PaidInFull ==
  ASSUME NEW fees, NEW a \in Payee \cap DOMAIN fees, \A b \in DOMAIN fees : fees[b] \in Nat,
         NEW share \in Nat
  PROVE  \A paid \in {Paid(fees), PaidShare(fees, share)} :
           paid[a] \in Nat /\ paid[a] >= fees[a]
BY DEF Paid, PaidShare

(* What a send through the ULN pays.                                       *)
LEMMA SendPaysFees ==
  ASSUME NEW r, NEW message, NEW o, NEW nativeFee, NEW lzFee,
         NEW sent \in Sent(r, message, o, nativeFee, lzFee), CurrentSendLibrary = ULN
  PROVE  \E fees \in WorkerFees(message, o), share \in Nat :
           sent.paid \in {Paid(fees), PaidShare(fees, share)}
<1>1. CASE sent \in UlnSend(message, o, nativeFee)
  <2>1. PICK fees \in WorkerFees(message, o) : sent \in SendFor(fees, Total(fees), nativeFee)
    BY <1>1 DEF UlnSend
  <2>2. NativeShare(Total(fees)) \subseteq Nat
    BY SharesAreNatural
  <2>3. PICK share \in Nat : sent.paid = PaidShare(fees, share)
    BY <2>1, <2>2 DEF SendFor
  <2> QED  BY <2>3
<1>2. CASE sent \in UlnSendWithLzToken(message, o, nativeFee, lzFee, endpoint.lzMint)
  <2>1. PICK fees \in WorkerFees(message, o) : sent.paid = Paid(fees)
    BY <1>2 DEF UlnSendWithLzToken
  <2> QED  BY <2>1
<1> QED  BY <1>1, <1>2 DEF Sent, PlainSend, SendWithLzToken

-----------------------------------------------------------------------------
(* Every send through the ULN pays its executor and every DVN it hires,    *)
(* required or optional, at least what they ask, whatever the treasury     *)
(* takes and whoever receives it.                                          *)
THEOREM WorkersGetTheirFees == Spec => EveryWorkerIsPaid
<1>1. ASSUME SendConfigOK, NEW r \in Receiver, NEW message \in Message, NEW o, NEW nativeFee,
             NEW lzFee, Send(r, message, o, nativeFee, lzFee), CurrentSendLibrary = ULN
      PROVE  WorkersArePaid
  <2> DEFINE hired == HiredExecutor.executor
             paid == receipt'.sent.paid
  <2>1. PICK sent \in Sent(r, message, o, nativeFee, lzFee) :
          /\ receipt'.sent = sent /\ receipt'.options = o /\ receipt'.message = message
    BY <1>1 DEF Send
  <2>2. PICK fees \in WorkerFees(message, o), share \in Nat :
          paid \in {Paid(fees), PaidShare(fees, share)}
    BY <1>1, <2>1, SendPaysFees
  <2>3. AskedFees(fees, message, o)
    BY <1>1, <2>2, FeesAreAsked
  <2>4. ASSUME NEW d \in HiredDvns
        PROVE  \E asked \in DvnQuote(d, ULN, Sender, DstEid) :
                 /\ fees[d] >= asked /\ {asked, fees[d]} \subseteq Nat
                 /\ d \in EffectiveUln.required \cap EffectiveUln.optional => fees[d] >= 2 * asked
    <3>1. PICK asked \in DvnQuote(d, ULN, Sender, DstEid) : fees[d] = Jobs(d) * asked
      BY <2>3 DEF AskedFees
    <3>2. asked \in Nat
      BY <3>1, QuotesAreNatural
    <3> QED  BY <3>1, <3>2, JobsOfDvn
  <2>5. \A a \in DOMAIN fees : fees[a] \in Nat
    BY <2>3, <2>4, QuotesAreNatural DEF AskedFees
  <2>6. DOMAIN fees \subseteq Payee
    BY <1>1, <2>3, HiredAreDvns DEF Payee, AskedFees
  <2>7. \A a \in DOMAIN fees : paid[a] \in Nat /\ paid[a] >= fees[a]
    BY <2>2, <2>5, <2>6, PaidInFull
  <2>8. \E options \in Decoded(o) :
          \E fee \in ExecutorQuote(hired, ULN, Sender, DstEid, message, options) : paid[hired] >= fee
    <3>1. paid[hired] >= fees[hired]
      BY <2>3, <2>7 DEF AskedFees
    <3> QED  BY <2>3, <3>1 DEF QuoteExecutor, AskedFees
  <2> QED  BY <2>1, <2>3, <2>4, <2>7, <2>8 DEF WorkersArePaid, AskedFees
<1>2. SendConfigOK /\ [Next]_vars => [WorkersArePaid]_vars
  BY <1>1 DEF Next, SendNext, AdminNext, sendingVars, WorkersArePaid
<1> QED  BY <1>2, SendConfigInvariant, PTL DEF Spec, EveryWorkerIsPaid, WorkersArePaid

-----------------------------------------------------------------------------
(***************************************************************************)
(* A quote is the price.  First: a computation has at most one result.     *)
(***************************************************************************)
AtMostOne(S) == \A a, b \in S : a = b

(* An item is looked up in a list by its eid.                              *)
LEMMA FoundOnce == \A list, eid : AtMostOne(Found(list, eid))
BY DEF AtMostOne, Found

(* A fee is narrowed to 64 bits, or is none.                               *)
LEMMA U64Once == \A value : AtMostOne(AsU64(value))
BY DEF AtMostOne, AsU64

(* The price feed has one price, and so one fee, for a destination.        *)
LEMMA FeedFeeOnce == \A f, eid, size, gas : AtMostOne(GetFee(f, eid, size, gas))
<1> SUFFICES ASSUME NEW f, NEW eid, NEW size, NEW gas
             PROVE  AtMostOne(GetFee(f, eid, size, gas))
  OBVIOUS
<1>1. \A e : AtMostOne(PriceFor(f, e))
  BY FoundOnce DEF PriceFor
<1>2. \A p : AtMostOne(FeeByModel(f, p, size, gas))
  BY <1>1 DEF AtMostOne, FeeByModel
<1> QED  BY <1>1, <1>2 DEF AtMostOne, GetFee

(* So does a worker who adds his margin to it.                             *)
LEMMA GasFeeOnce ==
  \A config, dst, eid, size, gas : AtMostOne(GasFee(config, dst, eid, size, gas))
<1> SUFFICES ASSUME NEW config, NEW dst, NEW eid, NEW size, NEW gas
             PROVE  AtMostOne(GasFee(config, dst, eid, size, gas))
  OBVIOUS
<1>1. \A fee, multiplier, margin, price :
        AtMostOne(IncreasedFee(fee, multiplier, margin, price))
  BY DEF AtMostOne, IncreasedFee
<1> QED  BY <1>1, FeedFeeOnce DEF AtMostOne, GasFee

(* A worker has one price list entry for a destination.                    *)
LEMMA DstOnce == \A config, lib, oapp, eid : AtMostOne(DstFor(config, lib, oapp, eid))
BY FoundOnce DEF AtMostOne, DstFor

(* So a DVN asks one fee.                                                  *)
LEMMA DvnQuoteOnce == \A d : AtMostOne(DvnQuote(d, ULN, Sender, DstEid))
<1> SUFFICES ASSUME NEW d PROVE AtMostOne(DvnQuote(d, ULN, Sender, DstEid))
  OBVIOUS
<1> DEFINE config == dvnConfig[d]
           served == {dst \in DstFor(config, ULN, Sender, DstEid) : dst.gas > 0}
           size == CalldataSize(config.quorum)
           fees == UNION {GasFee(config, dst, DstEid, size, dst.gas) : dst \in served}
<1>1. AtMostOne(served)
  BY DstOnce DEF AtMostOne
<1>2. AtMostOne(fees)
  BY <1>1, GasFeeOnce DEF AtMostOne
<1>3. DvnQuote(d, ULN, Sender, DstEid) = UNION {AsU64(fee) : fee \in fees}
  BY DEF DvnQuote
<1> QED  BY <1>2, <1>3, U64Once DEF AtMostOne

(* And an executor does, for given options.                                *)
LEMMA ExecutorQuoteOnce ==
  \A x, size, options : AtMostOne(ExecutorQuote(x, ULN, Sender, DstEid, size, options))
<1> SUFFICES ASSUME NEW x, NEW size, NEW options
             PROVE  AtMostOne(ExecutorQuote(x, ULN, Sender, DstEid, size, options))
  OBVIOUS
<1> DEFINE config == executorConfig[x]
           served == {dst \in DstFor(config, ULN, Sender, DstEid) :
                        dst.baseGas > 0 /\ ValidOptions(dst, options)}
           gasFees(dst) == GasFee(config, dst, DstEid, size, TotalGas(dst, options))
           prices == PriceFor(config.priceFeed, DstEid)
           fees(dst) == {gasFee + ValueFee(config, dst, price, TotalValue(options)) :
                           gasFee \in gasFees(dst), price \in prices}
           allFees == UNION {fees(dst) : dst \in served}
<1>1. AtMostOne(served)
  BY DstOnce DEF AtMostOne
<1>2. \A dst : AtMostOne(gasFees(dst))
  BY GasFeeOnce
<1>3. AtMostOne(prices)
  BY FoundOnce DEF PriceFor
<1>4. \A dst : AtMostOne(fees(dst))
  BY <1>2, <1>3 DEF AtMostOne
<1>5. AtMostOne(allFees)
  <2> HIDE DEF served, fees
  <2> QED  BY <1>1, <1>4 DEF AtMostOne
<1>6. ExecutorQuote(x, ULN, Sender, DstEid, size, options) = UNION {AsU64(fee) : fee \in allFees}
  BY DEF ExecutorQuote
<1> QED  BY <1>5, <1>6, U64Once DEF AtMostOne

(* Options are decoded in one way.                                         *)
LEMMA OptionsOnce == \A o : AtMostOne(Decoded(o))
BY DEF AtMostOne, Decoded

(* The treasury has one share of a fee.                                    *)
LEMMA NativeShareOnce == \A fee : AtMostOne(NativeShare(fee))
BY U64Once DEF AtMostOne, NativeShare

(* So the fees of all workers together are determined, if there are any.   *)
LEMMA WorkerFeesOnce == \A size, o : AtMostOne(WorkerFees(size, o))
<1> SUFFICES ASSUME NEW size, NEW o PROVE AtMostOne(WorkerFees(size, o))
  OBVIOUS
<1>1. AtMostOne(QuoteExecutor(size, o))
  BY OptionsOnce, ExecutorQuoteOnce DEF AtMostOne, QuoteExecutor
<1>2. AtMostOne(QuotesOf(HiredDvns))
  <2> SUFFICES ASSUME NEW a \in QuotesOf(HiredDvns), NEW b \in QuotesOf(HiredDvns)
               PROVE  a = b
    BY DEF AtMostOne
  <2>1. \A d \in HiredDvns : a[d] = b[d]
    BY DvnQuoteOnce DEF AtMostOne, QuotesOf
  <2>2. a = [d \in HiredDvns |-> a[d]] /\ b = [d \in HiredDvns |-> b[d]]
    BY DEF QuotesOf
  <2> QED  BY <2>1, <2>2
<1> QED  BY <1>1, <1>2 DEF AtMostOne, WorkerFees

-----------------------------------------------------------------------------
(* The fees that admins set are natural numbers.                           *)
FeesOK ==
  /\ ulnSettings \in {NONE} \cup [admin : Key, treasury : Treasury \cup {NONE}]
  /\ simpleLib \in {NONE} \cup [admin : Key, fee : SimpleFee, lzFee : SimpleFee]

(* No setter stores anything else.                                         *)
LEMMA FeesInvariant == Spec => []FeesOK
<1>1. Init => FeesOK
  BY DEF Init, UlnInit, SimpleInit, FeesOK
<1>2. FeesOK /\ [Next]_vars => FeesOK'
  <2> SUFFICES ASSUME FeesOK, [Next]_vars PROVE FeesOK'
    OBVIOUS
  <2>1. CASE UNCHANGED <<ulnSettings, simpleLib>>
    BY <2>1 DEF FeesOK
  <2>2. CASE UlnAdminNext /\ UNCHANGED simpleLib
    <3>1. PICK k \in Key :
            \/ InitUln(k)
            \/ \E newAdmin \in Key : TransferUlnAdmin(k, newAdmin)
            \/ \E t \in Treasury : SetTreasury(k, t)
            \/ UNCHANGED ulnSettings
      BY <2>2 DEF UlnAdminNext, InitDefaultSendConfig, SetDefaultSendConfig
    <3>2. CASE InitUln(k)
      BY <2>2, <3>2 DEF InitUln, FeesOK
    <3>3. ASSUME NEW newAdmin \in Key, TransferUlnAdmin(k, newAdmin) PROVE FeesOK'
      BY <2>2, <3>3 DEF TransferUlnAdmin, IsUlnAdmin, FeesOK
    <3>4. ASSUME NEW t \in Treasury, SetTreasury(k, t) PROVE FeesOK'
      BY <2>2, <3>4 DEF SetTreasury, IsUlnAdmin, IsTreasuryAdmin, FeesOK
    <3> QED  BY <2>2, <3>1, <3>2, <3>3, <3>4 DEF FeesOK
  <2>3. CASE SimpleNext /\ UNCHANGED ulnSettings
    <3>1. PICK k \in Key :
            \/ \E fee, lzFee \in SimpleFee : InitMessageLib(k, fee, lzFee) \/ SetFee(k, fee, lzFee)
            \/ \E newAdmin \in Key : TransferSimpleAdmin(k, newAdmin)
      BY <2>3 DEF SimpleNext
    <3>2. ASSUME NEW fee \in SimpleFee, NEW lzFee \in SimpleFee,
                 InitMessageLib(k, fee, lzFee) \/ SetFee(k, fee, lzFee)
          PROVE  FeesOK'
      <4>1. CASE InitMessageLib(k, fee, lzFee)
        BY <2>3, <4>1 DEF InitMessageLib, FeesOK
      <4>2. CASE SetFee(k, fee, lzFee)
        BY <2>3, <4>2 DEF SetFee, FeesOK
      <4> QED  BY <3>2, <4>1, <4>2
    <3>3. ASSUME NEW newAdmin \in Key, TransferSimpleAdmin(k, newAdmin) PROVE FeesOK'
      BY <2>3, <3>3 DEF TransferSimpleAdmin, FeesOK
    <3> QED  BY <3>1, <3>2, <3>3
  <2>4. OAppNext => UNCHANGED ulnSettings
    BY DEF OAppNext, InitSendLibrary, SetSendLibrary, InitConfig, SetConfig, InitNonce,
       InitSendConfig, SetSendExecutor, SetSendUln, ulnVars
  <2> QED  BY <2>1, <2>2, <2>3, <2>4 DEF Next, AdminNext, ulnVars, vars
<1> QED  BY <1>1, <1>2, PTL DEF Spec

-----------------------------------------------------------------------------
(* What a send takes, without whom it pays.                                *)
Taken(receipts) == {[native |-> sent.native, lz |-> sent.lz] : sent \in receipts}

(* The ULN takes the quoted native fee, unless there is a share it did not *)
(* quote because the sender was going to pay in the token.                 *)
LEMMA UlnTakesNative ==
  ASSUME NEW message, NEW o, NEW fees \in WorkerFees(message, o), NEW share \in Nat,
         Total(fees) + share \in 0..U64_MAX
  PROVE  Taken(UlnSend(message, o, Total(fees) + share)) =
           {[native |-> Total(fees) + s, lz |-> 0] : s \in
              {s \in NativeShare(Total(fees)) : Total(fees) + s \in 0..U64_MAX /\ s <= share}}
<1>1. WorkerFees(message, o) = {fees}
  BY WorkerFeesOnce DEF AtMostOne
<1>2. Total(fees) \in Nat
  BY WidthAssumption DEF WorkerFees
<1>3. NativeShare(Total(fees)) \subseteq Nat
  BY SharesAreNatural
<1>4. UlnSend(message, o, Total(fees) + share) = SendFor(fees, Total(fees), Total(fees) + share)
  BY <1>1 DEF UlnSend
<1>5. \A s \in NativeShare(Total(fees)) :
        /\ Covers(Total(fees) + share, Total(fees), s) <=> s <= share
        /\ AsU64(Total(fees) + s) # {} <=> Total(fees) + s \in 0..U64_MAX
  BY <1>2, <1>3 DEF Covers, AsU64
<1> DEFINE shares == {s \in NativeShare(Total(fees)) : Total(fees) + s \in 0..U64_MAX /\ s <= share}
<1>6. shares = {s \in NativeShare(Total(fees)) :
                  /\ AsU64(Total(fees) + s) # {}
                  /\ Covers(Total(fees) + share, Total(fees), s)}
  BY <1>5
<1>7. UlnSend(message, o, Total(fees) + share) =
        {[native |-> Total(fees) + s, lz |-> 0, paid |-> PaidShare(fees, s)] : s \in shares}
  <2> HIDE DEF shares
  <2> QED  BY <1>4, <1>6 DEF SendFor
<1> HIDE DEF shares
<1>8. Taken(UlnSend(message, o, Total(fees) + share)) =
        {[native |-> Total(fees) + s, lz |-> 0] : s \in shares}
  <2> DEFINE sent(s) == [native |-> Total(fees) + s, lz |-> 0, paid |-> PaidShare(fees, s)]
  <2>1. \A s : sent(s).native = Total(fees) + s /\ sent(s).lz = 0
    OBVIOUS
  <2>2. UlnSend(message, o, Total(fees) + share) = {sent(s) : s \in shares}
    BY <1>7
  <2>3. Taken({sent(s) : s \in shares}) =
          {[native |-> sent(s).native, lz |-> sent(s).lz] : s \in shares}
    <3> HIDE DEF sent
    <3> QED  BY DEF Taken
  <2> QED  BY <2>1, <2>2, <2>3
<1> QED  BY <1>8 DEF shares

(* A quote of the ULN in the native token is what a send with it takes.    *)
LEMMA UlnNativePrice ==
  ASSUME NEW message, NEW o, NEW quoted \in UlnQuote(message, o, FALSE)
  PROVE  quoted.lz = 0 /\ Taken(UlnSend(message, o, quoted.native)) = {quoted}
<1>0. PICK fees \in WorkerFees(message, o) : quoted \in NativeQuote(Total(fees))
  BY DEF UlnQuote
<1>1. PICK share \in NativeShare(Total(fees)) :
        quoted \in {[native |-> total, lz |-> 0] : total \in AsU64(Total(fees) + share)}
  BY <1>0 DEF NativeQuote
<1>2. /\ Total(fees) + share \in 0..U64_MAX
      /\ quoted = [native |-> Total(fees) + share, lz |-> 0]
  BY <1>1 DEF AsU64
<1>3. share \in Nat
  BY SharesAreNatural
<1>4. NativeShare(Total(fees)) = {share}
  BY NativeShareOnce DEF AtMostOne
<1>5. {s \in NativeShare(Total(fees)) : Total(fees) + s \in 0..U64_MAX /\ s <= share} = {share}
  BY <1>2, <1>3, <1>4
<1>6. Taken(UlnSend(message, o, Total(fees) + share)) =
        {[native |-> Total(fees) + s, lz |-> 0] : s \in {share}}
  BY <1>2, <1>3, <1>5, UlnTakesNative
<1> QED  BY <1>2, <1>6

(* One in the token whose fee in the token is 0 becomes a plain send.      *)
LEMMA UlnFreeTokenPrice ==
  ASSUME NEW message, NEW o, NEW quoted \in UlnQuote(message, o, TRUE), quoted.lz = 0
  PROVE  Taken(UlnSend(message, o, quoted.native)) =
           IF 0 \in NativeShare(quoted.native) THEN {quoted} ELSE {}
<1>1. PICK fees \in WorkerFees(message, o) : quoted = [native |-> Total(fees), lz |-> 0]
  BY DEF UlnQuote, LzTokenQuote
<1>2. Total(fees) \in 0..U64_MAX
  BY DEF WorkerFees
<1> DEFINE shares == {s \in NativeShare(Total(fees)) : Total(fees) + s \in 0..U64_MAX /\ s <= 0}
<1>3. Taken(UlnSend(message, o, Total(fees))) = {[native |-> Total(fees) + s, lz |-> 0] : s \in shares}
  <2>1. Total(fees) + 0 = Total(fees) /\ 0 \in Nat
    BY <1>2, WidthAssumption
  <2> QED  BY <1>2, <2>1, UlnTakesNative
<1>4. NativeShare(Total(fees)) \subseteq Nat
  BY SharesAreNatural
<1>5. shares = IF 0 \in NativeShare(Total(fees)) THEN {0} ELSE {}
  BY <1>2, <1>4, WidthAssumption
<1>6. Total(fees) + 0 = Total(fees)
  BY <1>2, WidthAssumption
<1>7. CASE 0 \in NativeShare(Total(fees))
  <2>1. Taken(UlnSend(message, o, Total(fees))) = {[native |-> Total(fees) + s, lz |-> 0] : s \in {0}}
    BY <1>3, <1>5, <1>7
  <2> QED  BY <1>1, <1>6, <1>7, <2>1
<1>8. CASE 0 \notin NativeShare(Total(fees))
  <2>1. Taken(UlnSend(message, o, Total(fees))) = {[native |-> Total(fees) + s, lz |-> 0] : s \in {}}
    BY <1>3, <1>5, <1>8
  <2> QED  BY <1>1, <1>8, <2>1
<1> QED  BY <1>7, <1>8

(* One with a fee in the token is paid to an account of the right token.   *)
LEMMA UlnTokenPrice ==
  ASSUME FeesOK, NEW message, NEW o, NEW quoted \in UlnQuote(message, o, TRUE),
         quoted.lz # 0, NEW mint
  PROVE  Taken(UlnSendWithLzToken(message, o, quoted.native, quoted.lz, mint)) =
           IF ulnSettings.treasury.lz.mint = mint THEN {quoted} ELSE {}
<1> DEFINE t == ulnSettings.treasury
<1>1. PICK fees \in WorkerFees(message, o) : quoted \in LzTokenQuote(Total(fees))
  BY DEF UlnQuote
<1>2. /\ t # NONE /\ t.lz # NONE
      /\ quoted = [native |-> Total(fees), lz |-> t.lz.fee]
  BY <1>1 DEF LzTokenQuote, LzFeeOf
<1>3. t.lz.fee \in Nat
  <2>1. ulnSettings # NONE
    BY <1>1 DEF WorkerFees, Sendable
  <2>2. t \in Treasury \ {NONE}
    BY <1>2, <2>1 DEF FeesOK
  <2> QED  BY <1>2, <2>2, TreasuryAssumption
<1>4. WorkerFees(message, o) = {fees}
  BY WorkerFeesOnce DEF AtMostOne
<1>5. Total(fees) \in Nat
  BY WidthAssumption DEF WorkerFees
<1>6. {f \in WorkerFees(message, o) : quoted.native >= Total(f)} = {fees}
  BY <1>2, <1>4, <1>5
<1>7. {s \in LzFeeOf(t) : quoted.lz >= s /\ t.lz.mint = mint} =
        IF t.lz.mint = mint THEN {t.lz.fee} ELSE {}
  BY <1>2, <1>3 DEF LzFeeOf
<1> DEFINE sent(f, s) == [native |-> Total(f), lz |-> s, paid |-> Paid(f)]
           shares == IF t.lz.mint = mint THEN {t.lz.fee} ELSE {}
<1>8. UlnSendWithLzToken(message, o, quoted.native, quoted.lz, mint) =
        {sent(f, s) : f \in {fees}, s \in shares}
  BY <1>2, <1>6, <1>7 DEF UlnSendWithLzToken
<1>9. \A f, s : sent(f, s).native = Total(f) /\ sent(f, s).lz = s
  OBVIOUS
<1>10. {sent(f, s) : f \in {fees}, s \in shares} = {sent(fees, s) : s \in shares}
  <2> HIDE DEF sent, shares
  <2> QED  OBVIOUS
<1>11. Taken({sent(fees, s) : s \in shares}) =
        {[native |-> sent(fees, s).native, lz |-> sent(fees, s).lz] : s \in shares}
  <2> HIDE DEF sent, shares
  <2> QED  BY DEF Taken
<1>12. Taken({sent(fees, s) : s \in shares}) = {[native |-> Total(fees), lz |-> s] : s \in shares}
  <2> HIDE DEF sent, shares
  <2> QED  BY <1>9, <1>11
<1>13. {[native |-> Total(fees), lz |-> s] : s \in shares} =
        IF t.lz.mint = mint THEN {quoted} ELSE {}
  BY <1>2
<1> QED  BY <1>8, <1>10, <1>12, <1>13

(* A quote of the simple library is what it takes, in either token.        *)
LEMMA SimplePrice ==
  ASSUME FeesOK, NEW payInLz \in BOOLEAN, NEW quoted \in SimpleQuote(payInLz)
  PROVE  /\ quoted.lz = 0 => Taken(SimpleSend(quoted.native, Payee)) = {quoted}
         /\ quoted.lz # 0 =>
              Taken(SimpleSendWithLzToken(quoted.native, quoted.lz, Payee)) = {quoted}
         /\ ~payInLz => quoted.lz = 0
<1>1. /\ simpleLib # NONE
      /\ simpleLib.fee \in Nat /\ simpleLib.lzFee \in Nat
      /\ quoted = [native |-> simpleLib.fee, lz |-> IF payInLz THEN simpleLib.lzFee ELSE 0]
  BY SimpleFeeAssumption DEF SimpleQuote, FeesOK
<1>2. SimpleSend(quoted.native, Payee) = {SimpleReceipt(0, Payee)}
  BY <1>1 DEF SimpleSend
<1>3. ASSUME quoted.lz # 0
      PROVE  SimpleSendWithLzToken(quoted.native, quoted.lz, Payee) =
               {SimpleReceipt(simpleLib.lzFee, Payee)}
  BY <1>1, <1>3 DEF SimpleSendWithLzToken
<1>4. \A fee : Taken({SimpleReceipt(fee, Payee)}) = {[native |-> simpleLib.fee, lz |-> fee]}
  BY DEF Taken, SimpleReceipt
<1> QED  BY <1>1, <1>2, <1>3, <1>4

(***************************************************************************)
(* What quote answers is what send takes, while nothing changes in between:*)
(* for every library, treasury, worker and option, but for the two quotes  *)
(* in the token that Honourable excepts, with which send takes nothing.    *)
(***************************************************************************)
LEMMA HonestQuote == FeesOK => QuoteIsPrice
<1> SUFFICES ASSUME FeesOK,
                    NEW r \in Receiver, NEW message \in Message, NEW o \in Options,
                    NEW payInLz \in BOOLEAN, NEW quoted \in Quote(r, message, o, payInLz)
             PROVE  Taken(Sent(r, message, o, quoted.native, quoted.lz)) =
                      IF Honourable(quoted, payInLz) THEN {quoted} ELSE {}
  BY DEF QuoteIsPrice, Taken
<1>1. Ready(r) /\ (payInLz => endpoint.lzMint # NONE)
  BY DEF Quote
<1>2. Sent(r, message, o, quoted.native, quoted.lz) =
        IF quoted.lz = 0 THEN PlainSend(message, o, quoted.native)
        ELSE IF endpoint.lzMint = NONE THEN {}
        ELSE SendWithLzToken(message, o, quoted.native, quoted.lz)
  BY <1>1 DEF Sent
<1>3. CASE CurrentSendLibrary = ULN
  <2>1. quoted \in UlnQuote(message, o, payInLz)
    BY <1>1, <1>3 DEF Quote
  <2>2. PlainSend(message, o, quoted.native) = UlnSend(message, o, quoted.native)
    BY <1>3 DEF PlainSend
  <2>3. SendWithLzToken(message, o, quoted.native, quoted.lz) =
          UlnSendWithLzToken(message, o, quoted.native, quoted.lz, endpoint.lzMint)
    BY <1>3 DEF SendWithLzToken
  <2>4. CASE ~payInLz
    <3>1. payInLz = FALSE
      BY <2>4
    <3>2. quoted \in UlnQuote(message, o, FALSE)
      BY <2>1, <3>1
    <3>3. quoted.lz = 0 /\ Taken(UlnSend(message, o, quoted.native)) = {quoted}
      BY <3>2, UlnNativePrice
    <3> QED  BY <1>2, <2>2, <2>4, <3>3 DEF Honourable
  <2>5. CASE payInLz /\ quoted.lz = 0
    BY <1>2, <1>3, <2>1, <2>2, <2>5, UlnFreeTokenPrice DEF Honourable
  <2>6. CASE payInLz /\ quoted.lz # 0
    <3>1. Sent(r, message, o, quoted.native, quoted.lz) =
            UlnSendWithLzToken(message, o, quoted.native, quoted.lz, endpoint.lzMint)
      BY <1>1, <1>2, <2>3, <2>6
    <3>2. Honourable(quoted, payInLz) <=> ulnSettings.treasury.lz.mint = endpoint.lzMint
      BY <1>3, <2>6 DEF Honourable
    <3>3. quoted \in UlnQuote(message, o, TRUE)
      BY <2>1, <2>6
    <3>4. Taken(UlnSendWithLzToken(message, o, quoted.native, quoted.lz, endpoint.lzMint)) =
            IF ulnSettings.treasury.lz.mint = endpoint.lzMint THEN {quoted} ELSE {}
      BY <2>6, <3>3, UlnTokenPrice
    <3> QED  BY <3>1, <3>2, <3>4
  <2> QED  BY <2>4, <2>5, <2>6
<1>4. CASE CurrentSendLibrary # ULN /\ CurrentSendLibrary = SIMPLE
  <2>1. quoted \in SimpleQuote(payInLz)
    BY <1>1, <1>4 DEF Quote
  <2>2. PlainSend(message, o, quoted.native) = SimpleSend(quoted.native, Payee)
    BY <1>4 DEF PlainSend
  <2>3. SendWithLzToken(message, o, quoted.native, quoted.lz) =
          SimpleSendWithLzToken(quoted.native, quoted.lz, Payee)
    BY <1>4 DEF SendWithLzToken
  <2>4. Honourable(quoted, payInLz)
    BY <1>4 DEF Honourable
  <2> QED  BY <1>1, <1>2, <2>1, <2>2, <2>3, <2>4, SimplePrice
<1>5. CASE CurrentSendLibrary # ULN /\ CurrentSendLibrary # SIMPLE
  BY <1>1, <1>5 DEF Quote
<1> QED  BY <1>3, <1>4, <1>5

(* In every reachable state, a quote is exactly what a send with it takes. *)
THEOREM AQuoteIsHonoured == Spec => []QuoteIsPrice
BY FeesInvariant, HonestQuote, PTL

-----------------------------------------------------------------------------
(***************************************************************************)
(* The receipt adds up.                                                    *)
(***************************************************************************)
(* The total of fees, by whom they are for.                                *)
LEMMA TotalOver ==
  ASSUME NEW f, NEW S, DOMAIN f = S
  PROVE  Total(f) = SumFunctionOnSet(f, S)
BY Zenon DEF Total, SumFunction

(* Paying the fees costs their total, whoever else could be paid.          *)
LEMMA PaidIsTotal ==
  ASSUME NEW fees, DOMAIN fees \subseteq Payee, \A a \in DOMAIN fees : fees[a] \in Nat
  PROVE  /\ Total(Paid(fees)) = Total(fees)
         /\ \A a \in Payee : Paid(fees)[a] \in Nat
         /\ DOMAIN Paid(fees) = Payee
<1> DEFINE S == DOMAIN fees
           paid == Paid(fees)
<1>1. /\ DOMAIN paid = Payee
      /\ \A a \in S : paid[a] = fees[a]
      /\ \A a \in Payee \ S : paid[a] = 0
  BY DEF Paid
<1>2. \A a \in Payee : paid[a] \in Nat
  BY <1>1
<1>3. Total(paid) = SumFunctionOnSet(paid, Payee) /\ Total(fees) = SumFunctionOnSet(fees, S)
  BY <1>1, TotalOver
<1> HIDE DEF S, paid
<1>4. SumFunctionOnSet(paid, Payee) = SumFunctionOnSet(fees, S)
  BY <1>1, PayeeAssumption, SumExtend DEF S
<1> QED  BY <1>1, <1>2, <1>3, <1>4 DEF paid

(* A share more for one account.                                           *)
LEMMA ShareIsAdded ==
  ASSUME NEW paid, DOMAIN paid = Payee, \A a \in Payee : paid[a] \in Nat,
         NEW a \in Payee, NEW share \in Nat
  PROVE  Total([paid EXCEPT ![a] = @ + share]) = Total(paid) + share
<1> DEFINE more == [paid EXCEPT ![a] = @ + share]
<1>1. /\ DOMAIN more = Payee /\ more[a] = paid[a] + share
      /\ \A b \in Payee \ {a} : more[b] = paid[b]
  OBVIOUS
<1>2. Total(paid) = SumFunctionOnSet(paid, Payee) /\ Total(more) = SumFunctionOnSet(more, Payee)
  BY <1>1, TotalOver
<1> HIDE DEF more
<1>3. SumFunctionOnSet(more, Payee) = SumFunctionOnSet(paid, Payee) - paid[a] + more[a]
  BY <1>1, PayeeAssumption, SumUpdate
<1>4. SumFunctionOnSet(paid, Payee) \in Nat
  BY PayeeAssumption, SumType
<1>5. Total(more) = Total(paid) + share
  BY <1>1, <1>2, <1>3, <1>4
<1> QED  BY <1>5 DEF more

(* What a sender's receipt must satisfy.                                   *)
AddsUp(sent, nativeFee, lzFee) ==
  /\ sent.native = Total(sent.paid)
  /\ sent.native <= nativeFee
  /\ sent.lz <= lzFee

(* The workers' fees are numbers, of accounts that can be paid.            *)
LEMMA FeesAreNumbers ==
  ASSUME SendConfigOK, NEW size, NEW o, NEW fees \in WorkerFees(size, o)
  PROVE  /\ DOMAIN fees \subseteq Payee /\ \A a \in DOMAIN fees : fees[a] \in Nat
         /\ Total(fees) \in Nat /\ Total(fees) \in 0..U64_MAX
<1>1. AskedFees(fees, size, o)
  BY FeesAreAsked
<1>2. ASSUME NEW d \in HiredDvns PROVE fees[d] \in Nat
  <2>1. PICK asked \in DvnQuote(d, ULN, Sender, DstEid) : fees[d] = Jobs(d) * asked
    BY <1>1 DEF AskedFees
  <2>2. asked \in Nat
    BY <2>1, QuotesAreNatural
  <2> QED  BY <2>1, <2>2, JobsOfDvn
<1>3. \A a \in DOMAIN fees : fees[a] \in Nat
  BY <1>1, <1>2, QuotesAreNatural DEF AskedFees
<1>4. DOMAIN fees \subseteq Payee
  BY <1>1, HiredAreDvns DEF Payee, AskedFees
<1>5. Total(fees) \in 0..U64_MAX
  BY DEF WorkerFees
<1> QED  BY <1>3, <1>4, <1>5, WidthAssumption

(* A send through the ULN.                                                 *)
LEMMA UlnSendAddsUp ==
  ASSUME SendConfigOK, FeesOK, NEW message, NEW o, NEW nativeFee \in Nat, NEW lzFee \in Nat,
         NEW sent \in UlnSend(message, o, nativeFee)
  PROVE  AddsUp(sent, nativeFee, lzFee)
<1>1. PICK fees \in WorkerFees(message, o) : sent \in SendFor(fees, Total(fees), nativeFee)
  BY DEF UlnSend
<1>2. /\ DOMAIN fees \subseteq Payee /\ \A a \in DOMAIN fees : fees[a] \in Nat
      /\ Total(fees) \in Nat
  BY FeesAreNumbers
<1>3. PICK share \in NativeShare(Total(fees)) :
        /\ sent = [native |-> Total(fees) + share, lz |-> 0, paid |-> PaidShare(fees, share)]
        /\ Covers(nativeFee, Total(fees), share)
  BY <1>1 DEF SendFor
<1>4. share \in Nat
  BY SharesAreNatural
<1>5. nativeFee >= Total(fees) + share
  BY <1>3 DEF Covers
<1>6. Total(PaidShare(fees, share)) = Total(fees) + share
  <2>1. CASE ulnSettings.treasury = NONE
    <3>1. share = 0
      BY <2>1 DEF NativeShare
    <3> QED  BY <1>2, <2>1, <3>1, PaidIsTotal DEF PaidShare
  <2>2. CASE ulnSettings.treasury # NONE
    <3>1. ulnSettings # NONE
      BY DEF WorkerFees, Sendable
    <3>2. ulnSettings.treasury.receiver \in Payee
      BY <2>2, <3>1, TreasuryAssumption DEF FeesOK
    <3>3. /\ Total(Paid(fees)) = Total(fees) /\ DOMAIN Paid(fees) = Payee
          /\ \A a \in Payee : Paid(fees)[a] \in Nat
      BY <1>2, PaidIsTotal
    <3>4. Total([Paid(fees) EXCEPT ![ulnSettings.treasury.receiver] = @ + share])
            = Total(Paid(fees)) + share
      BY <1>4, <3>2, <3>3, ShareIsAdded
    <3> QED  BY <2>2, <3>3, <3>4 DEF PaidShare
  <2> QED  BY <2>1, <2>2
<1>7. /\ sent.native = Total(fees) + share /\ sent.lz = 0
      /\ sent.paid = PaidShare(fees, share)
  BY <1>3
<1> QED  BY <1>2, <1>4, <1>5, <1>6, <1>7 DEF AddsUp

(* A send through the ULN with a fee in the token.                         *)
LEMMA UlnTokenSendAddsUp ==
  ASSUME SendConfigOK, FeesOK, NEW message, NEW o, NEW nativeFee \in Nat, NEW lzFee \in Nat, NEW mint,
         NEW sent \in UlnSendWithLzToken(message, o, nativeFee, lzFee, mint)
  PROVE  AddsUp(sent, nativeFee, lzFee)
<1> DEFINE t == ulnSettings.treasury
<1>1. PICK fees \in WorkerFees(message, o) :
        /\ nativeFee >= Total(fees)
        /\ \E share \in IF t = NONE THEN {} ELSE LzFeeOf(t) :
             /\ lzFee >= share
             /\ sent = [native |-> Total(fees), lz |-> share, paid |-> Paid(fees)]
  BY DEF UlnSendWithLzToken
<1>2. PICK share \in IF t = NONE THEN {} ELSE LzFeeOf(t) :
        /\ lzFee >= share
        /\ sent = [native |-> Total(fees), lz |-> share, paid |-> Paid(fees)]
  BY <1>1
<1>3. /\ DOMAIN fees \subseteq Payee /\ \A a \in DOMAIN fees : fees[a] \in Nat
      /\ Total(fees) \in Nat
  BY FeesAreNumbers
<1>4. share \in Nat
  <2>1. ulnSettings # NONE
    BY DEF WorkerFees, Sendable
  <2>2. t # NONE /\ t.lz # NONE /\ share = t.lz.fee
    BY <1>2 DEF LzFeeOf
  <2> QED  BY <2>1, <2>2, TreasuryAssumption DEF FeesOK
<1>5. Total(Paid(fees)) = Total(fees)
  BY <1>3, PaidIsTotal
<1>6. sent.native = Total(fees) /\ sent.lz = share /\ sent.paid = Paid(fees)
  BY <1>2
<1> QED  BY <1>1, <1>2, <1>3, <1>4, <1>5, <1>6 DEF AddsUp

(* A send through the simple library pays the library.                     *)
LEMMA SimpleReceiptAddsUp ==
  ASSUME FeesOK, simpleLib # NONE, NEW lz \in Nat, NEW nativeFee \in Nat, NEW lzFee \in Nat,
         ~(nativeFee < simpleLib.fee), lz <= lzFee
  PROVE  AddsUp(SimpleReceipt(lz, Payee), nativeFee, lzFee)
<1> DEFINE paid == [a \in Payee |-> IF a = SIMPLE THEN simpleLib.fee ELSE 0]
           one == [a \in {SIMPLE} |-> simpleLib.fee]
<1>1. simpleLib.fee \in Nat
  BY SimpleFeeAssumption DEF FeesOK
<1>2. SIMPLE \in Payee
  BY LibraryAssumption DEF Payee
<1>3. /\ DOMAIN paid = Payee
      /\ \A a \in {SIMPLE} : paid[a] = one[a] /\ one[a] \in Int
      /\ \A a \in Payee \ {SIMPLE} : paid[a] = 0
      /\ one[SIMPLE] = simpleLib.fee
  BY <1>1, <1>2
<1>4. /\ SimpleReceipt(lz, Payee).native = simpleLib.fee
      /\ SimpleReceipt(lz, Payee).lz = lz
      /\ SimpleReceipt(lz, Payee).paid = paid
  BY DEF SimpleReceipt
<1> HIDE DEF paid, one
<1>5. Total(paid) = SumFunctionOnSet(paid, Payee)
  BY <1>3, TotalOver
<1>6. SumFunctionOnSet(paid, Payee) = SumFunctionOnSet(one, {SIMPLE})
  BY <1>2, <1>3, PayeeAssumption, SumExtend
<1>7. SumFunctionOnSet(one, {SIMPLE}) = simpleLib.fee
  <2>1. SumFunctionOnSet(one, {} \cup {SIMPLE}) = one[SIMPLE] + SumFunctionOnSet(one, {})
    BY <1>3, FS_EmptySet, SumAdd
  <2>2. SumFunctionOnSet(one, {}) = 0
    BY SumEmpty
  <2>3. {} \cup {SIMPLE} = {SIMPLE}
    OBVIOUS
  <2> QED  BY <1>1, <1>3, <2>1, <2>2, <2>3
<1> QED  BY <1>1, <1>4, <1>5, <1>6, <1>7 DEF AddsUp

(* So does every send, by whichever library.                               *)
LEMMA SentAddsUp ==
  ASSUME SendConfigOK, FeesOK, NEW r, NEW message, NEW o, NEW nativeFee \in Nat, NEW lzFee \in Nat,
         NEW sent \in Sent(r, message, o, nativeFee, lzFee)
  PROVE  AddsUp(sent, nativeFee, lzFee)
<1>1. CASE sent \in UlnSend(message, o, nativeFee)
  BY <1>1, UlnSendAddsUp
<1>2. CASE sent \in UlnSendWithLzToken(message, o, nativeFee, lzFee, endpoint.lzMint)
  BY <1>2, UlnTokenSendAddsUp
<1>3. CASE sent \in SimpleSend(nativeFee, Payee)
  <2>1. simpleLib # NONE /\ ~(nativeFee < simpleLib.fee) /\ sent = SimpleReceipt(0, Payee)
    BY <1>3 DEF SimpleSend
  <2> QED  BY <2>1, SimpleReceiptAddsUp
<1>4. CASE sent \in SimpleSendWithLzToken(nativeFee, lzFee, Payee)
  <2>1. /\ simpleLib # NONE /\ ~(nativeFee < simpleLib.fee) /\ ~(lzFee < simpleLib.lzFee)
        /\ sent = SimpleReceipt(simpleLib.lzFee, Payee)
    BY <1>4 DEF SimpleSendWithLzToken
  <2>2. simpleLib.lzFee \in Nat
    BY <2>1, SimpleFeeAssumption DEF FeesOK
  <2> QED  BY <2>1, <2>2, SimpleReceiptAddsUp
<1> QED  BY <1>1, <1>2, <1>3, <1>4 DEF Sent, PlainSend, SendWithLzToken

(* The fee of every message sent is what its payees received together, and *)
(* no more than was offered: for any library, workers, treasury, also when *)
(* one account is several payees (uln/../endpoint/send.rs:40-88).          *)
THEOREM ReceiptsAddUp == Spec => []ReceiptAddsUp
<1>1. Init => ReceiptAddsUp
  BY DEF Init, ReceiptAddsUp
<1>2. SendConfigOK /\ FeesOK /\ ReceiptAddsUp /\ [Next]_vars => ReceiptAddsUp'
  <2> SUFFICES ASSUME SendConfigOK, FeesOK, ReceiptAddsUp, [Next]_vars PROVE ReceiptAddsUp'
    OBVIOUS
  <2>1. CASE receipt' = receipt
    BY <2>1, Zenon DEF ReceiptAddsUp
  <2>2. ASSUME NEW r \in Receiver, NEW message \in Message, NEW o \in Options,
               NEW nativeFee \in NativeFee, NEW lzFee \in LzFee,
               Send(r, message, o, nativeFee, lzFee)
        PROVE  ReceiptAddsUp'
    <3>1. PICK sent \in Sent(r, message, o, nativeFee, lzFee) :
            receipt' = [message |-> message, options |-> o,
                        offered |-> [native |-> nativeFee, lz |-> lzFee], sent |-> sent]
      BY <2>2 DEF Send
    <3>2. AddsUp(sent, nativeFee, lzFee)
      BY OfferAssumption, SentAddsUp
    <3>3. receipt'.sent = sent /\ receipt'.offered = [native |-> nativeFee, lz |-> lzFee]
      BY <3>1
    <3>4. receipt'.offered.native = nativeFee /\ receipt'.offered.lz = lzFee
      BY <3>3
    <3> QED  BY <3>2, <3>3, <3>4, Zenon DEF ReceiptAddsUp, AddsUp
  <2>3. AdminNext => receipt' = receipt
    BY DEF AdminNext, sendingVars
  <2> QED  BY <2>1, <2>2, <2>3 DEF Next, SendNext, vars, sendingVars
<1> QED  BY <1>1, <1>2, SendConfigInvariant, FeesInvariant, PTL DEF Spec

-----------------------------------------------------------------------------
(***************************************************************************)
(* A sender that spelt out its configuration.                              *)
(***************************************************************************)
Explicit(c) == c.confirmations # 0 /\ c.required # {} /\ c.optional # {}

(* Merged with any default it is what it says.                             *)
LEMMA ExplicitWins ==
  ASSUME NEW default, NEW c, Explicit(c)
  PROVE  /\ EffectiveConfig(default, c).required = ListOf(c.required)
         /\ EffectiveConfig(default, c).optional = ListOf(c.optional)
         /\ EffectiveConfig(default, c).threshold = IF c.optional = NIL THEN 0 ELSE c.threshold
BY DEF EffectiveConfig, MergeDvns, MergeThreshold, Explicit, ListOf

(* So it is usable with any default, or with none.                         *)
LEMMA ExplicitIsUsable ==
  ASSUME NEW default, NEW other, NEW c, Explicit(c), UsableConfig(default, c)
  PROVE  UsableConfig(other, c)
BY ExplicitWins DEF UsableConfig, AtLeastOneDvn

(* What an account with a configuration says of the rest of the ULN.       *)
OwnIsUsable ==
  /\ sendConfig.own # NONE => ulnSettings # NONE
  /\ Explicit(OwnSendConfig.uln) =>
       /\ sendConfig.own # NONE /\ sendConfig.default # NONE
       /\ UsableConfig(sendConfig.default.uln, OwnSendConfig.uln)
  /\ ulnSettings # NONE => ValidTreasury(ulnSettings.treasury)

(* No setter makes it unusable: an OApp may only set what is usable, and   *)
(* the default that an admin sets afterwards does not matter to it.        *)
LEMMA OwnStaysUsable == Spec => []OwnIsUsable
<1>1. Init => OwnIsUsable
  BY DEF Init, UlnInit, OwnIsUsable, OwnSendConfig, NoSendConfig, NoConfig, Explicit
<1>2. SendConfigOK /\ FeesOK /\ OwnIsUsable /\ [Next]_vars => OwnIsUsable'
  <2> SUFFICES ASSUME SendConfigOK, FeesOK, OwnIsUsable, [Next]_vars PROVE OwnIsUsable'
    OBVIOUS
  <2>1. CASE UNCHANGED <<ulnSettings, sendConfig>>
    BY <2>1 DEF OwnIsUsable, OwnSendConfig
  <2>2. ASSUME UNCHANGED sendConfig, ulnSettings' # NONE, ValidTreasury(ulnSettings'.treasury)
        PROVE  OwnIsUsable'
    BY <2>2 DEF OwnIsUsable, OwnSendConfig
  <2>3. ASSUME NEW k \in Key, InitUln(k) PROVE OwnIsUsable'
    BY <2>2, <2>3, AccountAssumption DEF InitUln, ValidTreasury
  <2>4. ASSUME NEW k \in Key, NEW newAdmin \in Key, TransferUlnAdmin(k, newAdmin)
        PROVE  OwnIsUsable'
    <3>1. ulnSettings # NONE /\ ulnSettings' # NONE /\ ulnSettings'.treasury = ulnSettings.treasury
      BY <2>4, AccountAssumption DEF TransferUlnAdmin, IsUlnAdmin, FeesOK
    <3> QED  BY <2>2, <2>4, <3>1 DEF OwnIsUsable, TransferUlnAdmin
  <2>5. ASSUME NEW k \in Key, NEW t \in Treasury, SetTreasury(k, t) PROVE OwnIsUsable'
    <3>1. ulnSettings # NONE /\ ulnSettings' # NONE /\ ulnSettings'.treasury = t
      BY <2>5, AccountAssumption DEF SetTreasury, IsUlnAdmin, IsTreasuryAdmin, FeesOK
    <3> QED  BY <2>2, <2>5, <3>1 DEF SetTreasury
  <2>6. ASSUME NEW k \in Key, NEW c \in SendUln, NEW e \in SendExecutor,
               InitDefaultSendConfig(k, c, e)
        PROVE  OwnIsUsable'
    <3>1. sendConfig.default = NONE /\ sendConfig'.own = sendConfig.own /\ ulnSettings' = ulnSettings
      BY <2>6 DEF InitDefaultSendConfig, SendConfigOK
    <3> QED  BY <3>1 DEF OwnIsUsable, OwnSendConfig
  <2>7. ASSUME NEW k \in Key, NEW c \in SendUln \cup {NONE}, NEW e \in SendExecutor \cup {NONE},
               SetDefaultSendConfig(k, c, e)
        PROVE  OwnIsUsable'
    <3>1. /\ sendConfig.default # NONE /\ sendConfig'.own = sendConfig.own
          /\ ulnSettings' = ulnSettings
      BY <2>7 DEF SetDefaultSendConfig, SendConfigOK, Configured
    <3>2. sendConfig'.default # NONE
      BY <2>7, SendConfigAssumption, AccountAssumption
      DEF SetDefaultSendConfig, SendConfigOK, Configured, ValidDefaultConfig
    <3> QED  BY <3>1, <3>2, ExplicitIsUsable DEF OwnIsUsable, OwnSendConfig
  <2>8. ASSUME InitSendConfig PROVE OwnIsUsable'
    <3>1. sendConfig'.own = NoSendConfig /\ ulnSettings' = ulnSettings /\ ulnSettings # NONE
      BY <2>8 DEF InitSendConfig, SendConfigOK
    <3> QED  BY <3>1 DEF OwnIsUsable, OwnSendConfig, NoSendConfig, NoConfig, Explicit
  <2>9. ASSUME NEW e \in SendExecutor, SetSendExecutor(e) PROVE OwnIsUsable'
    <3>1. /\ sendConfig.own # NONE /\ sendConfig'.own # NONE
          /\ sendConfig'.own.uln = sendConfig.own.uln
          /\ sendConfig'.default = sendConfig.default /\ ulnSettings' = ulnSettings
      BY <2>9, SendConfigAssumption, AccountAssumption DEF SetSendExecutor, SendConfigOK, Configured
    <3> QED  BY <3>1 DEF OwnIsUsable, OwnSendConfig
  <2>10. ASSUME NEW c \in SendUln, SetSendUln(c) PROVE OwnIsUsable'
    <3>1. /\ sendConfig.own # NONE /\ sendConfig'.own # NONE /\ sendConfig.default # NONE
          /\ sendConfig'.own.uln = c
          /\ UsableConfig(sendConfig.default.uln, c)
          /\ sendConfig'.default = sendConfig.default /\ ulnSettings' = ulnSettings
      BY <2>10, SendConfigAssumption, AccountAssumption DEF SetSendUln, SendConfigOK, Configured
    <3> QED  BY <3>1 DEF OwnIsUsable, OwnSendConfig
  <2>11. CASE UlnAdminNext
    BY <2>3, <2>4, <2>5, <2>6, <2>7, <2>11 DEF UlnAdminNext
  <2>12. CASE OAppNext
    BY <2>1, <2>8, <2>9, <2>10, <2>12
    DEF OAppNext, InitSendLibrary, SetSendLibrary, InitConfig, SetConfig, InitNonce, ulnVars
  <2> QED  BY <2>1, <2>11, <2>12 DEF Next, AdminNext, ulnVars, vars
<1> QED  BY <1>1, <1>2, SendConfigInvariant, FeesInvariant, PTL DEF Spec

-----------------------------------------------------------------------------
(* The total of the fees: the executor's, every DVN's, and again that of   *)
(* the DVNs in both lists.                                                 *)
LEMMA JobFeesTotal ==
  ASSUME HiredDvns \subseteq Dvn, HiredExecutor.executor \in Executor, NEW fee \in Nat,
         NEW asked \in [HiredDvns -> Nat]
  PROVE  Total(JobFees(fee, asked)) =
           fee + Total(asked)
             + Total(Restrict(asked, EffectiveUln.required \cap EffectiveUln.optional))
<1> DEFINE x == HiredExecutor.executor
           H == HiredDvns
           B == EffectiveUln.required \cap EffectiveUln.optional
           fees == JobFees(fee, asked)
           again == Restrict(asked, B)
           extra == [d \in H |-> IF d \in B THEN asked[d] ELSE 0]
<1>1. IsFiniteSet(H) /\ IsFiniteSet(B) /\ B \subseteq H /\ x \notin H
  <2>1. B \subseteq H
    BY DEF HiredDvns
  <2>2. x \notin H
    BY PayeeAssumption
  <2> QED  BY <2>1, <2>2, DvnAssumption, FS_Subset
<1>2. \A w \in H : asked[w] \in Nat /\ extra[w] \in Nat /\ fees[w] = asked[w] + extra[w]
  <2> SUFFICES ASSUME NEW w \in H
               PROVE  asked[w] \in Nat /\ extra[w] \in Nat /\ fees[w] = asked[w] + extra[w]
    OBVIOUS
  <2>1. fees[w] = Jobs(w) * asked[w] /\ asked[w] \in Nat
    BY DEF JobFees
  <2>2. Jobs(w) = IF w \in B THEN 2 ELSE 1
    BY JobsOfDvn
  <2>3. extra[w] = IF w \in B THEN asked[w] ELSE 0
    OBVIOUS
  <2> HIDE DEF extra, fees, B
  <2> QED  BY <2>1, <2>2, <2>3
<1>3. fees[x] = fee /\ DOMAIN fees = H \cup {x}
  BY <1>1 DEF JobFees
<1>4. /\ \A d \in B : extra[d] = again[d] /\ again[d] \in Int
      /\ \A d \in H \ B : extra[d] = 0
      /\ DOMAIN again = B /\ DOMAIN asked = H
  BY <1>1 DEF Restrict
<1>5. /\ Total(fees) = SumFunctionOnSet(fees, H \cup {x})
      /\ Total(asked) = SumFunctionOnSet(asked, H)
      /\ Total(again) = SumFunctionOnSet(again, B)
  BY <1>3, <1>4, TotalOver
<1> HIDE DEF x, H, B, fees, again, extra
<1>6. \A w \in H \cup {x} : fees[w] \in Int
  BY <1>2, <1>3
<1>7. SumFunctionOnSet(fees, H \cup {x}) = fee + SumFunctionOnSet(fees, H)
  BY <1>1, <1>3, <1>6, SumAdd
<1>8. SumFunctionOnSet(fees, H) = SumFunctionOnSet(asked, H) + SumFunctionOnSet(extra, H)
  BY <1>1, <1>2, SumPlus
<1>9. SumFunctionOnSet(extra, H) = SumFunctionOnSet(again, B)
  BY <1>1, <1>4, SumExtend
<1>10. SumFunctionOnSet(asked, H) \in Nat
  BY <1>1, <1>2, SumType
<1>11. SumFunctionOnSet(extra, H) \in Nat
  BY <1>1, <1>2, SumType
<1>12. Total(fees) = fee + Total(asked) + Total(again)
  BY <1>5, <1>7, <1>8, <1>9, <1>10, <1>11
<1> QED  BY <1>12 DEF fees, again, B

(* The treasury's share of a fee of which a share in bps fits.             *)
LEMMA ShareIsPart ==
  ASSUME FeesOK, OwnIsUsable, ulnSettings # NONE, NEW fee \in Nat, fee * BPS_DENOMINATOR <= U64_MAX
  PROVE  \E share \in NativeShare(fee) : share \in 0..fee
<1> DEFINE t == ulnSettings.treasury
<1>0. BPS_DENOMINATOR \in Nat \ {0}
  BY DEF BPS_DENOMINATOR
<1>1. CASE t = NONE
  BY <1>1 DEF NativeShare
<1>2. CASE t # NONE
  <2>1. t.bps \in Nat /\ t.bps <= BPS_DENOMINATOR
    BY <1>2, TreasuryAssumption DEF FeesOK, OwnIsUsable, ValidTreasury
  <2> DEFINE product == fee * t.bps
  <2>2. product \in Nat /\ product <= fee * BPS_DENOMINATOR /\ fee * BPS_DENOMINATOR \in Nat
    <3> DEFINE bps == t.bps
               rest == BPS_DENOMINATOR - bps
    <3>1. bps \in Nat /\ rest \in Nat /\ bps + rest = BPS_DENOMINATOR
      BY <1>0, <2>1
    <3> HIDE DEF bps, rest
    <3>2. fee * (bps + rest) = fee * bps + fee * rest /\ fee * rest \in Nat /\ fee * bps \in Nat
      BY <3>1
    <3> QED  BY <3>1, <3>2 DEF bps
  <2> HIDE DEF product
  <2>3. product \div BPS_DENOMINATOR \in 0..fee
    BY <2>2 DEF BPS_DENOMINATOR
  <2>4. product \in AsU64(product)
    BY <2>2, WidthAssumption DEF AsU64
  <2> QED  BY <1>2, <2>3, <2>4 DEF NativeShare, product
<1> QED  BY <1>1, <1>2

(* The fees that its own workers ask, by the lists of its configuration.   *)
LEMMA OwnWorkersAsk ==
  ASSUME NEW size, NEW o, NEW total \in AskedByOwnWorkers(size, o),
         NEW required, required = ListOf(OwnSendConfig.uln.required),
         NEW optional, optional = ListOf(OwnSendConfig.uln.optional)
  PROVE  \E fee \in OwnExecutorAsks(size, o), asked \in QuotesOf(required \cup optional) :
           total = fee + Total(asked) + Total(Restrict(asked, required \cap optional))
<1> DEFINE fees == OwnExecutorAsks(size, o)
           quotes == QuotesOf(required \cup optional)
           both == required \cap optional
<1>1. AskedByOwnWorkers(size, o) =
        {fee + Total(asked) + Total(Restrict(asked, both)) : fee \in fees, asked \in quotes}
  BY DEF AskedByOwnWorkers
<1> HIDE DEF fees, quotes, both
<1>2. \E fee \in fees, asked \in quotes :
        total = fee + Total(asked) + Total(Restrict(asked, both))
  BY <1>1
<1> QED  BY <1>2, Zenon DEF fees, quotes, both

(* A quote of a message that goes through the ULN.                         *)
LEMMA QuoteOfUln ==
  ASSUME NEW r, NEW message, NEW o, Ready(r), CurrentSendLibrary = ULN
  PROVE  Quote(r, message, o, FALSE) = UlnQuote(message, o, FALSE)
BY DEF Quote

(* The quote of a sender that spelt out its configuration.                 *)
LEMMA PinnedIsQuoted ==
  ASSUME SendConfigOK, FeesOK, OwnIsUsable, Pinned, NEW r, NEW message, NEW o,
         NEW total \in AskedByOwnWorkers(message, o), Ready(r), total * BPS_DENOMINATOR <= U64_MAX
  PROVE  \E quoted \in Quote(r, message, o, FALSE) : quoted.native \in total..(2 * total)
<1> DEFINE own == OwnSendConfig
           x == own.executor.executor
           both == ListOf(own.uln.required) \cap ListOf(own.uln.optional)
<1>1. /\ Explicit(own.uln) /\ own.executor.maxSize > 0 /\ x # NONE
      /\ CurrentSendLibrary = ULN
  BY LibraryAssumption DEF Pinned, Explicit, CurrentSendLibrary
<1>2. Sendable
  BY <1>1 DEF Sendable, OwnIsUsable
<1>3. /\ EffectiveUln.required = ListOf(own.uln.required)
      /\ EffectiveUln.optional = ListOf(own.uln.optional)
      /\ HiredDvns = ListOf(own.uln.required) \cup ListOf(own.uln.optional)
  BY <1>1, ExplicitWins DEF EffectiveUln, HiredDvns
<1>4. HiredExecutor.executor = x /\ HiredExecutor.maxSize = own.executor.maxSize
  BY <1>1 DEF HiredExecutor, EffectiveExecutor
<1>5. PICK fee \in OwnExecutorAsks(message, o), asked \in QuotesOf(HiredDvns) :
        total = fee + Total(asked) + Total(Restrict(asked, both))
  <2> DEFINE required == EffectiveUln.required
             optional == EffectiveUln.optional
  <2>1. /\ required = ListOf(OwnSendConfig.uln.required)
        /\ optional = ListOf(OwnSendConfig.uln.optional)
    BY <1>3
  <2>2. HiredDvns = required \cup optional /\ both = required \cap optional
    BY <1>3
  <2> HIDE DEF required, optional, both, own
  <2>3. \E fee \in OwnExecutorAsks(message, o), asked \in QuotesOf(required \cup optional) :
          total = fee + Total(asked) + Total(Restrict(asked, required \cap optional))
    <3>1. total \in AskedByOwnWorkers(message, o)
      OBVIOUS
    <3> HIDE DEF x
    <3> QED  BY ONLY <2>1, <3>1, OwnWorkersAsk
  <2> QED  BY <2>2, <2>3
<1>6. fee \in QuoteExecutor(message, o) /\ x \in Executor
  BY <1>4, <1>5 DEF QuoteExecutor, OwnExecutorAsks
<1>7. fee \in Nat /\ asked \in [HiredDvns -> Nat] /\ HiredDvns \subseteq Dvn
  <2>1. asked \in [HiredDvns -> Nat]
    BY QuotesAreNatural DEF QuotesOf
  <2> QED  BY <1>2, <1>6, <2>1, QuotesAreNatural, HiredAreDvns
<1> DEFINE fees == JobFees(fee, asked)
<1>8. Total(fees) = total
  <2>1. both = EffectiveUln.required \cap EffectiveUln.optional
    BY <1>3
  <2>2. HiredExecutor.executor \in Executor
    BY <1>4, <1>6
  <2> HIDE DEF both, fees
  <2>3. Total(fees) = fee + Total(asked) + Total(Restrict(asked, both))
    <3>1. Total(JobFees(fee, asked)) =
            fee + Total(asked)
              + Total(Restrict(asked, EffectiveUln.required \cap EffectiveUln.optional))
      BY <1>7, <2>2, JobFeesTotal
    <3> QED  BY <2>1, <3>1, Zenon DEF fees
  <2> QED  BY <1>5, <2>3
<1>9. total \in Nat
  <2>1. Total(asked) \in Nat
    <3>1. DOMAIN asked = HiredDvns /\ \A d \in HiredDvns : asked[d] \in Nat
      BY <1>7
    <3>2. Total(asked) = SumFunctionOnSet(asked, HiredDvns)
      BY <3>1, TotalOver
    <3> QED  BY <1>7, <3>1, <3>2, SumType, DvnAssumption, FS_Subset
  <2>2. Total(Restrict(asked, both)) \in Nat
    <3> DEFINE again == Restrict(asked, both)
    <3>1. Total(again) = SumFunctionOnSet(again, both)
      <4>1. DOMAIN again = both
        BY DEF Restrict
      <4> HIDE DEF again
      <4> QED  BY <4>1, TotalOver
    <3>2. both \subseteq HiredDvns /\ IsFiniteSet(both)
      BY <1>3, <1>7, DvnAssumption, FS_Subset
    <3>3. \A d \in both : again[d] \in Nat
      BY <1>7, <3>2 DEF Restrict
    <3> HIDE DEF again, both
    <3>4. SumFunctionOnSet(again, both) \in Nat
      BY <3>2, <3>3, SumType
    <3> QED  BY <3>1, <3>4 DEF again
  <2> QED  BY <1>5, <1>7, <2>1, <2>2
<1>10. fees \in WorkerFees(message, o)
  <2>1. total \in 0..U64_MAX
    BY <1>9, WidthAssumption DEF BPS_DENOMINATOR
  <2> HIDE DEF fees
  <2>2. fees = JobFees(fee, asked)
    BY DEF fees
  <2> QED  BY <1>2, <1>5, <1>6, <1>8, <2>1, <2>2 DEF WorkerFees
<1>11. PICK share \in NativeShare(total) : share \in 0..total
  BY <1>2, <1>9, ShareIsPart DEF Sendable
<1> DEFINE quoted == [native |-> total + share, lz |-> 0]
<1>12. total + share \in AsU64(total + share) /\ total + share \in total..(2 * total)
  BY <1>9, <1>11, WidthAssumption DEF AsU64, BPS_DENOMINATOR
<1>13. quoted \in NativeQuote(total)
  BY <1>12 DEF NativeQuote
<1>14. quoted \in UlnQuote(message, o, FALSE)
  <2> HIDE DEF quoted, fees
  <2> QED  BY <1>8, <1>10, <1>13 DEF UlnQuote
<1>15. UlnQuote(message, o, FALSE) = Quote(r, message, o, FALSE)
  BY <1>1, QuoteOfUln, Zenon
<1> HIDE DEF quoted
<1>16. quoted \in Quote(r, message, o, FALSE)
  BY <1>14, <1>15, Zenon
<1>17. quoted.native \in total..(2 * total)
  BY <1>12 DEF quoted
<1> QED  BY <1>16, <1>17, Zenon

(* A sender that chose the ULN and spelt out its configuration answers for *)
(* it alone: with any default, treasury, admins and updaters the message is*)
(* quoted, for what its own workers ask and at most as much again.         *)
THEOREM PinnedSendersDecide == Spec => []PinnedSenderDecides
<1>1. SendConfigOK /\ FeesOK /\ OwnIsUsable => PinnedSenderDecides
  <2> SUFFICES ASSUME SendConfigOK, FeesOK, OwnIsUsable, Pinned,
                      NEW r \in Receiver, NEW message \in Message, NEW o \in Options,
                      NEW asked \in AskedByOwnWorkers(message, o),
                      Ready(r), asked * BPS_DENOMINATOR <= U64_MAX
               PROVE  \E quoted \in Quote(r, message, o, FALSE) :
                        quoted.native \in asked..(2 * asked)
    BY Zenon DEF PinnedSenderDecides
  <2> QED  BY PinnedIsQuoted, Zenon
<1> QED  BY <1>1, SendConfigInvariant, FeesInvariant, OwnStaysUsable, PTL

=============================================================================
