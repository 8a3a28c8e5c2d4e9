--------------------------------- MODULE Send ---------------------------------
(***************************************************************************)
(* Sending, composed: an OApp quotes and sends through the endpoint, which *)
(* numbers the message and calls the library the OApp or the admin chose;  *)
(* the ULN hires and pays an executor and DVNs, who ask a price feed.      *)
(* Everybody's settings change in between.                                 *)
(*                                                                         *)
(* The OApp's delegate is fixed (MessagingChannel.tla lets it change), and *)
(* the libraries are registered (ReceiveLibraries.tla registers them).     *)
(***************************************************************************)
EXTENDS UlnSend, SimpleMessagelib, Sequences

CONSTANTS
  DEFAULT,        \* DEFAULT_MESSAGE_LIB
  ReceiveOnly,    \* the libraries of type Receive
  Delegate,       \* the delegate of the sender
  Receiver,       \* the receivers at DstEid
  Message,        \* the messages, which are their lengths
  Options,
  NativeFee, LzFee,  \* what a sender may offer to pay
  MaxSends        \* bound: messages per receiver

ASSUME LibraryAssumption ==
  /\ {ULN, SIMPLE} \cup ReceiveOnly \subseteq Lib
  /\ ULN # SIMPLE /\ DEFAULT \notin Lib \cup {NONE}
ASSUME OfferAssumption == NativeFee \cup LzFee \cup Message \subseteq Nat
ASSUME MaxSendsAssumption == MaxSends \in Nat

VARIABLES
  endpoint,      \* EndpointSettings: admin and lz_token_mint
  sendLibrary,   \* the default SendLibraryConfig and the sender's own
  outboundNonce, \* Nonce.outbound_nonce for every receiver
  packets,       \* history: the packets handed to a library that took them
  receipt        \* history: the last message sent, and what it cost whom

endpointVars == <<endpoint, sendLibrary>>
sendingVars == <<outboundNonce, packets, receipt>>
workerVars == <<priceFeed, executorConfig, dvnConfig>>
vars == <<endpointVars, sendingVars, workerVars, ulnVars, simpleLib>>

Init ==
  /\ endpoint = NONE
  /\ sendLibrary = [default |-> NONE, own |-> NONE]
  /\ outboundNonce = [r \in Receiver |-> NONE]
  /\ packets = {} /\ receipt = NONE
  /\ PriceFeedInit /\ ExecutorInit /\ DvnInit /\ UlnInit /\ SimpleInit

-----------------------------------------------------------------------------
(***************************************************************************)
(* The endpoint's settings.                                                *)
(***************************************************************************)
InitEndpoint(admin) ==
  /\ endpoint = NONE
  /\ endpoint' = [admin |-> admin, lzMint |-> NONE]
  /\ UNCHANGED sendLibrary

IsEndpointAdmin(k) == endpoint # NONE /\ k = endpoint.admin

TransferEndpointAdmin(k, newAdmin) ==
  /\ IsEndpointAdmin(k)
  /\ endpoint' = [endpoint EXCEPT !.admin = newAdmin]
  /\ UNCHANGED sendLibrary

SetLzToken(k, mint) ==
  /\ IsEndpointAdmin(k)
  /\ endpoint' = [endpoint EXCEPT !.lzMint = mint]
  /\ UNCHANGED sendLibrary

CanSend(lib) == lib \in Lib \ ReceiveOnly

InitDefaultSendLibrary(k, lib) ==
  /\ IsEndpointAdmin(k)
  /\ sendLibrary.default = NONE
  /\ CanSend(lib)
  /\ sendLibrary' = [sendLibrary EXCEPT !.default = lib]
  /\ UNCHANGED endpoint

SetDefaultSendLibrary(k, lib) ==
  /\ IsEndpointAdmin(k)
  /\ sendLibrary.default \notin {NONE, lib}
  /\ CanSend(lib)
  /\ sendLibrary' = [sendLibrary EXCEPT !.default = lib]
  /\ UNCHANGED endpoint

EndpointAdminNext == \E k \in Key :
  \/ InitEndpoint(k)
  \/ \E newAdmin \in Key : TransferEndpointAdmin(k, newAdmin)
  \/ \E mint \in Mint \cup {NONE} : SetLzToken(k, mint)
  \/ \E lib \in Lib : InitDefaultSendLibrary(k, lib) \/ SetDefaultSendLibrary(k, lib)

-----------------------------------------------------------------------------
(***************************************************************************)
(* The sender's settings: some only its delegate may create, the others    *)
(* the sender may change as well.                                          *)
(***************************************************************************)
InitSendLibrary(k) ==
  /\ k = Delegate
  /\ sendLibrary.own = NONE
  /\ sendLibrary' = [sendLibrary EXCEPT !.own = DEFAULT]
  /\ UNCHANGED <<endpoint, ulnVars, outboundNonce>>

SetSendLibrary(k, lib) ==
  /\ k \in {Sender, Delegate}
  /\ sendLibrary.own \notin {NONE, lib}
  /\ lib = DEFAULT \/ CanSend(lib)
  /\ sendLibrary' = [sendLibrary EXCEPT !.own = lib]
  /\ UNCHANGED <<endpoint, ulnVars, outboundNonce>>

InitConfig(k) ==
  /\ k = Delegate
  /\ InitSendConfig
  /\ UNCHANGED <<endpointVars, outboundNonce>>

SetConfig(k) ==
  /\ k \in {Sender, Delegate}
  /\ \/ \E e \in SendExecutor : SetSendExecutor(e)
     \/ \E c \in SendUln : SetSendUln(c)
  /\ UNCHANGED <<endpointVars, outboundNonce>>

InitNonce(k, r) ==
  /\ k = Delegate
  /\ outboundNonce[r] = NONE
  /\ outboundNonce' = [outboundNonce EXCEPT ![r] = 0]
  /\ UNCHANGED <<endpointVars, ulnVars>>

OAppNext == \E k \in Key :
  \/ InitSendLibrary(k)
  \/ \E lib \in Lib \cup {DEFAULT} : SetSendLibrary(k, lib)
  \/ InitConfig(k)
  \/ SetConfig(k)
  \/ \E r \in Receiver : InitNonce(k, r)

-----------------------------------------------------------------------------
(***************************************************************************)
(* Quoting and sending.                                                    *)
(***************************************************************************)

(* get_send_library                                                        *)
CurrentSendLibrary ==
  IF sendLibrary.own = DEFAULT THEN sendLibrary.default ELSE sendLibrary.own

(* The accounts that quote and send must find.                             *)
Ready(r) ==
  /\ endpoint # NONE
  /\ NONE \notin {sendLibrary.default, sendLibrary.own, outboundNonce[r]}

(* quote                                                                   *)
Quote(r, message, o, payInLz) ==
  CASE ~Ready(r) -> {}
    [] Ready(r) /\ payInLz /\ endpoint.lzMint = NONE -> {}
    [] OTHER ->
         IF CurrentSendLibrary = ULN THEN UlnQuote(message, o, payInLz)
         ELSE IF CurrentSendLibrary = SIMPLE THEN SimpleQuote(payInLz) ELSE {}

PlainSend(message, o, nativeFee) ==
  IF CurrentSendLibrary = ULN THEN UlnSend(message, o, nativeFee)
  ELSE IF CurrentSendLibrary = SIMPLE THEN SimpleSend(nativeFee, Payee) ELSE {}

SendWithLzToken(message, o, nativeFee, lzFee) ==
  IF CurrentSendLibrary = ULN
  THEN UlnSendWithLzToken(message, o, nativeFee, lzFee, endpoint.lzMint)
  ELSE IF CurrentSendLibrary = SIMPLE
  THEN SimpleSendWithLzToken(nativeFee, lzFee, Payee) ELSE {}

(* What send returns: the token is only used when some of it is offered.   *)
Sent(r, message, o, nativeFee, lzFee) ==
  IF ~Ready(r) THEN {}
  ELSE IF lzFee = 0 THEN PlainSend(message, o, nativeFee)
  ELSE IF endpoint.lzMint = NONE THEN {}
  ELSE SendWithLzToken(message, o, nativeFee, lzFee)

(* A mistake: the nonce is kept until the message is delivered.            *)
SameNonce(r) == UNCHANGED outboundNonce

IncrementNonce(r) == outboundNonce' = [outboundNonce EXCEPT ![r] = @ + 1]

Send(r, message, o, nativeFee, lzFee) ==
  /\ outboundNonce[r] \in 0..(MaxSends - 1)
  /\ \E sent \in Sent(r, message, o, nativeFee, lzFee) :
       receipt' = [message |-> message, options |-> o,
                   offered |-> [native |-> nativeFee, lz |-> lzFee], sent |-> sent]
  /\ IncrementNonce(r)
  /\ packets' = packets \cup
       {[receiver |-> r, nonce |-> outboundNonce'[r], message |-> message]}

SendNext ==
  \E r \in Receiver, message \in Message, o \in Options, nativeFee \in NativeFee, lzFee \in LzFee :
    Send(r, message, o, nativeFee, lzFee)

-----------------------------------------------------------------------------
WorkerNext ==
  \/ PriceFeedNext /\ UNCHANGED <<executorConfig, dvnConfig>>
  \/ ExecutorNext /\ UNCHANGED <<priceFeed, dvnConfig>>
  \/ DvnNext /\ UNCHANGED <<priceFeed, executorConfig>>

AdminNext ==
  \/ EndpointAdminNext /\ UNCHANGED <<sendingVars, workerVars, ulnVars, simpleLib>>
  \/ UlnAdminNext /\ UNCHANGED <<endpointVars, sendingVars, workerVars, simpleLib>>
  \/ SimpleNext /\ UNCHANGED <<endpointVars, sendingVars, workerVars, ulnVars>>
  \/ WorkerNext /\ UNCHANGED <<endpointVars, sendingVars, ulnVars, simpleLib>>
  \/ OAppNext /\ UNCHANGED <<packets, receipt, workerVars, simpleLib>>

Next ==
  \/ AdminNext
  \/ SendNext /\ UNCHANGED <<endpointVars, workerVars, ulnVars, simpleLib>>

Spec == Init /\ [][Next]_vars

-----------------------------------------------------------------------------
(***************************************************************************)
(* Properties.                                                             *)
(***************************************************************************)

(* What was quoted is enough, and exactly what is taken, as long as nothing*)
(* changes: send and quote walk the same configurations by code of their   *)
(* own.  Two quotes in the token are excepted, which send cannot honour:   *)
(* when the token's fee is 0, it takes the treasury's native share instead,*)
(* which quote left out; and the treasury's account may be of a token the  *)
(* endpoint no longer uses.                                                *)
Honourable(quoted, payInLz) ==
  payInLz /\ CurrentSendLibrary = ULN =>
    IF quoted.lz = 0 THEN 0 \in NativeShare(quoted.native)
    ELSE ulnSettings.treasury.lz.mint = endpoint.lzMint

QuoteIsPrice ==
  \A r \in Receiver, message \in Message, o \in Options, payInLz \in BOOLEAN :
    \A quoted \in Quote(r, message, o, payInLz) :
      LET fees == {[native |-> sent.native, lz |-> sent.lz] :
                     sent \in Sent(r, message, o, quoted.native, quoted.lz)}
      IN fees = IF Honourable(quoted, payInLz) THEN {quoted} ELSE {}

(* The fee on the receipt is what all the payees together received, and no *)
(* more than the sender offered.                                           *)
ReceiptAddsUp == receipt # NONE =>
  /\ receipt.sent.native = Total(receipt.sent.paid)
  /\ receipt.sent.native <= receipt.offered.native
  /\ receipt.sent.lz <= receipt.offered.lz

(* Everybody whose work the message needs is paid what he asks: the        *)
(* executor, and every DVN that the configuration counts, in each list.    *)
WorkersArePaid ==
  packets' # packets /\ CurrentSendLibrary = ULN =>
    LET paid == receipt'.sent.paid
        hired == HiredExecutor.executor
    IN /\ \E options \in Decoded(receipt'.options) :
            \E fee \in ExecutorQuote(hired, ULN, Sender, DstEid, receipt'.message, options) :
              paid[hired] >= fee
       /\ \A d \in HiredDvns : \E fee \in DvnQuote(d, ULN, Sender, DstEid) :
            /\ paid[d] >= fee
            /\ d \in EffectiveUln.required \cap EffectiveUln.optional => paid[d] >= 2 * fee

(* No send through the ULN leaves a worker unpaid.                         *)
EveryWorkerIsPaid == [][WorkersArePaid]_vars

(* A sender that chose the ULN and spelt out its configuration answers for *)
(* it alone: whatever the admins of the endpoint and of the ULN set, they  *)
(* neither stop its messages nor choose its workers, and what they add for *)
(* the treasury is no more than what the workers ask (of which a share in  *)
(* bps must fit into 64 bits).                                             *)
Pinned ==
  /\ sendLibrary.own = ULN
  /\ LET own == OwnSendConfig
     IN /\ 0 # own.uln.confirmations /\ own.uln.required # {} /\ own.uln.optional # {}
        /\ own.executor.maxSize > 0 /\ own.executor.executor # NONE

OwnExecutorAsks(size, o) ==
  LET own == OwnSendConfig.executor
  IN UNION {ExecutorQuote(own.executor, ULN, Sender, DstEid, size, options) : options \in
              IF size > own.maxSize \/ own.executor \notin Executor THEN {} ELSE Decoded(o)}

ListOf(dvns) == IF dvns = NIL THEN {} ELSE dvns

AskedByOwnWorkers(size, o) ==
  LET required == ListOf(OwnSendConfig.uln.required)
      optional == ListOf(OwnSendConfig.uln.optional)
  IN {fee + Total(asked) + Total(Restrict(asked, required \cap optional)) :
        fee \in OwnExecutorAsks(size, o), asked \in QuotesOf(required \cup optional)}

PinnedSenderDecides == Pinned =>
  \A r \in Receiver, message \in Message, o \in Options :
    \A asked \in AskedByOwnWorkers(message, o) :
      Ready(r) /\ asked * BPS_DENOMINATOR <= U64_MAX =>
        \E quoted \in Quote(r, message, o, FALSE) : quoted.native \in asked..(2 * asked)

(* The packets of a receiver are numbered 1, 2, 3 ... in the order of the  *)
(* sends, one packet a number, whatever library, fee or configuration each *)
(* of them met.                                                            *)
Logged(r) == {p \in packets : p.receiver = r}
Log == [r \in Receiver |-> [n \in 1..Cardinality(Logged(r)) |->
  {p.message : p \in {q \in Logged(r) : q.nonce = n}}]]

O == INSTANCE Outbox WITH log <- Log, Message <- {{message} : message \in Message}

ImplementsOutbox == O!Spec
=============================================================================
