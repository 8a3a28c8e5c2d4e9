--------------------------- MODULE MessagingChannel ---------------------------
(***************************************************************************)
(* The inbound half of one messaging channel of the endpoint program: the  *)
(* path (receiver, src_eid, sender).                                       *)
(*                                                                         *)
(* On chain the channel is spread over several accounts: the Nonce account *)
(* (inbound_nonce), the PendingInboundNonce account (a sorted list, here   *)
(* the set of its elements; PendingNonces.tla models the list itself) and  *)
(* one PayloadHash account per nonce, which anybody may create and which   *)
(* is closed when the nonce is cleared, burnt or skipped.  The OAppRegistry*)
(* account of the receiver says who may act for it.                        *)
(*                                                                         *)
(* A Solana instruction is atomic: it runs to the end or has no effect, so *)
(* one action is one instruction and a failed require! is a disabled       *)
(* action.  Interleaving is the order in which the delegate, the OApp, the *)
(* receive library and everybody else get their transactions in.           *)
(***************************************************************************)
EXTENDS Integers, Sequences, FiniteSets

CONSTANTS
  MaxNonce,       \* bound: nonces 1..MaxNonce are modelled (u64 in the code)
  Window,         \* PENDING_INBOUND_NONCE_MAX_LEN, 256 in the code
  Payload,        \* keccak256(guid, message) of the messages that may be sent
  EMPTY, NIL,     \* EMPTY_PAYLOAD_HASH and NIL_PAYLOAD_HASH
  ABSENT,         \* the account does not exist
  SKIPPED, BURNT, \* how a nonce ended, when it was not delivered
  OApp, Delegate  \* the receiver's own address, and the possible delegates

ASSUME MaxNonceAssumption == MaxNonce \in Nat
ASSUME WindowAssumption == Window \in Nat \ {0}
(* keccak256 maps no message to all-zeroes or all-ones.                    *)
ASSUME HashAssumption ==
  /\ {EMPTY, NIL, ABSENT, SKIPPED, BURNT} \cap Payload = {}
  /\ EMPTY # NIL /\ EMPTY # ABSENT /\ NIL # ABSENT /\ SKIPPED # BURNT
ASSUME SignerAssumption == ABSENT \notin Delegate

Nonce == 1..MaxNonce
Hash == Payload \cup {EMPTY, NIL}

VARIABLES
  registry,      \* OAppRegistry.delegate, ABSENT before register_oapp
  channel,       \* do the Nonce and PendingInboundNonce accounts exist?
  inboundNonce,  \* Nonce.inbound_nonce
  pending,       \* PendingInboundNonce.nonces
  payloadHash,   \* PayloadHash.hash of every nonce, ABSENT without account
  verdicts,      \* history: the hashes ever written by verify and nilify
  fate           \* history: how the nonce ended, every time it did

accounts == <<inboundNonce, pending, payloadHash>>
vars == <<registry, channel, inboundNonce, pending, payloadHash, verdicts, fate>>

TypeOK ==
  /\ registry \in Delegate \cup {ABSENT}
  /\ channel \in BOOLEAN
  /\ inboundNonce \in 0..MaxNonce
  /\ pending \in SUBSET Nonce
  /\ payloadHash \in [Nonce -> Hash \cup {ABSENT}]
  /\ verdicts \in [Nonce -> SUBSET (Payload \cup {NIL})]
  /\ fate \in [Nonce -> Seq(Payload \cup {SKIPPED, BURNT})]

Init ==
  /\ registry = ABSENT
  /\ channel = FALSE
  /\ inboundNonce = 0
  /\ pending = {}
  /\ payloadHash = [n \in Nonce |-> ABSENT]
  /\ verdicts = [n \in Nonce |-> {}]
  /\ fate = [n \in Nonce |-> << >>]

Signers == {OApp} \cup Delegate
Open(n) == payloadHash[n] # ABSENT

-----------------------------------------------------------------------------
(***************************************************************************)
(* The OApp registry and the creation of the channel.                      *)
(***************************************************************************)

(* register_oapp: signed by the OApp, `init` lets it run once.             *)
RegisterOApp(d) ==
  /\ registry = ABSENT
  /\ registry' = d
  /\ UNCHANGED <<channel, accounts, verdicts, fate>>

(* set_delegate: signed by the OApp.                                       *)
SetDelegate(d) ==
  /\ registry # ABSENT
  /\ registry' = d
  /\ UNCHANGED <<channel, accounts, verdicts, fate>>

(* init_nonce: has_one = delegate; zeroed accounts, created once.          *)
InitNonce(signer) ==
  /\ registry # ABSENT /\ signer = registry
  /\ ~channel
  /\ channel' = TRUE
  /\ UNCHANGED <<registry, accounts, verdicts, fate>>

(* The constraint of skip, burn, nilify and clear on their signer.         *)
Authorized(signer) == registry # ABSENT /\ signer \in {OApp, registry}

-----------------------------------------------------------------------------
(***************************************************************************)
(* PendingInboundNonce.insert_pending_inbound_nonce and                    *)
(* Nonce.update_inbound_nonce.                                             *)
(***************************************************************************)

(* A mistake to check the properties against: only one nonce is resolved at*)
(* a time, the run behind it is not.  The comments mark every such mistake;*)
(* no action uses them.                                                    *)
UpdateByOne(resolved) ==
  IF inboundNonce + 1 \in resolved
  THEN inboundNonce' = inboundNonce + 1 /\ pending' = resolved \ {inboundNonce'}
  ELSE inboundNonce' = inboundNonce /\ pending' = resolved

(* Advance inbound_nonce to the end of the run that starts right after it, *)
(* and drain the run from the list.                                        *)
UpdateInboundNonce(resolved) ==
  \E last \in inboundNonce..MaxNonce :
    /\ (inboundNonce + 1)..last \subseteq resolved
    /\ last + 1 \notin resolved
    /\ inboundNonce' = last
    /\ pending' = resolved \ ((inboundNonce + 1)..last)

(* A mistake: the size of the list is not bounded.                         *)
AboveInbound(n) == inboundNonce < n

InWindow(n) == inboundNonce < n /\ n <= inboundNonce + Window

InsertPendingInboundNonce(n) ==
  /\ InWindow(n)
  /\ IF n \in pending
     THEN UNCHANGED <<inboundNonce, pending>>
     ELSE UpdateInboundNonce(pending \cup {n})

(* verify and nilify resolve a nonce that is not resolved yet.             *)
ResolveIfNew(n) ==
  IF n > inboundNonce
  THEN InsertPendingInboundNonce(n)
  ELSE UNCHANGED <<inboundNonce, pending>>

-----------------------------------------------------------------------------
(***************************************************************************)
(* The instructions on the channel.                                        *)
(***************************************************************************)

(* A mistake: an account that was closed can be initialised once more.     *)
NoAccount(n) == ~Open(n)

Initializable(n) == n > inboundNonce /\ ~Open(n)

(* init_verify: anybody pays for the account; no upper bound on the nonce. *)
InitVerify(n) ==
  /\ channel
  /\ Initializable(n)
  /\ payloadHash' = [payloadHash EXCEPT ![n] = EMPTY]
  /\ UNCHANGED <<registry, channel, inboundNonce, pending, verdicts, fate>>

(* A mistake: the empty hash can be verified.                              *)
AnyHash(h) == TRUE

VerifiableHash(h) == h # EMPTY

(* verify: called by a receive library, whose validity module Receive adds.*)
(* An open nonce may be verified again on both sides of the inbound nonce, *)
(* which overwrites the hash.                                              *)
Verify(n, h) ==
  /\ channel
  /\ Open(n)
  /\ VerifiableHash(h)
  /\ ResolveIfNew(n)
  /\ payloadHash' = [payloadHash EXCEPT ![n] = h]
  /\ verdicts' = [verdicts EXCEPT ![n] = @ \cup {h}]
  /\ UNCHANGED <<registry, channel, fate>>

(* A mistake: any nonce that is not inbound yet can be skipped.            *)
Ahead(n) == n > inboundNonce

Skippable(n) == n = inboundNonce + 1

(* Mistakes: the order is not enforced; the last nonce is not executable;  *)
(* the account is left behind.                                             *)
AnyNonce(n) == TRUE
BelowInbound(n) == n < inboundNonce
LeaveAccount(n) == UNCHANGED payloadHash

Matches(n, h) == Open(n) /\ payloadHash[n] = h
Executable(n) == n <= inboundNonce
Close(n) == payloadHash' = [payloadHash EXCEPT ![n] = ABSENT]

(* skip: the next nonce only, and only once its account exists.            *)
Skip(signer, n) ==
  /\ channel /\ Authorized(signer)
  /\ Skippable(n)
  /\ Open(n)
  /\ InsertPendingInboundNonce(n)
  /\ Close(n)
  /\ fate' = [fate EXCEPT ![n] = Append(@, SKIPPED)]
  /\ UNCHANGED <<registry, channel, verdicts>>

(* nilify: `h` is the hash the caller believes to be stored.               *)
Nilify(signer, n, h) ==
  /\ channel /\ Authorized(signer)
  /\ Matches(n, h)
  /\ ResolveIfNew(n)
  /\ payloadHash' = [payloadHash EXCEPT ![n] = NIL]
  /\ verdicts' = [verdicts EXCEPT ![n] = @ \cup {NIL}]
  /\ UNCHANGED <<registry, channel, fate>>

(* burn                                                                    *)
Burn(signer, n, h) ==
  /\ channel /\ Authorized(signer)
  /\ Executable(n) /\ Matches(n, h)
  /\ Close(n)
  /\ fate' = [fate EXCEPT ![n] = Append(@, BURNT)]
  /\ UNCHANGED <<registry, channel, inboundNonce, pending, verdicts>>

(* clear: the OApp presents the guid and the message; their hash is `p`.   *)
Clear(signer, n, p) ==
  /\ channel /\ Authorized(signer)
  /\ Executable(n) /\ Matches(n, p)
  /\ Close(n)
  /\ fate' = [fate EXCEPT ![n] = Append(@, p)]
  /\ UNCHANGED <<registry, channel, inboundNonce, pending, verdicts>>

-----------------------------------------------------------------------------
(* What the receiver's own keys may do, and what the rest of the world may.*)
Resolve(signer, n) ==
  \/ Skip(signer, n)
  \/ \E h \in Hash : Nilify(signer, n, h) \/ Burn(signer, n, h)
  \/ \E p \in Payload : Clear(signer, n, p)

Next ==
  \/ \E d \in Delegate : RegisterOApp(d) \/ SetDelegate(d)
  \/ \E signer \in Signers : InitNonce(signer)
  \/ \E n \in Nonce : InitVerify(n)
  \/ \E n \in Nonce, h \in Hash : Verify(n, h)
  \/ \E signer \in Signers, n \in Nonce : Resolve(signer, n)

Spec == Init /\ [][Next]_vars

(***************************************************************************)
(* Fairness.  init_verify is permissionless and a committed message is     *)
(* committed by whoever wants it delivered, so every nonce sees its        *)
(* init_verify and its verify; the executor keeps calling the OApp, which  *)
(* clears.  Nobody is obliged to skip, nilify, burn or re-verify.          *)
(***************************************************************************)
Fairness ==
  /\ \A d \in Delegate : WF_vars(RegisterOApp(d))
  /\ WF_vars(\E signer \in Signers : InitNonce(signer))
  /\ \A n \in Nonce :
       /\ WF_vars(InitVerify(n))
       /\ WF_vars(\E p \in Payload : Verify(n, p))
       /\ WF_vars(\E p \in Payload : Clear(OApp, n, p))

LiveSpec == Spec /\ Fairness
-----------------------------------------------------------------------------
(***************************************************************************)
(* Safety.                                                                 *)
(***************************************************************************)
Skipped(n) == SKIPPED \in { fate[n][i] : i \in DOMAIN fate[n] }

(* A nonce ends at most once: a message is delivered at most once, and a   *)
(* skipped or burnt nonce is never delivered, although its account may be  *)
(* closed, and init_verify and verify may be called again by anybody.      *)
AtMostOnce == \A n \in Nonce : Len(fate[n]) <= 1

(* Every nonce up to inbound_nonce has been verified, nilified or skipped: *)
(* the counter never jumps a gap, whatever the order of the insertions.    *)
NoGap == \A n \in 1..inboundNonce : verdicts[n] # {} \/ Skipped(n)

(* A nonce ends only after every lower nonce was verified, nilified or     *)
(* skipped: the guard of clear and burn on inbound_nonce is a guard on the *)
(* whole prefix.                                                           *)
OrderedPrefix ==
  \A n \in Nonce : fate[n] # << >> =>
    \A m \in 1..(n - 1) : verdicts[m] # {} \/ Skipped(m)

(* Only a message some receive library verified for this very nonce is     *)
(* delivered, and only a nonce that has been verified or nilified is burnt *)
(* ("is not empty can be burned" above burn).                              *)
EndsWithVerdict ==
  \A n \in Nonce : \A i \in DOMAIN fate[n] :
    /\ fate[n][i] \in Payload => fate[n][i] \in verdicts[n]
    /\ fate[n][i] = BURNT => verdicts[n] # {}

(* skip never throws a verified message away: it only passes a nonce that  *)
(* nobody has verified or nilified, also when verify and skip race for it. *)
SkipOnlyUndecided == \A n \in Nonce : Skipped(n) => verdicts[n] = {}

(* A verified message is not lost: until its nonce ends, its account holds *)
(* a hash some verify or nilify wrote, whatever init_verify is attempted.  *)
NoVerdictLost ==
  \A n \in Nonce :
    verdicts[n] # {} /\ fate[n] = << >> => payloadHash[n] \in verdicts[n]

(* The list of pending nonces never outgrows its account: it holds nonces  *)
(* of the window only, never the next one, so fewer than Window of them.   *)
PendingFits == Cardinality(pending) < Window

(***************************************************************************)
(* The inductive invariant: the nonces above inbound_nonce that are not in *)
(* the list are undecided, the others decided, and only nonces up to       *)
(* inbound_nonce have ended.                                               *)
(***************************************************************************)
Undecided(n) == payloadHash[n] \in {ABSENT, EMPTY} /\ verdicts[n] = {} /\ fate[n] = << >>
Decided(n) == payloadHash[n] \in verdicts[n] /\ fate[n] = << >>
Ended(n) ==
  /\ payloadHash[n] = ABSENT
  /\ \E how \in Payload \cup {SKIPPED, BURNT} :
       /\ fate[n] = <<how>>
       /\ how \in Payload => how \in verdicts[n]
       /\ (how = SKIPPED) <=> (verdicts[n] = {})

Resolved == (1..inboundNonce) \cup pending

PendingInWindow == pending \subseteq (inboundNonce + 2)..(inboundNonce + Window)

Phase(n) ==
  /\ n \in Resolved => Decided(n) \/ (n <= inboundNonce /\ Ended(n))
  /\ n \notin Resolved => Undecided(n)

(* The phase of every nonce agrees with the counter and the list, whatever *)
(* instructions ran in whatever order.                                     *)
PhasesAgree == PendingInWindow /\ \A n \in Nonce : Phase(n)

IInv == TypeOK /\ PhasesAgree

(***************************************************************************)
(* The channel implements the inbox: its verdict of a nonce is what the    *)
(* account holds, and a closed account below the inbound nonce has ended.  *)
(***************************************************************************)
InboxVerdict ==
  [n \in Nonce |-> IF Open(n) THEN payloadHash[n]
                   ELSE IF n <= inboundNonce THEN ABSENT ELSE EMPTY]

Promise == INSTANCE Inbox WITH verdict <- InboxVerdict, NONE <- EMPTY, DONE <- ABSENT
ImplementsInbox == Promise!Spec

(***************************************************************************)
(* Liveness, of LiveSpec.                                                  *)
(***************************************************************************)

(* The inbound nonce reaches every nonce: no order of verifications, no    *)
(* skip or nilify and no full window can wedge the channel.                *)
ChannelDrains == \A n \in Nonce : <>[](inboundNonce >= n)

(* A verified message does not stay undelivered for ever, even if it is    *)
(* verified anew for ever, unless it is nilified.                          *)
NoMessageStuck == \A n \in Nonce : ~<>[](payloadHash[n] \in Payload)
=============================================================================
