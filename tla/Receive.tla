------------------------------- MODULE Receive -------------------------------
(***************************************************************************)
(* The receiving side as a whole, for one receiver, one remote eid and one *)
(* sender: the ULN (ReceiveUln), which is one of the message libraries,    *)
(* with the endpoint's channel and its receive libraries.                  *)
(* commit_verification of the ULN calls verify of the endpoint in the same *)
(* transaction; another library that is valid for the receiver verifies    *)
(* what it likes; the receiver's delegate configures both programs.        *)
(***************************************************************************)
EXTENDS ReceiveUln, Sequences

CONSTANTS
  MaxNonce, Window, Payload, EMPTY, SKIPPED, BURNT, Receiver, Delegate,
  Lib, UlnLib, MaxSlot, MaxGrace, DEFAULT

(* A packet is its nonce and the hash of its payload.                      *)
ASSUME PacketAssumption == Packet \subseteq (1..MaxNonce) \X Payload
ASSUME UlnAssumption == UlnLib \in Lib

(* There is something to send.                                             *)
ASSUME PayloadAssumption == Payload # {}

(* What the parts assume, on the constants of the whole.                   *)
ASSUME ChannelAssumption ==
  /\ MaxNonce \in Nat /\ Window \in Nat \ {0}
  /\ {EMPTY, NIL, ABSENT, SKIPPED, BURNT} \cap Payload = {}
  /\ EMPTY # NIL /\ EMPTY # ABSENT /\ NIL # ABSENT /\ SKIPPED # BURNT
  /\ ABSENT \notin Delegate
ASSUME LibrariesAssumption ==
  /\ MaxSlot \in Nat /\ MaxGrace \in Nat
  /\ DEFAULT \notin Lib /\ ABSENT \notin Lib /\ DEFAULT # ABSENT
  /\ NONE \notin [lib : Lib, expiry : Nat]

VARIABLES
  registry, channel, inboundNonce, pending, payloadHash, verdicts, fate,
  slot, libType, defaultLib, defaultTimeout, lib, timeout

Channel == INSTANCE MessagingChannel WITH OApp <- Receiver
Libraries == INSTANCE ReceiveLibraries WITH OApp <- {Receiver}

channelVars == <<registry, channel, inboundNonce, pending, payloadHash, verdicts, fate>>
libraryVars == <<slot, libType, defaultLib, defaultTimeout, lib, timeout>>
receiveVars == <<channelVars, libraryVars, vars>>

ReceiveInit == Channel!Init /\ Libraries!Init /\ Init

-----------------------------------------------------------------------------
(* A mistake: the endpoint takes every registered library for valid.       *)
AnyReceiveLibrary(l) == Libraries!CanReceive(l)

ValidReceiveLibrary(l) == Libraries!IsValidReceiveLibrary(Receiver, l)

(* endpoint verify, signed by a receive library.                           *)
EndpointVerify(l, n, h) == ValidReceiveLibrary(l) /\ Channel!Verify(n, h)

(* commit_verification and the verify it calls succeed or fail together.   *)
CommitAndVerify(n, h) ==
  /\ CommitVerification(<<n, h>>)
  /\ EndpointVerify(UlnLib, n, h)
  /\ UNCHANGED libraryVars

OtherLibraryVerifies(l, n, h) ==
  /\ l # UlnLib
  /\ EndpointVerify(l, n, h)
  /\ UNCHANGED <<libraryVars, vars>>

(* The instructions of the channel other than verify.                      *)
ChannelStep ==
  /\ \/ \E d \in Delegate : Channel!RegisterOApp(d) \/ Channel!SetDelegate(d)
     \/ \E signer \in Channel!Signers :
          \/ Channel!InitNonce(signer)
          \/ \E n \in Channel!Nonce : Channel!Resolve(signer, n)
     \/ \E n \in Channel!Nonce : Channel!InitVerify(n)
  /\ UNCHANGED <<libraryVars, vars>>

LibraryStep ==
  /\ \/ Libraries!AdvanceSlot
     \/ Libraries!AdminStep
     \/ registry # ABSENT /\ Libraries!OAppStep(Receiver)
  /\ UNCHANGED <<channelVars, vars>>

(* init_config and set_config go through the endpoint, to a registered     *)
(* library.                                                                *)
UlnStep ==
  /\ \/ DefaultAdmin
     \/ registry # ABSENT /\ libType[UlnLib] # ABSENT /\ OAppAdmin
     \/ \E p \in Packet, d \in Dvn : DvnStep(p, d)
     \/ Environment
  /\ UNCHANGED <<channelVars, libraryVars>>

ReceiveNext ==
  \/ ChannelStep
  \/ LibraryStep
  \/ UlnStep
  \/ \E p \in Packet : CommitAndVerify(p[1], p[2])
  \/ \E l \in Lib, p \in Packet : OtherLibraryVerifies(l, p[1], p[2])

ReceiveSpec == ReceiveInit /\ [][ReceiveNext]_receiveVars
-----------------------------------------------------------------------------
(***************************************************************************)
(* The DVN program's `verifiable` view, which repeats the checks of three  *)
(* instructions of two other programs.                                     *)
(***************************************************************************)

(* endpoint_verifiable: already the stored hash, or closed and passed.     *)
AlreadyVerified(n, h) ==
  IF Channel!Open(n) THEN payloadHash[n] = h ELSE n <= inboundNonce

(* A mistake: the last nonce of the window is refused, and the first one   *)
(* beyond it is not.                                                       *)
BeyondInclusive(n) == inboundNonce + Window <= n

BeyondWindow(n) == inboundNonce < n /\ inboundNonce + Window < n

VerificationState(n, h) ==
  IF ~channel THEN "NotInitializable"
  ELSE IF AlreadyVerified(n, h) THEN "Verified"
  ELSE IF BeyondWindow(n) THEN "VerifiableButCapExceeded"
  ELSE IF Verifiable(<<n, h>>) THEN "Verifiable"
  ELSE "Verifying"

(* What the view says is what the programs do, as long as the ULN is valid *)
(* for the receiver ("skip check for valid receive library, assume always  *)
(* correct"): a packet called Verifiable can be committed, if need be after*)
(* init_verify, and one called otherwise changes nothing if committed.     *)
ViewIsTrue ==
  \A p \in Packet :
    LET n == p[1]  h == p[2]  state == VerificationState(n, h)
    IN  /\ state = "Verifiable" /\ ValidReceiveLibrary(UlnLib) =>
             IF Channel!Open(n) THEN ENABLED CommitAndVerify(n, h)
                                ELSE ENABLED Channel!InitVerify(n)
        /\ ENABLED CommitAndVerify(n, h) => state \in {"Verifiable", "Verified"}

-----------------------------------------------------------------------------
(* The receiver has pinned its security: the ULN is its own library, no    *)
(* other one is in a grace period, and its own configuration leaves nothing*)
(* to the default one and is guarded.                                      *)
Pinned ==
  /\ lib[Receiver] = UlnLib
  /\ \A l \in Lib \ {UlnLib} : ~Libraries!InGrace(Receiver, l)
  /\ customConfig # ABSENT
  /\ customConfig.confirmations # 0 /\ customConfig.required # {} /\ customConfig.optional # {}
  /\ Guarded(ReceiveConfig)

(* While the receiver is pinned, no message gets a verdict that is not     *)
(* final on the remote chain, whatever the endpoint's admin makes the      *)
(* default library, the ULN's admin the default configuration, and the     *)
(* faulty DVNs attest.                                                     *)
Authentic(n) ==
  \A p \in (verdicts'[n] \ verdicts[n]) \cap Payload : Final(<<n, p>>)
PinnedIsAuthentic == [][Pinned => \A n \in Channel!Nonce : Authentic(n)]_receiveVars

(* The admins cannot unpin a receiver, nor can time: only the receiver or  *)
(* its delegate can.                                                       *)
OnlyReceiverUnpins ==
  [][Pinned /\ UNCHANGED <<lib, timeout, customConfig>> => Pinned']_receiveVars
=============================================================================
