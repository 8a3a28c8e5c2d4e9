------------------------------- MODULE Delivery -------------------------------
(***************************************************************************)
(* Delivery to an OApp, composed: the messages that libraries verify on a  *)
(* channel, the executors that hand them to the OApp, the calls the OApp   *)
(* composes, and the rent the closed accounts leave to the endpoint.       *)
(*                                                                         *)
(* The OApp is the OFT or one like it: its lz_receive clears the message   *)
(* and credits what it carries; it may compose a call in the same          *)
(* transaction, as the OFT does, or later.  Libraries verify the message   *)
(* that was sent, repeatedly and in any order.  Rents are all 1.           *)
(***************************************************************************)
EXTENDS MessagingChannel

CONSTANTS
  Message,   \* Message[n], the hash of the message that was sent with nonce n
  Worker,    \* the accounts the owner may make executors
  Value      \* the lamports an executor promises to spend on a delivery

ASSUME MessageAssumption == Message \in [Nonce -> Payload]
ASSUME ValueAssumption == Value \subseteq Nat

VARIABLES
  executors,       \* ExecutorConfig.executors
  composeMessage,  \* ComposeMessageState of the call composed by a message
  surplus,         \* the endpoint's lamports above its own rent
  withdrawn,       \* history: the lamports that were withdrawn
  alerts,          \* history: the messages and calls that failed
  credits,         \* history: how often every message was credited
  calls            \* history: how often every composed call was made

history == <<alerts, credits, calls>>
deliveryVars == <<vars, executors, composeMessage, surplus, withdrawn, history>>

DeliveryInit ==
  /\ Init
  /\ executors = {}
  /\ composeMessage = [n \in Nonce |-> "absent"]
  /\ surplus = 0 /\ withdrawn = 0
  /\ alerts = {}
  /\ credits = [n \in Nonce |-> 0]
  /\ calls = [n \in Nonce |-> 0]

-----------------------------------------------------------------------------
(***************************************************************************)
(* The accounts of composed calls.                                         *)
(***************************************************************************)
SendCompose(n) ==
  /\ composeMessage[n] = "absent"
  /\ composeMessage' = [composeMessage EXCEPT ![n] = "sent"]

(* A mistake: the account is closed.                                       *)
CloseCompose(n) ==
  /\ composeMessage[n] = "sent"
  /\ composeMessage' = [composeMessage EXCEPT ![n] = "absent"]

ClearCompose(n) ==
  /\ composeMessage[n] = "sent"
  /\ composeMessage' = [composeMessage EXCEPT ![n] = "received"]

(* An account closed by clear, skip or burn leaves its rent to the endpoint*)
Collect == surplus' = surplus + Cardinality({n \in Nonce : Open(n) /\ ~Open(n)'})

-----------------------------------------------------------------------------
(***************************************************************************)
(* What is called by anybody: the OApp's lz_receive, the composer's        *)
(* lz_compose.  The payer pays the rent of the account it composes with.   *)
(***************************************************************************)
LzReceive(n, composes) ==
  /\ Clear(OApp, n, Message[n])
  /\ Collect
  /\ credits' = [credits EXCEPT ![n] = @ + 1]
  /\ IF composes THEN SendCompose(n) ELSE UNCHANGED composeMessage
  /\ UNCHANGED <<executors, withdrawn, alerts, calls>>

LzReceiveCost(composes) == IF composes THEN 1 ELSE 0

(* An OApp that composes in a transaction of its own, and perhaps twice.   *)
ComposeLater(n) ==
  /\ credits[n] > 0
  /\ SendCompose(n)
  /\ UNCHANGED <<vars, executors, surplus, withdrawn, history>>

LzCompose(n) ==
  /\ ClearCompose(n)
  /\ calls' = [calls EXCEPT ![n] = @ + 1]
  /\ UNCHANGED <<vars, executors, surplus, withdrawn, alerts, credits>>

-----------------------------------------------------------------------------
(***************************************************************************)
(* The executor program.  An attempt that fails ends in an alert; one that *)
(* succeeds must not cost the executor more than the value.                *)
(***************************************************************************)
Execute(k, n, composes, value) ==
  /\ k \in executors
  /\ LzReceive(n, composes)
  /\ LzReceiveCost(composes) <= value

(* The reasons of a failure are the OApp's or the composer's own.          *)
Alert(k, n, what) ==
  /\ k \in executors
  /\ alerts' = alerts \cup {<<what, n>>}
  /\ UNCHANGED <<vars, executors, composeMessage, surplus, withdrawn, credits, calls>>

(* A mistake: a call that fails is cleared, too.                           *)
ComposeFailsForGood(k, n) ==
  /\ k \in executors
  /\ ClearCompose(n)
  /\ alerts' = alerts \cup {<<"lzCompose", n>>}
  /\ UNCHANGED <<vars, executors, surplus, withdrawn, credits, calls>>

LzReceiveAlert(k, n) == Alert(k, n, "lzReceive")
LzComposeAlert(k, n) == Alert(k, n, "lzCompose")

Compose(k, n) == k \in executors /\ LzCompose(n)

(* owner_set_config; ExecutorConfig.tla has the rest of it.                *)
SetExecutors(keys) ==
  /\ executors' = keys
  /\ UNCHANGED <<vars, composeMessage, surplus, withdrawn, history>>

-----------------------------------------------------------------------------
(* By the endpoint's admin: the endpoint keeps its own rent.               *)
WithdrawRent(amount) ==
  /\ amount <= surplus
  /\ surplus' = surplus - amount
  /\ withdrawn' = withdrawn + amount
  /\ UNCHANGED <<vars, executors, composeMessage, history>>

(* Everything else on the channel: registration, verification, and what    *)
(* the delegate decides over the head of the OApp.                         *)
Prepare ==
  \/ \E d \in Delegate : RegisterOApp(d) \/ SetDelegate(d) \/ InitNonce(d)
  \/ \E n \in Nonce : InitVerify(n) \/ Verify(n, Message[n])

ChannelStep ==
  /\ Prepare \/ \E d \in Delegate, n \in Nonce : Resolve(d, n)
  /\ Collect
  /\ UNCHANGED <<executors, composeMessage, withdrawn, history>>

ExecutorStep == \E k \in Worker, n \in Nonce :
  \/ \E composes \in BOOLEAN, value \in Value : Execute(k, n, composes, value)
  \/ Compose(k, n)
  \/ LzReceiveAlert(k, n)
  \/ LzComposeAlert(k, n)

DeliveryNext ==
  \/ ChannelStep
  \/ ExecutorStep
  \/ \E n \in Nonce : (\E composes \in BOOLEAN : LzReceive(n, composes)) \/ LzCompose(n)
  \/ \E n \in Nonce : ComposeLater(n)
  \/ \E keys \in SUBSET Worker : SetExecutors(keys)
  \/ \E amount \in 1..MaxNonce : WithdrawRent(amount)

DeliverySpec == DeliveryInit /\ [][DeliveryNext]_deliveryVars

(* Fairness: an executor keeps trying what it may, whatever fails and      *)
(* whenever the owner takes its role away and returns it.                  *)
DeliveryFairness == \A n \in Nonce :
  /\ SF_deliveryVars(\E k \in Worker, composes \in BOOLEAN, value \in Value :
                       Execute(k, n, composes, value))
  /\ SF_deliveryVars(\E k \in Worker : Compose(k, n))

LiveDelivery == DeliverySpec /\ DeliveryFairness

-----------------------------------------------------------------------------
(***************************************************************************)
(* Properties.                                                             *)
(***************************************************************************)

(* A message is credited at most once, never after it was dropped; what it *)
(* composes is called at most once, after it was credited, although anybody*)
(* may deliver, accounts are closed, and the OApp may compose again.       *)
Outcome == [n \in Nonce |->
  IF credits[n] > 1 THEN "credited twice"
  ELSE IF credits[n] = 1 THEN "credited"
  ELSE IF fate[n] = << >> THEN "waiting" ELSE "dropped"]

Call == [n \in Nonce |->
  IF calls[n] > 1 THEN "made twice"
  ELSE IF calls[n] = 1 THEN "made"
  ELSE IF composeMessage[n] = "absent" THEN "none" ELSE "owed"]

Courier == INSTANCE Courier WITH outcome <- Outcome, call <- Call

ImplementsCourier == Courier!Spec

(* The endpoint's account never falls below its own rent, and every nonce  *)
(* that ended, however it did, has left it the rent of exactly one account.*)
Done == {n \in Nonce : fate[n] # << >>}

RentIsKept ==
  /\ surplus >= 0
  /\ surplus + withdrawn = Cardinality(Done)

(***************************************************************************)
(* The inductive invariant, with the channel's: what was credited is at its*)
(* end on the channel, and a call's account tells whether it was made.     *)
(***************************************************************************)
DeliveryTypeOK ==
  /\ surplus \in Int /\ withdrawn \in Int
  /\ credits \in [Nonce -> 0..1]
  /\ calls \in [Nonce -> 0..1]
  /\ composeMessage \in [Nonce -> {"absent", "sent", "received"}]

Linked(n) ==
  /\ credits[n] = 1 => fate[n] # << >>
  /\ composeMessage[n] # "absent" => credits[n] = 1
  /\ calls[n] = 1 <=> composeMessage[n] = "received"

DeliveryInv == IInv /\ DeliveryTypeOK /\ (\A n \in Nonce : Linked(n)) /\ RentIsKept

(* An alert is not the end: as long as there are executors again and again,*)
(* a message that may be executed does not wait for ever (it is delivered, *)
(* or the delegate takes it out), and no composed call does, however many  *)
(* attempts at them have failed.                                           *)
AlertIsNotTheEnd ==
  []<>(executors # {}) =>
    \A n \in Nonce :
      /\ ~<>[](Executable(n) /\ payloadHash[n] = Message[n])
      /\ composeMessage[n] = "sent" ~> calls[n] = 1
=============================================================================
