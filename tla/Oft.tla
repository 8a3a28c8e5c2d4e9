-------------------------------- MODULE Oft --------------------------------
(***************************************************************************)
(* An omnichain fungible token: one chain holds the token in the escrow of *)
(* an adapter, the others mint and burn it.  All run the oft program, each *)
(* is the others' peer; what one sends is delivered at most once           *)
(* (MessagingChannel), in any order or never.                              *)
(*                                                                         *)
(* A user sees amounts in the local decimals of a chain (LD).  Messages    *)
(* carry shared decimals (SD), one of which is Rate[c] local ones.  The    *)
(* adapter's token may charge a transfer fee, which changes with epochs;   *)
(* withheld fees are out of everybody's reach here.  The rate limiter of a *)
(* peer may refuse any send or receive; its state is in RateLimiter, and   *)
(* a refusal leaves the state here as it is.                               *)
(***************************************************************************)
EXTENDS TransferFee, FiniteSets, Functions

CONSTANTS
  ADAPTER,         \* the chain with OftConfigExt::Adapter
  Native,          \* those with OftConfigExt::Native
  Mintable,        \* those initialised with a mint authority
  Rate,            \* ld2sd_rate of every chain
  Fee,             \* the transfer fees the adapter's token may have
  Total,           \* tokens there are on the adapter's chain
  MAX,             \* u64::MAX
  MaxMessages      \* bound: the number of messages sent

Chain == Native \cup {ADAPTER}

ASSUME ChainAssumption ==
  /\ ADAPTER \notin Native /\ IsFiniteSet(Native) /\ Mintable \subseteq Native
  /\ Rate \in [Chain -> Nat \ {0}]
ASSUME FeeAssumption == Fee \subseteq TransferFees /\ Fee # {}
ASSUME BoundsAssumption == MAX \in Nat /\ Total \in 0..MAX /\ MaxMessages \in Nat

VARIABLES
  fee,             \* the transfer fee of this epoch
  escrow,          \* LD in the escrow account of the adapter
  outside,         \* LD of the same token in the accounts of users
  supply,          \* LD of every native token
  authority,       \* OftConfigExt::Native(Some(_)): the mint authority is set
  inFlight,        \* messages sent and not received
  sent,            \* the number of messages sent
  minted           \* history: the mint authority of a chain has minted

vars == <<fee, escrow, outside, supply, authority, inFlight, sent, minted>>

Message == [id : 1..MaxMessages, src : Chain, dst : Chain, amountSd : 0..MAX]

TypeOK ==
  /\ fee \in Fee
  /\ escrow \in 0..Total
  /\ outside \in 0..(Total - escrow)
  /\ supply \in [Native -> 0..MAX]
  /\ authority \in [Native -> BOOLEAN]
  /\ inFlight \subseteq Message
  /\ sent \in 0..MaxMessages
  /\ minted \in BOOLEAN

Init ==
  /\ fee \in Fee
  /\ escrow = 0
  /\ outside = Total
  /\ supply = [c \in Native |-> 0]
  /\ authority = [c \in Native |-> c \in Mintable]
  /\ inFlight = {}
  /\ sent = 0
  /\ minted = FALSE

-----------------------------------------------------------------------------
(* Only the adapter's token has a transfer fee.                            *)
PostFeeAmount(c, amount) == IF c = ADAPTER THEN PostFee(fee, amount) ELSE amount
PreFeeAmount(c, amount) == IF c = ADAPTER THEN PreFee(fee, amount) ELSE amount

RemoveDust(c, amount) == amount - (amount % Rate[c])
Ld2Sd(c, amount) == amount \div Rate[c]
Sd2Ld(c, amount) == amount * Rate[c]

(* What is promised to the receiver of a transfer, and what it costs.      *)
AmountReceived(c, amount) == RemoveDust(c, PostFeeAmount(c, amount))

AmountSent(c, amount) == PreFeeAmount(c, AmountReceived(c, amount))

(* send takes what it costs: the adapter locks it, the others burn it.     *)
Lock(amount) ==
  /\ amount <= outside
  /\ outside' = outside - amount
  /\ escrow' = escrow + PostFee(fee, amount)
  /\ UNCHANGED supply

(* A mistake: more than there is.                                          *)
BurnUnchecked(c, amount) ==
  /\ supply' = [supply EXCEPT ![c] = @ - amount]
  /\ UNCHANGED <<outside, escrow>>

Burn(c, amount) ==
  /\ amount <= supply[c]
  /\ supply' = [supply EXCEPT ![c] = @ - amount]
  /\ UNCHANGED <<outside, escrow>>

(* lz_receive gives what the message says: the adapter unlocks it, the     *)
(* others mint it.                                                         *)
Unlock(amount) ==
  /\ amount <= escrow
  /\ escrow' = escrow - amount
  /\ outside' = outside + PostFee(fee, amount)
  /\ UNCHANGED supply

Mint(c, amount) ==
  /\ supply[c] + amount <= MAX
  /\ supply' = [supply EXCEPT ![c] = @ + amount]
  /\ UNCHANGED <<outside, escrow>>

-----------------------------------------------------------------------------
NextEpoch(f) ==
  /\ f # fee
  /\ fee' = f
  /\ UNCHANGED <<escrow, outside, supply, authority, inFlight, sent, minted>>

(* send: somebody gives `amount` and accepts that `minAmount` arrives.     *)
Send(c, dst, amount, minAmount) ==
  /\ sent < MaxMessages
  /\ AmountReceived(c, amount) >= minAmount
  /\ AmountSent(c, amount) <= MAX
  /\ IF c = ADAPTER THEN Lock(AmountSent(c, amount)) ELSE Burn(c, AmountSent(c, amount))
  /\ inFlight' = inFlight \cup
       {[id |-> sent + 1, src |-> c, dst |-> dst,
         amountSd |-> Ld2Sd(c, AmountReceived(c, amount))]}
  /\ sent' = sent + 1
  /\ UNCHANGED <<fee, authority, minted>>

Credit(m) ==
  /\ Sd2Ld(m.dst, m.amountSd) <= MAX
  /\ IF m.dst = ADAPTER THEN Unlock(Sd2Ld(m.dst, m.amountSd))
                        ELSE Mint(m.dst, Sd2Ld(m.dst, m.amountSd))

(* A mistake: the message is not cleared.                                  *)
ReceiveAgain(m) ==
  /\ Credit(m)
  /\ UNCHANGED <<inFlight, fee, authority, sent, minted>>

(* lz_receive: clear the message and credit what it says.                  *)
LzReceive(m) ==
  /\ m \in inFlight
  /\ inFlight' = inFlight \ {m}
  /\ Credit(m)
  /\ UNCHANGED <<fee, authority, sent, minted>>

(* mint_to, by the mint authority.                                         *)
MintTo(c, amount) ==
  /\ authority[c]
  /\ Mint(c, amount)
  /\ minted' = TRUE
  /\ UNCHANGED <<fee, authority, inFlight, sent>>

(* A mistake: the admin may set it again after it was removed.             *)
SetAnyMintAuthority(c, some) ==
  /\ authority' = [authority EXCEPT ![c] = some]
  /\ UNCHANGED <<fee, escrow, outside, supply, inFlight, sent, minted>>

(* set_mint_authority, by the admin or the mint authority, while there is  *)
(* one.                                                                    *)
SetMintAuthority(c, some) ==
  /\ authority[c]
  /\ authority' = [authority EXCEPT ![c] = some]
  /\ UNCHANGED <<fee, escrow, outside, supply, inFlight, sent, minted>>

Next ==
  \/ \E f \in Fee : NextEpoch(f)
  \/ \E c \in Chain : \E dst \in Chain \ {c}, amount \in 0..Total :
       \E minAmount \in {0, amount} : Send(c, dst, amount, minAmount)
  \/ \E m \in inFlight : LzReceive(m)
  \/ \E c \in Native, amount \in 1..Total : MintTo(c, amount)
  \/ \E c \in Native, some \in BOOLEAN : SetMintAuthority(c, some)

Spec == Init /\ [][Next]_vars

-----------------------------------------------------------------------------
(***************************************************************************)
(* Properties.                                                             *)
(***************************************************************************)
(* The escrow covers everything that can come back to it: what is on the   *)
(* way and what is on the other chains, whatever the fee was when it was   *)
(* locked, as long as no mint authority has added to it.  So a message to  *)
(* the adapter can be received whenever it arrives, in any order.          *)
OnTheWay == [m \in inFlight |-> m.amountSd]
Held == [c \in Native |-> Ld2Sd(c, supply[c])]
Abroad == SumFunction(OnTheWay) + SumFunction(Held)
Backed == ~minted => escrow >= Sd2Ld(ADAPTER, Abroad)

(* A transfer costs the sender what is exactly the promised amount after   *)
(* the fee (send.rs:70-71), and never more than the amount given.          *)
FairPrice ==
  \A c \in Chain, amount \in 0..Total :
    /\ PostFeeAmount(c, AmountSent(c, amount)) = AmountReceived(c, amount)
    /\ AmountSent(c, amount) <= amount

(* The supply of a chain whose mint authority has been removed changes by  *)
(* messages only, for ever: "Otherwise, no one can set the mint authority" *)
(* (set_mint_authority.rs:32-34).                                          *)
AuthorityStaysRemoved ==
  [][\A c \in Native : ~authority[c] =>
       ~authority'[c] /\ (supply'[c] # supply[c] => inFlight' # inFlight)]_vars
=============================================================================
