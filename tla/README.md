# LayerZero V2 on Solana: a TLA+ model

LayerZero V2 carries messages between chains. The repository holds one
implementation of the protocol per chain; this project models the Solana one, the
Anchor programs under `src/packages/layerzero-v2/solana/programs`. The other ports
(EVM, Aptos, Initia, IOTA, Sui, TON) implement the same protocol and are not
modelled. Paths below are relative to `solana/programs/programs`.

## Inventory

| Part | State | Operations | Hard behaviour |
|---|---|---|---|
| endpoint: inbound channel (`endpoint/src/instructions/{verify,init_verify}.rs`, `oapp/*.rs`, `state/messaging_channel.rs`) | per path (receiver, source eid, sender): `inbound_nonce`, a sorted list of at most 256 pending nonces, one payload-hash account per nonce; the OApp's registry with its delegate | register_oapp, set_delegate, init_nonce, init_verify, verify, skip, nilify, burn, clear | verifications in any order and again; accounts closed and opened by anybody; skip, nilify and burn racing verification; the list at its limit |
| endpoint: receive libraries (`admin/*receive_library*.rs`, `oapp/*receive_library*.rs`, `verify.rs`) | registered libraries and their types; default and own library of a receiver with an optional timeout | register, init, set and set-timeout, default and own | grace periods against the clock; default and own configuration mixed; who can affect whom |
| endpoint: sending | `outbound_nonce`, default and own send library | send, quote, set libraries | the library changes between quote and send; its failure undoes the nonce |
| endpoint: composed messages | one account per (from, to, guid, index, message) with `received` | send_compose, clear_compose, alerts | delivery at most once |
| endpoint: settings and rent | admin, lz token, lamports of closed accounts | init, transfer_admin, set_lz_token, withdraw_rent | the rent minimum, against accounts closed by three instructions |
| uln: configuration (`uln/src/state/uln.rs`) | default and own `UlnConfig` per eid, for each direction; executor configuration | init and set, default and own | two configurations validated apart and merged field by field |
| uln: verification (`uln/src/instructions/dvn`) | one confirmations account per packet and DVN | init_verify, verify, close_verify, commit_verification | attestations, configuration changes, reorganisations and the commit in any order |
| uln: sending | treasury; send and executor configuration | send, send_with_lz_token, quote, set_treasury, withdraw_rent | quote and send walk the configurations by different code; a DVN in two lists; rounding of the treasury's share |
| dvn | configuration, signers and quorum; replay guards | invoke, close_execute, set_config, extend, withdraw_fee; views `quote`, `verifiable` | replay, expiry, transactions that change the quorum itself |
| executor | owner, admins, executors, lists, prices per eid | execute, compose, native_drop, owner and admin configuration; views `quote`, `executable` | failed delivery turned into an alert; roles taken away meanwhile |
| oft | token configuration, peers with rate limiters, escrow or mint | send, lz_receive, quotes, administration | supply across chains, dust, fees, refill arithmetic |
| pricefeed | prices per eid, price of the native token, denominator | init, set, extend, transfer, set_price, set_sol_price, get_fee | a denominator or price of 0; eids reduced by a modulus on one side only |
| simple-messagelib | admin, a native and a token fee | init, set_fee, transfer_admin, quote, send, withdraw_fees | an alternative to the ULN on a sender's way |
| blocked-messagelib; interfaces, codecs, libs | none | | |

How they interact: a DVN program signs `verify` of the ULN for a packet; anybody
calls `commit_verification`, which reads the receiver's configuration and the
confirmations of its DVNs and calls `verify` of the endpoint in the same transaction,
signed by the ULN as a receive library; the endpoint asks whether that library is valid
for the receiver and writes the hash. An executor then calls the OApp, which calls
`clear` (and possibly `send_compose`) back. Off-chain workers poll two views,
`verifiable` of the DVN program and `executable` of the executor program, which
read the accounts of ULN and endpoint. On the way out, an OApp asks the endpoint's `quote`, which
asks the library's, which asks the executor's and every DVN's, which ask a price feed;
`send` walks the same way again and moves the fees.

What makes each part correct: a channel ends every nonce once and in order, and drops only what
its receiver gave up; libraries and configurations a receiver set are its own; the ULN commits
what is final; a committee decides alone and once; a quote is the price, a receipt adds
up and every worker gets what it asked; messages are numbered without gaps; a message
is credited once and its call made once, whoever delivers and whatever fails; an
OFT's tokens stay backed, within the limits of its peers.

A Solana instruction, with the instructions it calls, runs to its end or has no
effect. So an action is an instruction, a failed `require!` or account constraint a
disabled action, and the concurrency to explore is the order in which different
signers get their transactions in: a caller acts on what it saw some time ago,
and everybody else may have acted since. There is nothing to crash or restart;
what is unreliable is the remote chain and the people.

## Modules

| Module | Models | State |
|---|---|---|
| `Inbox` | the abstract promise of a channel to its receiver | verdict and fate of every nonce |
| `MessagingChannel` | the inbound channel of the endpoint | registry, channel accounts, histories `verdicts` and `fate` |
| `PendingNonces` | the sorted vector behind the channel's set of pending nonces | `inbound_nonce`, the vector |
| `ReceiveLibraries` | receive libraries of the endpoint for several OApps, one eid | clock, registered types, defaults, own libraries, timeouts |
| `UlnConfig` | validation and merge of configurations, `check_verifiable` (operators only) | |
| `ReceiveUln` | configurations, confirmations and commit of the ULN, with the remote chain | configurations, confirmations, depth of every packet, histories `committed` and `exposed` |
| `ExecutionView` | the executor's view, over `MessagingChannel` | |
| `Receive` | all of the receiving side composed (it extends `ReceiveUln`, with instances of the others), and the DVN's view | the three modules' states |
| `DvnMultisig` | the transactions a DVN's committee signs, and the configuration they change | clock, configuration, replay guards, history `executed` |
| `WorkerUtils` | sorted lists, permissions, margins, narrowing to 64 bits (operators only) | |
| `PriceFeed` | price feeds and their three fee models | the account of every feed |
| `ExecutorConfig` | the executor's configuration, by owner and admins | the configuration of every executor |
| `DvnFees` | the half of a DVN's configuration its price depends on | the configuration of every DVN |
| `WorkerFees` | what an executor and a DVN ask (operators only) | |
| `UlnSend` | the ULN's sending half: configurations, treasury, options, jobs, quote, both sends | settings, send configurations |
| `SimpleMessagelib` | the fees of the simple library | its settings |
| `Outbox` | the abstract promise of sending | a log per receiver |
| `Send` | all of the sending side composed, with the endpoint's settings | the five modules' states, endpoint, send libraries, nonces, histories `packets`, `receipt` |
| `Courier` | the abstract promise of delivery | outcome and call of every message |
| `Delivery` | the channel with executors, a receiver that composes, alerts and rents | the channel's state, executors, compose accounts, the endpoint's lamports, histories `withdrawn`, `alerts`, `credits`, `calls` |
| `TokenBucket` | the abstract promise of a rate limiter | a bucket |
| `RateLimiter` | the rate limiter of an OFT's peer | clock, limiter |
| `TransferFee` | the amount that makes up for a token's transfer fee (operators only) | |
| `Oft` | an adapter OFT with several native ones behind unordered messages | fee, escrow, users' tokens, supplies, mint authorities, messages, history `minted` |

`MC*` modules and the `.cfg` files of the same prefix are instances for TLC,
`*Proofs` modules hold the theorems, `Sums` the lemmas about sums they share. An account that does not exist is `ABSENT`. The
channel's accounts appear under the names of their fields: `inboundNonce`,
`pending`, `payloadHash`. In several modules an operator is followed or preceded
by one marked "a mistake": a plausible bug of the code, never used by an action,
which stands ready to replace the operator and show that a property notices.

What is abstracted:

- Hashes are model values; keccak256 maps no message to all-zeroes or all-ones (`HashAssumption`).
- A list of pending nonces is the set of its elements in `MessagingChannel`; `PendingNonces` shows that the vector, with its binary search, walk and drain, does the same.
- A DVN list is a set, since the code only accepts strictly ascending lists; count 0 ("default") is `{}` and count 255 ("nil") is `NIL`.
- Slots, nonces and confirmations are bounded naturals. The code uses u64 with `overflow-checks`, so an overflow fails the instruction and has no effect.
- Account addresses derive from their seeds; an instruction is given the right account or fails. Bumps, payers, events and account sizes are left out.
- In `ReceiveLibraries` the signers are left out (admin, or OApp and delegate); `Receive` requires a registered OApp.
- Codecs and packet headers: a packet is a nonce and a payload hash on one path. The version and eid checks of the commit concern headers of other paths.
- A committee and a list of admins are sets. The contents of a transaction to another program, and signatures as bytes, are left out: a caller has any of the signatures that will ever be made (the constant `Signatures`).
- In `Oft` amounts are u64 and every product is checked (`MAX`); which user has how much, and the SOL paid to the endpoint, are left out. The limiter may refuse a transfer, which changes nothing, so it is modelled apart.
- In `Send` a message is its length: nothing else of it has a price. Options are records of their
  format, decoded into the executor's options; what a DVN is given is never read by the
  code. The guid and the packet's encoding are left out, the sender's delegate is fixed and
  libraries are registered (`MessagingChannel` and `ReceiveLibraries` change and register them).
- A computation that may fail (an error, a division by zero, an overflow) is the set of its
  results, with at most one element. So a quote or a send that fails is an empty set, wherever on the way
  it failed, and a send without a result is a disabled action: that is Solana's rollback.
- An instruction that handles a list of keys or prices one by one is given a list of one.
- A DVN's configuration is split: `DvnMultisig` has the quorum and what it signs, and is
  where who may change it is checked; `DvnFees` has what the price depends on, and its committee
  simply changes it.
- In `Delivery` every rent is 1, and the receiver is the OFT or one like it: `lz_receive` clears,
  credits and may compose, at once or later, even twice. Libraries verify the message that was
  sent; that they do is the subject of `Receive`. On today's Solana a failed inner call aborts the transaction, so
  the branch of `execute` and `compose` that raises the alert is hardly reachable; it is modelled as
  the code has it.

Histories (`verdicts`, `fate`, `committed`, `exposed`, `executed`, `minted`, `packets`, `receipt`,
`withdrawn`, `alerts`, `credits`, `calls`) record what happened for
the properties and guard nothing.

## What each run checks

| Run | Bounds | Shows |
|---|---|---|
| `channel` (`MCMessagingChannel.cfg`) | 3 nonces, window 2, 2 payloads, OApp and 1 delegate | `AtMostOnce`, `OrderedPrefix`, `SkipOnlyUndecided`, `PendingFits`; refinement `ImplementsInbox`; the executor's view: `ExecutionViewIsTrue`, `ViewNeverGoesBack`; liveness: `ChannelDrains`, `NoMessageStuck` |
| `pending_list` (`MCPendingNonces.cfg`) | 12 nonces, window 6 | `SortedAndFits`; refinement `ListIsSet` |
| `receive_libraries` (`MCReceiveLibraries.cfg`) | 2 OApps, 3 libraries, slots 0..2, grace 0..1 | `ValidLibsReceive`, `DefaultHasNoTimeout`, `PinnedOAppKeepsLibs`, `TimeOnlyExpires` |
| `uln` (`MCReceiveUln.cfg`) | 2 honest DVNs and a faulty one, depth 0..2, finality 2, configurations with every kind of field | `CommittedOnlyReal`, `ConfigIsMeetable`, `PinnedConfigStays`; liveness: `FinalGetsCommitted` |
| `receive` (`MCReceive.cfg`) | 1 nonce, 2 libraries, honest and faulty DVN, 2 slots | `PinnedIsAuthentic`, `OnlyReceiverUnpins` |
| `receive_view` (`MCReceiveView.cfg`) | 2 nonces, window 1, 1 library, 1 DVN | `ViewIsTrue` |
| `dvn` (`MCDvnMultisig.cfg`) | 2 honest keys and a compromised one, 2 accounts in lists of at most 2 (libraries: 1); transactions on quorum, signers, admins, lists, another program and another DVN, two of them toggling the same name; times up to 2 | `CommitteeCanSign`, `DenyListIsParity`, `QuorumCanReplaceAdmins`, `ExecutedOnce`, `QuorumDecides` |
| `dvn_admins` (`MCDvnMultisigAdmins.cfg`) | as `dvn` | `AdminsSetByQuorum`, violated: see Findings |
| `rate_limiter` (`MCRateLimiter.cfg`) | amounts and rates 0, 1, 3, 5, times to 6, overflow above 7 | refinement `ImplementsBucket`; `AdminCanRecover` |
| `oft` (`MCOft.cfg`) | 3 chains with 2, 3 and 1 local units to a shared one, one of them with a mint authority, 4 fees, 5 tokens, 3 messages | `Backed`, `FairPrice`, `AuthorityStaysRemoved` |
| `send` (`MCSend.cfg`) | 1 receiver, lengths 4 and 8, 2 sends, 2 DVNs, executor, price feed, ULN, simple library and one that only receives, 3 kinds of price, 4 formats of options, 6 treasuries, offers too low and too high; a start from nothing, from a founded and from a deployed system; at most 7 units of steps, a change of settings counting 3 and a send 2 | `QuoteIsPrice`, `ReceiptAddsUp`, `EveryWorkerIsPaid`, `PinnedSenderDecides`; refinement `ImplementsOutbox` |
| `delivery` (`MCDelivery.cfg`) | 2 nonces, window 2, 2 payloads, 2 workers, values 0 and 1 | `RentIsKept`; refinement `ImplementsCourier`; liveness: `AlertIsNotTheEnd` |

Each `TypeOK` is a theorem and not repeated in the runs. The invariants the proofs are
built on (`PhasesAgree`, `AttestedIsFinal` and the like) and their other consequences (`NoGap`,
`EndsWithVerdict`, `NoVerdictLost`) are theorems and not repeated in the runs.

Why the bounds are enough. A nonce interacts with `inbound_nonce`, with its
neighbours in the list and with the window: with 3 nonces and a window of 2 there is
a nonce below, inside and beyond the window, a gap with a run behind it, and a
full list. Two payloads tell a re-verification from the first one. In
`ReceiveLibraries` three libraries are an old one, a new one and one somebody
else names, three slots a grace period before, at and past its end. In `ReceiveUln`
packets share only the configurations, so one suffices: the remote chain may or
may not include it, so it stands for a genuine and a made-up packet. Three DVNs
give every threshold from 1 to 2 out of 3 with one faulty, and a mixture of required and
optional ones. In `Receive` the single nonce is enough for the trust properties;
the view needs a second, beyond the window.

In `DvnMultisig` one compromised key among three, with different quorums and committees,
makes the committee sound or not, and times 0..2 put an execution before, and a closing at and after, an
expiration. In `Oft` three messages are one out, one onward and one back;
the rates of two of them do not divide each other, and the fees include none, all, a capped and an
uncapped one.

In `Send` the settings are many and each of them matters to one send at a time, so depth is traded
for width: from a deployed system any two changes of any settings, or one change before, between
or after two sends, are explored with every combination of message, options and offer; the other two
starts let every initialising instruction happen. Widths are small: `U64_MAX` is 10^8, above every
fee but below the product of a fee and a share of 10000 bps, so that narrowing can fail; the destination 13 is
priced as 3, the modulus being 10; list lengths are 1 to 3, so that lists are full. In `Delivery` two messages are
one that waits behind another, and two workers leave one when the other loses its role.

Deadlock is not checked: a channel whose nonces have all ended, or a program
nobody calls, may rest.

### Properties worth explaining

- `AtMostOnce` depends on a chain of guards in different instructions. `clear` closes
  the account; `init_verify` is permissionless; only the comparison with
  `inbound_nonce` keeps a delivered nonce from coming back.
- `SkipOnlyUndecided`: `skip` compares with `inbound_nonce` only. That it never
  discards a verified message is because a verified next nonce has always been walked over.
- `PendingFits` is stronger than the capacity of the account: the next nonce never rests
  in the list, so it never holds `Window` elements.
- `CommittedOnlyReal` holds for a configuration that is `Guarded` (waits for finality,
  contains an honest DVN in every set that satisfies it); packets committed under others are
  put in `exposed`. It holds although the configuration may change between
  attestations and commit, because an honest attestation deep enough for a guarded
  configuration is final.
- `ConfigIsMeetable` is where merging could go wrong: the threshold must come from the
  configuration that supplied the optional list.
- `PinnedIsAuthentic` is the end-to-end statement: while a receiver has its own library (with
  no other in a grace period) and its own guarded configuration, no hash that is not final
  on the remote chain is written to its channel, whatever the admins do.
  `OnlyReceiverUnpins` says that only its own accounts can end that state.

- `ExecutedOnce`: `close_execute` deletes what prevents a replay, so everything depends on
  `expiration > now` in one instruction and `expiration <= now` in the other.
- `CommitteeCanSign`: quorum and signers are changed by different transactions, each
  checked against the other value at execution; were they checked when signed, or one only,
  the DVN could be locked for ever.
- `QuorumDecides` assumes fewer compromised members than the quorum (`Sound`) at the
  time of the step. A signature outlives a change of the committee; what counts is
  who is a member at execution.
- `DenyListIsParity`: lists are toggled, not set, so a replayed transaction would not be
  harmless. It ties the list to the history of executions.
- `ImplementsBucket`: the limiter is only updated when used; refinement shows that
  nobody can tell, whatever the admin changes in between.
- `AdminCanRecover`: after long enough, elapsed time times rate overflows and `refill` fails
  in `send` and `lz_receive`. `set_rate_limit` calls it, too, but sets the capacity first,
  which restarts the clock; so both parameters together always succeed.
- `Backed` is about the escrow of the adapter against everything in flight and on other
  chains, while the fee changes between locking and unlocking, as long as nobody mints. It
  implies that a message to the adapter can be received whenever it arrives.
- `ExecutionViewIsTrue`: the view infers from a missing account and a counter what became
  of a nonce; that this is right rests on the same chain of guards as `AtMostOnce`.
- `NoMessageStuck` holds although a library may verify the nonce again for ever and
  others compete for the next one; only nilify may leave a message standing.

- `QuoteIsPrice`: two programs compute a price twice, by different code (the endpoint's and ULN's `quote` and `send`),
  and a difference is a send that fails although it paid what was asked. Stated for every
  state and for all arguments, it is an equality: what was quoted suffices and is exactly what is taken.
  Two quotes in the token are excepted by `Honourable`; see Observations.
- `ReceiptAddsUp` and `EveryWorkerIsPaid` are two sides of a payment: the first bounds it from above, by
  what was offered and by what the payees received together, the second from below, by what each of them
  asked, on each list of the merged configuration.
- `PinnedSenderDecides`: whatever the admins of endpoint and ULN do, a sender that spelt out its
  library, its configuration and its executor gets a quote, and pays its own workers' fees and at most as much again.
- `ImplementsOutbox`: the nonce is incremented before the library is called. Numbers have no gap because a send
  that fails is undone as a whole.
- `ImplementsCourier` composes three accounts that different parties write: the channel's, which the delegate
  may close over the receiver's head, the compose account, and the receiver's own credit. At-most-once of a call
  rests on the account being marked and never closed (`clear_compose.rs`).
- `RentIsKept`: skip, burn and clear each close the account by attributes of their own; what the endpoint collected, and had
  withdrawn, is one rent for every nonce that ended.
- `AlertIsNotTheEnd`: an attempt that failed changes nothing, so a later one succeeds, even if the owner takes the role
  away and returns it for ever.

## Findings

`dvn/src/state/dvn_config.rs` lists `admins` under the comment "set by quorum" (line 33),
before the fields "set by admins" (line 41). In the code the quorum can set them by `invoke`, and
so can any one admin by `set_config` (`AdminConfig::Admins`, `set_config.rs:47`). The run
`dvn_admins` shows it. What the comment's other fields promise holds (`QuorumDecides`), and
`QuorumCanReplaceAdmins` limits the damage: the quorum can take the list back
through anybody. The divergence is one of documentation.

### Observations

No document or test says otherwise, so these are not findings; they are what the model had to say
to be true, and worth knowing.

- `send.rs:103` of the endpoint takes the token's path only if a positive `lz_token_fee` is offered. When the treasury's fee in
  the token is 0 but its native share is not, a quote in the token leaves out both, and a send with exactly that
  quote fails (`Honourable`).
- The treasury's token account is checked against the mint of the endpoint's token when it is used, and not when either is set: after
  `set_lz_token`, quotes in the token still succeed and sends with them fail until the treasury is set again.
- A price feed whose denominator, or whose native price, is set to 0 divides by zero (`get_fee.rs`, `worker_utils.rs`): no message can be
  quoted or sent with its workers until it is set again.
- `get_fee` reduces an eid modulo 30000 and `set_price` does not: a price stored under an unreduced eid is never found.
- `withdraw_fee.rs:20` of the DVN computes the minimum balance from `DvnConfig::INIT_SPACE`, which an extended configuration exceeds.
- `execute` with a value of 0 cannot deliver a message that composes at once: the payer pays the rent of the compose account, and the balance check counts it.

## Fairness

Only `channel` and `uln` (`LiveSpec`) and `delivery` (`LiveDelivery`) assume any, which matters to their liveness
properties alone.

- `MessagingChannel!Fairness`: the receiver's keys register and open the channel;
  `init_verify` is permissionless and a payload for every nonce is eventually
  verified, which the permissionless commit provides for a remote chain whose
  nonces are consecutive; the executor keeps calling the OApp, which clears. Weak
  fairness is enough: once enabled, these stay enabled until they happen or somebody
  else does the same. Nobody has to skip, nilify, burn or verify again, and the
  properties hold even if they do at any time.
- `ReceiveUln!Fairness`: the remote chain goes on; anybody opens accounts and
  commits; an honest DVN attests what it sees, again when that gets deeper. Admins,
  OApps and faulty DVNs may act for ever or not at all, so the property assumes a
  configuration that settles.
- `Delivery!DeliveryFairness`: executors keep trying every message they may execute and every call that is owed. It is
  strong fairness, because the owner may take away and return the role between any two attempts, and nilify
  and re-verification make a message executable on and off; the property assumes
  that there are executors again and again. What makes an attempt succeed or fail is the receiver's business:
  an attempt that fails is an alert, of which there may be any number.

## What is proved

TLAPS checks these for every value of the constants. Every property that a run checks and that is
neither liveness nor written with `ENABLED` is a theorem (but for the one that is refuted). They rest on the named
assumptions next to the constants, which TLC evaluates on the instances:

- numbers are in range (a positive window, a finality within the bound of depths), and model values differ
  from each other;
- accounts that are absent are none of those that are there (`AccountAssumption`, `AbsentAssumption`, the last
  conjuncts of `LibrariesAssumption`);
- sets that are summed or counted are finite: DVNs, chains, everybody who can be paid (`PayeeAssumption`), and a
  treasury's receiver is one of these;
- `Receive` repeats what its parts assume of their constants (`ChannelAssumption`, `LibrariesAssumption`), and that there
  is something to send (`PayloadAssumption`).

### The receiving side

`DeliveryProofs`, first about `MessagingChannel`. `TypeOK` and `PhasesAgree` together are inductive.
None of the properties is on its own: that a nonce does not end twice needs that an
ended nonce has no account and lies at or below `inboundNonce`; that needs that everything
at or below it, or in the list, is decided, and nothing else is (`Phase`); and the walk
preserves that only because the list lies within the window and never holds the next nonce
(`PendingInWindow`). `InsertResolves` says what an insertion does to counter and
list; `StepOnOneNonce` reduces an instruction to the one nonce it touches.
`EndsAtMostOnce`, `NeverJumpsAGap`, `EndsInOrder`, `EndsAreDecided`,
`VerdictsAreKept`, `PendingListFits` follow, and `ChannelImplementsInbox`: under the
mapping "open account: its hash; closed at or below the counter: done; else none",
every instruction is a step of the inbox or leaves it as it is. Of the executor's view, `ExecutedOnlyAfterTheEnd`
and `PollingNeverGoesBack` follow from the same invariant.

`PendingNoncesProofs`. `ListInv` is that the vector strictly ascends, lies above the counter, within the window, and
never starts with the next nonce. `InsertedIs` says what the vector is after an insertion, `InsertionSorts` that the
place which the binary search finds keeps it sorted, `RunEnds` how far the walk gets, and `ListStep` puts them
together. The walk takes off the longest prefix of consecutive nonces, which is what the set of
`MessagingChannel` loses. `ListsStaySorted` and `ListsAreSets`: that the channel's model has a set is no
simplification.

`ReceiveLibrariesProofs`. Stored libraries and timeouts name registered receive libraries
(`StoredLibsReceive`), which with `TypeOK` is inductive, because a registration
never changes. `OnlyReceiveLibrariesVerify`, `NoLeftoverTimeout`, `PinnedOAppsKeepLibs`,
`TimeGrantsNothing`.

`ReceiveProofs`, first about `ReceiveUln`. `TypeOK`, `AttestedIsFinal` and `CommittedOnlyReal` together
are inductive; `HonestAmongVerified` is the counting argument: a threshold above the number of
faulty optional DVNs cannot be met without an honest one. `GuardedCommitsAreReal`,
`ConfigsAreMeetable`, `PinnedConfigsStay`.

Then the composition `Receive`. `ImplementsUln`, `ImplementsLibraries` and `ImplementsChannel` say that each step of
the whole is a step of each part or leaves it alone, so that what is proved of a part holds of the whole, whatever
the other parts do: a message is delivered at most once, in order and only if verified under any DVNs and libraries, and
only registered libraries verify. `PinnedMessagesAreAuthentic` joins them: while a receiver is pinned, the
libraries' invariant leaves the ULN as the only valid library, what the ULN's invariant says of attestations makes a
packet it commits final, and no other instruction of the channel adds a payload to the verdicts.
`OnlyReceiverUnpinsItself`: the configuration in force of a receiver that left nothing to the default is its own.

`DeliveryProofs` again, about `Delivery`. `DeliveryInv` is the channel's invariant, `Linked` (what was credited has ended on the channel; a
compose account exists for credited messages only, and tells whether the call was made) and
`RentIsKept`. An instruction ends one nonce or none (`ResolveEnds`, `PrepareEndsNothing`), and the count of ended nonces grows by
the number of closed accounts. `RentsAreKept` and `DeliveryImplementsCourier`.

`CreditsFollowTheChannel` joins the two
halves of `Delivery`: a credit is for the message that ended its nonce (`CreditedAsSent`), and the channel's theorems say that
this message was verified and that all lower nonces had their turn.

What is proved of a part is brought to `Receive` by instantiating the module that proves it: `Inbound` is `DeliveryProofs` with the
receiver's channel, `Validity` is `ReceiveLibrariesProofs` with one receiver. The assumptions of those modules
follow from those of `Receive` (`InboundAssumptions`, `ValidityAssumptions`), and their specifications from `ReceiveSpec`
(`InboundSpec`, `ValiditySpec`). So `ReceiverIsPromised` states of the whole what five theorems state of a channel;
`ReceiverHasAnInbox` gives the whole the refinement of `Inbox`; and `VerdictsComeFromReceiveLibraries`
ties a verdict of the channel to a library that `ReceiveLibraries` calls valid.

With these the authenticity of a commit reaches the delivery. `PinningSecuresDelivery`: a receiver that pins itself when all
that was verified so far is genuine, and stays pinned, is delivered genuine messages only, for as long as that lasts.
A step of a pinned receiver adds genuine payloads to the verdicts (`PinnedIsAuthentic`); a genuine packet remains so, because
only packets that are not final can be reorganised away (`GenuineStays`); and what is delivered is among
the verdicts (`DeliveredWereVerified`). `PinnedFromTheStart` is the case without history: before there is a channel there are no verdicts
(`ChannelFirst`), so a receiver that was pinned first needs no other hypothesis.

### The sending side

`Sums` is a library of facts about the sum over a finite set of the community modules, on which the proofs about money
rest: what a sum is when an element is added, removed or changed, when two sets or two functions are added, and that
it is as large as each of its summands if none is negative. The sum is defined by a recursive function, so this is
where induction would be needed. It is replaced by a smallest counterexample: the natural numbers are well-founded
(`WFMin` of the library), so are finite sets under inclusion by their cardinality (`LeastFiniteSet`), and a set
of which a fact fails while it holds of all its strict subsets leads to a contradiction by `SumChosen`.

`SendProofs`. `SendImplementsOutbox`: the packets of a receiver are numbered 1 to the counter
(`OutboxInv`), and a send adds the next number to one receiver's. `WorkersGetTheirFees`: stored configurations
are valid (`SendConfigOK`), so whoever is hired is a DVN; a job is counted for every list it is in, and every fee comes
from a quote. `AQuoteIsHonoured`: a section of lemmas shows that every computation, from the price feed up, has at most one
result, so that quote and send see the same fees; then one lemma for each way of paying, and for each library.
`ReceiptsAddUp`: what every account receives is what it is paid for its jobs, and for one the treasury's share, so the total is the
workers' fees and the share, which `Covers` compared with the offer. `PinnedSendersDecide`: the effective configuration of a
sender that spelt everything out is its own, so the workers are; the fees of its DVNs are the sum over the union of both lists and
once more over what they share; and the treasury's share is at most as much, because a stored treasury is valid.

### Workers and OFT

`DvnMultisigProofs`. `TypeOK` with `CommitteeCanSign` and the history's relation to the
guards (an executed transaction has its guard, or has expired) is inductive. `NoReplay`,
`CommitteesCanSign`, and `SoundCommitteeDecides`, which counts signatures: a quorum larger
than the number of compromised members contains an honest one. `DenyListCounts`: the transactions that toggle an account, among those
executed, grow by one exactly when the list changes for it; this needs that a transaction is executed
once, since one that ran again would toggle without adding to the history.

`OftProofs`. `PreFeeExact`: an amount covers another after the fee if and only if
it is at least the pre-fee amount; the arithmetic of rounding up is in `CeilDivLeast` and `Solved`.
`PreFeeIsExact` and `PreFeeIsLeast` follow, and from them `TransfersArePricedFairly` for every chain
and every fee. `RemovedAuthorityStaysRemoved` needs that messages are numbered as they are
sent, so that a send is visible (`Numbered`). `TypeCorrect` bounds every balance. `EscrowCoversEverything` is a sum: abroad is
what is under way and what is held, a send adds a message to the first (a new one, by `Numbered`) and takes
it from the second or adds to the escrow, a delivery does the opposite; dust and fees stay behind on the safe side.
`ArrivalsArePaid` draws the conclusion for a single message, which is one summand of what is under way: the escrow can pay it,
in whatever order messages arrive and whatever the fee has become. Once somebody has minted it need not be so: minted tokens can be sent home as well.

The rate limiter, in the same module. `LimiterTypeOK` (tokens within capacity, last refill in the past) is
inductive; `LimiterImplementsBucket` maps every use to the bucket's step and a tick of the
clock to a second, under the level that an update would compute now.

### Guards instead of ENABLED

Four properties say that an instruction is possible, which needs `ENABLED`, and that is out of the prover's reach. For
each of them the instruction's guard is stated as a predicate of its own; a lemma (`ClearIsGuarded`, `CommitIsGuarded`,
`ReplaceIsGuarded`, `SetRateLimitIsGuarded`) proves that the action is that guard together with
assignments to every variable, which is what makes it possible; and a theorem proves the property of the guard:
`ExecutableIsClearable`, `ViewsAreRight`, `QuorumIsHeard`, `AdminsRecover`. TLC checks the properties as they
stand: `ExecutionViewIsTrue`, `ViewIsTrue`, `QuorumCanReplaceAdmins`, `AdminCanRecover`.

In the same way three theorems state the step on which a liveness property rests, with nothing assumed about
fairness: that the step which must be taken is possible, and that it helps.

- `ChannelNeverWedges`, for `ChannelDrains`: while a nonce is left, the next one can be opened or, when it is open, verified;
  verifying it moves `inboundNonce` on, and no step moves it back. What fills the list of pending nonces, or was nilified
  or skipped, can therefore not wedge a channel.
- `FaultyDvnsCannotBlock`, for `FinalGetsCommitted`: when the honest DVNs satisfy the configuration in force and have attested a packet, no
  attestation or withdrawal of a faulty one stands against it (`VerifiableIsMonotonic`). It asks more of the instruction than the
  run does, because it includes what the endpoint demands: a valid library, an account, room in the window.
- `ExecutorsCanDeliver`, for `AlertIsNotTheEnd`: whatever alerts there were, an executor meets every demand of a
  verified message whose turn has come, if it brings what the receiver's program charges.

### Only model-checked

Liveness as such: `ChannelDrains`, `NoMessageStuck`, `FinalGetsCommitted`, `AlertIsNotTheEnd`, that is, that fair actors do take
the steps above and that these suffice. And that the guards above are `ENABLED`.

## Plan

Done: the receiving side, the DVN's committee, OFT, the sending side, delivery and composed calls, each with its
instance and its theorems. Left, in this order:

1. `Send` and `Receive` composed through a network that loses, repeats and reorders, refining an abstract channel
   between two OApps. Both ends exist (`Outbox` is the one, `Courier` the other); what is missing is the middle, where
   `ReceiveUln`'s remote chain becomes the packets of `Send`.
2. `Delivery` over `Receive` instead of a channel alone. The two ends of it are proved: what a pinned receiver is delivered is
   genuine (`PinningSecuresDelivery`), and what is credited is what was delivered (`CreditsFollowTheChannel`).
3. The OFT's peers and enforced options between a send and its receipt.

## Not modelled

- `native_drop` of the executor: transfers and an event; nothing is remembered, so nothing keeps an executor from
  repeating a drop, and there is nothing to check.
- `withdraw_rent` of the ULN, `withdraw_fee` of the DVN and `withdraw_fees` of the simple library: a bounded transfer out of an account. Only of
  the endpoint's is the balance tied to other instructions (`RentIsKept`); what the others receive is in `receipt`, once per send.
- The simple library's `validate_packet` and configurations, which trust one caller: they stand behind another library that verifies
  what it likes in `Receive`. The blocked library only answers `version`: every call into it fails, as a call of
  `Send` into a library of neither kind does.
- Settings of an OFT (admin, peers, enforced options, delegate) and its views, other than rate limits and the mint authority.
- Interfaces, codecs and CPI helpers, which hold no state; `anchor-latest`, a copy of the Solana interfaces.
- The ports to other chains (EVM, Aptos, Initia, IOTA, Sui, TON), which implement the same protocol.
- Serialisation, account allocation, compute limits and events.
