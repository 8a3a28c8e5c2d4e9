---------------------------- MODULE DvnMultisig ----------------------------
(***************************************************************************)
(* The multisig of a DVN program.  A committee signs transactions off      *)
(* chain; `invoke` executes one that a quorum has signed and leaves an     *)
(* account named after its hash, so that it is not executed again; once    *)
(* the transaction has expired, an admin may close that account.  Some of  *)
(* the transactions change the committee, the quorum or the admins         *)
(* themselves.                                                             *)
(*                                                                         *)
(* What the quorum and the admins want is their business.  The keys in     *)
(* Compromised sign anything at any time; the others sign what they like.  *)
(* A signature is good for ever, so it may as well be there from the       *)
(* beginning: it is up to the callers when they use it.                    *)
(*                                                                         *)
(* Left out: price feed, multiplier and destination configurations, which  *)
(* only matter to `quote_dvn`, and the lamports that withdraw_fee pays.    *)
(***************************************************************************)
EXTENDS Integers, Sequences, FiniteSets

CONSTANTS
  Key,             \* signing keys
  Compromised,     \* those whose owner cannot be trusted
  Account,         \* admins, OApps and message libraries
  Digest,          \* the ExecuteTransactionDigests there are
  Signatures,      \* the honest keys that sign each of them
  InitParams,      \* the parameters init_dvn may be called with
  VID,             \* the vid in them
  MaxTime,         \* bound: times 0..MaxTime
  ADMINS_MAX_LEN, SIGNERS_MAX_LEN, ACL_MAX_LEN, MSGLIBS_MAX_LEN,
  ABSENT           \* the account does not exist

(* What a transaction does: a MultisigConfig when program_id is the DVN    *)
(* itself, or an instruction of another program.  The vector of signers    *)
(* and of admins is a set: a repeated signer is refused, a repeated admin  *)
(* changes nothing.                                                        *)
Call ==
  [kind : {"Admins"}, admins : SUBSET Account]
    \cup [kind : {"Allowlist", "Denylist", "Msglibs"}, toggles : Seq(Account)]
    \cup [kind : {"Paused"}, paused : BOOLEAN]
    \cup [kind : {"Quorum"}, quorum : Nat]
    \cup [kind : {"Signers"}, signers : SUBSET Key]
    \cup [kind : {"Other"}]

ASSUME KeyAssumption == IsFiniteSet(Key) /\ Compromised \subseteq Key
ASSUME BoundsAssumption ==
  /\ {MaxTime, ADMINS_MAX_LEN, SIGNERS_MAX_LEN, ACL_MAX_LEN, MSGLIBS_MAX_LEN} \subseteq Nat
  /\ ABSENT \notin Nat
ASSUME DigestAssumption ==
  Digest \subseteq [vid : Nat, expiration : Nat, call : Call]
ASSUME SignaturesAssumption ==
  Signatures \in [Digest -> SUBSET (Key \ Compromised)]
ASSUME InitParamsAssumption ==
  InitParams \subseteq [signers : SUBSET Key, quorum : Nat,
                        admins : SUBSET Account, msglibs : Seq(Account)]

VARIABLES
  now,             \* Clock::get()?.unix_timestamp
  config,          \* DvnConfig
  executeHash,     \* ExecuteHash.expiration of every digest
  executed         \* history: the digests that have been executed

vars == <<now, config, executeHash, executed>>

(* The lists are within the space of the account.                          *)
AtMost(maxLen) == {list \in SUBSET Account : Cardinality(list) <= maxLen}
DvnConfig ==
  [signers : SUBSET Key, quorum : Nat, paused : BOOLEAN,
   admins : AtMost(ADMINS_MAX_LEN), msglibs : AtMost(MSGLIBS_MAX_LEN),
   allowList : AtMost(ACL_MAX_LEN), denyList : AtMost(ACL_MAX_LEN)]

(* An absent account is no configuration.                                  *)
ASSUME AbsentAssumption == ABSENT \notin DvnConfig

TypeOK ==
  /\ now \in 0..MaxTime
  /\ config \in DvnConfig \cup {ABSENT}
  /\ executeHash \in [Digest -> Nat \cup {ABSENT}]
  /\ executed \subseteq Digest

Init ==
  /\ now = 0
  /\ config = ABSENT
  /\ executeHash = [d \in Digest |-> ABSENT]
  /\ executed = {}

-----------------------------------------------------------------------------
AdvanceTime ==
  /\ now < MaxTime
  /\ now' = now + 1
  /\ UNCHANGED <<config, executeHash, executed>>

-----------------------------------------------------------------------------
(***************************************************************************)
(* Helpers.  A list is changed by naming accounts: each is inserted if it  *)
(* is not there and removed if it is.                                      *)
(***************************************************************************)
(* A mistake: an account that is in the list stays.                        *)
Inserted(list, names, n) == list \cup {names[i] : i \in 1..n}

Occurrences(a, names, n) == Cardinality({i \in 1..n : names[i] = a})
Toggled(list, names, n) ==
  {a \in Account : (a \in list) # (Occurrences(a, names, n) % 2 = 1)}

(* A mistake: room is looked for with <= instead of <.                     *)
FitsOneMore(list, names, maxLen) ==
  \A n \in 1..Len(names) : Cardinality(Toggled(list, names, n)) <= maxLen + 1

(* No insertion along the way overflows the list.                          *)
Fits(list, names, maxLen) ==
  \A n \in 1..Len(names) : Cardinality(Toggled(list, names, n)) <= maxLen

(* A mistake: the quorum may exceed the committee.                         *)
SignersNotEmpty(signers, quorum) ==
  Cardinality(signers) \in 1..SIGNERS_MAX_LEN /\ quorum > 0

SanityCheck(signers, quorum) ==
  /\ Cardinality(signers) \in 1..SIGNERS_MAX_LEN
  /\ quorum \in 1..Cardinality(signers)

(* A mistake: somebody who signs twice counts twice.                       *)
VerifyRepeated(d) ==
  config.signers \cap (Signatures[d] \cup Compromised) # {}

(* The caller passes as many distinct signatures of current signers as the *)
(* quorum demands; a compromised key signs when asked.                     *)
VerifySignatures(d) ==
  Cardinality(config.signers \cap (Signatures[d] \cup Compromised)) >= config.quorum

-----------------------------------------------------------------------------
InitDvn(params) ==
  /\ config = ABSENT
  /\ SanityCheck(params.signers, params.quorum)
  /\ Cardinality(params.admins) <= ADMINS_MAX_LEN
  /\ Fits({}, params.msglibs, MSGLIBS_MAX_LEN)
  /\ config' = [signers |-> params.signers, quorum |-> params.quorum,
                admins |-> params.admins, paused |-> FALSE,
                allowList |-> {}, denyList |-> {},
                msglibs |-> Toggled({}, params.msglibs, Len(params.msglibs))]
  /\ UNCHANGED <<now, executeHash, executed>>

(* MultisigConfig::apply.                                                  *)
SetAdmins(call) ==
  /\ call.kind = "Admins"
  /\ Cardinality(call.admins) <= ADMINS_MAX_LEN
  /\ config' = [config EXCEPT !.admins = call.admins]

SetAllowlist(call) ==
  /\ call.kind = "Allowlist"
  /\ Fits(config.allowList, call.toggles, ACL_MAX_LEN)
  /\ config' = [config EXCEPT !.allowList = Toggled(@, call.toggles, Len(call.toggles))]

SetDenylist(call) ==
  /\ call.kind = "Denylist"
  /\ Fits(config.denyList, call.toggles, ACL_MAX_LEN)
  /\ config' = [config EXCEPT !.denyList = Toggled(@, call.toggles, Len(call.toggles))]

SetMsglibs(call) ==
  /\ call.kind = "Msglibs"
  /\ Fits(config.msglibs, call.toggles, MSGLIBS_MAX_LEN)
  /\ config' = [config EXCEPT !.msglibs = Toggled(@, call.toggles, Len(call.toggles))]

SetPaused(call) ==
  /\ call.kind = "Paused"
  /\ config' = [config EXCEPT !.paused = call.paused]

SetQuorum(call) ==
  /\ call.kind = "Quorum"
  /\ SanityCheck(config.signers, call.quorum)
  /\ config' = [config EXCEPT !.quorum = call.quorum]

SetSigners(call) ==
  /\ call.kind = "Signers"
  /\ SanityCheck(call.signers, config.quorum)
  /\ config' = [config EXCEPT !.signers = call.signers]

(* The DVN's configuration goes into the call read-only, so it is as it    *)
(* was when the other program returns.                                     *)
CallOtherProgram(call) ==
  /\ call.kind = "Other"
  /\ UNCHANGED config

(* A mistake: the quorum needs an admin to replace the admins.             *)
AdminCalls(account, call) == account \in config.admins

(* Only a transaction that sets the admins needs no admin to submit it.    *)
MayCall(account, call) == call.kind # "Admins" => account \in config.admins

Invoke(account, d) ==
  /\ config # ABSENT
  /\ d.vid = VID
  /\ d.expiration > now
  /\ VerifySignatures(d)
  /\ executeHash[d] = ABSENT
  /\ executeHash' = [executeHash EXCEPT ![d] = d.expiration]
  /\ MayCall(account, d.call)
  /\ \/ SetAdmins(d.call)
     \/ SetAllowlist(d.call)
     \/ SetDenylist(d.call)
     \/ SetMsglibs(d.call)
     \/ SetPaused(d.call)
     \/ SetQuorum(d.call)
     \/ SetSigners(d.call)
     \/ CallOtherProgram(d.call)
  /\ executed' = executed \cup {d}
  /\ UNCHANGED now

(* A mistake: the account may be closed while the transaction is good.     *)
CloseAnyExecute(account, d) ==
  /\ config # ABSENT
  /\ account \in config.admins
  /\ executeHash[d] # ABSENT
  /\ executeHash' = [executeHash EXCEPT ![d] = ABSENT]
  /\ UNCHANGED <<now, config, executed>>

CloseExecute(account, d) ==
  /\ config # ABSENT
  /\ account \in config.admins
  /\ executeHash[d] # ABSENT
  /\ executeHash[d] <= now
  /\ executeHash' = [executeHash EXCEPT ![d] = ABSENT]
  /\ UNCHANGED <<now, config, executed>>

(* set_config with AdminConfig::Admins: any one admin.                     *)
AdminSetsAdmins(account, admins) ==
  /\ config # ABSENT
  /\ account \in config.admins
  /\ Cardinality(admins) <= ADMINS_MAX_LEN
  /\ config' = [config EXCEPT !.admins = admins]
  /\ UNCHANGED <<now, executeHash, executed>>

-----------------------------------------------------------------------------
Next ==
  \/ AdvanceTime
  \/ \E params \in InitParams : InitDvn(params)
  \/ \E account \in Account, d \in Digest : Invoke(account, d)
  \/ \E account \in Account, d \in Digest : CloseExecute(account, d)
  \/ \E account \in Account, admins \in SUBSET Account : AdminSetsAdmins(account, admins)

Spec == Init /\ [][Next]_vars

-----------------------------------------------------------------------------
(***************************************************************************)
(* Properties.                                                             *)
(***************************************************************************)
Executes(d) == executeHash[d] = ABSENT /\ executeHash'[d] # ABSENT

(* A transaction is executed at most once, although the account that       *)
(* remembers it is closed after it expired: invoke accepts it before its   *)
(* expiration only, close_execute from its expiration on.                  *)
NoneAgain == \A d \in executed : ~Executes(d)
ExecutedOnce == [][NoneAgain]_vars

(* The committee can always sign: a change of the quorum and a change of   *)
(* the signers, each checked against the other value at the time it is     *)
(* executed and in any order, leave a quorum that exists.                  *)
CommitteeCanSign ==
  config # ABSENT => config.quorum \in 1..Cardinality(config.signers)

(* While fewer compromised keys are in the committee than the quorum, no   *)
(* transaction is executed that no honest key ever signed, and what the    *)
(* quorum sets (multisig, lists, paused) changes by an execution only,     *)
(* whatever the admins do.                                                 *)
Sound ==
  config # ABSENT /\ Cardinality(config.signers \cap Compromised) < config.quorum
SetByQuorum(c) == <<c.signers, c.quorum, c.paused, c.allowList, c.denyList, c.msglibs>>
SignedOrSame ==
  Sound => /\ \A d \in Digest : Executes(d) => Signatures[d] # {}
           /\ SetByQuorum(config') # SetByQuorum(config) => \E d \in Digest : Executes(d)
QuorumDecides == [][SignedOrSame]_vars

(* An account is in the deny list when it was named an odd number of times *)
(* by the transactions executed so far: a list is toggled, so a            *)
(* transaction executed twice would undo itself.                           *)
TimesDenied(a) ==
  Cardinality(UNION {{<<d, i>> : i \in {j \in DOMAIN d.call.toggles : d.call.toggles[j] = a}} :
                     d \in {e \in executed : e.call.kind = "Denylist"}})
DenyListIsParity ==
  config # ABSENT => config.denyList = {a \in Account : TimesDenied(a) % 2 = 1}

(* Whoever the admins are, anybody may submit a transaction by which the   *)
(* quorum replaces them, until it expires or has been executed.            *)
QuorumCanReplaceAdmins ==
  \A d \in Digest \ executed :
    /\ config # ABSENT
    /\ d.vid = VID /\ d.expiration > now
    /\ d.call.kind = "Admins" /\ Cardinality(d.call.admins) <= ADMINS_MAX_LEN
    /\ Cardinality(config.signers \cap Signatures[d]) >= config.quorum
    => \A account \in Account : ENABLED Invoke(account, d)

(* dvn_config.rs:33 lists the admins among the fields "set by quorum".     *)
AdminsSetByQuorum ==
  [][config # ABSENT /\ config'.admins # config.admins => \E d \in Digest : Executes(d)]_vars
=============================================================================
