----------------------------- MODULE ReceiveUln -----------------------------
(***************************************************************************)
(* The receiving side of the ULN for one receiver and one remote eid: the  *)
(* admin's default configuration, the OApp's own, one Confirmations account*)
(* per packet and DVN, and the permissionless commit of a packet whose     *)
(* confirmations satisfy the configuration in force at that moment.        *)
(*                                                                         *)
(* A packet stands for its header and payload hash.  The remote chain and  *)
(* what the DVNs see of it are the environment: a packet gets deeper block *)
(* by block, is dropped by a reorganisation until it is Finality blocks    *)
(* deep, and never after.  An honest DVN attests the depth it sees; the    *)
(* others attest whatever they like.                                       *)
(***************************************************************************)
EXTENDS UlnConfig

CONSTANTS
  Honest,          \* the DVNs that attest what they see
  Packet,          \* every packet somebody may attest or commit
  Sendable,        \* the packets the remote chain may include
  Finality,        \* the depth from which the remote chain keeps a packet
  DefaultChoices,  \* the default configurations the admin tries to set
  CustomChoices,   \* the configurations the OApp tries to set
  ABSENT,          \* the account does not exist
  NONE             \* Option::None

ASSUME EnvironmentAssumption ==
  /\ Honest \subseteq Dvn /\ Sendable \subseteq Packet
  /\ Finality \in 1..MaxConfirmations
ASSUME ChoicesAssumption == DefaultChoices \subseteq Config /\ CustomChoices \subseteq Config
ASSUME AccountAssumption == {ABSENT, NONE} \cap Nat = {} /\ ABSENT # NONE /\ ABSENT \notin Config

VARIABLES
  defaultConfig,  \* default ReceiveConfig.uln
  customConfig,   \* ReceiveConfig.uln of the OApp
  confirmations,  \* Confirmations.value of every packet and DVN
  depth,          \* environment: how deep the remote chain holds the packet
  committed,      \* history: the packets committed
  exposed         \* history: those committed under a configuration not Guarded

vars == <<defaultConfig, customConfig, confirmations, depth, committed, exposed>>
configs == <<defaultConfig, customConfig>>
history == <<committed, exposed>>

TypeOK ==
  /\ defaultConfig \in { c \in Config : ValidConfig(c) /\ Literal(c) } \cup {ABSENT}
  /\ customConfig \in { c \in Config : ValidConfig(c) } \cup {ABSENT}
  /\ confirmations \in [Packet -> [Dvn -> Depth \cup {ABSENT, NONE}]]
  /\ depth \in [Packet -> Depth]
  /\ committed \in SUBSET Packet /\ exposed \in SUBSET committed

Init ==
  /\ defaultConfig = ABSENT /\ customConfig = ABSENT
  /\ confirmations = [p \in Packet |-> [d \in Dvn |-> ABSENT]]
  /\ depth = [p \in Packet |-> 0]
  /\ committed = {} /\ exposed = {}

(* local_custom_config: an account that does not exist reads as default(). *)
Custom == IF customConfig = ABSENT THEN NoConfig ELSE customConfig

(* get_receive_config: fails without a default account or without any DVN. *)
HasConfig == defaultConfig # ABSENT /\ UsableConfig(defaultConfig, Custom)
ReceiveConfig == EffectiveConfig(defaultConfig, Custom)

-----------------------------------------------------------------------------
(* init_default_config and set_default_config, signed by the ULN's admin.  *)
InitDefaultConfig(c) ==
  /\ defaultConfig = ABSENT
  /\ ValidDefaultConfig(c)
  /\ defaultConfig' = c
  /\ UNCHANGED <<customConfig, confirmations, depth, history>>

SetDefaultConfig(c) ==
  /\ defaultConfig # ABSENT
  /\ ValidDefaultConfig(c)
  /\ defaultConfig' = c
  /\ UNCHANGED <<customConfig, confirmations, depth, history>>

(* init_config and set_config, called through the endpoint by the delegate *)
(* or the OApp.  set_config reads the merged configuration back as a check.*)
InitConfig ==
  /\ customConfig = ABSENT
  /\ customConfig' = NoConfig
  /\ UNCHANGED <<defaultConfig, confirmations, depth, history>>

SetConfig(c) ==
  /\ customConfig # ABSENT /\ defaultConfig # ABSENT
  /\ ValidConfig(c) /\ UsableConfig(defaultConfig, c)
  /\ customConfig' = c
  /\ UNCHANGED <<defaultConfig, confirmations, depth, history>>

-----------------------------------------------------------------------------
SetConfirmations(p, d, value) ==
  /\ confirmations' = [confirmations EXCEPT ![p][d] = value]
  /\ UNCHANGED <<configs, depth, history>>

(* init_verify: anybody pays for the account of any DVN.                   *)
InitVerify(p, d) == confirmations[p][d] = ABSENT /\ SetConfirmations(p, d, NONE)

(* What a DVN's verification amounts to: honest DVNs report what they see. *)
MayAttest(p, d, conf) == d \in Honest => conf > 0 /\ conf = depth[p]

(* A mistake: the account's DVN need not have signed.                      *)
VerifyUnsigned(p, d, conf) ==
  /\ confirmations[p][d] # ABSENT
  /\ SetConfirmations(p, d, conf)

(* verify: signed by the DVN, overwrites what it attested before.          *)
Verify(p, d, conf) ==
  /\ confirmations[p][d] # ABSENT
  /\ MayAttest(p, d, conf)
  /\ SetConfirmations(p, d, conf)

(* close_verify: signed by the DVN; an honest one collects the rent after  *)
(* the packet was committed.                                               *)
MayClose(p, d) == d \in Honest => p \in committed

CloseVerify(p, d) ==
  /\ confirmations[p][d] # ABSENT
  /\ MayClose(p, d)
  /\ SetConfirmations(p, d, ABSENT)

Verified(p, c) == { d \in Dvn : Confirms(confirmations[p][d], c) }
Verifiable(p) == HasConfig /\ CheckVerifiable(ReceiveConfig, Verified(p, ReceiveConfig))

(* A configuration that does its part: it waits for finality, and at least *)
(* one honest DVN is among any DVNs that satisfy it.                       *)
Guarded(c) ==
  /\ c.confirmations >= Finality
  /\ \/ c.required \cap Honest # {}
     \/ c.threshold > Cardinality(c.optional \ Honest)

(* commit_verification: anybody; the call to the endpoint is composed in   *)
(* module Receive.                                                         *)
CommitVerification(p) ==
  /\ Verifiable(p)
  /\ committed' = committed \cup {p}
  /\ exposed' = IF Guarded(ReceiveConfig) THEN exposed ELSE exposed \cup {p}
  /\ UNCHANGED <<configs, confirmations, depth>>

-----------------------------------------------------------------------------
Deepen(p) ==
  /\ p \in Sendable /\ depth[p] < MaxConfirmations
  /\ depth' = [depth EXCEPT ![p] = @ + 1]
  /\ UNCHANGED <<configs, confirmations, history>>

Reorganise(p) ==
  /\ depth[p] \in 1..(Finality - 1)
  /\ depth' = [depth EXCEPT ![p] = 0]
  /\ UNCHANGED <<configs, confirmations, history>>

DefaultAdmin == \E c \in DefaultChoices : InitDefaultConfig(c) \/ SetDefaultConfig(c)
OAppAdmin == InitConfig \/ \E c \in CustomChoices : SetConfig(c)
DvnStep(p, d) ==
  \/ InitVerify(p, d)
  \/ \E conf \in Depth : Verify(p, d, conf)
  \/ CloseVerify(p, d)
Environment == \E p \in Packet : Deepen(p) \/ Reorganise(p)

Next ==
  \/ DefaultAdmin
  \/ OAppAdmin
  \/ \E p \in Packet, d \in Dvn : DvnStep(p, d)
  \/ \E p \in Packet : CommitVerification(p)
  \/ Environment

Spec == Init /\ [][Next]_vars

(***************************************************************************)
(* Fairness.  The remote chain grows; anybody opens the accounts and       *)
(* commits; an honest DVN attests a depth again and again.  Nobody else    *)
(* has to do anything, and the admins may stop or go on for ever.          *)
(***************************************************************************)
Fairness ==
  \A p \in Packet :
    /\ WF_vars(Deepen(p))
    /\ WF_vars(CommitVerification(p))
    /\ \A d \in Honest :
         /\ WF_vars(InitVerify(p, d))
         /\ WF_vars(\E conf \in Depth : Verify(p, d, conf))

LiveSpec == Spec /\ Fairness
-----------------------------------------------------------------------------
Final(p) == depth[p] >= Finality

(* An attestation that would satisfy a guarded configuration stays true:   *)
(* it was made for a packet that no reorganisation removes any more.       *)
AttestedIsFinal ==
  \A p \in Packet, d \in Honest :
    confirmations[p][d] \in Nat /\ confirmations[p][d] >= Finality => Final(p)

(* Whatever faulty DVNs attest, however confirmations, reorganisations and *)
(* changes of the configurations interleave: a packet committed under a    *)
(* guarded configuration is final on the remote chain.                     *)
CommittedOnlyReal == \A p \in committed \ exposed : Final(p)

(* The inductive invariant behind it.                                      *)
IInv == TypeOK /\ AttestedIsFinal /\ CommittedOnlyReal

(* The configuration in force can be met by its DVNs and not without them: *)
(* no merge of a default and a custom configuration, both valid on their   *)
(* own, asks for nothing or for more optional DVNs than it lists (in which *)
(* case the count down of check_verifiable would not end at zero).         *)
ConfigIsMeetable ==
  HasConfig =>
    /\ ~CheckVerifiable(ReceiveConfig, {})
    /\ CheckVerifiable(ReceiveConfig, ReceiveConfig.required \cup ReceiveConfig.optional)
    /\ Literal(ReceiveConfig)

(* The admin cannot touch what the OApp has pinned, field by field; the    *)
(* threshold goes with its list.                                           *)
PinnedConfigStays ==
  [][DefaultAdmin =>
       /\ Custom.confirmations # 0 => (ReceiveConfig').confirmations = ReceiveConfig.confirmations
       /\ Custom.required # {} => (ReceiveConfig').required = ReceiveConfig.required
       /\ Custom.optional # {} =>
            /\ (ReceiveConfig').optional = ReceiveConfig.optional
            /\ (ReceiveConfig').threshold = ReceiveConfig.threshold]_vars

(* The honest DVNs can satisfy the configuration in force without others.  *)
HonestSuffice == HasConfig /\ CheckVerifiable(ReceiveConfig, Honest)

(* A packet that stays on the remote chain is committed, provided that the *)
(* configuration is, from some time on, one the honest DVNs satisfy and the*)
(* remote chain gets deep enough for: no attestation of a faulty DVN, no   *)
(* early attestation and no account already opened or closed prevents it.  *)
FinalGetsCommitted ==
  \A p \in Sendable : <>[](HonestSuffice /\ Final(p)) => <>(p \in committed)
=============================================================================
