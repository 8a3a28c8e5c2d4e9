---------------------------- MODULE ReceiveProofs ----------------------------
(***************************************************************************)
(* Proofs about the receiving side, for every set of DVNs, packets,        *)
(* libraries and choices of configurations.                                *)
(*                                                                         *)
(* First the ULN alone: a packet committed under a guarded configuration   *)
(* is final on the remote chain.  An honest DVN attests Finality           *)
(* confirmations only of a packet that is Finality deep (AttestedIsFinal), *)
(* which stays so; and the DVNs that satisfy a guarded configuration       *)
(* include an honest one (HonestAmongVerified), by counting.               *)
(*                                                                         *)
(* Then the composition: it implements each of its three parts, so what is *)
(* proved of a part holds of the whole; and a receiver that has pinned its *)
(* security is told of final packets only, until it unpins itself.  Both   *)
(* together: what it is delivered is genuine.                              *)
(*                                                                         *)
(* Last what the programs let happen: the DVN's view, and that the honest  *)
(* DVNs get a packet in without the others.                                *)
(***************************************************************************)
EXTENDS Receive, FiniteSetTheorems, TLAPS

-----------------------------------------------------------------------------
(* The merge of a default and a custom configuration is literal.           *)
LEMMA EffectiveTyped ==
  ASSUME NEW default \in Config, Literal(default), NEW custom \in Config
  PROVE  /\ EffectiveConfig(default, custom).confirmations \in Depth
         /\ EffectiveConfig(default, custom).required \in SUBSET Dvn
         /\ EffectiveConfig(default, custom).optional \in SUBSET Dvn
         /\ EffectiveConfig(default, custom).threshold \in Nat
<1>1. /\ default.confirmations \in Depth \cup {NIL} /\ custom.confirmations \in Depth \cup {NIL}
      /\ default.required \in (SUBSET Dvn) \cup {NIL} /\ custom.required \in (SUBSET Dvn) \cup {NIL}
      /\ default.optional \in (SUBSET Dvn) \cup {NIL} /\ custom.optional \in (SUBSET Dvn) \cup {NIL}
      /\ default.threshold \in 0..Cardinality(Dvn) /\ custom.threshold \in 0..Cardinality(Dvn)
  BY DEF Config
<1>2. /\ default.confirmations \in Depth
      /\ default.required \in SUBSET Dvn /\ default.optional \in SUBSET Dvn
  <2>1. default.confirmations # NIL /\ default.required # NIL /\ default.optional # NIL
    BY SMT DEF Literal
  <2> QED  BY <1>1, <2>1, Zenon
<1>3. default.threshold \in Nat /\ custom.threshold \in Nat
  BY <1>1, FS_CardinalityType, DvnAssumption
<1>4. MergeConfirmations(default.confirmations, custom.confirmations) \in Depth
  BY <1>1, <1>2, ConfirmationsAssumption, NilAssumption DEF MergeConfirmations, Depth
<1>5. /\ MergeDvns(default.required, custom.required) \in SUBSET Dvn
      /\ MergeDvns(default.optional, custom.optional) \in SUBSET Dvn
  BY <1>1, <1>2 DEF MergeDvns
<1>6. MergeThreshold(default, custom) \in Nat
  BY <1>3 DEF MergeThreshold
<1> QED  BY <1>4, <1>5, <1>6 DEF EffectiveConfig

(* An honest DVN is among any DVNs that satisfy a guarded configuration.   *)
LEMMA HonestAmongVerified ==
  ASSUME NEW c, c.optional \in SUBSET Dvn, c.threshold \in Nat,
         Guarded(c), NEW verified, CheckVerifiable(c, verified)
  PROVE  verified \cap Honest # {}
<1>1. CASE c.required \cap Honest # {}
  BY <1>1 DEF CheckVerifiable
<1>2. CASE c.threshold > Cardinality(c.optional \ Honest)
  <2>1. IsFiniteSet(c.optional \ Honest) /\ IsFiniteSet(c.optional \cap verified)
    BY FS_Subset, DvnAssumption
  <2>2. /\ Cardinality(c.optional \ Honest) \in Nat
        /\ Cardinality(c.optional \cap verified) \in Nat
    BY <2>1, FS_CardinalityType
  <2>3. Cardinality(c.optional \cap verified) > Cardinality(c.optional \ Honest)
    BY <1>2, <2>2 DEF CheckVerifiable
  <2>4. ~(c.optional \cap verified \subseteq c.optional \ Honest)
    BY <2>1, <2>2, <2>3, FS_Subset
  <2> QED  BY <2>4
<1> QED  BY <1>1, <1>2 DEF Guarded

(* What is in force when a packet is committed.                            *)
LEMMA ConfigInForce ==
  ASSUME TypeOK, HasConfig
  PROVE  /\ ReceiveConfig.confirmations \in Nat
         /\ ReceiveConfig.optional \in SUBSET Dvn
         /\ ReceiveConfig.threshold \in Nat
<1>1. NoConfig \in Config
  BY ConfirmationsAssumption, FS_CardinalityType, DvnAssumption DEF NoConfig, Config, Depth
<1>2. defaultConfig \in Config /\ Literal(defaultConfig)
  BY DEF TypeOK, HasConfig
<1>3. Custom \in Config
  BY <1>1 DEF Custom, TypeOK
<1> QED  BY <1>2, <1>3, EffectiveTyped, ConfirmationsAssumption DEF ReceiveConfig, Depth

-----------------------------------------------------------------------------
LEMMA InitIInv == ASSUME Init PROVE IInv
<1>1. TypeOK
  BY ConfirmationsAssumption DEF Init, TypeOK, Depth
<1>2. AttestedIsFinal
  BY AccountAssumption, EnvironmentAssumption DEF Init, AttestedIsFinal
<1> QED  BY <1>1, <1>2 DEF Init, IInv, CommittedOnlyReal

(* What changes one confirmation and nothing else preserves the invariant, *)
(* when an honest DVN's new value is no more than the depth.               *)
LEMMA ConfirmationStep ==
  ASSUME IInv, NEW p \in Packet, NEW d \in Dvn, NEW value \in Depth \cup {ABSENT, NONE},
         SetConfirmations(p, d, value),
         d \in Honest /\ value \in Nat => value = depth[p]
  PROVE  IInv'
<1>1. TypeOK'
  BY DEF IInv, TypeOK, SetConfirmations, configs, history
<1>2. AttestedIsFinal'
  <2> SUFFICES ASSUME NEW q \in Packet, NEW e \in Honest,
                      confirmations'[q][e] \in Nat, confirmations'[q][e] >= Finality
               PROVE  Final(q)'
    BY DEF AttestedIsFinal
  <2>1. e \in Dvn
    BY EnvironmentAssumption
  <2>2. CASE q = p /\ e = d
    <3>1. confirmations'[q][e] = value
      BY <2>1, <2>2 DEF IInv, TypeOK, SetConfirmations
    <3> QED  BY <2>2, <3>1 DEF Final, SetConfirmations
  <2>3. CASE ~(q = p /\ e = d)
    <3>1. confirmations'[q][e] = confirmations[q][e]
      BY <2>1, <2>3 DEF IInv, TypeOK, SetConfirmations
    <3> QED  BY <3>1 DEF IInv, AttestedIsFinal, Final, SetConfirmations
  <2> QED  BY <2>2, <2>3
<1>3. CommittedOnlyReal'
  BY DEF IInv, CommittedOnlyReal, Final, SetConfirmations, history
<1> QED  BY <1>1, <1>2, <1>3 DEF IInv

(* What changes the configurations only preserves the invariant.           *)
LEMMA ConfigStep ==
  ASSUME IInv, TypeOK', UNCHANGED <<confirmations, depth, history>>
  PROVE  IInv'
BY DEF IInv, AttestedIsFinal, CommittedOnlyReal, Final, history

(* The remote chain makes a final packet no less final.                    *)
LEMMA DepthStep ==
  ASSUME IInv, NEW p \in Packet, Deepen(p) \/ Reorganise(p)
  PROVE  IInv'
<1> USE DEF IInv, TypeOK, Depth
<1>1. depth' \in [Packet -> Depth]
  BY ConfirmationsAssumption DEF Deepen, Reorganise
<1>2. \A q \in Packet : Final(q) => Final(q)'
  BY EnvironmentAssumption, ConfirmationsAssumption DEF Deepen, Reorganise, Final
<1>3. UNCHANGED <<defaultConfig, customConfig, confirmations, committed, exposed>>
  BY DEF Deepen, Reorganise, configs, history
<1> QED  BY <1>1, <1>2, <1>3 DEF AttestedIsFinal, CommittedOnlyReal

(* A commit under a guarded configuration is of a final packet.            *)
LEMMA CommitIsReal ==
  ASSUME IInv, NEW p \in Packet, Verifiable(p), Guarded(ReceiveConfig)
  PROVE  Final(p)
<1>1. TypeOK /\ HasConfig /\ CheckVerifiable(ReceiveConfig, Verified(p, ReceiveConfig))
  BY DEF Verifiable, IInv
<1>2. PICK d \in Honest : d \in Verified(p, ReceiveConfig)
  BY <1>1, ConfigInForce, HonestAmongVerified
<1>3. /\ confirmations[p][d] \in Nat
      /\ confirmations[p][d] >= ReceiveConfig.confirmations
  BY <1>2 DEF Verified, Confirms
<1>4. ReceiveConfig.confirmations \in Nat /\ ReceiveConfig.confirmations >= Finality
  BY <1>1, ConfigInForce DEF Guarded
<1>5. confirmations[p][d] >= Finality
  BY <1>3, <1>4, EnvironmentAssumption, ConfirmationsAssumption
<1> QED  BY <1>3, <1>5 DEF IInv, AttestedIsFinal

LEMMA CommitStep == ASSUME IInv, NEW p \in Packet, CommitVerification(p) PROVE IInv'
<1>1. TypeOK'
  BY DEF IInv, TypeOK, CommitVerification, configs
<1>2. AttestedIsFinal'
  BY DEF IInv, AttestedIsFinal, Final, CommitVerification
<1>3. CommittedOnlyReal'
  <2>1. CASE Guarded(ReceiveConfig)
    <3>1. Final(p)
      BY <2>1, CommitIsReal DEF CommitVerification
    <3> QED  BY <2>1, <3>1 DEF IInv, CommittedOnlyReal, Final, CommitVerification
  <2>2. CASE ~Guarded(ReceiveConfig)
    BY <2>2 DEF IInv, CommittedOnlyReal, Final, CommitVerification
  <2> QED  BY <2>1, <2>2
<1> QED  BY <1>1, <1>2, <1>3 DEF IInv

LEMMA StepIInv == ASSUME IInv, [Next]_vars PROVE IInv'
<1>1. ASSUME DefaultAdmin PROVE IInv'
  <2>1. PICK c \in DefaultChoices : InitDefaultConfig(c) \/ SetDefaultConfig(c)
    BY <1>1 DEF DefaultAdmin
  <2>2. c \in Config /\ ValidConfig(c) /\ Literal(c)
    BY <2>1, ChoicesAssumption DEF InitDefaultConfig, SetDefaultConfig, ValidDefaultConfig
  <2>3. UNCHANGED <<customConfig, confirmations, depth, history>> /\ defaultConfig' = c
    BY <2>1 DEF InitDefaultConfig, SetDefaultConfig
  <2>4. TypeOK'
    BY <2>2, <2>3 DEF IInv, TypeOK, history
  <2> QED  BY <2>3, <2>4, ConfigStep
<1>2. ASSUME OAppAdmin PROVE IInv'
  <2>1. NoConfig \in Config /\ ValidConfig(NoConfig)
    <3>1. NoConfig \in Config
      BY ConfirmationsAssumption, FS_CardinalityType, DvnAssumption DEF NoConfig, Config, Depth
    <3> QED  BY <3>1 DEF NoConfig, ValidConfig, ValidThreshold, Unset
  <2>2. PICK c \in Config : ValidConfig(c) /\ customConfig' = c
    BY <1>2, <2>1, ChoicesAssumption DEF OAppAdmin, InitConfig, SetConfig
  <2>3. UNCHANGED <<defaultConfig, confirmations, depth, history>>
    BY <1>2 DEF OAppAdmin, InitConfig, SetConfig
  <2>4. TypeOK'
    BY <2>2, <2>3 DEF IInv, TypeOK, history
  <2> QED  BY <2>3, <2>4, ConfigStep
<1>3. ASSUME NEW p \in Packet, NEW d \in Dvn, DvnStep(p, d) PROVE IInv'
  <2>1. CASE InitVerify(p, d) \/ CloseVerify(p, d)
    BY <2>1, ConfirmationStep, AccountAssumption DEF InitVerify, CloseVerify
  <2>2. ASSUME NEW conf \in Depth, Verify(p, d, conf) PROVE IInv'
    BY <2>2, ConfirmationStep DEF Verify, MayAttest
  <2> QED  BY <1>3, <2>1, <2>2 DEF DvnStep
<1>4. ASSUME NEW p \in Packet, CommitVerification(p) PROVE IInv'
  BY <1>4, CommitStep
<1>5. ASSUME Environment PROVE IInv'
  BY <1>5, DepthStep DEF Environment
<1>6. ASSUME UNCHANGED vars PROVE IInv'
  BY <1>6 DEF vars, IInv, TypeOK, AttestedIsFinal, CommittedOnlyReal, Final
<1> QED  BY <1>1, <1>2, <1>3, <1>4, <1>5, <1>6 DEF Next

-----------------------------------------------------------------------------
(* The invariant holds in every reachable state.                           *)
THEOREM InductiveInvariant == Spec => []IInv
<1>1. Init => IInv
  BY InitIInv
<1>2. IInv /\ [Next]_vars => IInv'
  BY StepIInv
<1> QED  BY <1>1, <1>2, PTL DEF Spec

(* The stored configurations are valid and every account holds a value of  *)
(* its type.                                                               *)
THEOREM TypeCorrect == Spec => []TypeOK
<1>1. IInv => TypeOK
  BY DEF IInv
<1> QED  BY <1>1, InductiveInvariant, PTL

(* Faulty DVNs, reorganisations, early attestations and changes of the     *)
(* configurations in any order do not get a packet committed that is not   *)
(* final, as long as the configuration in force at the commit is guarded.  *)
THEOREM GuardedCommitsAreReal == Spec => []CommittedOnlyReal
<1>1. IInv => CommittedOnlyReal
  BY DEF IInv
<1> QED  BY <1>1, InductiveInvariant, PTL

-----------------------------------------------------------------------------
(* Merging keeps a threshold together with the list it was checked with.   *)
LEMMA EffectiveThreshold ==
  ASSUME NEW default \in Config, Literal(default), ValidThreshold(default),
         NEW custom \in Config, ValidThreshold(custom),
         NEW c, c = EffectiveConfig(default, custom)
  PROVE  /\ c.threshold <= Cardinality(c.optional)
         /\ c.threshold > 0 <=> c.optional # {}
<1>1. /\ c.threshold = MergeThreshold(default, custom)
      /\ c.optional = MergeDvns(default.optional, custom.optional)
  BY DEF EffectiveConfig
<1>2. default.optional # NIL
  BY DEF Literal
<1>3. default.threshold \in 0..Cardinality(Dvn) /\ custom.threshold \in 0..Cardinality(Dvn)
  BY DEF Config
<1>4. NIL # {} /\ Cardinality({}) = 0
  BY NilAssumption, FS_EmptySet
<1>5. CASE custom.optional = {}
  BY <1>1, <1>2, <1>3, <1>4, <1>5 DEF MergeThreshold, MergeDvns, ValidThreshold, Unset
<1>6. CASE custom.optional = NIL
  BY <1>1, <1>4, <1>6 DEF MergeThreshold, MergeDvns
<1>7. CASE custom.optional \notin {NIL, {}}
  BY <1>1, <1>3, <1>7 DEF MergeThreshold, MergeDvns, ValidThreshold, Unset
<1> QED  BY <1>5, <1>6, <1>7

(* A merged configuration with at least one DVN is met by all its DVNs and *)
(* by nothing less than one.                                               *)
LEMMA MeetableByItsDvns ==
  ASSUME NEW c, c.required \in SUBSET Dvn, c.optional \in SUBSET Dvn, c.threshold \in Nat,
         AtLeastOneDvn(c), c.threshold <= Cardinality(c.optional)
  PROVE  /\ ~CheckVerifiable(c, {})
         /\ CheckVerifiable(c, c.required \cup c.optional)
<1>1. IsFiniteSet(c.optional) /\ Cardinality(c.optional) \in Nat
  BY FS_Subset, FS_CardinalityType, DvnAssumption
<1>2. ~CheckVerifiable(c, {})
  <2>1. c.optional \cap {} = {} /\ Cardinality({}) = 0
    BY FS_EmptySet
  <2> QED  BY <2>1 DEF CheckVerifiable
<1>3. CheckVerifiable(c, c.required \cup c.optional)
  <2>1. c.optional \cap (c.required \cup c.optional) = c.optional
    OBVIOUS
  <2> QED  BY <1>1, <2>1 DEF CheckVerifiable, AtLeastOneDvn
<1> QED  BY <1>2, <1>3

(* The configuration in force can always be met by its own DVNs, never     *)
(* without any, and is literal.                                            *)
THEOREM ConfigsAreMeetable == Spec => []ConfigIsMeetable
<1>1. TypeOK => ConfigIsMeetable
  <2> SUFFICES ASSUME TypeOK, HasConfig
               PROVE  /\ ~CheckVerifiable(ReceiveConfig, {})
                      /\ CheckVerifiable(ReceiveConfig,
                                         ReceiveConfig.required \cup ReceiveConfig.optional)
                      /\ Literal(ReceiveConfig)
    BY DEF ConfigIsMeetable
  <2>1. defaultConfig \in Config /\ Literal(defaultConfig) /\ ValidThreshold(defaultConfig)
    BY DEF TypeOK, HasConfig, ValidConfig
  <2>2. Custom \in Config /\ ValidThreshold(Custom)
    <3>1. NoConfig \in Config
      BY ConfirmationsAssumption, FS_CardinalityType, DvnAssumption DEF NoConfig, Config, Depth
    <3>2. ValidThreshold(NoConfig)
      BY DEF NoConfig, ValidThreshold, Unset
    <3> QED  BY <3>1, <3>2 DEF Custom, TypeOK, ValidConfig
  <2>3. /\ ReceiveConfig.confirmations \in Depth
        /\ ReceiveConfig.required \in SUBSET Dvn /\ ReceiveConfig.optional \in SUBSET Dvn
        /\ ReceiveConfig.threshold \in Nat
    BY <2>1, <2>2, EffectiveTyped DEF ReceiveConfig
  <2>4. ReceiveConfig.threshold <= Cardinality(ReceiveConfig.optional)
    BY <2>1, <2>2, EffectiveThreshold DEF ReceiveConfig
  <2>5. AtLeastOneDvn(ReceiveConfig)
    BY DEF HasConfig, UsableConfig, ReceiveConfig
  <2>6. Literal(ReceiveConfig)
    BY <2>3, NilAssumption, ConfirmationsAssumption DEF Literal, Depth
  <2> QED  BY <2>3, <2>4, <2>5, <2>6, MeetableByItsDvns
<1> QED  BY <1>1, TypeCorrect, PTL

(* The ULN's admin cannot change what an OApp has pinned.                  *)
THEOREM PinnedConfigsStay == Spec => PinnedConfigStays
<1>1. ASSUME DefaultAdmin
      PROVE  /\ Custom.confirmations # 0 =>
                  (ReceiveConfig').confirmations = ReceiveConfig.confirmations
             /\ Custom.required # {} => (ReceiveConfig').required = ReceiveConfig.required
             /\ Custom.optional # {} =>
                  /\ (ReceiveConfig').optional = ReceiveConfig.optional
                  /\ (ReceiveConfig').threshold = ReceiveConfig.threshold
  <2>1. Custom' = Custom
    BY <1>1 DEF DefaultAdmin, InitDefaultConfig, SetDefaultConfig, Custom
  <2> QED
    BY <2>1 DEF ReceiveConfig, EffectiveConfig, MergeConfirmations, MergeDvns, MergeThreshold
<1> QED  BY <1>1, PTL DEF Spec, PinnedConfigStays

-----------------------------------------------------------------------------
(***************************************************************************)
(* The composition implements its parts.                                   *)
(***************************************************************************)

(* Every step of the whole is a step of the ULN or leaves it alone.        *)
LEMMA UlnStepOrNone == ASSUME [ReceiveNext]_receiveVars PROVE [Next]_vars
<1>1. CASE ChannelStep \/ LibraryStep
  BY <1>1 DEF ChannelStep, LibraryStep
<1>2. CASE UlnStep
  BY <1>2 DEF UlnStep, Next
<1>3. ASSUME NEW p \in Packet, CommitAndVerify(p[1], p[2]) PROVE Next
  <2>1. p = <<p[1], p[2]>>
    BY PacketAssumption
  <2> QED  BY <1>3, <2>1 DEF CommitAndVerify, Next
<1>4. ASSUME NEW l \in Lib, NEW p \in Packet, OtherLibraryVerifies(l, p[1], p[2])
      PROVE  UNCHANGED vars
  BY <1>4 DEF OtherLibraryVerifies
<1>5. CASE UNCHANGED receiveVars
  BY <1>5 DEF receiveVars
<1> QED  BY <1>1, <1>2, <1>3, <1>4, <1>5 DEF ReceiveNext

(* ... of the receive libraries ...                                        *)
LEMMA LibrariesStepOrNone ==
  ASSUME [ReceiveNext]_receiveVars PROVE [Libraries!Next]_libraryVars
<1>1. CASE ChannelStep \/ UlnStep
  BY <1>1 DEF ChannelStep, UlnStep
<1>2. CASE LibraryStep
  BY <1>2 DEF LibraryStep, Libraries!Next
<1>3. ASSUME NEW p \in Packet, CommitAndVerify(p[1], p[2]) PROVE UNCHANGED libraryVars
  BY <1>3 DEF CommitAndVerify
<1>4. ASSUME NEW l \in Lib, NEW p \in Packet, OtherLibraryVerifies(l, p[1], p[2])
      PROVE  UNCHANGED libraryVars
  BY <1>4 DEF OtherLibraryVerifies
<1>5. CASE UNCHANGED receiveVars
  BY <1>5 DEF receiveVars
<1> QED  BY <1>1, <1>2, <1>3, <1>4, <1>5 DEF ReceiveNext

(* ... and of the channel.                                                 *)
LEMMA ChannelStepOrNone ==
  ASSUME [ReceiveNext]_receiveVars PROVE [Channel!Next]_channelVars
<1>1. CASE UlnStep \/ LibraryStep
  BY <1>1 DEF LibraryStep, UlnStep
<1>2. CASE ChannelStep
  BY <1>2 DEF ChannelStep, Channel!Next
<1>3. ASSUME NEW p \in Packet, NEW l \in Lib, EndpointVerify(l, p[1], p[2]) PROVE Channel!Next
  <2>1. p[1] \in Channel!Nonce /\ p[2] \in Channel!Hash
    BY PacketAssumption DEF Channel!Nonce, Channel!Hash
  <2> QED  BY <1>3, <2>1 DEF EndpointVerify, Channel!Next
<1>4. CASE UNCHANGED receiveVars
  BY <1>4 DEF receiveVars
<1> QED
  BY <1>1, <1>2, <1>3, <1>4, UlnAssumption DEF ReceiveNext, CommitAndVerify, OtherLibraryVerifies

(* The ULN inside the composition behaves as ReceiveUln says.              *)
THEOREM ImplementsUln == ReceiveSpec => Spec
<1>1. ReceiveInit => Init
  BY DEF ReceiveInit
<1>2. [ReceiveNext]_receiveVars => [Next]_vars
  BY UlnStepOrNone
<1> QED  BY <1>1, <1>2, PTL DEF ReceiveSpec, Spec

(* The receive libraries behave as ReceiveLibraries says.                  *)
THEOREM ImplementsLibraries == ReceiveSpec => Libraries!Spec
<1>1. ReceiveInit => Libraries!Init
  BY DEF ReceiveInit
<1>2. [ReceiveNext]_receiveVars => [Libraries!Next]_(Libraries!vars)
  BY LibrariesStepOrNone DEF Libraries!vars, libraryVars
<1> QED  BY <1>1, <1>2, PTL DEF ReceiveSpec, Libraries!Spec

(* The channel behaves as MessagingChannel says: a message is delivered at *)
(* most once, in order, and only if verified, whatever the ULN's DVNs, the *)
(* other libraries and the admins do.                                      *)
THEOREM ImplementsChannel == ReceiveSpec => Channel!Spec
<1>1. ReceiveInit => Channel!Init
  BY DEF ReceiveInit
<1>2. [ReceiveNext]_receiveVars => [Channel!Next]_(Channel!vars)
  BY ChannelStepOrNone DEF Channel!vars, channelVars
<1> QED  BY <1>1, <1>2, PTL DEF ReceiveSpec, Channel!Spec

-----------------------------------------------------------------------------
(***************************************************************************)
(* A pinned receiver.                                                      *)
(***************************************************************************)

(* The part of the parts' types that the proofs below need.                *)
VerdictsTyped == verdicts \in [Channel!Nonce -> SUBSET (Payload \cup {NIL})]
GraceTyped ==
  /\ slot \in Nat
  /\ DOMAIN timeout = {Receiver}
  /\ timeout[Receiver] # NONE => timeout[Receiver].expiry \in Nat

LEMMA VerdictsTypedStep ==
  ASSUME VerdictsTyped, [Channel!Next]_channelVars PROVE VerdictsTyped'
<1> USE DEF VerdictsTyped
<1>1. ASSUME NEW n \in Channel!Nonce, NEW h \in Channel!Hash, Channel!Verify(n, h)
      PROVE  VerdictsTyped'
  BY <1>1 DEF Channel!Verify, Channel!VerifiableHash, Channel!Hash
<1>2. ASSUME NEW n \in Channel!Nonce, NEW signer, NEW h, Channel!Nilify(signer, n, h)
      PROVE  VerdictsTyped'
  BY <1>2 DEF Channel!Nilify
<1>3. ASSUME UNCHANGED verdicts PROVE VerdictsTyped'
  BY <1>3
<1>4. ASSUME NEW n \in Channel!Nonce, NEW signer, Channel!Resolve(signer, n)
      PROVE  VerdictsTyped'
  BY <1>2, <1>3, <1>4 DEF Channel!Resolve, Channel!Skip, Channel!Burn, Channel!Clear
<1>5. CASE UNCHANGED channelVars
  BY <1>3, <1>5 DEF channelVars
<1> QED
  BY <1>1, <1>3, <1>4, <1>5 DEF Channel!Next, Channel!RegisterOApp, Channel!SetDelegate,
     Channel!InitNonce, Channel!InitVerify

LEMMA GraceTypedStep ==
  ASSUME GraceTyped, [Libraries!Next]_libraryVars PROVE GraceTyped' /\ slot' >= slot
<1> USE LibrariesAssumption DEF GraceTyped
<1>1. ASSUME Libraries!AdvanceSlot PROVE GraceTyped' /\ slot' >= slot
  BY <1>1 DEF Libraries!AdvanceSlot
<1>2. ASSUME UNCHANGED <<slot, timeout>> PROVE GraceTyped' /\ slot' >= slot
  BY <1>2
<1>3. ASSUME NEW t, t # NONE => t.expiry \in Nat, slot' = slot,
             timeout' = [timeout EXCEPT ![Receiver] = t]
      PROVE  GraceTyped' /\ slot' >= slot
  BY <1>3
<1>4. ASSUME NEW o \in {Receiver}, Libraries!OAppStep(o) PROVE GraceTyped' /\ slot' >= slot
  <2>1. CASE Libraries!InitReceiveLibrary(o)
    BY <1>3, <2>1 DEF Libraries!InitReceiveLibrary
  <2>2. ASSUME NEW l, NEW grace \in 0..MaxGrace, Libraries!SetReceiveLibrary(o, l, grace)
        PROVE  GraceTyped' /\ slot' >= slot
    <3>1. Libraries!GraceTimeout(lib[o], grace) # NONE =>
            Libraries!GraceTimeout(lib[o], grace).expiry \in Nat
      BY DEF Libraries!GraceTimeout
    <3> QED  BY <1>3, <2>2, <3>1 DEF Libraries!SetReceiveLibrary
  <2>3. ASSUME NEW l, NEW expiry \in Libraries!Expiry,
               Libraries!SetReceiveLibraryTimeout(o, l, expiry)
        PROVE  GraceTyped' /\ slot' >= slot
    <3>1. Libraries!ExpiryTimeout(l, expiry) # NONE =>
            Libraries!ExpiryTimeout(l, expiry).expiry \in Nat
      BY DEF Libraries!ExpiryTimeout, Libraries!Expiry
    <3> QED  BY <1>3, <2>3, <3>1 DEF Libraries!SetReceiveLibraryTimeout
  <2> QED  BY <1>4, <2>1, <2>2, <2>3 DEF Libraries!OAppStep
<1>5. ASSUME Libraries!AdminStep PROVE GraceTyped' /\ slot' >= slot
  BY <1>2, <1>5 DEF Libraries!AdminStep, Libraries!RegisterLibrary,
     Libraries!InitDefaultReceiveLibrary, Libraries!SetDefaultReceiveLibrary,
     Libraries!SetDefaultReceiveLibraryTimeout
<1>6. CASE UNCHANGED libraryVars
  BY <1>2, <1>6 DEF libraryVars
<1> QED  BY <1>1, <1>4, <1>5, <1>6 DEF Libraries!Next

(* What the whole relies on of its parts.                                  *)
ReceiveIInv == IInv /\ VerdictsTyped /\ GraceTyped

(* It holds in every reachable state.                                      *)
THEOREM ReceiveInvariant == ReceiveSpec => []ReceiveIInv
<1>1. ReceiveInit => ReceiveIInv
  <2>1. ReceiveInit => IInv
    BY InitIInv DEF ReceiveInit
  <2>2. ReceiveInit => VerdictsTyped
    BY DEF ReceiveInit, Channel!Init, VerdictsTyped
  <2>3. ReceiveInit => GraceTyped
    BY DEF ReceiveInit, Libraries!Init, GraceTyped
  <2> QED  BY <2>1, <2>2, <2>3 DEF ReceiveIInv
<1>2. ReceiveIInv /\ [ReceiveNext]_receiveVars => ReceiveIInv'
  BY StepIInv, UlnStepOrNone, VerdictsTypedStep, ChannelStepOrNone, GraceTypedStep,
     LibrariesStepOrNone DEF ReceiveIInv
<1> QED  BY <1>1, <1>2, PTL DEF ReceiveSpec

(* Only the ULN is valid for a pinned receiver.                            *)
LEMMA OnlyUlnVerifies ==
  ASSUME Pinned, NEW l \in Lib, ValidReceiveLibrary(l) PROVE l = UlnLib
<1>1. lib[Receiver] # DEFAULT
  BY UlnAssumption, LibrariesAssumption DEF Pinned
<1> QED
  BY <1>1 DEF Pinned, ValidReceiveLibrary, Libraries!IsValidReceiveLibrary, Libraries!Expected

(* What verify may add to the verdicts.                                    *)
LEMMA VerifyAdds ==
  ASSUME VerdictsTyped, NEW n \in Channel!Nonce, NEW h, Channel!Verify(n, h),
         NEW m \in Channel!Nonce, NEW v \in verdicts'[m] \ verdicts[m]
  PROVE  m = n /\ v = h
BY DEF VerdictsTyped, Channel!Verify

(* The other instructions of the channel add NIL only.                     *)
LEMMA OthersAddNil ==
  ASSUME VerdictsTyped, ChannelStep,
         NEW m \in Channel!Nonce, NEW v \in verdicts'[m] \ verdicts[m]
  PROVE  v = NIL
<1>1. ASSUME UNCHANGED verdicts PROVE FALSE
  BY <1>1
<1>2. ASSUME NEW signer, NEW n \in Channel!Nonce, NEW h, Channel!Nilify(signer, n, h)
      PROVE  v = NIL
  BY <1>2 DEF Channel!Nilify, VerdictsTyped
<1>3. ASSUME NEW signer, NEW n \in Channel!Nonce, Channel!Resolve(signer, n) PROVE v = NIL
  BY <1>1, <1>2, <1>3 DEF Channel!Resolve, Channel!Skip, Channel!Burn, Channel!Clear
<1> QED
  BY <1>1, <1>3 DEF ChannelStep, Channel!RegisterOApp, Channel!SetDelegate, Channel!InitNonce,
     Channel!InitVerify

(* While a receiver is pinned, every message that gets a verdict is final  *)
(* on the remote chain, whatever the admins of the endpoint and the ULN,   *)
(* the faulty DVNs and the other libraries do.                             *)
THEOREM PinnedMessagesAreAuthentic == ReceiveSpec => PinnedIsAuthentic
<1>1. ASSUME ReceiveIInv, [ReceiveNext]_receiveVars, Pinned, NEW n \in Channel!Nonce,
             NEW h \in (verdicts'[n] \ verdicts[n]) \cap Payload
      PROVE  Final(<<n, h>>)
  <2>1. VerdictsTyped /\ IInv
    BY <1>1 DEF ReceiveIInv
  <2>2. ASSUME UNCHANGED verdicts PROVE FALSE
    BY <1>1, <2>2
  <2>3. CASE ChannelStep
    BY <1>1, <2>1, <2>3, OthersAddNil, ChannelAssumption
  <2>4. ASSUME NEW p \in Packet, CommitAndVerify(p[1], p[2]) PROVE Final(<<n, h>>)
    <3>1. p[1] \in Channel!Nonce /\ p = <<p[1], p[2]>>
      BY PacketAssumption DEF Channel!Nonce
    <3>2. n = p[1] /\ h = p[2]
      BY <1>1, <2>1, <2>4, <3>1, VerifyAdds DEF CommitAndVerify, EndpointVerify
    <3>3. Verifiable(p)
      BY <2>4, <3>1 DEF CommitAndVerify, CommitVerification
    <3> QED  BY <1>1, <2>1, <3>1, <3>2, <3>3, CommitIsReal DEF Pinned
  <2>5. ASSUME NEW l \in Lib, NEW p \in Packet, OtherLibraryVerifies(l, p[1], p[2]) PROVE FALSE
    BY <1>1, <2>5, OnlyUlnVerifies DEF OtherLibraryVerifies, EndpointVerify
  <2>6. CASE LibraryStep \/ UlnStep \/ UNCHANGED receiveVars
    BY <2>2, <2>6 DEF LibraryStep, UlnStep, receiveVars, channelVars
  <2> QED  BY <1>1, <2>3, <2>4, <2>5, <2>6 DEF ReceiveNext
<1>2. ReceiveIInv /\ [ReceiveNext]_receiveVars =>
        (Pinned => \A n \in Channel!Nonce : Authentic(n))
  BY <1>1 DEF Authentic
<1> QED  BY <1>2, ReceiveInvariant, PTL DEF ReceiveSpec, PinnedIsAuthentic

(* A configuration that leaves nothing to the default is not merged.       *)
LEMMA FullCustomConfig ==
  ASSUME NEW default, NEW other, NEW custom,
         custom.confirmations # 0, custom.required # {}, custom.optional # {}
  PROVE  EffectiveConfig(default, custom) = EffectiveConfig(other, custom)
BY DEF EffectiveConfig, MergeConfirmations, MergeDvns, MergeThreshold

(* Time and the admins cannot unpin a receiver.                            *)
THEOREM OnlyReceiverUnpinsItself == ReceiveSpec => OnlyReceiverUnpins
<1>1. ASSUME ReceiveIInv, [ReceiveNext]_receiveVars, Pinned,
             UNCHANGED <<lib, timeout, customConfig>>
      PROVE  Pinned'
  <2>1. lib[Receiver] # DEFAULT
    BY <1>1, UlnAssumption, LibrariesAssumption DEF Pinned
  <2>2. slot \in Nat /\ slot' \in Nat /\ slot' >= slot
    BY <1>1, LibrariesStepOrNone, GraceTypedStep DEF ReceiveIInv, GraceTyped
  <2>3. \A l \in Lib \ {UlnLib} : ~Libraries!InGrace(Receiver, l)'
    BY <1>1, <2>1, <2>2 DEF Pinned, ReceiveIInv, GraceTyped, Libraries!InGrace,
       Libraries!TimeoutFor
  <2>4. ReceiveConfig' = ReceiveConfig
    BY <1>1, FullCustomConfig DEF Pinned, ReceiveConfig, Custom
  <2> QED  BY <1>1, <2>3, <2>4 DEF Pinned, Guarded
<1>2. ReceiveIInv /\ [ReceiveNext]_receiveVars =>
        (Pinned /\ UNCHANGED <<lib, timeout, customConfig>> => Pinned')
  BY <1>1
<1> QED  BY <1>2, ReceiveInvariant, PTL DEF ReceiveSpec, OnlyReceiverUnpins

-----------------------------------------------------------------------------
(***************************************************************************)
(* What is proved of the parts, of the whole.  DeliveryProofs is about one *)
(* channel and its deliveries; the deliveries do not matter here, and its  *)
(* theorems about Spec, the channel alone, do not mention their variables. *)
(***************************************************************************)
AnyMessage == [n \in 1..MaxNonce |-> CHOOSE h \in Payload : TRUE]

Inbound == INSTANCE DeliveryProofs WITH
  OApp <- Receiver, Message <- AnyMessage, Worker <- {}, Value <- {},
  executors <- {}, composeMessage <- {}, surplus <- 0, withdrawn <- 0,
  alerts <- {}, credits <- {}, calls <- {}

Validity == INSTANCE ReceiveLibrariesProofs WITH OApp <- {Receiver}

LEMMA InboundAssumptions ==
  /\ Inbound!MaxNonceAssumption /\ Inbound!WindowAssumption
  /\ Inbound!HashAssumption /\ Inbound!SignerAssumption
  /\ Inbound!MessageAssumption /\ Inbound!ValueAssumption
BY ChannelAssumption, PayloadAssumption
DEF AnyMessage, Inbound!MaxNonceAssumption, Inbound!WindowAssumption, Inbound!HashAssumption,
    Inbound!SignerAssumption, Inbound!MessageAssumption, Inbound!ValueAssumption, Inbound!Nonce

LEMMA ValidityAssumptions == Validity!BoundsAssumption /\ Validity!LibAssumption
BY LibrariesAssumption DEF Validity!BoundsAssumption, Validity!LibAssumption

(* The two names of the channel's actions mean the same.                   *)
LEMMA InboundNext == Channel!Next <=> Inbound!Next
BY DEF Channel!Nonce, Inbound!Nonce, Channel!Hash, Inbound!Hash,
       Channel!accounts, Inbound!accounts, Channel!Open, Inbound!Open,
       Channel!Signers, Inbound!Signers, Channel!RegisterOApp, Inbound!RegisterOApp,
       Channel!SetDelegate, Inbound!SetDelegate, Channel!InitNonce, Inbound!InitNonce,
       Channel!Authorized, Inbound!Authorized,
       Channel!UpdateInboundNonce, Inbound!UpdateInboundNonce,
       Channel!InWindow, Inbound!InWindow,
       Channel!InsertPendingInboundNonce, Inbound!InsertPendingInboundNonce,
       Channel!ResolveIfNew, Inbound!ResolveIfNew,
       Channel!Initializable, Inbound!Initializable,
       Channel!InitVerify, Inbound!InitVerify,
       Channel!VerifiableHash, Inbound!VerifiableHash, Channel!Verify, Inbound!Verify,
       Channel!Skippable, Inbound!Skippable, Channel!Matches, Inbound!Matches,
       Channel!Executable, Inbound!Executable, Channel!Close, Inbound!Close,
       Channel!Skip, Inbound!Skip, Channel!Nilify, Inbound!Nilify,
       Channel!Burn, Inbound!Burn, Channel!Clear, Inbound!Clear,
       Channel!Resolve, Inbound!Resolve, Channel!Next, Inbound!Next

LEMMA InboundSpec == ReceiveSpec => Inbound!Spec
<1>1. ReceiveInit => Inbound!Init
  BY DEF ReceiveInit, Channel!Init, Inbound!Init, Channel!Nonce, Inbound!Nonce
<1>2. [ReceiveNext]_receiveVars => [Inbound!Next]_(Inbound!vars)
  BY InboundNext, ChannelStepOrNone DEF Inbound!vars, channelVars
<1> QED  BY <1>1, <1>2, PTL DEF ReceiveSpec, Inbound!Spec

(* And those of the libraries' actions.                                    *)
LEMMA ValidityNext == Libraries!Next <=> Validity!Next
BY DEF Libraries!Type, Validity!Type, Libraries!Expiry, Validity!Expiry,
       Libraries!AdvanceSlot, Validity!AdvanceSlot,
       Libraries!RegisterLibrary, Validity!RegisterLibrary,
       Libraries!CanReceive, Validity!CanReceive,
       Libraries!GraceTimeout, Validity!GraceTimeout,
       Libraries!ExpiryTimeout, Validity!ExpiryTimeout,
       Libraries!ValidExpiry, Validity!ValidExpiry,
       Libraries!InitDefaultReceiveLibrary, Validity!InitDefaultReceiveLibrary,
       Libraries!SetDefaultReceiveLibrary, Validity!SetDefaultReceiveLibrary,
       Libraries!SetDefaultReceiveLibraryTimeout, Validity!SetDefaultReceiveLibraryTimeout,
       Libraries!InitReceiveLibrary, Validity!InitReceiveLibrary,
       Libraries!GraceAllowed, Validity!GraceAllowed,
       Libraries!SetReceiveLibrary, Validity!SetReceiveLibrary,
       Libraries!SetReceiveLibraryTimeout, Validity!SetReceiveLibraryTimeout,
       Libraries!AdminStep, Validity!AdminStep, Libraries!OAppStep, Validity!OAppStep,
       Libraries!Next, Validity!Next

LEMMA ValiditySpec == ReceiveSpec => Validity!Spec
<1>1. ReceiveInit => Validity!Init
  BY DEF ReceiveInit, Libraries!Init, Validity!Init
<1>2. [ReceiveNext]_receiveVars => [Validity!Next]_(Validity!vars)
  BY ValidityNext, LibrariesStepOrNone DEF Validity!vars, libraryVars
<1> QED  BY <1>1, <1>2, PTL DEF ReceiveSpec, Validity!Spec

(* What the channel promises.                                              *)
ChannelPromises ==
  /\ Channel!AtMostOnce /\ Channel!OrderedPrefix
  /\ Channel!EndsWithVerdict /\ Channel!SkipOnlyUndecided
  /\ Channel!NoVerdictLost /\ Channel!PendingFits

(* Whatever libraries verify for a receiver, and whatever its delegates and*)
(* the admins do meanwhile: every nonce ends at most once and in order, a  *)
(* message is delivered only if a library verified it, a skip throws none  *)
(* away, and a verified one is not lost.                                   *)
THEOREM ReceiverIsPromised == ReceiveSpec => []ChannelPromises
<1>1. Inbound!Spec => []Inbound!AtMostOnce
  BY InboundAssumptions, Inbound!EndsAtMostOnce
<1>2. Inbound!Spec => []Inbound!OrderedPrefix
  BY InboundAssumptions, Inbound!EndsInOrder
<1>3. Inbound!Spec => [](Inbound!EndsWithVerdict /\ Inbound!SkipOnlyUndecided)
  BY InboundAssumptions, Inbound!EndsAreDecided
<1>4. Inbound!Spec => []Inbound!NoVerdictLost
  BY InboundAssumptions, Inbound!VerdictsAreKept
<1>5. Inbound!Spec => []Inbound!PendingFits
  BY InboundAssumptions, Inbound!PendingListFits
<1> USE DEF Channel!Nonce, Inbound!Nonce, Channel!Skipped, Inbound!Skipped
<1>6. (Inbound!AtMostOnce => Channel!AtMostOnce) /\ (Inbound!PendingFits => Channel!PendingFits)
  <2>1. Inbound!AtMostOnce => Channel!AtMostOnce
    BY DEF Channel!AtMostOnce, Inbound!AtMostOnce
  <2>2. Inbound!Cardinality(pending) = Channel!Cardinality(pending)
    BY DEF Channel!Cardinality, Inbound!Cardinality
  <2> QED  BY <2>1, <2>2 DEF Channel!PendingFits, Inbound!PendingFits
<1>7. Inbound!OrderedPrefix => Channel!OrderedPrefix
  BY DEF Channel!OrderedPrefix, Inbound!OrderedPrefix
<1>8. Inbound!EndsWithVerdict => Channel!EndsWithVerdict
  BY DEF Channel!EndsWithVerdict, Inbound!EndsWithVerdict
<1>9. Inbound!SkipOnlyUndecided => Channel!SkipOnlyUndecided
  BY DEF Channel!SkipOnlyUndecided, Inbound!SkipOnlyUndecided
<1>10. Inbound!NoVerdictLost => Channel!NoVerdictLost
  BY DEF Channel!NoVerdictLost, Inbound!NoVerdictLost
<1> QED  BY <1>1, <1>2, <1>3, <1>4, <1>5, <1>6, <1>7, <1>8, <1>9, <1>10, InboundSpec, PTL
     DEF ChannelPromises

(* The receiver has the inbox that a channel promises (Inbox), although    *)
(* its verdicts come from the ULN and any other library that is valid.     *)
LEMMA InboxesAgree ==
  /\ Inbound!Promise!Init => Channel!Promise!Init
  /\ [Inbound!Promise!Next]_(Inbound!Promise!vars) => [Channel!Promise!Next]_(Channel!Promise!vars)
<1> USE DEF Inbound!InboxVerdict, Channel!InboxVerdict, Channel!Open, Inbound!Open,
            Inbound!Nonce, Channel!Nonce, Inbound!Promise!Nonce, Channel!Promise!Nonce
<1>1. Inbound!Promise!Init => Channel!Promise!Init
  BY DEF Inbound!Promise!Init, Channel!Promise!Init
<1>2. Inbound!Promise!Next => Channel!Promise!Next
  BY DEF Inbound!Promise!Next, Channel!Promise!Next, Inbound!Promise!Decide,
     Channel!Promise!Decide, Inbound!Promise!Deliver, Channel!Promise!Deliver,
     Inbound!Promise!Discard, Channel!Promise!Discard, Inbound!Promise!Pass,
     Channel!Promise!Pass, Inbound!Promise!End, Channel!Promise!End,
     Inbound!Promise!Reached, Channel!Promise!Reached,
     Inbound!Promise!Settled, Channel!Promise!Settled
<1> QED  BY <1>1, <1>2 DEF Inbound!Promise!vars, Channel!Promise!vars

THEOREM ReceiverHasAnInbox == ReceiveSpec => Channel!ImplementsInbox
<1>1. Inbound!Spec => Inbound!ImplementsInbox
  BY InboundAssumptions, Inbound!ChannelImplementsInbox
<1> QED
  BY <1>1, InboxesAgree, InboundSpec, PTL
  DEF Channel!ImplementsInbox, Inbound!ImplementsInbox, Channel!Promise!Spec, Inbound!Promise!Spec

(* Whoever calls verify: a message gets a verdict only from a registered   *)
(* library of the receiving kind that was valid for the receiver then.     *)
FromReceiveLibrary ==
  \E l \in Lib : ValidReceiveLibrary(l) /\ libType[l] \in {"Receive", "SendAndReceive"}

THEOREM VerdictsComeFromReceiveLibraries ==
  ReceiveSpec =>
    [][\A n \in Channel!Nonce :
         (verdicts'[n] \ verdicts[n]) \cap Payload # {} => FromReceiveLibrary]_receiveVars
<1>1. Validity!Spec => []Validity!ValidLibsReceive
  BY ValidityAssumptions, Validity!OnlyReceiveLibrariesVerify
<1>2. Validity!ValidLibsReceive =>
        \A l \in Lib : ValidReceiveLibrary(l) => libType[l] \in {"Receive", "SendAndReceive"}
  BY DEF Validity!ValidLibsReceive, Validity!ValidLibs, ValidReceiveLibrary,
     Validity!IsValidReceiveLibrary, Libraries!IsValidReceiveLibrary,
     Validity!Expected, Libraries!Expected, Validity!InGrace, Libraries!InGrace,
     Validity!TimeoutFor, Libraries!TimeoutFor
<1>3. ASSUME VerdictsTyped, [ReceiveNext]_receiveVars, Validity!ValidLibsReceive,
             NEW n \in Channel!Nonce, NEW h \in (verdicts'[n] \ verdicts[n]) \cap Payload
      PROVE  FromReceiveLibrary
  <2>1. ASSUME UNCHANGED verdicts PROVE FALSE
    BY <1>3, <2>1
  <2>2. CASE ChannelStep
    BY <1>3, <2>2, OthersAddNil, ChannelAssumption
  <2>3. CASE LibraryStep \/ UlnStep \/ UNCHANGED receiveVars
    BY <2>1, <2>3 DEF LibraryStep, UlnStep, receiveVars, channelVars
  <2>4. \A l \in Lib : ValidReceiveLibrary(l) => FromReceiveLibrary
    BY <1>2, <1>3 DEF FromReceiveLibrary
  <2> QED
    BY <1>3, <2>2, <2>3, <2>4, UlnAssumption
    DEF ReceiveNext, CommitAndVerify, OtherLibraryVerifies, EndpointVerify
<1>4. ReceiveIInv /\ [ReceiveNext]_receiveVars /\ Validity!ValidLibsReceive =>
        \A n \in Channel!Nonce :
          (verdicts'[n] \ verdicts[n]) \cap Payload # {} => FromReceiveLibrary
  BY <1>3 DEF ReceiveIInv
<1> QED  BY <1>1, <1>4, ReceiveInvariant, ValiditySpec, PTL DEF ReceiveSpec

-----------------------------------------------------------------------------
(***************************************************************************)
(* What a pinned receiver is delivered.                                    *)
(***************************************************************************)

(* Every message that was verified, or that was delivered, is one the      *)
(* remote chain keeps.                                                     *)
Genuine(n, h) == <<n, h>> \in Packet /\ Final(<<n, h>>)
VerifiedAreGenuine == \A n \in Channel!Nonce : \A h \in verdicts[n] \cap Payload : Genuine(n, h)
DeliveredAreGenuine ==
  \A n \in Channel!Nonce : \A i \in DOMAIN fate[n] :
    fate[n][i] \in Payload => Genuine(n, fate[n][i])

(* The remote chain keeps what it has kept.                                *)
LEMMA GenuineStays ==
  ASSUME IInv, [Next]_vars, NEW n, NEW h, Genuine(n, h) PROVE Genuine(n, h)'
<1> DEFINE p == <<n, h>>
<1>1. p \in Packet /\ depth[p] >= Finality /\ depth[p] \in Nat
  BY ConfirmationsAssumption DEF Genuine, Final, IInv, TypeOK, Depth
<1> HIDE DEF p
<1>2. ASSUME UNCHANGED depth PROVE Final(p)'
  BY <1>1, <1>2 DEF Final
<1>3. ASSUME NEW q \in Packet, Deepen(q) \/ Reorganise(q) PROVE Final(p)'
  BY <1>1, <1>3, EnvironmentAssumption, ConfirmationsAssumption
  DEF Deepen, Reorganise, Final, IInv, TypeOK
<1>4. Final(p)'
  <2>1. CASE UNCHANGED vars
    BY <1>2, <2>1 DEF vars
  <2>2. CASE DefaultAdmin \/ OAppAdmin
    BY <1>2, <2>2 DEF DefaultAdmin, OAppAdmin, InitDefaultConfig, SetDefaultConfig, InitConfig,
       SetConfig
  <2>3. ASSUME NEW q \in Packet, NEW d \in Dvn, DvnStep(q, d) PROVE UNCHANGED depth
    BY <2>3 DEF DvnStep, InitVerify, Verify, CloseVerify, SetConfirmations
  <2>4. ASSUME NEW q \in Packet, CommitVerification(q) PROVE UNCHANGED depth
    BY <2>4 DEF CommitVerification
  <2>5. CASE Environment
    BY <1>3, <2>5 DEF Environment
  <2> QED  BY <1>2, <2>1, <2>2, <2>3, <2>4, <2>5 DEF Next
<1> QED  BY <1>1, <1>4 DEF Genuine, p

(* A verdict is on a packet somebody could attest, or is NIL.              *)
LEMMA VerdictsAreOnPackets ==
  ASSUME VerdictsTyped, [ReceiveNext]_receiveVars, NEW n \in Channel!Nonce,
         NEW h \in (verdicts'[n] \ verdicts[n]) \cap Payload
  PROVE  <<n, h>> \in Packet
<1>1. ASSUME UNCHANGED verdicts PROVE FALSE
  BY <1>1
<1>2. CASE ChannelStep
  BY <1>2, OthersAddNil, ChannelAssumption
<1>3. ASSUME NEW p \in Packet, Channel!Verify(p[1], p[2]) PROVE <<n, h>> \in Packet
  <2>1. p[1] \in Channel!Nonce /\ p = <<p[1], p[2]>>
    BY PacketAssumption DEF Channel!Nonce
  <2> QED  BY <1>3, <2>1, VerifyAdds
<1>4. CASE LibraryStep \/ UlnStep \/ UNCHANGED receiveVars
  BY <1>1, <1>4 DEF LibraryStep, UlnStep, receiveVars, channelVars
<1> QED
  BY <1>2, <1>3, <1>4 DEF ReceiveNext, CommitAndVerify, OtherLibraryVerifies, EndpointVerify

(* While a receiver is pinned, all it may be delivered stays genuine.      *)
LEMMA PinnedKeepsGenuine ==
  ASSUME ReceiveIInv, [ReceiveNext]_receiveVars, Pinned,
         \A n \in Channel!Nonce : Authentic(n), VerifiedAreGenuine
  PROVE  VerifiedAreGenuine'
<1> SUFFICES ASSUME NEW n \in Channel!Nonce, NEW h \in verdicts'[n] \cap Payload
             PROVE  Genuine(n, h)'
  BY DEF VerifiedAreGenuine
<1>1. Genuine(n, h)
  <2>1. CASE h \in verdicts[n]
    BY <2>1 DEF VerifiedAreGenuine
  <2>2. CASE h \notin verdicts[n]
    BY <2>2, VerdictsAreOnPackets DEF Authentic, Genuine, ReceiveIInv
  <2> QED  BY <2>1, <2>2
<1> QED  BY <1>1, GenuineStays, UlnStepOrNone DEF ReceiveIInv

LEMMA UnchangedIsGenuine ==
  ASSUME VerifiedAreGenuine, UNCHANGED receiveVars PROVE VerifiedAreGenuine'
<1>1. UNCHANGED <<verdicts, depth>>
  BY DEF receiveVars, channelVars, vars
<1> QED  BY <1>1 DEF VerifiedAreGenuine, Genuine, Final

(* What is delivered has been verified.                                    *)
LEMMA DeliveredWereVerified == ChannelPromises /\ VerifiedAreGenuine => DeliveredAreGenuine
BY DEF ChannelPromises, VerifiedAreGenuine, DeliveredAreGenuine, Channel!EndsWithVerdict

(* A receiver that is pinned at a time when all that was verified for it is*)
(* genuine, and stays pinned, is delivered genuine messages only: the      *)
(* remote chain had them and keeps them, whatever the admins, the faulty   *)
(* DVNs and other libraries do in the meantime.                            *)
THEOREM PinningSecuresDelivery ==
  ReceiveSpec => [](VerifiedAreGenuine /\ []Pinned => []DeliveredAreGenuine)
<1>1. ReceiveIInv /\ [ReceiveNext]_receiveVars /\ Pinned
        /\ [Pinned => \A n \in Channel!Nonce : Authentic(n)]_receiveVars /\ VerifiedAreGenuine
        => VerifiedAreGenuine'
  BY PinnedKeepsGenuine, UnchangedIsGenuine
<1> QED
  BY <1>1, DeliveredWereVerified, ReceiveInvariant, ReceiverIsPromised,
     PinnedMessagesAreAuthentic, PTL
  DEF ReceiveSpec, PinnedIsAuthentic

(* Before the channel exists nothing is verified.                          *)
ChannelFirst == ~channel => \A n \in Channel!Nonce : verdicts[n] = {}

LEMMA ChannelFirstStep == ASSUME ~channel, [Channel!Next]_channelVars PROVE UNCHANGED verdicts
BY DEF Channel!Next, Channel!RegisterOApp, Channel!SetDelegate, Channel!InitNonce,
   Channel!InitVerify, Channel!Verify, Channel!Resolve, Channel!Skip, Channel!Nilify,
   Channel!Burn, Channel!Clear, channelVars

(* A receiver that is pinned before its channel is opened, and stays so, is*)
(* never delivered anything else.                                          *)
THEOREM PinnedFromTheStart ==
  ReceiveSpec /\ [](channel => Pinned) => []DeliveredAreGenuine
<1>1. ReceiveInit => ChannelFirst /\ VerifiedAreGenuine
  BY DEF ReceiveInit, Channel!Init, ChannelFirst, VerifiedAreGenuine
<1>2. ChannelFirst /\ [ReceiveNext]_receiveVars => ChannelFirst'
  <2>1. ASSUME channel, [Channel!Next]_channelVars PROVE channel'
    BY <2>1 DEF Channel!Next, Channel!RegisterOApp, Channel!SetDelegate, Channel!InitNonce,
       Channel!InitVerify, Channel!Verify, Channel!Resolve, Channel!Skip, Channel!Nilify,
       Channel!Burn, Channel!Clear, channelVars
  <2> QED  BY <2>1, ChannelFirstStep, ChannelStepOrNone DEF ChannelFirst
<1>3. ReceiveIInv /\ ChannelFirst /\ (channel => Pinned) /\ [ReceiveNext]_receiveVars
        /\ [Pinned => \A n \in Channel!Nonce : Authentic(n)]_receiveVars /\ VerifiedAreGenuine
        => VerifiedAreGenuine'
  <2>1. ASSUME ~channel, ChannelFirst, [ReceiveNext]_receiveVars PROVE VerifiedAreGenuine'
    <3>1. \A n \in Channel!Nonce : verdicts'[n] = {}
      BY <2>1, ChannelFirstStep, ChannelStepOrNone DEF ChannelFirst
    <3> QED  BY <3>1 DEF VerifiedAreGenuine
  <2> QED  BY <2>1, PinnedKeepsGenuine, UnchangedIsGenuine
<1> QED
  BY <1>1, <1>2, <1>3, DeliveredWereVerified, ReceiveInvariant, ReceiverIsPromised,
     PinnedMessagesAreAuthentic, PTL
  DEF ReceiveSpec, PinnedIsAuthentic

-----------------------------------------------------------------------------
(***************************************************************************)
(* The DVN's view.                                                         *)
(***************************************************************************)

(* What commit_verification and the verify it calls demand, and what       *)
(* init_verify does.                                                       *)
MayCommit(n, h) ==
  /\ Verifiable(<<n, h>>) /\ ValidReceiveLibrary(UlnLib)
  /\ channel /\ Channel!Open(n) /\ h # EMPTY
  /\ n > inboundNonce => Channel!InWindow(n)
MayInitVerify(n) == channel /\ Channel!Initializable(n)

(* There are no other demands: the rest is what the accounts become.       *)
LEMMA CommitIsGuarded ==
  ASSUME NEW n, NEW h
  PROVE  CommitAndVerify(n, h) <=>
           /\ MayCommit(n, h)
           /\ committed' = committed \cup {<<n, h>>}
           /\ exposed' = IF Guarded(ReceiveConfig) THEN exposed ELSE exposed \cup {<<n, h>>}
           /\ IF n > inboundNonce /\ n \notin pending
              THEN Channel!UpdateInboundNonce(pending \cup {n})
              ELSE UNCHANGED <<inboundNonce, pending>>
           /\ payloadHash' = [payloadHash EXCEPT ![n] = h]
           /\ verdicts' = [verdicts EXCEPT ![n] = @ \cup {h}]
           /\ UNCHANGED <<configs, confirmations, depth, registry, channel, fate, libraryVars>>
<1>1. Channel!ResolveIfNew(n) <=>
        /\ n > inboundNonce => Channel!InWindow(n)
        /\ IF n > inboundNonce /\ n \notin pending
           THEN Channel!UpdateInboundNonce(pending \cup {n})
           ELSE UNCHANGED <<inboundNonce, pending>>
  BY DEF Channel!ResolveIfNew, Channel!InsertPendingInboundNonce
<1> HIDE DEF MayCommit
<1> QED
  BY <1>1, Zenon DEF CommitAndVerify, CommitVerification, EndpointVerify, Channel!Verify,
     Channel!VerifiableHash, MayCommit

(* inbound_nonce is a number.                                              *)
LEMMA InboundTyped == ReceiveSpec => [](inboundNonce \in Nat)
<1>1. ReceiveInit => inboundNonce \in Nat
  BY DEF ReceiveInit, Channel!Init
<1>2. ASSUME inboundNonce \in Nat, [Channel!Next]_channelVars PROVE (inboundNonce \in Nat)'
  <2>1. ASSUME NEW n, Channel!InsertPendingInboundNonce(n) PROVE inboundNonce' \in Nat
    <3>1. inboundNonce' = inboundNonce \/ inboundNonce' \in inboundNonce..MaxNonce
      BY <2>1 DEF Channel!InsertPendingInboundNonce, Channel!UpdateInboundNonce
    <3> QED  BY <1>2, <3>1
  <2>2. ASSUME UNCHANGED inboundNonce PROVE inboundNonce' \in Nat
    BY <1>2, <2>2
  <2>3. ASSUME NEW n, Channel!ResolveIfNew(n) PROVE inboundNonce' \in Nat
    BY <2>1, <2>2, <2>3 DEF Channel!ResolveIfNew
  <2>4. ASSUME NEW n, NEW h, Channel!Verify(n, h) PROVE inboundNonce' \in Nat
    BY <2>3, <2>4 DEF Channel!Verify
  <2>5. ASSUME NEW n, NEW signer, Channel!Resolve(signer, n) PROVE inboundNonce' \in Nat
    BY <2>1, <2>2, <2>3, <2>5
    DEF Channel!Resolve, Channel!Skip, Channel!Nilify, Channel!Burn, Channel!Clear
  <2>6. CASE UNCHANGED channelVars
    BY <2>2, <2>6 DEF channelVars
  <2> QED
    BY <1>2, <2>2, <2>4, <2>5, <2>6 DEF Channel!Next, Channel!RegisterOApp, Channel!SetDelegate,
       Channel!InitNonce, Channel!InitVerify, Channel!accounts
<1> QED  BY <1>1, <1>2, ChannelStepOrNone, PTL DEF ReceiveSpec

(* What verifiable of the DVN program promises of a packet, by the guards. *)
ViewIsRight(n, h) ==
  /\ VerificationState(n, h) = "Verifiable" /\ ValidReceiveLibrary(UlnLib) =>
       IF Channel!Open(n) THEN MayCommit(n, h) ELSE MayInitVerify(n)
  /\ MayCommit(n, h) => VerificationState(n, h) \in {"Verifiable", "Verified"}

(* A packet that the view calls Verifiable may be committed, if need be    *)
(* after init_verify; and whatever may be committed was called Verifiable, *)
(* or Verified: the view repeats the checks of three instructions of two   *)
(* programs and forgets none.                                              *)
THEOREM ViewsAreRight == ReceiveSpec => [](\A p \in Packet : ViewIsRight(p[1], p[2]))
<1>1. ASSUME inboundNonce \in Nat, NEW p \in Packet PROVE ViewIsRight(p[1], p[2])
  <2> DEFINE n == p[1]
             h == p[2]
  <2>1. n \in Nat /\ h # EMPTY
    BY PacketAssumption, ChannelAssumption
  <2> HIDE DEF n, h
  <2>2. BeyondWindow(n) <=> ~(n > inboundNonce => Channel!InWindow(n))
    BY <1>1, <2>1, ChannelAssumption DEF BeyondWindow, Channel!InWindow
  <2>3. (n <= inboundNonce) <=> ~(n > inboundNonce)
    BY <1>1, <2>1
  <2>4. (VerificationState(n, h) = "Verifiable") <=>
          channel /\ ~AlreadyVerified(n, h) /\ ~BeyondWindow(n) /\ Verifiable(<<n, h>>)
    BY DEF VerificationState
  <2>5. (VerificationState(n, h) = "Verified") <=> channel /\ AlreadyVerified(n, h)
    BY DEF VerificationState
  <2>6. ViewIsRight(n, h)
    BY <2>1, <2>2, <2>3, <2>4, <2>5
    DEF ViewIsRight, MayCommit, MayInitVerify, AlreadyVerified, Channel!Initializable
  <2> QED  BY <2>6 DEF n, h
<1>2. inboundNonce \in Nat => (\A p \in Packet : ViewIsRight(p[1], p[2]))
  BY <1>1
<1> QED  BY <1>2, InboundTyped, PTL

-----------------------------------------------------------------------------
(***************************************************************************)
(* What the honest DVNs can do without the others.                         *)
(***************************************************************************)

(* More attestations never undo a verification.                            *)
LEMMA VerifiableIsMonotonic ==
  ASSUME NEW c, c.optional \in SUBSET Dvn, c.threshold \in Nat,
         NEW few, NEW many, few \cap Dvn \subseteq many, few \subseteq Dvn,
         CheckVerifiable(c, few)
  PROVE  CheckVerifiable(c, many)
<1>1. IsFiniteSet(c.optional \cap many)
  BY FS_Subset, DvnAssumption
<1>2. c.optional \cap few \subseteq c.optional \cap many
  OBVIOUS
<1>3. /\ Cardinality(c.optional \cap few) <= Cardinality(c.optional \cap many)
      /\ Cardinality(c.optional \cap few) \in Nat /\ Cardinality(c.optional \cap many) \in Nat
  BY <1>1, <1>2, FS_Subset, FS_CardinalityType
<1> QED  BY <1>3 DEF CheckVerifiable

(* Every honest DVN has attested what the configuration in force asks for. *)
HonestConfirm(p) == \A d \in Honest : Confirms(confirmations[p][d], ReceiveConfig)

(* When the honest DVNs satisfy the configuration in force and have        *)
(* attested a packet, the faulty ones cannot keep it out, whatever they    *)
(* attest or withdraw: with the ULN valid and room in the window, anybody  *)
(* may commit it, if need be after init_verify.  These are the guards of   *)
(* FinalGetsCommitted, with the endpoint's.                                *)
MayGetIn(n, h) == IF Channel!Open(n) THEN MayCommit(n, h) ELSE MayInitVerify(n)

THEOREM FaultyDvnsCannotBlock ==
  ReceiveSpec =>
    [](\A p \in Packet :
         /\ HonestSuffice /\ HonestConfirm(p)
         /\ channel /\ ValidReceiveLibrary(UlnLib)
         /\ inboundNonce < p[1] /\ p[1] <= inboundNonce + Window
         => MayGetIn(p[1], p[2]))
<1>1. ASSUME TypeOK, inboundNonce \in Nat, NEW p \in Packet, HonestSuffice, HonestConfirm(p),
             channel, ValidReceiveLibrary(UlnLib),
             inboundNonce < p[1], p[1] <= inboundNonce + Window
      PROVE  MayGetIn(p[1], p[2])
  <2>1. HasConfig /\ CheckVerifiable(ReceiveConfig, Honest)
    BY <1>1 DEF HonestSuffice
  <2>2. Honest \subseteq Verified(p, ReceiveConfig) /\ Honest \subseteq Dvn
    BY <1>1, EnvironmentAssumption DEF HonestConfirm, Verified
  <2>3. Verifiable(p)
    BY <1>1, <2>1, <2>2, ConfigInForce, VerifiableIsMonotonic DEF Verifiable
  <2>4. p = <<p[1], p[2]>> /\ p[1] \in Nat /\ p[2] # EMPTY
    BY PacketAssumption, ChannelAssumption
  <2>5. Channel!InWindow(p[1]) /\ p[1] > inboundNonce
    BY <1>1, <2>4 DEF Channel!InWindow
  <2> QED
    BY <1>1, <2>3, <2>4, <2>5 DEF MayGetIn, MayCommit, MayInitVerify, Channel!Initializable
<1>2. IInv /\ inboundNonce \in Nat =>
        \A p \in Packet :
          /\ HonestSuffice /\ HonestConfirm(p)
          /\ channel /\ ValidReceiveLibrary(UlnLib)
          /\ inboundNonce < p[1] /\ p[1] <= inboundNonce + Window
          => MayGetIn(p[1], p[2])
  BY <1>1 DEF IInv
<1>3. ReceiveIInv => IInv
  BY DEF ReceiveIInv
<1> QED  BY <1>2, <1>3, InboundTyped, ReceiveInvariant, PTL
=============================================================================
