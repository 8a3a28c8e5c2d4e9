------------------------- MODULE DvnMultisigProofs -------------------------
(***************************************************************************)
(* Proofs about DvnMultisig, for every set of keys, accounts and           *)
(* transactions, and all limits.                                           *)
(***************************************************************************)
EXTENDS DvnMultisig, FiniteSetTheorems, FunctionTheorems, TLAPS

-----------------------------------------------------------------------------
(* A list that is toggled within its limit stays within it.                *)
LEMMA ToggledFits ==
  ASSUME NEW maxLen \in Nat, NEW list \in AtMost(maxLen), NEW names \in Seq(Account),
         Fits(list, names, maxLen)
  PROVE  Toggled(list, names, Len(names)) \in AtMost(maxLen)
<1> DEFINE result == Toggled(list, names, Len(names))
<1>1. result \in SUBSET Account
  BY DEF Toggled
<1>2. Len(names) \in Nat
  OBVIOUS
<1>3. CASE Len(names) = 0
  <2>1. ASSUME NEW a \in Account PROVE Occurrences(a, names, 0) = 0
    <3>1. {i \in 1..0 : names[i] = a} = {}
      OBVIOUS
    <3> QED  BY <3>1, FS_EmptySet DEF Occurrences
  <2>2. result = list
    BY <1>3, <2>1 DEF Toggled, AtMost
  <2> QED  BY <2>2
<1>4. CASE Len(names) # 0
  BY <1>1, <1>2, <1>4 DEF Fits, AtMost
<1> QED  BY <1>3, <1>4

(* The empty list is within every limit.                                   *)
LEMMA EmptyFits == ASSUME NEW maxLen \in Nat PROVE {} \in AtMost(maxLen)
BY FS_EmptySet DEF AtMost

(* init_dvn leaves a configuration whose lists fit.                        *)
LEMMA InitIsTyped ==
  ASSUME NEW params \in InitParams, InitDvn(params) PROVE config' \in DvnConfig
<1>1. /\ params.signers \in SUBSET Key /\ params.quorum \in Nat
      /\ params.admins \in AtMost(ADMINS_MAX_LEN)
      /\ params.msglibs \in Seq(Account)
  BY InitParamsAssumption DEF InitDvn, AtMost
<1>2. Toggled({}, params.msglibs, Len(params.msglibs)) \in AtMost(MSGLIBS_MAX_LEN)
  BY <1>1, EmptyFits, ToggledFits, BoundsAssumption DEF InitDvn
<1> QED  BY <1>1, <1>2, EmptyFits, BoundsAssumption DEF InitDvn, DvnConfig

(* So does an admin that sets the admins.                                  *)
LEMMA AdminSetsTyped ==
  ASSUME TypeOK, NEW account \in Account, NEW admins \in SUBSET Account,
         AdminSetsAdmins(account, admins)
  PROVE  config' \in DvnConfig
<1>1. config \in DvnConfig /\ admins \in AtMost(ADMINS_MAX_LEN)
  BY DEF AdminSetsAdmins, AtMost, TypeOK
<1> QED  BY <1>1 DEF AdminSetsAdmins, DvnConfig

(* So does an executed transaction, whatever it sets.                      *)
LEMMA InvokeIsTyped ==
  ASSUME TypeOK, NEW account \in Account, NEW d \in Digest, Invoke(account, d)
  PROVE  config' \in DvnConfig
<1>1. config \in DvnConfig
  BY DEF Invoke, TypeOK
<1>2. d.expiration \in Nat /\ d.call \in Call
  BY DigestAssumption
<1>3. CASE SetAdmins(d.call)
  <2>1. d.call.admins \in AtMost(ADMINS_MAX_LEN)
    BY <1>2, <1>3 DEF SetAdmins, AtMost, Call
  <2> QED  BY <1>1, <1>3, <2>1 DEF SetAdmins, DvnConfig
<1>4. CASE SetAllowlist(d.call)
  <2>1. d.call.toggles \in Seq(Account)
    BY <1>2, <1>4 DEF SetAllowlist, Call
  <2>2. config.allowList \in AtMost(ACL_MAX_LEN)
    BY <1>1 DEF DvnConfig
  <2>3. Toggled(config.allowList, d.call.toggles, Len(d.call.toggles))
          \in AtMost(ACL_MAX_LEN)
    BY <1>4, <2>1, <2>2, ToggledFits, BoundsAssumption DEF SetAllowlist
  <2> QED  BY <1>1, <1>4, <2>3 DEF SetAllowlist, DvnConfig
<1>5. CASE SetDenylist(d.call)
  <2>1. d.call.toggles \in Seq(Account)
    BY <1>2, <1>5 DEF SetDenylist, Call
  <2>2. config.denyList \in AtMost(ACL_MAX_LEN)
    BY <1>1 DEF DvnConfig
  <2>3. Toggled(config.denyList, d.call.toggles, Len(d.call.toggles))
          \in AtMost(ACL_MAX_LEN)
    BY <1>5, <2>1, <2>2, ToggledFits, BoundsAssumption DEF SetDenylist
  <2> QED  BY <1>1, <1>5, <2>3 DEF SetDenylist, DvnConfig
<1>6. CASE SetMsglibs(d.call)
  <2>1. d.call.toggles \in Seq(Account)
    BY <1>2, <1>6 DEF SetMsglibs, Call
  <2>2. config.msglibs \in AtMost(MSGLIBS_MAX_LEN)
    BY <1>1 DEF DvnConfig
  <2>3. Toggled(config.msglibs, d.call.toggles, Len(d.call.toggles))
          \in AtMost(MSGLIBS_MAX_LEN)
    BY <1>6, <2>1, <2>2, ToggledFits, BoundsAssumption DEF SetMsglibs
  <2> QED  BY <1>1, <1>6, <2>3 DEF SetMsglibs, DvnConfig
<1>7. CASE SetPaused(d.call)
  <2>1. d.call.paused \in BOOLEAN
    BY <1>2, <1>7 DEF SetPaused, Call
  <2> QED  BY <1>1, <1>7, <2>1 DEF SetPaused, DvnConfig
<1>8. CASE SetQuorum(d.call)
  <2>1. d.call.quorum \in Nat
    BY <1>2, <1>8 DEF SetQuorum, Call
  <2> QED  BY <1>1, <1>8, <2>1 DEF SetQuorum, DvnConfig
<1>9. CASE SetSigners(d.call)
  <2>1. d.call.signers \in SUBSET Key
    BY <1>2, <1>9 DEF SetSigners, Call
  <2> QED  BY <1>1, <1>9, <2>1 DEF SetSigners, DvnConfig
<1>10. CASE CallOtherProgram(d.call)
  BY <1>1, <1>10 DEF CallOtherProgram
<1> QED
  BY <1>3, <1>4, <1>5, <1>6, <1>7, <1>8, <1>9, <1>10 DEF Invoke

LEMMA TypingStep == ASSUME TypeOK, [Next]_vars PROVE TypeOK'
<1> USE DEF TypeOK
<1>1. CASE AdvanceTime
  BY <1>1, BoundsAssumption DEF AdvanceTime
<1>3. ASSUME NEW params \in InitParams, InitDvn(params) PROVE TypeOK'
  BY <1>3, InitIsTyped DEF InitDvn
<1>4. ASSUME NEW account \in Account, NEW d \in Digest, Invoke(account, d) PROVE TypeOK'
  <2>1. d.expiration \in Nat
    BY DigestAssumption
  <2>2. config' \in DvnConfig
    BY <1>4, InvokeIsTyped
  <2> QED  BY <1>4, <2>1, <2>2 DEF Invoke
<1>5. ASSUME NEW account \in Account, NEW d \in Digest, CloseExecute(account, d) PROVE TypeOK'
  BY <1>5 DEF CloseExecute
<1>6. ASSUME NEW account \in Account, NEW admins \in SUBSET Account,
             AdminSetsAdmins(account, admins)
      PROVE  TypeOK'
  BY <1>6, AdminSetsTyped DEF AdminSetsAdmins
<1>7. CASE UNCHANGED vars
  BY <1>7 DEF vars
<1> QED  BY <1>1, <1>3, <1>4, <1>5, <1>6, <1>7 DEF Next

LEMMA TypingInit == Init => TypeOK
BY BoundsAssumption DEF Init, TypeOK

(* Type correctness; in particular no list outgrows its account.           *)
THEOREM TypeCorrect == Spec => []TypeOK
<1> QED  BY TypingInit, TypingStep, PTL DEF Spec

-----------------------------------------------------------------------------
(* The account of an executed transaction remains until its expiration,    *)
(* and there is none for any other transaction.                            *)
Remembered ==
  \A d \in Digest :
    /\ executeHash[d] # ABSENT => d \in executed /\ executeHash[d] = d.expiration
    /\ d \in executed /\ executeHash[d] = ABSENT => d.expiration <= now

LEMMA RememberedStep == ASSUME TypeOK, Remembered, [Next]_vars PROVE Remembered'
<1> USE DEF TypeOK, Remembered
<1>1. CASE AdvanceTime
  BY <1>1, DigestAssumption, BoundsAssumption DEF AdvanceTime
<1>3. ASSUME NEW params \in InitParams, InitDvn(params) PROVE Remembered'
  BY <1>3 DEF InitDvn
<1>4. ASSUME NEW account \in Account, NEW d \in Digest, Invoke(account, d) PROVE Remembered'
  <2>1. d.expiration # ABSENT
    BY DigestAssumption, BoundsAssumption
  <2> QED  BY <1>4, <2>1 DEF Invoke
<1>5. ASSUME NEW account \in Account, NEW d \in Digest, CloseExecute(account, d)
      PROVE  Remembered'
  BY <1>5 DEF CloseExecute
<1>6. ASSUME NEW account \in Account, NEW admins \in SUBSET Account,
             AdminSetsAdmins(account, admins)
      PROVE  Remembered'
  BY <1>6 DEF AdminSetsAdmins
<1>7. CASE UNCHANGED vars
  BY <1>7 DEF vars
<1> QED  BY <1>1, <1>3, <1>4, <1>5, <1>6, <1>7 DEF Next

LEMMA RememberedAlways == Spec => [](TypeOK /\ Remembered)
<1>1. Init => TypeOK /\ Remembered
  BY TypingInit DEF Init, Remembered
<1> QED  BY <1>1, TypingStep, RememberedStep, PTL DEF Spec

(* Only invoke executes a transaction.                                     *)
LEMMA OnlyInvokeExecutes ==
  ASSUME TypeOK, [Next]_vars, NEW d \in Digest, Executes(d)
  PROVE  \E account \in Account : Invoke(account, d)
<1> USE DEF TypeOK, Executes
<1>1. CASE AdvanceTime
  BY <1>1 DEF AdvanceTime
<1>3. ASSUME NEW params \in InitParams, InitDvn(params) PROVE FALSE
  BY <1>3 DEF InitDvn
<1>4. ASSUME NEW account \in Account, NEW e \in Digest, Invoke(account, e)
      PROVE  Invoke(account, d)
  <2>1. e = d
    BY <1>4 DEF Invoke
  <2> QED  BY <1>4, <2>1
<1>5. ASSUME NEW account \in Account, NEW e \in Digest, CloseExecute(account, e) PROVE FALSE
  BY <1>5 DEF CloseExecute
<1>6. ASSUME NEW account \in Account, NEW admins \in SUBSET Account,
             AdminSetsAdmins(account, admins)
      PROVE  FALSE
  BY <1>6 DEF AdminSetsAdmins
<1>7. CASE UNCHANGED vars
  BY <1>7 DEF vars
<1> QED  BY <1>1, <1>3, <1>4, <1>5, <1>6, <1>7 DEF Next

(* A transaction is executed at most once, though the account that         *)
(* remembers it is closed after its expiration.                            *)
THEOREM NoReplay == Spec => ExecutedOnce
<1>1. ASSUME TypeOK, Remembered, [Next]_vars PROVE NoneAgain
  <2>1. SUFFICES ASSUME NEW d \in Digest, d \in executed, Executes(d) PROVE FALSE
    BY <1>1 DEF NoneAgain, TypeOK
  <2>2. d.expiration <= now
    BY <1>1, <2>1 DEF Remembered, Executes
  <2>3. d.expiration > now
    BY <1>1, <2>1, OnlyInvokeExecutes DEF Invoke
  <2> QED  BY <1>1, <2>2, <2>3, DigestAssumption DEF TypeOK
<1> QED  BY <1>1, RememberedAlways, PTL DEF Spec, ExecutedOnce

-----------------------------------------------------------------------------
LEMMA CanSignStep ==
  ASSUME TypeOK, CommitteeCanSign, [Next]_vars PROVE CommitteeCanSign'
<1> USE DEF CommitteeCanSign
<1>1. CASE AdvanceTime
  BY <1>1 DEF AdvanceTime
<1>3. ASSUME NEW params \in InitParams, InitDvn(params) PROVE CommitteeCanSign'
  BY <1>3 DEF InitDvn, SanityCheck
<1>4. ASSUME NEW account \in Account, NEW d \in Digest, Invoke(account, d)
      PROVE  CommitteeCanSign'
  <2>1. config \in DvnConfig
    BY <1>4 DEF Invoke, TypeOK
  <2>2. CASE SetQuorum(d.call)
    BY <2>1, <2>2 DEF SetQuorum, SanityCheck, DvnConfig
  <2>3. CASE SetSigners(d.call)
    BY <2>1, <2>3 DEF SetSigners, SanityCheck, DvnConfig
  <2>4. CASE ~SetQuorum(d.call) /\ ~SetSigners(d.call)
    <3>1. config'.signers = config.signers /\ config'.quorum = config.quorum
      BY <1>4, <2>1, <2>4
      DEF Invoke, DvnConfig, SetAdmins, SetAllowlist, SetDenylist, SetMsglibs, SetPaused,
          CallOtherProgram
    <3>2. config # ABSENT
      BY <1>4 DEF Invoke
    <3> QED  BY <3>1, <3>2
  <2> QED  BY <2>2, <2>3, <2>4
<1>5. ASSUME NEW account \in Account, NEW d \in Digest, CloseExecute(account, d)
      PROVE  CommitteeCanSign'
  BY <1>5 DEF CloseExecute
<1>6. ASSUME NEW account \in Account, NEW admins \in SUBSET Account,
             AdminSetsAdmins(account, admins)
      PROVE  CommitteeCanSign'
  <2>1. config \in DvnConfig
    BY <1>6 DEF AdminSetsAdmins, TypeOK
  <2> QED  BY <1>6, <2>1 DEF AdminSetsAdmins, DvnConfig
<1>7. CASE UNCHANGED vars
  BY <1>7 DEF vars
<1> QED  BY <1>1, <1>3, <1>4, <1>5, <1>6, <1>7 DEF Next

(* Whatever order changes of the quorum and of the signers are executed    *)
(* in, the committee has as many members as the quorum.                    *)
THEOREM CommitteesCanSign == Spec => []CommitteeCanSign
<1>1. Init => CommitteeCanSign
  BY DEF Init, CommitteeCanSign
<1> QED  BY <1>1, TypeCorrect, CanSignStep, PTL DEF Spec

-----------------------------------------------------------------------------
(* A sound committee needs an honest signature.                            *)
LEMMA HonestSignature ==
  ASSUME TypeOK, Sound, NEW d \in Digest, VerifySignatures(d)
  PROVE  Signatures[d] # {}
<1>1. config \in DvnConfig
  BY DEF Sound, TypeOK
<1>2. SUFFICES ASSUME Signatures[d] = {} PROVE FALSE
  OBVIOUS
<1>3. config.signers \cap (Signatures[d] \cup Compromised) = config.signers \cap Compromised
  BY <1>2
<1>4. IsFiniteSet(config.signers \cap Compromised)
  BY <1>1, KeyAssumption, FS_Subset DEF DvnConfig
<1>5. Cardinality(config.signers \cap Compromised) \in Nat /\ config.quorum \in Nat
  BY <1>1, <1>4, FS_CardinalityType DEF DvnConfig
<1>6. Cardinality(config.signers \cap Compromised) >= config.quorum
  BY <1>3 DEF VerifySignatures
<1> QED  BY <1>5, <1>6 DEF Sound

(* While the committee is sound, nothing is executed that no honest key    *)
(* has signed, and what the quorum sets changes by an execution only.      *)
THEOREM SoundCommitteeDecides == Spec => QuorumDecides
<1>1. ASSUME TypeOK, [Next]_vars PROVE SignedOrSame
  <2>1. SUFFICES ASSUME Sound
                 PROVE  /\ \A d \in Digest : Executes(d) => Signatures[d] # {}
                        /\ SetByQuorum(config') # SetByQuorum(config)
                             => \E d \in Digest : Executes(d)
    BY DEF SignedOrSame
  <2>2. ASSUME NEW d \in Digest, Executes(d) PROVE Signatures[d] # {}
    BY <1>1, <2>1, <2>2, OnlyInvokeExecutes, HonestSignature DEF Invoke
  <2>3. config # ABSENT /\ config \in DvnConfig
    BY <1>1, <2>1 DEF Sound, TypeOK
  <2>4. ASSUME NEW account \in Account, NEW d \in Digest, Invoke(account, d) PROVE Executes(d)
    <3>1. d.expiration # ABSENT
      BY DigestAssumption, BoundsAssumption
    <3> QED  BY <1>1, <2>4, <3>1 DEF Invoke, Executes, TypeOK
  <2>5. ASSUME NEW account \in Account, NEW admins \in SUBSET Account,
               AdminSetsAdmins(account, admins)
        PROVE  SetByQuorum(config') = SetByQuorum(config)
    BY <2>3, <2>5 DEF AdminSetsAdmins, SetByQuorum, DvnConfig
  <2>6. CASE UNCHANGED config
    BY <2>2, <2>6
  <2>7. CASE ~UNCHANGED config
    <3>1. \/ \E account \in Account, d \in Digest : Invoke(account, d)
          \/ \E account \in Account, admins \in SUBSET Account :
               AdminSetsAdmins(account, admins)
      BY <1>1, <2>3, <2>7 DEF Next, vars, AdvanceTime, InitDvn, CloseExecute
    <3> QED  BY <2>2, <2>4, <2>5, <3>1
  <2> QED  BY <2>6, <2>7
<1> QED  BY <1>1, TypeCorrect, PTL DEF Spec, QuorumDecides
-----------------------------------------------------------------------------
(* The places at which a transaction names an account, and those at which  *)
(* the executed changes of the deny list do.                               *)
Places(d, a) == {i \in DOMAIN d.call.toggles : d.call.toggles[i] = a}
PlacesIn(d, a) == {<<d, i>> : i \in Places(d, a)}
DenialsBy(done) == {d \in done : d.call.kind = "Denylist"}
Denials(done, a) == UNION {PlacesIn(d, a) : d \in DenialsBy(done)}

(* An account is named as often as it occurs among the toggles.            *)
LEMMA PlacesAreOccurrences ==
  ASSUME NEW d, NEW a, d.call.toggles \in Seq(Account)
  PROVE  /\ IsFiniteSet(PlacesIn(d, a))
         /\ Cardinality(PlacesIn(d, a)) = Occurrences(a, d.call.toggles, Len(d.call.toggles))
         /\ Occurrences(a, d.call.toggles, Len(d.call.toggles)) \in Nat
<1> DEFINE names == d.call.toggles
           S == Places(d, a)
           f == [i \in S |-> <<d, i>>]
<1>1. S = {i \in 1..Len(names) : names[i] = a} /\ Len(names) \in Nat
  BY DEF Places
<1>2. IsFiniteSet(S)
  <2>1. IsFiniteSet(1..Len(names))
    BY <1>1, FS_Interval
  <2>2. S \in SUBSET (1..Len(names))
    BY <1>1
  <2> HIDE DEF S
  <2> QED  BY <2>1, <2>2, FS_Subset
<1>3. Cardinality(S) = Occurrences(a, names, Len(names))
  BY <1>1 DEF Occurrences
<1>4. f \in Bijection(S, PlacesIn(d, a))
  <2>1. f \in [S -> PlacesIn(d, a)]
    BY DEF PlacesIn
  <2>2. \A i, j \in S : f[i] = f[j] => i = j
    OBVIOUS
  <2>3. \A p \in PlacesIn(d, a) : \E i \in S : f[i] = p
    BY DEF PlacesIn
  <2> HIDE DEF S, f
  <2> QED  BY <2>1, <2>2, <2>3, Fun_IsBij
<1> HIDE DEF S, f
<1>5. ExistsBijection(S, PlacesIn(d, a))
  BY <1>4, Fun_ExistsBij
<1>6. IsFiniteSet(PlacesIn(d, a)) /\ Cardinality(PlacesIn(d, a)) = Cardinality(S)
  BY <1>2, <1>5, FS_Bijection
<1> QED  BY <1>2, <1>3, <1>6, FS_CardinalityType

(* Another change of the deny list adds the places at which it names an    *)
(* account.                                                                *)
LEMMA DenialsAdd ==
  ASSUME NEW done, NEW d, d \notin done, d.call.kind = "Denylist",
         d.call.toggles \in Seq(Account), NEW a, IsFiniteSet(Denials(done, a))
  PROVE  /\ IsFiniteSet(Denials(done \cup {d}, a))
         /\ Cardinality(Denials(done, a)) \in Nat
         /\ Cardinality(Denials(done \cup {d}, a)) =
              Cardinality(Denials(done, a))
                + Occurrences(a, d.call.toggles, Len(d.call.toggles))
<1> DEFINE before == Denials(done, a)
           more == PlacesIn(d, a)
<1>1. Denials(done \cup {d}, a) = before \cup more
  <2>1. DenialsBy(done \cup {d}) = DenialsBy(done) \cup {d}
    BY DEF DenialsBy
  <2> QED  BY <2>1 DEF Denials
<1>2. before \cap more = {}
  <2>1. \A p \in more : p[1] = d
    BY DEF PlacesIn
  <2>2. \A p \in before : p[1] \in done
    BY DEF Denials, DenialsBy, PlacesIn
  <2> HIDE DEF before, more
  <2> QED  BY <2>1, <2>2
<1>3. /\ IsFiniteSet(more)
      /\ Cardinality(more) = Occurrences(a, d.call.toggles, Len(d.call.toggles))
      /\ Occurrences(a, d.call.toggles, Len(d.call.toggles)) \in Nat
  BY PlacesAreOccurrences
<1>4. IsFiniteSet(before)
  OBVIOUS
<1> HIDE DEF before, more
<1>5. Cardinality(before) \in Nat
  BY <1>4, FS_CardinalityType
<1>6. IsFiniteSet(before \cup more)
  BY <1>3, <1>4, FS_Union
<1>7. Cardinality(before \cup more) = Cardinality(before) + Cardinality(more) - 0
  BY <1>2, <1>3, <1>4, FS_Union, FS_EmptySet
<1>8. Cardinality(before \cup more) = Cardinality(before) + Cardinality(more)
  BY <1>3, <1>5, <1>7
<1> QED  BY <1>1, <1>3, <1>5, <1>6, <1>8 DEF before

(* What the list is after the executed transactions: nothing is executed   *)
(* before there is a configuration.                                        *)
DenyInv ==
  /\ config = ABSENT => executed = {}
  /\ \A a \in Account : IsFiniteSet(Denials(executed, a))
  /\ config # ABSENT =>
       \A a \in Account : a \in config.denyList <=> Cardinality(Denials(executed, a)) % 2 = 1

(* Nothing is denied before anything is executed.                          *)
LEMMA NothingDenied ==
  ASSUME NEW a PROVE IsFiniteSet(Denials({}, a)) /\ Cardinality(Denials({}, a)) = 0
<1>1. Denials({}, a) = {}
  BY DEF Denials, DenialsBy
<1> QED  BY <1>1, FS_EmptySet

(* Toggling adds parities.                                                 *)
LEMMA ParitiesAdd ==
  ASSUME NEW x \in Nat, NEW y \in Nat
  PROVE  ((x + y) % 2 = 1) <=> ((x % 2 = 1) # (y % 2 = 1))
OBVIOUS

LEMMA DenyStep ==
  ASSUME TypeOK, TypeOK', Remembered, DenyInv, [Next]_vars PROVE DenyInv'
<1>1. CASE UNCHANGED <<config, executed>>
  BY <1>1 DEF DenyInv
<1>2. ASSUME NEW params \in InitParams, InitDvn(params) PROVE DenyInv'
  <2>1. executed' = {} /\ config'.denyList = {} /\ config' # ABSENT
    <3>1. config = ABSENT /\ executed' = executed
      BY <1>2 DEF InitDvn
    <3>2. config'.denyList = {}
      BY <1>2 DEF InitDvn
    <3>3. config' # ABSENT
      BY <1>2, InitIsTyped, AbsentAssumption
    <3> QED  BY <3>1, <3>2, <3>3 DEF DenyInv
  <2> QED  BY <2>1, NothingDenied DEF DenyInv
<1>3. ASSUME NEW account \in Account, NEW d \in Digest, Invoke(account, d) PROVE DenyInv'
  <2>1. config \in DvnConfig /\ config # ABSENT /\ executed' = executed \cup {d}
    BY <1>3 DEF Invoke, TypeOK
  <2>2. d \notin executed
    BY <1>3, DigestAssumption DEF Invoke, Remembered, TypeOK
  <2>3. d.call \in Call
    BY DigestAssumption
  <2>4. CASE SetDenylist(d.call)
    <3> DEFINE names == d.call.toggles
    <3>1. d.call.kind = "Denylist" /\ names \in Seq(Account)
      BY <2>3, <2>4 DEF SetDenylist, Call
    <3>2. config' # ABSENT /\ config'.denyList = Toggled(config.denyList, names, Len(names))
      BY <1>3, <2>1, <2>4, InvokeIsTyped, AbsentAssumption DEF SetDenylist, DvnConfig
    <3>3. ASSUME NEW a \in Account
          PROVE  /\ IsFiniteSet(Denials(executed', a))
                 /\ a \in config'.denyList <=> Cardinality(Denials(executed', a)) % 2 = 1
      <4> DEFINE x == Cardinality(Denials(executed, a))
                 y == Occurrences(a, names, Len(names))
      <4>1. /\ IsFiniteSet(Denials(executed', a)) /\ x \in Nat
            /\ Cardinality(Denials(executed', a)) = x + y
        BY <2>1, <2>2, <3>1, DenialsAdd DEF DenyInv
      <4>2. y \in Nat
        BY <3>1, PlacesAreOccurrences
      <4>3. a \in config.denyList <=> x % 2 = 1
        BY <2>1 DEF DenyInv
      <4>4. a \in config'.denyList <=> ((a \in config.denyList) # (y % 2 = 1))
        BY <3>2 DEF Toggled
      <4> HIDE DEF x, y
      <4> QED  BY <4>1, <4>2, <4>3, <4>4, ParitiesAdd
    <3> QED  BY <3>2, <3>3 DEF DenyInv
  <2>5. CASE ~SetDenylist(d.call)
    <3>1. config'.denyList = config.denyList /\ d.call.kind # "Denylist" /\ config' # ABSENT
      <4>1. /\ d.call.kind # "Denylist"
            /\ config'.denyList = config.denyList
        BY <1>3, <2>1, <2>3, <2>5
        DEF Invoke, Call, DvnConfig, SetAdmins, SetAllowlist, SetMsglibs, SetPaused, SetQuorum,
            SetSigners, CallOtherProgram
      <4>2. config' # ABSENT
        BY <1>3, InvokeIsTyped, AbsentAssumption
      <4> QED  BY <4>1, <4>2
    <3>2. DenialsBy(executed') = DenialsBy(executed)
      BY <2>1, <3>1 DEF DenialsBy
    <3>3. \A a : Denials(executed', a) = Denials(executed, a)
      BY <3>2 DEF Denials
    <3> QED  BY <2>1, <3>1, <3>3 DEF DenyInv
  <2> QED  BY <2>4, <2>5
<1>4. ASSUME NEW account \in Account, NEW admins \in SUBSET Account,
             AdminSetsAdmins(account, admins)
      PROVE  DenyInv'
  <2>1. /\ config # ABSENT /\ config \in DvnConfig /\ executed' = executed
        /\ config'.denyList = config.denyList
    BY <1>4 DEF AdminSetsAdmins, TypeOK, DvnConfig
  <2>2. config' # ABSENT
    BY <1>4, AdminSetsTyped, AbsentAssumption
  <2> QED  BY <2>1, <2>2 DEF DenyInv
<1> QED  BY <1>1, <1>2, <1>3, <1>4 DEF Next, vars, AdvanceTime, CloseExecute

(* The deny list is the parity of the executed changes: a transaction that *)
(* were executed twice would undo itself.                                  *)
THEOREM DenyListCounts == Spec => []DenyListIsParity
<1>1. Init => DenyInv
  <2> SUFFICES ASSUME Init PROVE DenyInv
    OBVIOUS
  <2>1. config = ABSENT /\ executed = {}
    BY DEF Init
  <2> QED  BY <2>1, NothingDenied DEF DenyInv
<1>2. ASSUME TypeOK, DenyInv PROVE DenyListIsParity
  <2> SUFFICES ASSUME config # ABSENT
               PROVE  config.denyList = {a \in Account : TimesDenied(a) % 2 = 1}
    BY DEF DenyListIsParity
  <2>1. config.denyList \subseteq Account
    BY <1>2 DEF TypeOK, DvnConfig, AtMost
  <2>2. \A a \in Account : TimesDenied(a) = Cardinality(Denials(executed, a))
    BY DEF TimesDenied, Denials, DenialsBy, PlacesIn, Places
  <2>3. \A a \in Account : a \in config.denyList <=> TimesDenied(a) % 2 = 1
    BY <1>2, <2>2 DEF DenyInv
  <2> QED  BY <2>1, <2>3
<1> QED  BY <1>1, <1>2, RememberedAlways, DenyStep, PTL DEF Spec

-----------------------------------------------------------------------------
(* What invoke demands of a transaction that replaces the admins.          *)
MayReplaceAdmins(account, d) ==
  /\ config # ABSENT /\ d.vid = VID /\ d.expiration > now
  /\ VerifySignatures(d) /\ executeHash[d] = ABSENT /\ MayCall(account, d.call)
  /\ d.call.kind = "Admins" /\ Cardinality(d.call.admins) <= ADMINS_MAX_LEN

(* It demands nothing else.                                                *)
LEMMA ReplaceIsGuarded ==
  ASSUME NEW account, NEW d, d.call.kind = "Admins"
  PROVE  Invoke(account, d) <=>
           /\ MayReplaceAdmins(account, d)
           /\ config' = [config EXCEPT !.admins = d.call.admins]
           /\ executeHash' = [executeHash EXCEPT ![d] = d.expiration]
           /\ executed' = executed \cup {d}
           /\ UNCHANGED now
BY DEF Invoke, MayReplaceAdmins, SetAdmins, SetAllowlist, SetDenylist, SetMsglibs, SetPaused,
       SetQuorum, SetSigners, CallOtherProgram

(* A transaction by which an honest quorum replaces the admins, in time.   *)
QuorumReplacesAdmins(d) ==
  /\ config # ABSENT /\ d.vid = VID /\ d.expiration > now
  /\ d.call.kind = "Admins" /\ Cardinality(d.call.admins) <= ADMINS_MAX_LEN
  /\ Cardinality(config.signers \cap Signatures[d]) >= config.quorum

QuorumHeard ==
  \A d \in Digest \ executed :
    QuorumReplacesAdmins(d) => \A account \in Account : MayReplaceAdmins(account, d)

(* Whoever the admins are, anybody may submit a transaction by which an    *)
(* honest quorum replaces them, until it expires or has been executed.     *)
THEOREM QuorumIsHeard == Spec => []QuorumHeard
<1>1. ASSUME TypeOK, Remembered, NEW d \in Digest \ executed, QuorumReplacesAdmins(d),
             NEW account \in Account
      PROVE  MayReplaceAdmins(account, d)
  <2> DEFINE some == config.signers \cap Signatures[d]
             all == config.signers \cap (Signatures[d] \cup Compromised)
  <2>1. config.signers \subseteq Key /\ config.quorum \in Nat
    BY <1>1 DEF TypeOK, DvnConfig, QuorumReplacesAdmins
  <2>2. IsFiniteSet(all)
    BY <2>1, KeyAssumption, FS_Subset
  <2>3. some \in SUBSET all
    OBVIOUS
  <2>4. Cardinality(some) >= config.quorum
    BY <1>1 DEF QuorumReplacesAdmins
  <2> HIDE DEF some, all
  <2>5. /\ Cardinality(some) \in Nat /\ Cardinality(all) \in Nat
        /\ Cardinality(some) <= Cardinality(all)
    BY <2>2, <2>3, FS_Subset, FS_CardinalityType
  <2>6. Cardinality(all) >= config.quorum
    BY <2>1, <2>4, <2>5
  <2>7. VerifySignatures(d)
    BY <2>6 DEF VerifySignatures, all
  <2>8. executeHash[d] = ABSENT
    BY <1>1 DEF Remembered
  <2> QED  BY <1>1, <2>7, <2>8 DEF QuorumReplacesAdmins, MayReplaceAdmins, MayCall
<1>2. TypeOK /\ Remembered => QuorumHeard
  BY <1>1 DEF QuorumHeard
<1> QED  BY <1>2, RememberedAlways, PTL
=============================================================================
