-------------------------------- MODULE DvnFees --------------------------------
(***************************************************************************)
(* The half of a DVN's configuration its price depends on.  What the quorum*)
(* decides (whom the DVN serves, the size of the quorum) is modelled in    *)
(* full in DvnMultisig.tla; here the committee just changes it.            *)
(***************************************************************************)
EXTENDS WorkerUtils, UlnConfig

CONSTANTS
  DvnDst,          \* the destination configurations an admin may set
  Quorum,          \* the sizes of a quorum
  DVN_DST_DEFAULT_LEN, DVN_DST_MAX_LEN

ASSUME DvnDstAssumption == \A dst \in DvnDst :
  DOMAIN dst = {"gas", "multiplier", "floorMargin"}
ASSUME DvnLengthAssumption == {DVN_DST_DEFAULT_LEN, DVN_DST_MAX_LEN} \subseteq Nat
ASSUME QuorumAssumption == Quorum \subseteq Nat \ {0}

VARIABLE dvnConfig

DvnInit == dvnConfig = [d \in Dvn |-> NONE]

InitDvn(d, admins, libs, quorum, feed) ==
  /\ dvnConfig[d] = NONE
  /\ Cardinality(admins) <= ADMINS_MAX_LEN
  /\ Cardinality(libs) <= MSGLIBS_MAX_LEN
  /\ dvnConfig' = [dvnConfig EXCEPT ![d] =
       [admins |-> admins, msglibs |-> libs, quorum |-> quorum, paused |-> FALSE,
        allowList |-> {}, denyList |-> {}, multiplier |-> 12000, priceFeed |-> feed,
        dst |-> NoItems, extended |-> FALSE]]

-----------------------------------------------------------------------------
(* What a transaction signed by the quorum sets.                           *)
CommitteeSetsConfig(d) ==
  /\ dvnConfig[d] # NONE
  /\ \/ \E k \in Key :
          \/ /\ MayToggle(dvnConfig[d].allowList, k, ACL_MAX_LEN)
             /\ dvnConfig' = [dvnConfig EXCEPT ![d].allowList = Toggled(@, k)]
          \/ /\ MayToggle(dvnConfig[d].denyList, k, ACL_MAX_LEN)
             /\ dvnConfig' = [dvnConfig EXCEPT ![d].denyList = Toggled(@, k)]
     \/ \E lib \in Lib :
          /\ MayToggle(dvnConfig[d].msglibs, lib, MSGLIBS_MAX_LEN)
          /\ dvnConfig' = [dvnConfig EXCEPT ![d].msglibs = Toggled(@, lib)]
     \/ \E paused \in BOOLEAN : dvnConfig' = [dvnConfig EXCEPT ![d].paused = paused]
     \/ \E quorum \in Quorum : dvnConfig' = [dvnConfig EXCEPT ![d].quorum = quorum]

(* Admins, by the quorum or by an admin.                                   *)
SetDvnAdmins(d, admins) ==
  /\ dvnConfig[d] # NONE
  /\ Cardinality(admins) <= ADMINS_MAX_LEN
  /\ dvnConfig' = [dvnConfig EXCEPT ![d].admins = admins]

-----------------------------------------------------------------------------
(* set_config and extend_dvn_config                                        *)
IsDvnAdmin(d, k) == dvnConfig[d] # NONE /\ k \in dvnConfig[d].admins

SetDvnMultiplier(d, multiplier) ==
  dvnConfig' = [dvnConfig EXCEPT ![d].multiplier = multiplier]

MaxDst(d) == IF dvnConfig[d].extended THEN DVN_DST_MAX_LEN ELSE DVN_DST_DEFAULT_LEN

SetDvnDst(d, eid, dst) ==
  /\ MayPut(dvnConfig[d].dst, eid, MaxDst(d))
  /\ dvnConfig' = [dvnConfig EXCEPT ![d].dst = Put(@, eid, dst)]

RemoveDvnDst(d, eid) ==
  /\ eid \in DOMAIN dvnConfig[d].dst
  /\ dvnConfig' = [dvnConfig EXCEPT ![d].dst = Removed(@, eid)]

SetDvnFeed(d, feed) == dvnConfig' = [dvnConfig EXCEPT ![d].priceFeed = feed]

ExtendDvnConfig(d) == dvnConfig' = [dvnConfig EXCEPT ![d].extended = TRUE]

DvnAdminSetsConfig(d) ==
  \/ \E multiplier \in Multiplier : SetDvnMultiplier(d, multiplier)
  \/ \E eid \in Eid : (\E dst \in DvnDst : SetDvnDst(d, eid, dst)) \/ RemoveDvnDst(d, eid)
  \/ \E feed \in Feed : SetDvnFeed(d, feed)
  \/ ExtendDvnConfig(d)

DvnNext == \E d \in Dvn :
  \/ \E admins \in SUBSET Key, libs \in SUBSET Lib, quorum \in Quorum, feed \in Feed :
       InitDvn(d, admins, libs, quorum, feed)
  \/ CommitteeSetsConfig(d)
  \/ \E admins \in SUBSET Key : SetDvnAdmins(d, admins)
  \/ \E k \in Key : IsDvnAdmin(d, k) /\ DvnAdminSetsConfig(d)
=============================================================================
