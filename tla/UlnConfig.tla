------------------------------ MODULE UlnConfig ------------------------------
(***************************************************************************)
(* The configuration of the ULN message library for one remote eid: what a *)
(* valid configuration is, how an OApp's configuration is merged with the  *)
(* default one, and which confirmations of the DVNs satisfy the result.    *)
(*                                                                         *)
(* A DVN list is the set of its members, since the code only accepts lists *)
(* in strictly ascending order and a count equal to their length; a custom *)
(* list is {} for count 0, which stands for the default list, and NIL for  *)
(* count 255, which stands for the literal empty list.                     *)
(***************************************************************************)
EXTENDS Integers, FiniteSets

CONSTANTS
  Dvn,               \* the DVNs
  MaxDvns,           \* DVN_MAX_LEN
  MaxConfirmations,  \* bound: confirmations 0..MaxConfirmations
  NIL                \* NIL_DVN_COUNT and NIL_CONFIRMATIONS

ASSUME DvnAssumption == IsFiniteSet(Dvn) /\ MaxDvns \in Nat
ASSUME ConfirmationsAssumption == MaxConfirmations \in Nat
ASSUME NilAssumption == NIL \notin Nat /\ \A dvns \in SUBSET Dvn : NIL # dvns

Depth == 0..MaxConfirmations

(* Every value of the type UlnConfig, valid or not, up to the counts.      *)
Config == [ confirmations : Depth \cup {NIL},
            required : (SUBSET Dvn) \cup {NIL},
            optional : (SUBSET Dvn) \cup {NIL},
            threshold : 0..Cardinality(Dvn) ]

Unset(dvns) == dvns \in {NIL, {}}
Literal(c) == NIL \notin {c.confirmations, c.required, c.optional}

(* UlnConfig::default(), also what an absent custom account stands for.    *)
NoConfig == [confirmations |-> 0, required |-> {}, optional |-> {}, threshold |-> 0]

-----------------------------------------------------------------------------
(* The checks of UlnConfig::set_config.                                    *)
ValidThreshold(c) ==
  IF Unset(c.optional) THEN c.threshold = 0
  ELSE c.threshold > 0 /\ c.threshold <= Cardinality(c.optional)

ValidConfig(c) ==
  /\ ~Unset(c.required) => Cardinality(c.required) <= MaxDvns
  /\ ~Unset(c.optional) => Cardinality(c.optional) <= MaxDvns
  /\ ValidThreshold(c)

AtLeastOneDvn(c) == c.required # {} \/ c.threshold > 0

(* A mistake: a default configuration may use the NIL values, too.         *)
AnyValidConfig(c) == AtLeastOneDvn(c) /\ ValidConfig(c)

(* The checks of UlnConfig::set_default_config.                            *)
ValidDefaultConfig(c) ==
  /\ Literal(c)
  /\ AtLeastOneDvn(c)
  /\ ValidConfig(c)

-----------------------------------------------------------------------------
(* A mistake: the threshold is merged apart from the list it belongs to.   *)
MergeThresholdAlone(default, custom) ==
  IF custom.threshold = 0 THEN default.threshold ELSE custom.threshold

MergeThreshold(default, custom) ==
  CASE custom.optional = {} -> default.threshold
    [] custom.optional = NIL -> 0
    [] OTHER -> custom.threshold

MergeDvns(default, custom) ==
  CASE custom = {} -> default [] custom = NIL -> {} [] OTHER -> custom

(* A mistake: the admin's confirmations are a minimum for every OApp.      *)
MergeHigher(default, custom) ==
  IF custom \in {0, NIL} \/ custom < default THEN default ELSE custom

MergeConfirmations(default, custom) ==
  CASE custom = 0 -> default [] custom = NIL -> 0 [] OTHER -> custom

(* UlnConfig::get_config, which fails unless UsableConfig.                 *)
EffectiveConfig(default, custom) ==
  [ confirmations |-> MergeConfirmations(default.confirmations, custom.confirmations),
    required |-> MergeDvns(default.required, custom.required),
    optional |-> MergeDvns(default.optional, custom.optional),
    threshold |-> MergeThreshold(default, custom) ]

UsableConfig(default, custom) == AtLeastOneDvn(EffectiveConfig(default, custom))

-----------------------------------------------------------------------------
(* A mistake: an attestation of more confirmations than needed is refused. *)
ConfirmsExactly(conf, c) == conf = c.confirmations

(* verified: an attested number of confirmations satisfies a configuration.*)
Confirms(conf, c) == conf \in Nat /\ conf >= c.confirmations

(* A mistake: one of the required DVNs is enough.                          *)
AnyRequired(c, verified) ==
  /\ c.required # {} => c.required \cap verified # {}
  /\ c.threshold = 0 => c.required # {}
  /\ Cardinality(c.optional \cap verified) >= c.threshold

(* check_verifiable: `verified` are the DVNs whose confirmations suffice.  *)
(* The walk over the optional DVNs can only succeed at a threshold above 0.*)
CheckVerifiable(c, verified) ==
  /\ c.required \subseteq verified
  /\ \/ c.required # {} /\ c.threshold = 0
     \/ c.threshold > 0 /\ Cardinality(c.optional \cap verified) >= c.threshold
=============================================================================
