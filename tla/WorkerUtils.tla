----------------------------- MODULE WorkerUtils -----------------------------
(***************************************************************************)
(* What the worker programs (executor, DVN, price feed) share: lists that  *)
(* are kept sorted, permissions of OApps, and the margin on a fee.         *)
(*                                                                         *)
(* A list of keys is the set of its members; a list of items with an eid   *)
(* is a function on the eids in it.  An instruction that is given several  *)
(* keys or items handles them one after the other; here it is given one.   *)
(* A computation that may fail (it returns an error, divides by zero or    *)
(* overflows) is the set of its results: one of them, or none.             *)
(***************************************************************************)
EXTENDS Integers, FiniteSets

CONSTANTS
  NONE,         \* Option::None, or an account that does not exist
  Key,          \* the accounts that sign, and the sending OApps
  Lib,          \* message libraries
  Eid,          \* eids, of chains and of the items of lists
  Feed,         \* price feeds
  Multiplier,   \* the multipliers, in bps, an admin may set
  SOL_RATE,     \* SOL_DECIMALS_RATE
  U64_MAX,      \* u64::MAX
  ACL_MAX_LEN, MSGLIBS_MAX_LEN, ADMINS_MAX_LEN

ASSUME NoneAssumption == NONE \notin Nat \cup Key \cup Lib \cup Eid \cup Feed
ASSUME WidthAssumption ==
  {SOL_RATE, U64_MAX, ACL_MAX_LEN, MSGLIBS_MAX_LEN, ADMINS_MAX_LEN} \subseteq Nat

-----------------------------------------------------------------------------
(* insert_or_remove_sorted_pubkey_list.                                    *)
Toggled(list, key) == IF key \in list THEN list \ {key} ELSE list \cup {key}
MayToggle(list, key, maxLen) == key \in list \/ Cardinality(list) < maxLen

(* insert_or_update_, get_from_ and remove_from_sorted_list_by_eid.        *)
NoItems == [eid \in {} |-> NONE]
MayPut(list, eid, maxLen) ==
  eid \in DOMAIN list \/ Cardinality(DOMAIN list) < maxLen
Put(list, eid, item) ==
  [e \in DOMAIN list \cup {eid} |-> IF e = eid THEN item ELSE list[e]]
Found(list, eid) == {list[e] : e \in DOMAIN list \cap {eid}}
Removed(list, eid) == [e \in DOMAIN list \ {eid} |-> list[e]]

(* Acl::has_permission.                                                    *)
HasPermission(allowList, denyList, oapp) ==
  /\ oapp \notin denyList
  /\ allowList = {} \/ oapp \in allowList

(* What quote demands of the OApp and the library before anything else.    *)
Serves(worker, oapp, lib) ==
  /\ ~worker.paused
  /\ HasPermission(worker.allowList, worker.denyList, oapp)
  /\ worker.msglibs = {} \/ lib \in worker.msglibs

(* increase_fee_with_multiplier_or_floor_margin.                           *)
IncreasedFee(fee, multiplier, floorMargin, solPrice) ==
  LET multiplied == (fee * multiplier) \div 10000
      withMargin == fee + (floorMargin * SOL_RATE) \div solPrice
  IN IF NONE \in {floorMargin, solPrice} THEN {multiplied}
     ELSE IF solPrice = 0 THEN {}
     ELSE {IF withMargin > multiplied THEN withMargin ELSE multiplied}

(* safe_convert_u128_to_u64.                                               *)
AsU64(value) == {value} \cap 0..U64_MAX
=============================================================================
