---------------------------- MODULE ExecutorConfig ----------------------------
(***************************************************************************)
(* The configuration of executors: the owner sets the roles and who is     *)
(* served, the admins set prices, the executors deliver.                   *)
(***************************************************************************)
EXTENDS WorkerUtils

CONSTANTS
  Executor,      \* the config accounts of executors, which are paid the fees
  ExecutorDst,   \* the destination configurations an admin may set
  EXECUTOR_MAX_LEN, DST_CONFIG_MAX_LEN

ASSUME ExecutorDstAssumption == \A dst \in ExecutorDst :
  DOMAIN dst = {"baseGas", "composeGas", "multiplier", "floorMargin", "cap"}
ASSUME ExecutorLengthAssumption == {EXECUTOR_MAX_LEN, DST_CONFIG_MAX_LEN} \subseteq Nat

VARIABLE executorConfig

ExecutorInit == executorConfig = [x \in Executor |-> NONE]

(* set_admins and set_executors: nobody has both roles.                    *)
MayBeAdmins(config, keys) ==
  Cardinality(keys) <= ADMINS_MAX_LEN /\ keys \cap config.executors = {}
MayBeExecutors(config, keys) ==
  Cardinality(keys) <= EXECUTOR_MAX_LEN /\ keys \cap config.admins = {}

InitExecutor(x, owner, admins, executors, libs, feed) ==
  LET config == [owner |-> owner, admins |-> admins, executors |-> {}, msglibs |-> libs,
                 paused |-> FALSE, allowList |-> {}, denyList |-> {},
                 multiplier |-> 12000, priceFeed |-> feed, dst |-> NoItems]
  IN /\ executorConfig[x] = NONE
     /\ MayBeAdmins(config, admins)
     /\ Cardinality(libs) <= MSGLIBS_MAX_LEN
     /\ MayBeExecutors(config, executors)
     /\ executorConfig' = [executorConfig EXCEPT ![x] = [config EXCEPT !.executors = executors]]

-----------------------------------------------------------------------------
(* owner_set_config                                                        *)
IsOwner(x, k) == executorConfig[x] # NONE /\ k = executorConfig[x].owner

SetExecutorAdmins(x, keys) ==
  /\ MayBeAdmins(executorConfig[x], keys)
  /\ executorConfig' = [executorConfig EXCEPT ![x].admins = keys]

SetExecutors(x, keys) ==
  /\ MayBeExecutors(executorConfig[x], keys)
  /\ executorConfig' = [executorConfig EXCEPT ![x].executors = keys]

ToggleMsglib(x, lib) ==
  /\ MayToggle(executorConfig[x].msglibs, lib, MSGLIBS_MAX_LEN)
  /\ executorConfig' = [executorConfig EXCEPT ![x].msglibs = Toggled(@, lib)]

SetOwner(x, k) == executorConfig' = [executorConfig EXCEPT ![x].owner = k]

SetPaused(x, paused) == executorConfig' = [executorConfig EXCEPT ![x].paused = paused]

ToggleAllowed(x, oapp) ==
  /\ MayToggle(executorConfig[x].allowList, oapp, ACL_MAX_LEN)
  /\ executorConfig' = [executorConfig EXCEPT ![x].allowList = Toggled(@, oapp)]

ToggleDenied(x, oapp) ==
  /\ MayToggle(executorConfig[x].denyList, oapp, ACL_MAX_LEN)
  /\ executorConfig' = [executorConfig EXCEPT ![x].denyList = Toggled(@, oapp)]

OwnerSetConfig(x) ==
  \/ \E keys \in SUBSET Key : SetExecutorAdmins(x, keys) \/ SetExecutors(x, keys)
  \/ \E lib \in Lib : ToggleMsglib(x, lib)
  \/ \E k \in Key : SetOwner(x, k) \/ ToggleAllowed(x, k) \/ ToggleDenied(x, k)
  \/ \E paused \in BOOLEAN : SetPaused(x, paused)

-----------------------------------------------------------------------------
(* admin_set_config                                                        *)
IsAdmin(x, k) == executorConfig[x] # NONE /\ k \in executorConfig[x].admins

SetExecutorFeed(x, feed) ==
  executorConfig' = [executorConfig EXCEPT ![x].priceFeed = feed]

SetExecutorMultiplier(x, multiplier) ==
  executorConfig' = [executorConfig EXCEPT ![x].multiplier = multiplier]

SetExecutorDst(x, eid, dst) ==
  /\ MayPut(executorConfig[x].dst, eid, DST_CONFIG_MAX_LEN)
  /\ executorConfig' = [executorConfig EXCEPT ![x].dst = Put(@, eid, dst)]

AdminSetConfig(x) ==
  \/ \E feed \in Feed : SetExecutorFeed(x, feed)
  \/ \E multiplier \in Multiplier : SetExecutorMultiplier(x, multiplier)
  \/ \E eid \in Eid, dst \in ExecutorDst : SetExecutorDst(x, eid, dst)

ExecutorNext == \E x \in Executor :
  \/ \E owner \in Key, admins, executors \in SUBSET Key, libs \in SUBSET Lib, feed \in Feed :
       InitExecutor(x, owner, admins, executors, libs, feed)
  \/ \E k \in Key : IsOwner(x, k) /\ OwnerSetConfig(x)
  \/ \E k \in Key : IsAdmin(x, k) /\ AdminSetConfig(x)
=============================================================================
