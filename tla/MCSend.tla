-------------------------------- MODULE MCSend --------------------------------
(***************************************************************************)
(* A small instance of Send: nothing deployed yet, or everything deployed  *)
(* in the usual way, and from there a few steps: changes of settings by    *)
(* anybody before, between and after the sends.                            *)
(***************************************************************************)
EXTENDS Send, TLC

CONSTANTS admin, oapp, r1, d1, d2, x1, feed, receiveLib, lz, oldLz,
          MaxSteps   \* bound: a change of settings counts 3, a send 2

VARIABLE steps

mcVars == <<vars, steps>>

(* 13 is the destination, priced as 3 = 13 % 10; 4 is its layer 1.         *)
MCDstEid == 13
MCEid == {3, 13, 4}

Plain(ratio) == [ratio |-> ratio, gasPrice |-> 1, gasPerByte |-> 1, model |-> NONE]
Arbitrum == [Plain(20) EXCEPT !.model = [l2Gas |-> 30, l1GasPerByte |-> 2]]
Optimism == [Plain(20) EXCEPT !.model = [l1Eid |-> 14]]
MCPrice == {Plain(80), Arbitrum, Optimism}

Dst(gas, multiplier, floor) == [gas |-> gas, multiplier |-> multiplier, floorMargin |-> floor]
MCDvnDst == {Dst(0, NONE, NONE), Dst(90, 9000, 1000)}

ExecutorDstOf(gas, multiplier, floor, cap) ==
  [baseGas |-> gas, composeGas |-> 40, multiplier |-> multiplier, floorMargin |-> floor,
   cap |-> cap]
MCExecutorDst == {ExecutorDstOf(0, NONE, NONE, 0), ExecutorDstOf(50, 11000, 300, 4)}

Uln(conf, required, optional, threshold) ==
  [confirmations |-> conf, required |-> required, optional |-> optional,
   threshold |-> threshold]
MCSendUln == {Uln(1, {d1}, {}, 0), Uln(2, {d1}, {d1, d2}, 1), Uln(NIL, NIL, {d2}, 1),
              Uln(1, NIL, NIL, 0)}
MCSendExecutor == {[maxSize |-> 5, executor |-> x1], [maxSize |-> 0, executor |-> NONE]}

TreasuryOf(bps, lzFee) == [admin |-> oapp, receiver |-> admin, bps |-> bps, lz |-> lzFee]
MCTreasury == {NONE, TreasuryOf(10000, NONE), TreasuryOf(10001, NONE),
               TreasuryOf(300, [fee |-> 7, mint |-> lz]),
               TreasuryOf(300, [fee |-> 7, mint |-> oldLz]),
               TreasuryOf(300, [fee |-> 0, mint |-> lz])}

Type3(items) == [format |-> 3, items |-> items]
For(worker, option) == [worker |-> worker, option |-> option]
Compose(index, gas) == [type |-> "lzCompose", index |-> index, gas |-> gas, value |-> 2]
MCOptions == {
  [format |-> 1, gas |-> 60],
  [format |-> 2, gas |-> 60, amount |-> 3, receiverSize |-> 32],
  [format |-> 2, gas |-> 60, amount |-> 3, receiverSize |-> 20],
  Type3(<< For("executor", Option("lzReceive", 60, 1)), For("dvn", Option("any", 0, 0)),
           For("executor", Compose(1, 0)), For("executor", Compose(2, 30)),
           For("executor", Compose(1, 30)), For("executor", Option("ordered", 0, 0)) >>) }

-----------------------------------------------------------------------------
Deployed ==
  /\ endpoint = [admin |-> admin, lzMint |-> lz]
  /\ sendLibrary = [default |-> ULN, own |-> DEFAULT]
  /\ outboundNonce = [r \in Receiver |-> 0]
  /\ packets = {} /\ receipt = NONE
  /\ ulnSettings = [admin |-> admin, treasury |-> TreasuryOf(300, [fee |-> 7, mint |-> lz])]
  /\ \E own \in {NONE, [uln |-> Uln(2, {d1}, {d1, d2}, 1),
                        executor |-> [maxSize |-> 10, executor |-> x1]]} :
       sendConfig = [own |-> own,
                     default |-> [uln |-> Uln(1, {d1}, {}, 0),
                                  executor |-> [maxSize |-> 10, executor |-> x1]]]
  /\ simpleLib = [admin |-> admin, fee |-> 9, lzFee |-> 0]
  /\ priceFeed = [f \in Feed |->
       [admin |-> admin, updaters |-> {admin}, denominator |-> INITIAL_DENOMINATOR,
        solPrice |-> NONE, prices |-> 3 :> Plain(20) @@ 4 :> Plain(30), extended |-> FALSE]]
  /\ executorConfig = [x \in Executor |->
       [owner |-> admin, admins |-> {admin}, executors |-> {}, msglibs |-> {ULN},
        paused |-> FALSE, allowList |-> {}, denyList |-> {}, multiplier |-> 12000,
        priceFeed |-> feed, dst |-> 13 :> ExecutorDstOf(50, NONE, NONE, 10)]]
  /\ dvnConfig = [d \in Dvn |->
       [admins |-> {admin}, msglibs |-> {ULN}, quorum |-> 1, paused |-> FALSE,
        allowList |-> {}, denyList |-> {}, multiplier |-> 12000, priceFeed |-> feed,
        dst |-> 13 :> Dst(80, NONE, 100), extended |-> FALSE]]

(* The same, before the ULN and the endpoint have any configuration.       *)
Founded ==
  /\ endpoint = [admin |-> admin, lzMint |-> NONE]
  /\ ulnSettings = [admin |-> admin, treasury |-> NONE]
  /\ sendLibrary = [default |-> NONE, own |-> NONE]
  /\ sendConfig = [default |-> NONE, own |-> NONE]
  /\ outboundNonce = [r \in Receiver |-> NONE]
  /\ packets = {} /\ receipt = NONE
  /\ PriceFeedInit /\ ExecutorInit /\ DvnInit /\ SimpleInit

MCInit ==
  \/ (Init \/ Founded) /\ steps = MaxSteps - 3
  \/ Deployed /\ steps = 0

MCNext ==
  \/ AdminNext /\ steps + 3 <= MaxSteps /\ steps' = steps + 3
  \/ /\ SendNext /\ UNCHANGED <<endpointVars, workerVars, ulnVars, simpleLib>>
     /\ steps + 2 <= MaxSteps /\ steps' = steps + 2

MCSpec == MCInit /\ [][MCNext]_mcVars
=============================================================================
