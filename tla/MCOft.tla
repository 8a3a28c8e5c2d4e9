------------------------------- MODULE MCOft -------------------------------
(* TLC instance of Oft: an adapter and two native chains with different    *)
(* decimals, a fee in tenths.                                              *)
EXTENDS Oft, TLC

CONSTANTS adapter, n1, n2

Rates == adapter :> 2 @@ n1 :> 3 @@ n2 :> 1
Fees == { [basisPoints |-> 0, maximum |-> 0], [basisPoints |-> 3, maximum |-> 1],
          [basisPoints |-> 3, maximum |-> 9], [basisPoints |-> 10, maximum |-> 2] }
=============================================================================
