------------------------------ MODULE MCDelivery ------------------------------
(* The TLC instance of Delivery: two messages of a path.                    *)
EXTENDS Delivery

CONSTANTS p1, p2

MCMessage == <<p1, p2>>
=============================================================================
