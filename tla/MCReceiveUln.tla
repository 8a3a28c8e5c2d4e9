----------------------------- MODULE MCReceiveUln -----------------------------
(* TLC instance of ReceiveUln: one packet, since packets share nothing but *)
(* the configurations; a packet that the remote chain never includes is the *)
(* one whose depth stays 0.  The choices mix valid and invalid values of    *)
(* every field, literal, DEFAULT and NIL.                                   *)
EXTENDS ReceiveUln

CONSTANTS h1, h2, f

TwoOfThree == {h1, h2, f}

MCDefaultChoices ==
  [ confirmations : {1, 2}, required : {{}, {h1, f}},
    optional : {{}, TwoOfThree}, threshold : {0, 2} ]
  \cup [ confirmations : {NIL}, required : {{h1}}, optional : {NIL}, threshold : {0} ]

MCCustomChoices ==
  [ confirmations : {0, NIL}, required : {{}, NIL, {h2}},
    optional : {{}, NIL, {h1, f}}, threshold : {0, 1} ]
=============================================================================
