-------------------------- MODULE MCReceiveLibraries --------------------------
(* TLC instance of ReceiveLibraries.                                        *)
EXTENDS ReceiveLibraries, TLC

Symmetry == Permutations(Lib) \cup Permutations(OApp)
=============================================================================
