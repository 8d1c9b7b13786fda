---------------------------- MODULE MC_CatchStack ----------------------------
(* Addresses are interchangeable in the safety runs.                          *)
EXTENDS CatchStack, TLC

Symmetry == Permutations(Frame) \union Permutations(Evidence)
==============================================================================
