--------------------------- MODULE MC_CellUpdate ---------------------------
(* Bounded instances of CellUpdate for TLC. *)
EXTENDS CellUpdate, TLC

Symmetry == Permutations(Addr) \cup Permutations(Local)
=============================================================================
