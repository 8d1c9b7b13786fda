-------------------------- MODULE MC_CompilerCache --------------------------
(* Bounded instances of CompilerCache for TLC, without symmetry: one of the  *)
(* properties is a liveness property.                                        *)
EXTENDS CompilerCache, TLC
=============================================================================
