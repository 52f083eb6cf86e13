---------------------------- MODULE MCLazyObject ----------------------------
(***************************************************************************)
(* TLC instances of LazyObject.                                            *)
(***************************************************************************)
EXTENDS LazyObject, TLC

Symmetry == Permutations(Objects) \union Permutations(Values)
==============================================================================
