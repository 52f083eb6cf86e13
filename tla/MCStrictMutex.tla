---------------------------- MODULE MCStrictMutex ----------------------------
(***************************************************************************)
(* TLC instances of StrictMutex.                                           *)
(***************************************************************************)
EXTENDS StrictMutex, TLC

\* Threads, mutexes and guards of one class are interchangeable.
Symmetry ==
  Permutations(Threads) \union Permutations(Mutexes)
    \union Permutations(UniqueGuards) \union Permutations(SharedGuards)
==============================================================================
