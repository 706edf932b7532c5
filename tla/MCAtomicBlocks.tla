---------------------------- MODULE MCAtomicBlocks ----------------------------
(***************************************************************************)
(* TLC instances of AtomicBlocks.  Writes are tokens, and aliases are      *)
(* alike: their permutations are symmetries.                               *)
(***************************************************************************)
EXTENDS AtomicBlocks, TLC

Symmetry == Permutations(Alias) \cup Permutations(Write)
===============================================================================
