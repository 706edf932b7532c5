---------------------------- MODULE MCIndexCatalog ----------------------------
(* TLC instances of IndexCatalog. *)
EXTENDS IndexCatalog, TLC
Symmetry == Permutations(Conn) \cup Permutations(Index)
===============================================================================
