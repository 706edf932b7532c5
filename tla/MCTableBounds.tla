----------------------------- MODULE MCTableBounds ----------------------------
(***************************************************************************)
(* What the TLC instances of TableStore and of SchemaEditor share: bounds  *)
(* and symmetries.  Threads and values are model values that nothing       *)
(* orders, so their permutations are symmetries.                           *)
(***************************************************************************)
EXTENDS TableStore, TLC

CONSTANT MaxInt    \* the largest integer key

MCIntPk == 1..MaxInt

(* Which unused id a new object gets is of no matter: it gets the next.    *)
(* The ids are no symmetry then.                                           *)
NextId(o) ==
  IF o \in Row THEN o = CHOOSE r \in Row \ used : TRUE
               ELSE o[3] = CHOOSE g \in Gen : <<o[1], o[2], g>> \notin used

IdsInOrder == \A o \in used' \ used : NextId(o)

Symmetry == Permutations(Conn) \cup Permutations(Val)

(* INSERTs of one row. *)
InsertsOfOne(c) ==
  \/ \E t \in Table : InsertStarts(c, t)
  \/ InsertAutoRow(c, TRUE) \/ InsertGivenRow(c, TRUE)
===============================================================================
