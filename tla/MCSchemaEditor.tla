---------------------------- MODULE MCSchemaEditor ----------------------------
(***************************************************************************)
(* TLC instances of SchemaEditor: two tables alike, so that their          *)
(* permutations are symmetries too.                                        *)
(***************************************************************************)
EXTENDS SchemaEditor, MCTableBounds

SchemaSymmetry == Symmetry \cup Permutations(Table)

(* One thread, or two, that migrate and insert.  There are three trees to  *)
(* make, so that a name given up by a rename or a drop can be taken again; *)
(* and, a bound on the run only, no table is dropped inside a block.       *)
MaxTrees == 3

MigrateNext ==
  \E c \in Conn :
    /\ \/ TransactionEnds(c) \/ SchemaOps(c) \/ InsertsOfOne(c)
       \/ Connect(c) \/ BeginAtomic(c) \/ EndAtomic(c) \/ RollbackAtomic(c)
       \/ \E t \in Table : EnsureBtree(c, t) \/ (autocommit[c] /\ DropBtree(c, t))
    /\ IdsInOrder
    /\ Cardinality(used' \cap Tree) <= MaxTrees
MigrateSpec == Init /\ [][MigrateNext]_vars

===============================================================================
