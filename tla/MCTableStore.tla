----------------------------- MODULE MCTableStore -----------------------------
(***************************************************************************)
(* A TLC instance of TableStore, in several scenes.  In one of them, a     *)
(* thread runs all statements while the others insert and delete; two more *)
(* look at what needs both at once: "merge" at rows that two threads put   *)
(* into one table, "reuse" at tables that are dropped and made again and   *)
(* at rows that two threads update.                                        *)
(***************************************************************************)
EXTENDS MCTableBounds

VARIABLE scene    \* "merge", "reuse" or the thread that runs all statements

Scenes == {"merge", "reuse"} \cup Conn

(* After a refused commit the thread closes the wrapper and connects anew. *)
Transactions(c) == TransactionEnds(c) \/ Connect(c) \/ (failed[c] /\ Close(c))

(* All statements of one thread, and what the others do meanwhile. *)
AllNext ==
  \E c \in Conn :
    \/ Transactions(c) \/ InsertsOfOne(c) \/ Deletes(c)
    \/ /\ scene = c
       /\ \/ Lifecycle(c) \/ TableOps(c) \/ Inserts(c) \/ Updates(c)

(* INSERTs of one row or more and DELETEs, as statements and, of one       *)
(* thread at a time, in a block.                                           *)
MergeNext ==
  \E c \in Conn :
    \/ Transactions(c) \/ EndAtomic(c) \/ RollbackAtomic(c)
    \/ BeginAtomic(c) /\ \A d \in Conn : autocommit[d]
    \/ \E t \in Table : InsertStarts(c, t)
    \/ \E last \in BOOLEAN : InsertAutoRow(c, last) \/ InsertGivenRow(c, last)
    \/ Deletes(c)

(* Statements of one row, UPDATEs, and tables dropped and flushed under    *)
(* both.                                                                   *)
ReuseNext ==
  \E c \in Conn :
    \/ Transactions(c)
    \/ InsertsOfOne(c) \/ \E t \in Table : DropBtree(c, t)
    \/ FlushStarts(c, Table) \/ \E t \in Table : FlushSkips(c, t) \/ FlushTable(c, t)
    \/ \E t \in Table : \E S \in SUBSET RowsIn(work[c], t), x \in Val : Update(c, t, S, x)
    \/ Deletes(c)

(* Bounds of a scene: rows made, trees and sequences made, keys, values.   *)
Within(rows, trees, keys, values) ==
  /\ Cardinality(used' \cap Row) <= rows
  /\ Cardinality(used' \cap Tree) <= trees /\ Cardinality(used' \cap Ctr) <= trees
  /\ \A c \in Conn, tr \in Tree, k \in IntPk : k > keys => work'[c].rows[tr][k] = Nil
  /\ Cardinality(UNION {{work'[c].val[r] : r \in Row} : c \in Conn} \ {Nil}) <= values

SceneInit == Init /\ scene \in Scenes

SceneNext ==
  /\ \/ scene \in Conn /\ AllNext /\ Within(2, 1, 2, 1)
     \/ scene = "merge" /\ MergeNext /\ Within(3, 1, 3, 1)
     \/ scene = "reuse" /\ ReuseNext /\ Within(2, 2, 2, 2)
  /\ IdsInOrder
  /\ UNCHANGED scene

SceneSpec == SceneInit /\ [][SceneNext]_<<vars, scene>>
=============================================================================
