----------------------------- MODULE SchemaEditor -----------------------------
(***************************************************************************)
(* DatabaseSchemaEditor over the tables of TableStore: what migrations do  *)
(* while other threads go on working.  create_model is EnsureBtree and     *)
(* delete_model is DropBtree; fields, constraints and tablespaces leave    *)
(* the database alone.  __enter__ begins no atomic(): each operation       *)
(* commits by itself, and __exit__ commits or aborts whatever is left,     *)
(* also inside an atomic() block of the thread.                            *)
(***************************************************************************)
EXTENDS TableStore

(* Mutant of Renamed: the table keeps its old name as well. *)
RenamedTwice(v, t, u) == [v EXCEPT !.tab[u] = v.tab[t]]

(* root[u] = root[t]; del root[t].  "__seq_t" stays what and where it is. *)
Renamed(v, t, u) == [v EXCEPT !.tab[u] = v.tab[t], !.tab[t] = Nil]

(* Mutant of AlterDbTable: what the other threads have just committed is    *)
(* what it renames.                                                        *)
AlterNewest(c, t, u) ==
  /\ pc[c] = "ready" /\ ~failed[c]
  /\ db.tab[t] # Nil /\ db.tab[u] = Nil
  /\ Change(c, Renamed(db, t, u), {Root})
  /\ pc' = [pc EXCEPT ![c] = "commit"]
  /\ then' = [then EXCEPT ![c] = "ready"]
  /\ UNCHANGED <<used, autocommit, failed, todo>>

(* alter_db_table: it commits whatever the mode. *)
AlterDbTable(c, t, u) ==
  /\ pc[c] = "ready" /\ ~failed[c]
  /\ work[c].tab[t] # Nil /\ work[c].tab[u] = Nil
  /\ Change(c, Renamed(work[c], t, u), {Root})
  /\ pc' = [pc EXCEPT ![c] = "commit"]
  /\ then' = [then EXCEPT ![c] = "ready"]
  /\ UNCHANGED <<used, autocommit, failed, todo>>

(* __exit__ without an exception. *)
ExitEditor(c) ==
  /\ pc[c] = "ready"
  /\ pc' = [pc EXCEPT ![c] = "commit"]
  /\ then' = [then EXCEPT ![c] = "ready"]
  /\ UNCHANGED <<store, autocommit, failed, todo>>

(* __exit__ with one. *)
ExitEditorAborts(c) ==
  /\ pc[c] = "ready"
  /\ Abort(c)
  /\ UNCHANGED <<autocommit, pc, then, todo>>

SchemaOps(c) ==
  \/ \E t, u \in Table : AlterDbTable(c, t, u)
  \/ ExitEditor(c) \/ ExitEditorAborts(c)

SchemaNext == Next \/ \E c \in Conn : SchemaOps(c)
SchemaSpec == Init /\ [][SchemaNext]_vars

-----------------------------------------------------------------------------
(* A table has one name: renames and creations that several threads commit *)
(* never leave its rows under two.                                         *)
OneName(v) == \A t, u \in Table : v.tab[t] = v.tab[u] => t = u \/ v.tab[t] = Nil

TablesHaveOneName == OneName(db) /\ \A c \in Conn : OneName(work[c])
===============================================================================
