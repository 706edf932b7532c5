-------------------------------- MODULE JoinRows -------------------------------
(***************************************************************************)
(* The rows that a row of the main table is joined to, and the values that *)
(* an expression of a query takes there.                                   *)
(*                                                                         *)
(* A row is a function from columns to values or None; "tabs" gives each   *)
(* table's rows in key order.  A query has "main", the table it selects    *)
(* from, and "joins", Django's alias_map without the main table.  Values   *)
(* are those of SelectExpr.                                                *)
(***************************************************************************)
EXTENDS SelectExpr

CONSTANT Main   \* the alias of the main table

TableRows(tabs, t) == IF t \in DOMAIN tabs THEN tabs[t] ELSE <<>>

(* An OOBTree gives its rows in the order of their keys, one of each.      *)
InKeyOrder(seq) ==
  /\ seq \in Seq(ToSet(seq)) /\ None \notin ToSet(seq)
  /\ \A i \in DOMAIN seq : seq[i].pk \in Int /\ \A c \in DOMAIN seq[i] : seq[i][c] \in Int \cup {None}
  /\ \A i, j \in DOMAIN seq : i < j => seq[i].pk < seq[j].pk

(* The items of seq that are in S, in their order.  (SelectSeq, as a       *)
(* recursive function that proofs can unfold.)                             *)
Only(seq, S) ==
  LET first[n \in 0..Len(seq)] ==
        IF n = 0 THEN <<>>
        ELSE IF seq[n] \in S THEN Append(first[n - 1], seq[n]) ELSE first[n - 1]
  IN first[Len(seq)]

(* The rows of the join's table that it joins to a row p.  NULL joins NULL.*)
Joined(tabs, j, p) ==
  {r \in ToSet(TableRows(tabs, j.table)) : RowGet(r, j.rcol) = RowGet(p, j.lcol)}

(* The rows of the alias a that the chain of joins from row leads to, in   *)
(* the order the nested loops find them.                                   *)
Reached(q, tabs, row, a) ==
  LET to[b \in DOMAIN q.joins \cup {Main}] ==
        IF b = Main THEN <<row>>
        ELSE LET j == q.joins[b]
                 From(p) == Only(TableRows(tabs, j.table), Joined(tabs, j, p))
             IN FlattenSeq([i \in DOMAIN to[j.parent] |-> From(to[j.parent][i])])
  IN to[a]

(* No alias is pinned to one of its rows. *)
NoPin == [a \in {} |-> None]

Column(found, col) == [i \in DOMAIN found |-> RowGet(found[i], col)]

(* _resolve_joined_col: the pinned row's value, or all there are. *)
JoinedValues(q, tabs, row, alias, col, pin) ==
  Column(IF alias \notin DOMAIN pin THEN Reached(q, tabs, row, alias)
         ELSE IF pin[alias] = None THEN <<>> ELSE <<pin[alias]>>, col)

FirstOrNull(values) == IF values = <<>> THEN None ELSE values[1]

(* _eval_select_expr on a column: a joined one gives its first value. *)
ColumnValue(q, tabs, row, alias, col) ==
  IF alias = Main THEN RowGet(row, col)
  ELSE FirstOrNull(JoinedValues(q, tabs, row, alias, col, NoPin))

(* _eval_select_expr on functions of a column. *)
ExprValue(q, tabs, row, e) == ApplyAll(e.fns, ColumnValue(q, tabs, row, e.alias, e.col))
===============================================================================
