------------------------------- MODULE WhereEval ------------------------------
(***************************************************************************)
(* The predicate the compilers evaluate on every row of a table: the       *)
(* lookups of a WHERE tree, on columns of the row and of the rows that its *)
(* joins reach, and EXISTS and IN subqueries.                              *)
(*                                                                         *)
(* A WHERE tree is the list of its nodes, children before their parents: a *)
(* node names its children by their places, and the last is the root.  A   *)
(* query has, besides what JoinRows needs, its tree "where".  Subqueries   *)
(* are in a list, too; a query in it names only ones that are before it.   *)
(* "sub" marks a subquery: Django relabels its aliases (U0 is that of its  *)
(* main table, Main here), and the compilers take U0 for a joined table.   *)
(***************************************************************************)
EXTENDS JoinRows

CONSTANTS
  Blank,      \* the value that is the empty string
  Subqueries  \* the queries that EXISTS and IN are about

(* Nodes and leaves.  A lookup may be on transforms of its column.  A text *)
(* lookup (contains, startswith, regex, ...) has the values it accepts; an *)
(* "outer" one compares by rhs.op with the column rhs.col that an OuterRef *)
(* names.  An expression without a column (Case, or the NegatedExpression  *)
(* that ~Exists(...) is) is a lookup on a column that no row has.          *)
WhereNode(conn, neg, kids) == [kind |-> "node", conn |-> conn, neg |-> neg, kids |-> kids]
Lookup(alias, col, op, rhs) ==
  [kind |-> "lookup", alias |-> alias, col |-> col, fns |-> <<>>, op |-> op, rhs |-> rhs]
Nothing == [kind |-> "nothing"]
OuterRef(op, col) == [op |-> op, col |-> col]
ExistsIn(expected, sub) == [kind |-> "exists", expected |-> expected, sub |-> sub]

Leaves(w) == {n \in DOMAIN w : w[n].kind # "node"}

IsTree(w) ==
  /\ w \in Seq(ToSet(w)) /\ w # <<>>
  /\ \A n \in DOMAIN w : w[n].kind \in {"node", "lookup", "nothing", "exists"}
  /\ \A n \in DOMAIN w : w[n].kind = "lookup" =>
       /\ DOMAIN w[n] = {"kind", "alias", "col", "fns", "op", "rhs"}
       /\ w[n].op = "text" => w[n].fns = <<>>
       /\ w[n].op = "outer" => w[n].rhs.op \in {"exact", "gt", "lte"}
  /\ \A n \in DOMAIN w : w[n].kind = "exists" => w[n].expected \in BOOLEAN
  /\ \A n \in DOMAIN w \ Leaves(w) :
       w[n].kids \subseteq 1..(n - 1) /\ w[n].conn \in {"AND", "OR", "XOR"} /\ w[n].neg \in BOOLEAN

(* The subqueries that a tree is about. *)
Uses(w) == {w[n].sub : n \in {m \in Leaves(w) : w[m].kind = "exists"}}
           \cup {w[n].rhs : n \in {m \in Leaves(w) : /\ w[m].kind = "lookup"
                                                     /\ w[m].op \in {"in_query", "exact_query"}}}

(* Whether a lookup asks for a part of a date.                             *)
AsksPart(l) == \E i \in DOMAIN l.fns : l.fns[i][1] = "extract"

(* Whether evaluating the tree of a subquery may raise: an order of a date *)
(* and a number, or of a value and an outer row's NULL.  (In a query with  *)
(* joins, whether it does depends on the order of the conditions.)         *)
MayRaise(w) ==
  \E n \in Leaves(w) :
    /\ w[n].kind = "lookup"
    /\ \/ w[n].op \in {"gt", "lte"} /\ AsksPart(w[n])
       \/ w[n].op = "outer" /\ w[n].rhs.op # "exact"

(* An empty slice is Django's none().  *)
ASSUME SubqueriesNest ==
  /\ Subqueries \in Seq(ToSet(Subqueries))
  /\ \A k \in DOMAIN Subqueries :
       LET s == Subqueries[k]
       IN /\ s.sub /\ IsTree(s.where) /\ Uses(s.where) \subseteq 1..(k - 1)
          /\ s.order \in Seq(ToSet(s.order))
          /\ s.low \in Nat /\ s.high \in (Nat \ {0}) \cup {None}
          /\ MayRaise(s.where) => DOMAIN s.joins = {}

(* Whether a node holds if of its children those in sat do; with none, it  *)
(* does.                                                                   *)
Connects(node, sat) ==
  node.kids = {} \/ (node.neg # CASE node.conn = "AND" -> sat = node.kids
                                  [] node.conn = "OR"  -> sat # {}
                                  [] node.conn = "XOR" -> Cardinality(sat) % 2 = 1)

(* Which nodes hold, where "known" says it of the leaves.                  *)
Truth(w, known) ==
  LET truth[n \in DOMAIN w] ==
        IF n \in DOMAIN known THEN known[n]
        ELSE Connects(w[n], {k \in w[n].kids : truth[k]})
  IN truth

-----------------------------------------------------------------------------
(* The aliases that lookups below each node name; a transform hides its    *)
(* own.                                                                    *)
JoinAliases(w) ==
  LET named[n \in DOMAIN w] ==
        CASE w[n].kind = "node"   -> UNION {named[k] : k \in w[n].kids}
          [] w[n].kind = "lookup" -> IF w[n].fns = <<>> THEN {w[n].alias} \ {Main} ELSE {}
          [] OTHER                -> {}
  IN named

(* A mutant of VirtualRows: nothing is pinned, and each condition of an    *)
(* AND looks for a joined row of its own.                                  *)
NothingPinned(q, tabs, row, aliases) == {NoPin}

(* The virtual rows of an AND: for each alias its conditions name, one row *)
(* it reaches, or None if it reaches none; each alias by itself.           *)
VirtualRows(q, tabs, row, aliases) ==
  LET choices == [a \in aliases |-> LET R == ToSet(Reached(q, tabs, row, a))
                                    IN IF R = {} THEN {None} ELSE R]
  IN {pin \in [aliases -> UNION {choices[a] : a \in aliases}] :
        \A a \in aliases : pin[a] \in choices[a]}

-----------------------------------------------------------------------------
(* _eval_lookup on a value.  A right-hand side that is an expression       *)
(* ("expr") cannot be evaluated and matches; one that is a subquery gives  *)
(* a list, and no value equals a list ("exact_list").  NULL reads as text  *)
(* that is empty.                                                          *)
Accepts(op, rhs, v) ==
  CASE op = "exact"      -> v = rhs
    [] op = "in"         -> v \in rhs
    [] op = "isnull"     -> (v = None) = rhs
    [] op = "gt"         -> v # None /\ v > rhs
    [] op = "lte"        -> v # None /\ v <= rhs
    [] op = "text"       -> (IF v = None THEN Blank ELSE v) \in rhs
    [] op = "year"       -> v # None /\ Field("year", v) = rhs
    [] op = "exact_list" -> FALSE

(* _eval_lookup_multi, on the values V of a joined column.                 *)
AcceptsAny(op, rhs, V) ==
  IF op = "isnull" THEN IF rhs THEN \A v \in V : v = None ELSE \E v \in V : v # None
  ELSE \E v \in V : Accepts(op, rhs, v)

(* The values of a column that is taken for a joined one: all those of a   *)
(* subquery are, its own have one value.                                   *)
IsJoined(q, l) == q.sub \/ l.alias # Main

ColumnValues(q, tabs, row, l, pin) ==
  IF l.alias = Main THEN {RowGet(row, l.col)}
  ELSE ToSet(JoinedValues(q, tabs, row, l.alias, l.col, pin))

(* A mutant: a lookup that cannot be evaluated holds of no row. *)
LookupFails(q, tabs, row, l, pin) ==
  l.op # "expr" /\ IF IsJoined(q, l)
                   THEN AcceptsAny(l.op, l.rhs, ColumnValues(q, tabs, row, l, pin))
                   ELSE Accepts(l.op, l.rhs, ExprValue(q, tabs, row, l))

(* A year lookup asks the column itself for its year.  The transforms of a *)
(* joined column are left out, and no date equals a part of one.           *)
LookupHolds(q, tabs, row, l, pin) ==
  \/ l.op = "expr"
  \/ /\ l.op # "expr" /\ IsJoined(q, l)
     /\ l.op = "isnull" \/ ~AsksPart(l)
     /\ AcceptsAny(l.op, l.rhs, ColumnValues(q, tabs, row, l, pin))
  \/ /\ l.op # "expr" /\ ~IsJoined(q, l)
     /\ Accepts(l.op, l.rhs, IF l.op = "year" THEN RowGet(row, l.col) ELSE ExprValue(q, tabs, row, l))

-----------------------------------------------------------------------------
(* In the following, found[k][outer] are the rows that the subquery k      *)
(* finds, where it refers to outer as the row of the query around it; IN   *)
(* subqueries are run without one.                                         *)

(* _eval_subquery_rhs: the list of what the subquery selects. *)
Listed(tabs, found, k) ==
  LET s == Subqueries[k]
  IN {ExprValue(s, tabs, r, s.cols[1]) :
        r \in ToSet(Sliced(Arranged(found[k][None], s.order), s.low, s.high))}

(* Whether a row of its table makes the subquery k raise a TypeError.      *)
LookupRaises(outer, row, l) ==
  /\ RowGet(row, l.col) # None
  /\ \/ l.op \in {"gt", "lte"} /\ AsksPart(l)
     \/ /\ l.op = "outer" /\ l.rhs.op # "exact" /\ outer # None
        /\ AsksPart(l) \/ RowGet(outer, l.rhs.col) = None

Raises(tabs, k, outer) ==
  LET s == Subqueries[k]
  IN \E r \in ToSet(TableRows(tabs, s.main)) : \E n \in Leaves(s.where) :
       s.where[n].kind = "lookup" /\ LookupRaises(outer, r, s.where[n])

(* What a right-hand side is when the lookup is evaluated.  An OuterRef is *)
(* the value of the outer row's column (_resolve_outer_refs); where there  *)
(* is no outer row, it is an expression, as is a subquery that raises.     *)
Resolved(tabs, found, outer, l) ==
  CASE l.op = "outer" ->
         IF outer = None THEN [l EXCEPT !.op = "expr"]
         ELSE [l EXCEPT !.op = l.rhs.op, !.rhs = RowGet(outer, l.rhs.col)]
    [] l.op \in {"in_query", "exact_query"} ->
         IF Raises(tabs, l.rhs, None) THEN [l EXCEPT !.op = "expr"]
         ELSE IF l.op = "in_query" THEN [l EXCEPT !.op = "in", !.rhs = Listed(tabs, found, l.rhs)]
         ELSE [l EXCEPT !.op = "exact_list"]
    [] OTHER -> l

(* Exact(Exists(...), expected).  has_results ends at the first row that   *)
(* matches, or raises: _eval_exists makes TRUE of both.                    *)
LeafHolds(q, tabs, found, outer, row, l, pin) ==
  CASE l.kind = "lookup"  -> LookupHolds(q, tabs, row, Resolved(tabs, found, outer, l), pin)
    [] l.kind = "exists"  -> l.expected = (Raises(tabs, l.sub, row) \/ found[l.sub][row] # <<>>)
    [] l.kind = "nothing" -> FALSE

LeavesHold(q, tabs, found, outer, row, pin) ==
  [n \in Leaves(q.where) |-> LeafHolds(q, tabs, found, outer, row, q.where[n], pin)]

(* An AND holds if all below it holds on one virtual row. *)
Pins(q, tabs, found, outer, row, n) ==
  \E pin \in VirtualRows(q, tabs, row, JoinAliases(q.where)[n] \cap DOMAIN q.joins) :
    \A k \in q.where[n].kids : Truth(q.where, LeavesHold(q, tabs, found, outer, row, pin))[k]

Ands(w) == {n \in DOMAIN w \ Leaves(w) : w[n].conn = "AND" /\ w[n].kids # {}}

(* _row_matches_where: the outermost ANDs choose the virtual rows; above   *)
(* them, nothing is pinned.                                                *)
TopHolds(q, tabs, found, outer, row) ==
  [n \in Leaves(q.where) \cup Ands(q.where) |->
     IF n \in Leaves(q.where)
     THEN LeavesHold(q, tabs, found, outer, row, NoPin)[n]
     ELSE q.where[n].neg # Pins(q, tabs, found, outer, row, n)]

Selects(q, tabs, found, outer, row) ==
  Truth(q.where, TopHolds(q, tabs, found, outer, row))[Len(q.where)]

Outers(tabs) == {None} \cup UNION {ToSet(tabs[t]) : t \in DOMAIN tabs}

Found(tabs) ==
  LET found[k \in DOMAIN Subqueries] ==
        LET s == Subqueries[k]
            rows == TableRows(tabs, s.main)
        IN [outer \in Outers(tabs) |->
              Only(rows, {r \in ToSet(rows) : Selects(s, tabs, found, outer, r)})]
  IN found

RowMatches(q, tabs, row) == Selects(q, tabs, Found(tabs), None, row)

-----------------------------------------------------------------------------
(* What SQL selects: the WHERE holds of one way to join the row along the  *)
(* FROM clause, with NULLs where a join finds no row.  Django writes "AND  *)
(* column IS NOT NULL" into the negations that need it, so two truth       *)
(* values are enough.                                                      *)
Joinings(q, tabs, row) ==
  LET Own(a) == ToSet(TableRows(tabs, q.joins[a].table)) \cup {None}
      Parent(f, j) == IF j.parent = Main THEN row ELSE f[j.parent]
      Partners(f, j) == IF Parent(f, j) = None THEN {}
                        ELSE {r \in Joined(tabs, j, Parent(f, j)) : RowGet(r, j.rcol) # None}
      Fits(f, a) == LET R == Partners(f, q.joins[a])
                    IN IF R = {} THEN f[a] = None ELSE f[a] \in R
  IN {f \in [DOMAIN q.joins -> UNION {Own(a) : a \in DOMAIN q.joins}] :
        /\ \A a \in DOMAIN q.joins : f[a] \in Own(a)
        /\ \A a \in DOMAIN q.joins : Fits(f, a)}

SqlAnswer(found, k, outer) ==
  LET s == Subqueries[k] IN SqlList(found[k][outer], s.order, s.low, s.high)

SqlListed(tabs, found, k) ==
  {RowGet(r, Subqueries[k].cols[1].col) : r \in SqlAnswer(found, k, None)} \ {None}

SqlLeaf(tabs, found, outer, row, l, f) ==
  LET r == IF l.alias = Main THEN row ELSE f[l.alias]
      v == SqlApplyAll(l.fns, IF r = None THEN None ELSE RowGet(r, l.col))
  IN CASE l.kind = "nothing" -> FALSE
       [] l.kind = "exists"  -> l.expected = (SqlAnswer(found, l.sub, row) # {})
       [] l.kind = "lookup"  ->
            CASE l.op = "outer" -> /\ v # None /\ RowGet(outer, l.rhs.col) # None
                                   /\ Accepts(l.rhs.op, RowGet(outer, l.rhs.col), v)
              [] l.op = "expr"  -> v # None /\ v = RowGet(row, l.rhs)
              [] l.op = "text"  -> v # None /\ v \in l.rhs
              [] l.op = "year"  -> v = l.rhs
              [] l.op \in {"in_query", "exact_query"} -> v \in SqlListed(tabs, found, l.rhs)
              [] OTHER -> Accepts(l.op, l.rhs, v)

SqlSelects(q, tabs, found, outer, row) ==
  \E f \in Joinings(q, tabs, row) :
    Truth(q.where, [n \in Leaves(q.where) |->
                      SqlLeaf(tabs, found, outer, row, q.where[n], f)])[Len(q.where)]

SqlFound(tabs) ==
  LET found[k \in DOMAIN Subqueries] ==
        LET s == Subqueries[k]
        IN [outer \in Outers(tabs) |->
              {r \in ToSet(TableRows(tabs, s.main)) : SqlSelects(s, tabs, found, outer, r)}]
  IN found

SqlSelected(q, tabs, row) == SqlSelects(q, tabs, SqlFound(tabs), None, row)

-----------------------------------------------------------------------------
(* The queries whose WHERE means in the code what it means in SQL, on      *)
(* tables as they are: what the proofs about it are for.                   *)
NeverNull(tabs, t, col) == \A r \in ToSet(TableRows(tabs, t)) : RowGet(r, col) # None

(* Its joins lead to tables next to the main one, and no NULL joins NULL.  *)
JoinsAreNear(q, tabs) ==
  /\ Main \notin DOMAIN q.joins
  /\ \A a \in DOMAIN q.joins :
       LET j == q.joins[a]
       IN /\ j.parent = Main
          /\ NeverNull(tabs, q.main, j.lcol) \/ NeverNull(tabs, j.table, j.rcol)

(* An IN subquery has no OuterRef and lists a column without NULLs: all    *)
(* values that are there, or, without joins that multiply its rows, a      *)
(* slice of them in an order of columns.                                   *)
Correlated(w) == \E n \in Leaves(w) : w[n].kind = "lookup" /\ w[n].op = "outer"

ListIsPlain(tabs, k) ==
  LET s == Subqueries[k]
  IN /\ ~Correlated(s.where) /\ Compiles(s.order)
     /\ s.cols[1].alias = Main /\ s.cols[1].fns = <<>> /\ NeverNull(tabs, s.main, s.cols[1].col)
     /\ \/ s.low = 0 /\ s.high = None
        \/ ~s.distinct /\ DOMAIN s.joins = {} /\ \A i \in DOMAIN s.order : s.order[i].fns = <<>>

(* EXISTS, which the code asks of the whole result, is of no slice.        *)
ExistsIsPlain(k) == Subqueries[k].low = 0 /\ Subqueries[k].high = None

(* A lookup whose left-hand side the code understands: it does not ask for *)
(* NULL but by isnull, and its transforms are computed as in SQL; on a     *)
(* joined column and in a subquery it has none.  The column is one that    *)
(* the rows have.                                                          *)
LookupIsPlain(q, tabs, l) ==
  /\ IF l.alias = Main
     THEN \A r \in ToSet(TableRows(tabs, q.main)) :
            /\ l.col \in DOMAIN r
            /\ ApplyAll(l.fns, RowGet(r, l.col)) = SqlApplyAll(l.fns, RowGet(r, l.col))
     ELSE l.alias \in DOMAIN q.joins
  /\ IsJoined(q, l) => l.fns = <<>>
  /\ CASE l.op = "exact"    -> l.rhs # None
       [] l.op = "in"       -> None \notin l.rhs
       [] l.op = "isnull"   -> l.rhs \in BOOLEAN
       [] l.op = "text"     -> Blank \notin l.rhs
       [] l.op = "year"     -> l.fns = <<<<"extract", "year">>>> /\ l.rhs # None
       [] l.op = "outer"    -> LET t == IF l.alias = Main THEN q.main ELSE q.joins[l.alias].table
                               IN /\ l.fns = <<>> /\ NeverNull(tabs, t, l.col)
                                  /\ l.rhs.op = "exact" \/ \A u \in DOMAIN tabs : NeverNull(tabs, u, l.rhs.col)
       [] l.op = "in_query" -> ListIsPlain(tabs, l.rhs)
       [] OTHER             -> l.op \in {"gt", "lte", "expr"}

(* Its tree is an AND, as filter() and exclude() build it, or an OR of     *)
(* such and of lookups, as "|" makes of two querysets.                     *)
AndsAreOnTop(w) ==
  \E top \in SUBSET DOMAIN w :
    /\ Len(w) \in top
    /\ \A n \in top :
         \/ JoinAliases(w)[n] = {}
         \/ w[n].kind = "lookup" /\ w[n].op # "isnull"
         \/ w[n].kind = "node" /\ ~w[n].neg /\ w[n].conn = "AND"
         \/ w[n].kind = "node" /\ ~w[n].neg /\ w[n].conn = "OR" /\ w[n].kids \subseteq top

QueryIsPlain(q, tabs) ==
  /\ JoinsAreNear(q, tabs) /\ AndsAreOnTop(q.where)
  /\ \A n \in Leaves(q.where) :
       /\ q.where[n].kind = "lookup" => LookupIsPlain(q, tabs, q.where[n])
       /\ q.where[n].kind = "exists" => ExistsIsPlain(q.where[n].sub)

(* A WHERE tree without a right-hand side that the code cannot evaluate,   *)
(* and one without negations.                                              *)
Evaluable(w) == \A n \in Leaves(w) : w[n].kind = "lookup" => w[n].op # "expr"

Positive(w) == \A n \in DOMAIN w \ Leaves(w) : ~w[n].neg /\ w[n].conn # "XOR"

ReadsAsSql(q, tabs) ==
  /\ QueryIsPlain(q, tabs) /\ ~Correlated(q.where)
  /\ \A k \in DOMAIN Subqueries :
       QueryIsPlain(Subqueries[k], tabs) /\ Evaluable(Subqueries[k].where)
===============================================================================
