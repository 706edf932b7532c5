------------------------------- MODULE SelectPlan ------------------------------
(***************************************************************************)
(* The phases of a query: a scan of the table's OOBTree in key order with  *)
(* a Python predicate on every row, then a sort, a slice, the projection   *)
(* of the selected columns, DISTINCT, or an aggregate.  Everything reads   *)
(* one snapshot of the store, so a query's steps do not interleave with    *)
(* commits (TableStore has those).                                         *)
(*                                                                         *)
(* Besides what JoinRows and WhereEval need, a query has                   *)
(*   cols      the SELECT list, [alias, col, fns] each,                    *)
(*   order     the ORDER BY list, [alias, col, fns, desc, nulls_first,     *)
(*             fails] each,                                                *)
(*   low, high the slice; high is None without a LIMIT,                    *)
(*   distinct  whether it is SELECT DISTINCT.                              *)
(***************************************************************************)
EXTENDS WhereEval

CONSTANTS
  Databases,          \* the contents of the tables a query may meet
  Queries,            \* the queries that are run
  Methods             \* subset of {"select", "exists", "count", "aggregate"}

(* is_empty: a condition that nothing meets is among those of the WHERE.   *)
(* Django puts it there, by none(), as a condition of an AND.              *)
IsEmpty(q) ==
  LET root == q.where[Len(q.where)]
  IN root.kind = "node" /\ \E k \in root.kids : q.where[k].kind = "nothing"

NothingIsRequired(q) ==
  IsEmpty(q) => LET root == q.where[Len(q.where)] IN root.conn = "AND" /\ ~root.neg

ASSUME PlanConstants ==
  /\ Methods \subseteq {"select", "exists", "count", "aggregate"}
  /\ \A db \in Databases : \A t \in DOMAIN db : InKeyOrder(db[t])
  /\ \A q \in Queries : /\ q.order \in Seq(ToSet(q.order))
                        /\ q.cols \in Seq(ToSet(q.cols))
                        /\ q.low \in Nat /\ q.high \in (Nat \ {0}) \cup {None}
                        /\ ~q.sub /\ IsTree(q.where) /\ NothingIsRequired(q)
                        /\ Uses(q.where) \subseteq DOMAIN Subqueries

VARIABLES
  tabs,        \* table -> its rows, in key order
  query,       \* the query that runs
  method,      \* the compiler method that runs it
  phase,       \* "scan", "order", "slice", "build", "distinct", "done"
  todo,        \* rows of the main table not looked at yet
  matching,    \* rows that matched, as dicts
  tuples,      \* tuples that DISTINCT has not looked at yet
  rows         \* what the query answers: rows, a Boolean or numbers

vars == <<tabs, query, method, phase, todo, matching, tuples, rows>>

Init ==
  /\ tabs \in Databases /\ query \in Queries /\ method \in Methods
  /\ phase = "scan"
  /\ todo = TableRows(tabs, query.main)
  /\ matching = <<>> /\ tuples = <<>> /\ rows = <<>>

Same == UNCHANGED <<tabs, query, method>>

-----------------------------------------------------------------------------
(* A query that can have no rows, as none(), is not run by execute_sql; it *)
(* answers nothing, from which Django makes the aggregates of no rows.     *)
Runs == method \in {"exists", "count"} \/ ~IsEmpty(query)

AnswersNothing ==
  /\ phase = "scan" /\ ~Runs
  /\ rows' = IF method = "select" THEN <<>> ELSE <<0, None, None, None, None>>
  /\ phase' = "done"
  /\ UNCHANGED <<todo, matching, tuples>>
  /\ Same

(* The scan.  has_results returns at its first match; a table that is not  *)
(* there answers like an empty one.                                        *)
Match ==
  /\ phase = "scan" /\ Runs /\ todo # <<>>
  /\ LET hit == RowMatches(query, tabs, Head(todo)) IN
       /\ matching' = IF hit THEN Append(matching, Head(todo)) ELSE matching
       /\ IF hit /\ method = "exists"
          THEN phase' = "done" /\ rows' = TRUE
          ELSE UNCHANGED <<phase, rows>>
  /\ todo' = Tail(todo)
  /\ UNCHANGED tuples
  /\ Same

(* A mutant: every method goes on to sort and slice. *)
ScanEndsAlike ==
  /\ phase = "scan" /\ Runs /\ todo = <<>>
  /\ phase' = "order"
  /\ UNCHANGED <<todo, matching, tuples, rows>>
  /\ Same

(* select and the count of a subquery go through _fetch_matching_rows; the *)
(* other two scan for themselves and neither sort nor slice.               *)
ScanEnds ==
  /\ phase = "scan" /\ Runs /\ todo = <<>>
  /\ CASE method \in {"select", "count"} -> phase' = "order" /\ UNCHANGED rows
       [] method = "exists"              -> phase' = "done" /\ rows' = FALSE
       [] method = "aggregate"           -> phase' = "build" /\ UNCHANGED rows
  /\ UNCHANGED <<todo, matching, tuples>>
  /\ Same

ApplyOrdering ==
  /\ phase = "order"
  /\ matching' = Arranged(matching, query.order)
  /\ phase' = "slice"
  /\ UNCHANGED <<todo, tuples, rows>>
  /\ Same

Slice ==
  /\ phase = "slice"
  /\ matching' = Sliced(matching, query.low, query.high)
  /\ phase' = "build"
  /\ UNCHANGED <<todo, tuples, rows>>
  /\ Same

-----------------------------------------------------------------------------
(* _build_row_tuple *)
RowTuple(row) ==
  [i \in DOMAIN query.cols |-> ExprValue(query, tabs, row, query.cols[i])]

Built == [i \in DOMAIN matching |-> RowTuple(matching[i])]

BuildRows ==
  /\ phase = "build" /\ method = "select"
  /\ IF query.distinct /\ Built # <<>>
     THEN phase' = "distinct" /\ tuples' = Built /\ UNCHANGED rows
     ELSE phase' = "done" /\ rows' = Built /\ UNCHANGED tuples
  /\ UNCHANGED <<todo, matching>>
  /\ Same

(* Whether the tuple is one of those that execute_sql keeps.  The mutant   *)
(* looks at the last of them only.                                         *)
SeenLast(t) == rows # <<>> /\ Last(rows) = t

Seen(t) == t \in ToSet(rows)

Distinct ==
  /\ phase = "distinct"
  /\ rows' = IF Seen(Head(tuples)) THEN rows ELSE Append(rows, Head(tuples))
  /\ tuples' = Tail(tuples)
  /\ phase' = IF Tail(tuples) = <<>> THEN "done" ELSE "distinct"
  /\ UNCHANGED <<todo, matching>>
  /\ Same

(* SQLAggregateCompiler over an inner query: the number of rows that are   *)
(* left when only the first of each primary key is kept.  The mutant       *)
(* CountTuples keeps the first of each selected tuple.                     *)
CountTuples ==
  /\ phase = "build" /\ method = "count"
  /\ rows' = <<Cardinality({RowTuple(matching[i]) : i \in DOMAIN matching})>>
  /\ phase' = "done"
  /\ UNCHANGED <<todo, matching, tuples>>
  /\ Same

CountInner ==
  /\ phase = "build" /\ method = "count"
  /\ rows' = <<Cardinality({matching[i].pk : i \in DOMAIN matching})>>
  /\ phase' = "done"
  /\ UNCHANGED <<todo, matching, tuples>>
  /\ Same

(* The sum of the values at some places.  The mutant adds equal values     *)
(* once.                                                                   *)
TotalOnce(values, places) == SumSet({values[i] : i \in places})

Total(values, places) == MapThenSumSet(LAMBDA i : values[i], places)

(* _compute_annotation: COUNT counts rows; MAX, MIN, SUM and AVG (a sum    *)
(* and a number) take the values of a column that are not NULL, and are    *)
(* NULL over none of them.  Of an expression that is no column they are    *)
(* NULL, too.                                                              *)
Aggregate ==
  /\ phase = "build" /\ method = "aggregate"
  /\ LET source == query.cols[1]
         values == [i \in DOMAIN matching |-> RowGet(matching[i], source.col)]
         known == {i \in DOMAIN matching : source.fns = <<>> /\ values[i] # None}
         Known == {values[i] : i \in known}
         OrNull(v) == IF known = {} THEN None ELSE v
     IN rows' = <<Len(matching), OrNull(Max(Known)), OrNull(Min(Known)),
                  OrNull(Total(values, known)),
                  OrNull(<<Total(values, known), Cardinality(known)>>)>>
  /\ phase' = "done"
  /\ UNCHANGED <<todo, matching, tuples>>
  /\ Same

Next ==
  \/ AnswersNothing \/ Match \/ ScanEnds \/ ApplyOrdering \/ Slice
  \/ BuildRows \/ Distinct \/ CountInner \/ Aggregate

Spec == Init /\ [][Next]_vars

-----------------------------------------------------------------------------
(* The rows of the main table, and those that the query is to answer for.  *)
Scanned == TableRows(tabs, query.main)
MainRows == ToSet(Scanned)
Chosen == {r \in MainRows : RowMatches(query, tabs, r)}

(* What is left to scan is the end of the table; only select and count go  *)
(* through the sort and the slice, and only select has DISTINCT to do.     *)
TypeOK ==
  /\ phase \in {"scan", "order", "slice", "build", "distinct", "done"}
  /\ method \in Methods
  /\ matching \in Seq(MainRows) /\ todo \in Seq(MainRows)
  /\ Len(todo) <= Len(Scanned)
  /\ todo = SubSeq(Scanned, Len(Scanned) - Len(todo) + 1, Len(Scanned))
  /\ phase \in {"order", "slice"} => method \in {"select", "count"}
  /\ phase = "build" => method # "exists"
  /\ phase = "distinct" => method = "select" /\ tuples # <<>>
  /\ phase = "done" /\ method = "exists" => rows \in BOOLEAN

(* ORDER BY as SQL has it, and ties in key order if all it names are       *)
(* columns; key order alone, if it was dropped.                            *)
InOrder(seq) ==
  \A i, j \in DOMAIN seq :
    i < j => IF Compiles(query.order)
             THEN \/ RanksBefore(seq[i], seq[j], query.order)
                  \/ /\ ~RanksBefore(seq[j], seq[i], query.order)
                     /\ \/ seq[i].pk < seq[j].pk
                        \/ \E k \in DOMAIN query.order : query.order[k].fns # <<>>
             ELSE seq[i].pk < seq[j].pk

OrderedAsAsked ==
  phase \in {"slice", "build"} /\ method = "select" => InOrder(matching)

(* SELECT DISTINCT answers every tuple of a selected row once, in the      *)
(* order of its first occurrence.                                          *)
DistinctOnce ==
  phase = "done" /\ method = "select" /\ query.distinct =>
    /\ IsInjective(rows)
    /\ ToSet(rows) = ToSet(Built)
    /\ \A i, j \in DOMAIN rows : i < j =>
         \E k \in DOMAIN Built :
           Built[k] = rows[i] /\ \A l \in 1..k : Built[l] # rows[j]

(* dates() asks for the rows that have a date.  It lists the first day of  *)
(* each period that has a row, each once and in order, although the rows   *)
(* are sorted by the column and truncated and compared afterwards.         *)
AsksForDates ==
  /\ method = "select" /\ query.distinct /\ query.low = 0 /\ query.high = None
  /\ Len(query.order) = 1 /\ Len(query.cols) = 1
  /\ LET o == query.order[1]
         c == query.cols[1]
     IN /\ o.fns # <<>> /\ c.fns = o.fns /\ c.col = o.col /\ c.alias = Main
        /\ Chosen = {r \in MainRows : RowGet(r, o.col) # None}

DatesListed ==
  phase = "done" /\ AsksForDates =>
    LET o == query.order[1]
        days == {SqlApplyAll(o.fns, RowGet(r, o.col)) : r \in MainRows} \ {None}
    IN /\ ToSet(rows) = {<<d>> : d \in days}
       /\ \A i, j \in DOMAIN rows : i < j =>
            IF o.desc THEN rows[i][1] > rows[j][1] ELSE rows[i][1] < rows[j][1]

(* exists(), count() and aggregate() answer for the rows that the WHERE    *)
(* selects, each taken once, also where the table is missing or nothing    *)
(* can be selected; MAX and MIN are a value of such a row that none of     *)
(* them exceeds.                                                           *)
AnswersAgree ==
  phase = "done" =>
    LET col == query.cols[1].col
        values == {RowGet(r, col) : r \in Chosen} \ {None}
    IN /\ method = "exists" => rows = (Chosen # {})
       /\ method = "count" /\ ~query.distinct /\ query.low = 0 /\ query.high = None
            => rows[1] = Cardinality(Chosen)
       /\ method = "aggregate" => rows[1] = Cardinality(Chosen)
       /\ method = "aggregate" /\ query.cols[1].fns = <<>> =>
            IF values = {} THEN \A k \in 2..5 : rows[k] = None
            ELSE /\ rows[2] \in values /\ rows[3] \in values
                 /\ \A v \in values : rows[3] <= v /\ v <= rows[2]

(* SUM and AVG take every row that the WHERE selects once, however its     *)
(* joins multiply it, and rows of equal values once each.                  *)
SumsAgree ==
  phase = "done" /\ method = "aggregate" /\ query.cols[1].fns = <<>> =>
    LET value == [r \in MainRows |-> RowGet(r, query.cols[1].col)]
        known == {r \in Chosen : value[r] # None}
        sum == MapThenSumSet(LAMBDA r : value[r], known)
    IN known # {} => rows[4] = sum /\ rows[5] = <<sum, Cardinality(known)>>

-----------------------------------------------------------------------------
SqlRows == {r \in MainRows : SqlSelected(query, tabs, r)}

ScanIsOver == phase \in {"order", "slice"} \/ (phase = "build" /\ method = "aggregate")

(* The whole scan keeps exactly the rows that SQL selects: the conditions  *)
(* of one filter() hold of one joined row, exclude() is the complement,    *)
(* EXISTS is correlated with the row at hand.                              *)
RowsSelected ==
  ScanIsOver /\ Evaluable(query.where) => ToSet(matching) = SqlRows

(* A right-hand side that cannot be evaluated is treated as matching, so   *)
(* that a query without negations loses no row by it: what is missing was  *)
(* refused by another condition.  (A left-hand side that is unknown is     *)
(* NULL and does refuse rows; ReadsAsSql has none.)                        *)
NothingLost ==
  ScanIsOver /\ Positive(query.where) => SqlRows \subseteq ToSet(matching)
===============================================================================
