----------------------------- MODULE MCSelectQuery ----------------------------
(***************************************************************************)
(* Small databases and queries for SelectPlan.   The main table "a" has a  *)
(* foreign key "fk" to "b"; the rows of "t" belong to a row of "a" and     *)
(* point to a row of "b", as the through table of a many-to-many relation. *)
(***************************************************************************)
EXTENDS SelectPlan

(* Databases with related rows. *)
RowsOfA == {<<[pk |-> 1, fk |-> f, x |-> x], [pk |-> 2, fk |-> g, x |-> y]>> :
              f, g \in {None, 1, 2}, x, y \in {None, 1}}
RowsOfB == {<<[pk |-> 1, x |-> x], [pk |-> 2, x |-> y]>> : x, y \in {None, 1}}
RowsOfT == {<<[pk |-> 1, a |-> 1, b |-> b, x |-> x], [pk |-> 2, a |-> a, b |-> c, x |-> y]>> :
              a, b, c \in {1, 2}, x, y \in {1, 2}}
Related == {[a |-> A, b |-> B, t |-> T] : A \in RowsOfA, B \in RowsOfB, T \in RowsOfT}

(* Those in which one of the two other tables varies with "a". *)
OneB == <<[pk |-> 1, x |-> None], [pk |-> 2, x |-> 1]>>
OneT == <<[pk |-> 1, a |-> 1, b |-> 1, x |-> 1], [pk |-> 2, a |-> 2, b |-> 2, x |-> 2]>>
WithB == {[a |-> A, b |-> B, t |-> OneT] : A \in RowsOfA, B \in RowsOfB}
WithT == {[a |-> A, b |-> OneB, t |-> T] : A \in RowsOfA, T \in RowsOfT}

(* Databases of one table, and one without it. *)
Single == {[a |-> [i \in 1..3 |-> [pk |-> i, x |-> xs[i], y |-> ys[i]]]] :
             xs \in [1..3 -> {None, 1, 2}], ys \in [1..3 -> {1, 2}]}
          \cup {[b |-> <<>>]}

(* Databases of one table with dates. *)
Dated == {[a |-> [i \in 1..3 |-> [pk |-> i, day |-> ds[i]]]] :
            ds \in [1..3 -> {None, 2, 5, 15, 16}]}

(* Trees: the AND of some leaves, and one of a node around them: Q(...) as *)
(* filter() adds it, or the negation of exclude().                         *)
AllOf(leaves) == Append(leaves, WhereNode("AND", FALSE, DOMAIN leaves))
Around(conn, neg, leaves) ==
  leaves \o <<WhereNode(conn, neg, DOMAIN leaves), WhereNode("AND", FALSE, {Len(leaves) + 1})>>

ToB == [table |-> "b", parent |-> Main, lcol |-> "fk", rcol |-> "pk"]
ToT == [table |-> "t", parent |-> Main, lcol |-> "pk", rcol |-> "a"]
ThenB == [table |-> "b", parent |-> "t", lcol |-> "b", rcol |-> "pk"]
NoJoin == [j \in {} |-> ToB]

Query(joins, where) ==
  [main |-> "a", sub |-> FALSE, joins |-> joins, where |-> where, order |-> <<>>, low |-> 0, high |-> None,
   distinct |-> FALSE, cols |-> <<[alias |-> Main, col |-> "pk", fns |-> <<>>]>>]
InnerQuery(where, col) ==
  [Query(NoJoin, where) EXCEPT !.main = "t", !.sub = TRUE,
                               !.cols = <<[alias |-> Main, col |-> col, fns |-> <<>>]>>]
OrderOf(col, fns, d, n) ==
  [alias |-> Main, col |-> col, fns |-> fns, desc |-> d, nulls_first |-> n, fails |-> FALSE]

X(op, rhs) == Lookup(Main, "x", op, rhs)

(* The subqueries of the following. *)
InnerQueries ==
  <<InnerQuery(AllOf(<<Lookup(Main, "a", "outer", OuterRef("exact", "pk")), X("exact", 1)>>), "a"),
    InnerQuery(AllOf(<<X("lte", 1), ExistsIn(TRUE, 1)>>), "a"),
    [InnerQuery(AllOf(<<>>), "a") EXCEPT !.order = <<OrderOf("x", <<>>, TRUE, TRUE)>>, !.high = 1],
    InnerQuery(AllOf(<<Lookup(Main, "a", "outer", OuterRef("gt", "pk"))>>), "a"),
    InnerQuery(Around("OR", FALSE, <<X("exact", 2), Lookup(Main, "b", "in", {2})>>), "a")>>

(* filter() and exclude() over one join, EXISTS and IN subqueries, and an  *)
(* OR of two filtered querysets.                                           *)
RelatedQueries ==
  {Query([f |-> ToB], AllOf(<<Lookup("f", "x", "exact", 1), X("isnull", FALSE)>>)),
   Query([f |-> ToB], AllOf(<<Lookup("f", "pk", "isnull", TRUE)>>)),
   Query([f |-> ToB],
         Around("AND", TRUE, <<Lookup("f", "x", "exact", 1), Lookup("f", "x", "isnull", FALSE)>>)),
   Query([t |-> ToT], AllOf(<<Lookup("t", "x", "exact", 1), Lookup("t", "b", "exact", 1)>>)),
   Query([t |-> ToT], AllOf(<<Lookup("t", "x", "gt", 1), Lookup("t", "b", "in", {2})>>)),
   Query([t |-> ToT], <<Lookup("t", "x", "exact", 1), Lookup("t", "b", "exact", 1),
                        WhereNode("AND", FALSE, {1, 2}), X("text", {1}),
                        WhereNode("OR", FALSE, {3, 4})>>),
   Query(NoJoin, Around("AND", TRUE, <<ExistsIn(TRUE, 1)>>)),
   Query(NoJoin, AllOf(<<ExistsIn(FALSE, 4)>>)),
   Query(NoJoin, Around("OR", FALSE, <<ExistsIn(TRUE, 1), ExistsIn(TRUE, 4)>>)),
   Query(NoJoin, AllOf(<<Lookup(Main, "pk", "in_query", 5)>>)),
   Query(NoJoin, AllOf(<<Lookup(Main, "pk", "in_query", 2)>>)),
   Query(NoJoin, Around("AND", TRUE, <<Lookup(Main, "pk", "in_query", 3)>>)),
   Query([t |-> ToT], AllOf(<<Lookup("t", "x", "gt", 1), Lookup("t", "b", "expr", "fk")>>))}

(* filter() through the many-to-many relation to the far row. *)
FarQueries ==
  {Query([t |-> ToT, b |-> ThenB],
         AllOf(<<Lookup("t", "x", "exact", 1), Lookup("b", "x", "exact", 1)>>))}

(* ORDER BY one or two columns, slices and DISTINCT. *)
Plus == <<<<"plus", 1>>>>
Orders == {<<>>, <<OrderOf("x", Plus, TRUE, FALSE)>>,
           <<OrderOf("x", <<>>, TRUE, TRUE), [OrderOf("x", Plus, TRUE, TRUE) EXCEPT !.fails = TRUE]>>}
          \cup {<<OrderOf("x", <<>>, d, n)>> : d, n \in BOOLEAN}
          \cup {<<OrderOf("x", <<>>, d, d), OrderOf("y", <<>>, TRUE, FALSE)>> : d \in BOOLEAN}
Slices == {<<0, None>>, <<0, 2>>, <<1, None>>}

ListQueries ==
  {[Query(NoJoin, w) EXCEPT !.order = o, !.low = s[1], !.high = s[2], !.distinct = d,
                            !.cols = <<[alias |-> Main, col |-> "x", fns |-> <<>>]>>] :
     w \in {AllOf(<<>>), Around("OR", FALSE, <<X("isnull", TRUE), X("exact", 2)>>),
            Around("XOR", FALSE, <<X("lte", 1), Lookup(Main, "y", "exact", 1)>>)},
     o \in Orders, s \in Slices, d \in BOOLEAN}

(* dates(), lookups on components of a date, none(). *)
Day(fns, op, rhs) == [Lookup(Main, "day", op, rhs) EXCEPT !.fns = fns]
Of(fns) == <<[alias |-> Main, col |-> "day", fns |-> fns]>>
Known == AllOf(<<Lookup(Main, "day", "isnull", FALSE)>>)
Dates(kind, d) ==
  [Query(NoJoin, Known) EXCEPT !.cols = Of(<<<<"trunc", kind>>>>), !.distinct = TRUE,
                               !.order = <<OrderOf("day", <<<<"trunc", kind>>>>, d, d)>>]
DateQueries ==
  {Dates(kind, d) : kind \in {"year", "month", "week", "day"}, d \in BOOLEAN}
  \cup {[Query(NoJoin, w) EXCEPT !.cols = Of(<<>>)] :
          w \in {AllOf(<<Day(<<<<"extract", "year">>>>, "year", 1)>>),
                 AllOf(<<Day(<<<<"extract", "month">>>>, "gt", 1)>>),
                 AllOf(<<Day(<<<<"extract", "quarter">>>>, "in", {2})>>),
                 AllOf(<<Day(<<<<"extract", "week_day">>>>, "exact", 1)>>),
                 AllOf(<<Day(<<<<"trunc", "month">>, <<"extract", "week">>>>, "exact", 1)>>),
                 Around("OR", FALSE, <<Day(<<<<"extract", "iso_year">>>>, "exact", 1), Nothing>>),
                 AllOf(<<Nothing>>)}}

AllQueries == RelatedQueries \cup ListQueries \cup DateQueries
AllDatabases == WithB \cup WithT \cup Single \cup Dated

(* The databases that a query meets. *)
Meets(q) ==
  CASE q \in RelatedQueries -> IF "f" \in DOMAIN q.joins THEN WithB ELSE WithT
    [] q \in DateQueries    -> Dated
    [] q \in ListQueries    -> Single

(* The theorems about the rows that are selected are about these queries,  *)
(* and not about those of the run that finds them wrong.                   *)
ASSUME QueriesReadAsSql ==
  /\ \A q \in AllQueries : \A db \in Meets(q) : ReadsAsSql(q, db)
  /\ \A q \in FarQueries : \A db \in Related : ~ReadsAsSql(q, db)

(* The methods that do not look at the ORDER BY list run without one.      *)
PairedInit ==
  /\ Init
  /\ tabs \in Meets(query)
  /\ query \in ListQueries => method = "select" \/ query.order = <<>>
PairedSpec == PairedInit /\ [][Next]_vars
===============================================================================
