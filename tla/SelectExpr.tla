------------------------------- MODULE SelectExpr -----------------------------
(***************************************************************************)
(* What the compilers do to values: the date functions of a SELECT list or *)
(* a WHERE clause, and the sort and the slice of a list of rows.           *)
(*                                                                         *)
(* A value is a number or None.  A date is the number of its day, in a     *)
(* calendar of years of 16 days, quarters of 8, months of 4 and weeks of   *)
(* 3: weeks do not begin with the years, as in the real one.  A function   *)
(* is <<"trunc", kind>>, <<"extract", kind>>, <<"func", name>> for any     *)
(* other Func or <<"plus", n>> for the CombinedExpression F(...) + n.      *)
(***************************************************************************)
EXTENDS Integers, SequencesExt, FiniteSetsExt

CONSTANT None   \* NULL

ASSUME NullIsNoNumber == None \notin Int

YearDays == 16
MonthDays == 4
WeekDays == 3

(* The week of a day belongs to the year that its middle day is in. *)
MiddleOfWeek(v) == v - (v % WeekDays) + (WeekDays \div 2)

(* Extract: the components of a date. *)
Field(kind, v) ==
  CASE kind = "year"     -> v \div YearDays
    [] kind = "iso_year" -> MiddleOfWeek(v) \div YearDays
    [] kind = "quarter"  -> ((v % YearDays) \div (2 * MonthDays)) + 1
    [] kind = "month"    -> ((v % YearDays) \div MonthDays) + 1
    [] kind = "week"     -> ((MiddleOfWeek(v) % YearDays) \div WeekDays) + 1
    [] kind = "day"      -> (v % MonthDays) + 1
    [] kind = "week_day" -> LET d == ((v % WeekDays) + 2) % WeekDays
                            IN IF d = 0 THEN WeekDays ELSE d

(* Trunc: the first day of the period. *)
Trunc(kind, v) ==
  CASE kind = "year"  -> v - (v % YearDays)
    [] kind = "month" -> v - (v % MonthDays)
    [] kind = "week"  -> v - (v % WeekDays)
    [] kind = "day"   -> v

(* _eval_select_expr on a function.  Trunc does not know the kind quarter: *)
(* there, and for any other Func, it answers the value of the first source.*)
(* What is no Func is unknown, and None.                                   *)
Apply(fn, v) ==
  CASE v = None \/ fn[1] = "plus"                        -> None
    [] v # None /\ fn[1] = "extract"                     -> Field(fn[2], v)
    [] v # None /\ fn[1] = "trunc" /\ fn[2] # "quarter"  -> Trunc(fn[2], v)
    [] OTHER                                             -> v

ApplyAll(fns, v) == FoldLeft(LAMBDA u, fn : Apply(fn, u), v, fns)

-----------------------------------------------------------------------------
(* ORDER BY: a list of [alias, col, fns, desc, nulls_first, fails].        *)
(*                                                                         *)
(* _parse_order_by keeps of an item the name of the column it finds, down  *)
(* a chain of transforms or as the first source of a Func; where it finds  *)
(* none, it drops the item.  The mutant keeps plain columns only.          *)
PlainColumn(o) == o.fns = <<>>

HasColumn(o) == Len(o.fns) <= 1 \/ \A i \in DOMAIN o.fns : o.fns[i][1] # "func"

(* row.get(col): the row of the main table, whatever the column's alias. *)
RowGet(row, col) == IF col \in DOMAIN row THEN row[col] ELSE None

Sign(x, y) == IF x < y THEN -1 ELSE IF x > y THEN 1 ELSE 0

(* A mutant: the sort of a descending column is the reverse of the         *)
(* ascending one, NULLs included.                                          *)
ColumnOrderReversed(r, s, o) ==
  LET v == RowGet(r, o.col)
      w == RowGet(s, o.col)
      up == CASE v = w -> 0
              [] v = None /\ w # None -> IF o.nulls_first THEN -1 ELSE 1
              [] v # None /\ w = None -> IF o.nulls_first THEN 1 ELSE -1
              [] OTHER -> Sign(v, w)
  IN IF o.desc THEN -up ELSE up

(* The comparator of _apply_ordering on one column: NULLs are placed       *)
(* before desc is applied.                                                 *)
ColumnOrder(r, s, o) ==
  LET v == RowGet(r, o.col)
      w == RowGet(s, o.col)
  IN CASE v = None /\ w = None -> 0
       [] v = None /\ w # None -> IF o.nulls_first THEN -1 ELSE 1
       [] v # None /\ w = None -> IF o.nulls_first THEN 1 ELSE -1
       [] v # None /\ w # None -> IF o.desc THEN Sign(w, v) ELSE Sign(v, w)

(* The sign of the first column that tells r and s apart. *)
Compare(r, s, order) ==
  LET apart == {k \in DOMAIN order : HasColumn(order[k]) /\ ColumnOrder(r, s, order[k]) # 0}
  IN IF apart = {} THEN 0 ELSE ColumnOrder(r, s, order[Min(apart)])

(* Python's sorted is stable: a row's place is after all that are less,    *)
(* and after its equals that came before it.                               *)
Before(seq, order, i, j) ==
  LET c == Compare(seq[i], seq[j], order) IN c < 0 \/ (c = 0 /\ i < j)

Place(seq, order, i) == 1 + Cardinality({j \in DOMAIN seq : Before(seq, order, j, i)})

Sorted(seq, order) ==
  [k \in DOMAIN seq |-> seq[CHOOSE i \in DOMAIN seq : Place(seq, order, i) = k]]

(* An ORDER BY with an item that Django cannot compile is dropped as a     *)
(* whole.                                                                  *)
Compiles(order) == \A k \in DOMAIN order : ~order[k].fails

Arranged(seq, order) == Sorted(seq, IF Compiles(order) THEN order ELSE <<>>)

(* matching[low:high], where one of them is not 0.                         *)
Sliced(seq, low, high) ==
  SubSeq(seq, low + 1,
         IF high = None \/ high > Len(seq) \/ (low = 0 /\ high = 0) THEN Len(seq) ELSE high)

-----------------------------------------------------------------------------
(* SQL's date functions: a period is the days that agree on some of their  *)
(* components, and truncating a date gives its period's first day.         *)
Period(kind) == CASE kind = "year"    -> {"year"}
                  [] kind = "quarter" -> {"year", "quarter"}
                  [] kind = "month"   -> {"year", "month"}
                  [] kind = "week"    -> {"iso_year", "week"}
                  [] kind = "day"     -> {"year", "month", "day"}

SqlApply(fn, v) ==
  CASE v = None -> None
    [] v # None /\ fn[1] = "extract" -> Field(fn[2], v)
    [] v # None /\ fn[1] = "trunc" ->
         Min({u \in 0..v : \A k \in Period(fn[2]) : Field(k, u) = Field(k, v)})
    [] v # None /\ fn[1] = "plus" -> v + fn[2]

SqlApplyAll(fns, v) == FoldLeft(LAMBDA u, fn : SqlApply(fn, u), v, fns)

(* ORDER BY as SQL has it, by ranks: NULLs at the end nulls_first names,   *)
(* whatever the direction.                                                 *)
Rank(r, o) ==
  LET v == SqlApplyAll(o.fns, RowGet(r, o.col))
  IN IF v = None THEN <<IF o.nulls_first THEN 0 ELSE 2, 0>>
     ELSE <<1, IF o.desc THEN -v ELSE v>>

Lower(x, y) == x[1] < y[1] \/ (x[1] = y[1] /\ x[2] < y[2])

RanksBefore(r, s, order) ==
  \E k \in DOMAIN order :
    /\ \A j \in 1..(k - 1) : Rank(r, order[j]) = Rank(s, order[j])
    /\ Lower(Rank(r, order[k]), Rank(s, order[k]))

(* The rows that come before r: by ORDER BY, and ties by key.              *)
EarlierRows(rows, r, order) ==
  {s \in rows : \/ RanksBefore(s, r, order)
                \/ ~RanksBefore(r, s, order) /\ s.pk < r.pk}

InSlice(n, low, high) == low <= n /\ (high = None \/ n < high)

(* The rows a SELECT without joins lists: those with a place in the slice. *)
SqlList(rows, order, low, high) ==
  {r \in rows : InSlice(Cardinality(EarlierRows(rows, r, order)), low, high)}
===============================================================================
