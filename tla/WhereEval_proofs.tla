--------------------------- MODULE WhereEval_proofs ---------------------------
(***************************************************************************)
(* Theorems about the values of SelectExpr, for every row and date: the    *)
(* comparator of _apply_ordering is one that a sort can use, and dates()   *)
(* may sort rows by the column and truncate afterwards.  And about the     *)
(* WHERE of WhereEval, for every tree, table and subquery: where the       *)
(* lookups are plain, the code selects the rows that SQL does.             *)
(***************************************************************************)
EXTENDS WhereEval, FiniteSetTheorems, WellFoundedInduction, TLAPS

(* The kinds that dates() takes. *)
Kinds == {"year", "month", "week", "day"}

SamePeriod(kind, u, v) == \A k \in Period(kind) : Field(k, u) = Field(k, v)

-----------------------------------------------------------------------------
(* Truncating gives a day of the same period, by the components that       *)
(* Extract answers.                                                        *)
LEMMA TruncInPeriod ==
  ASSUME NEW kind \in Kinds, NEW v \in Nat
  PROVE  Trunc(kind, v) \in 0..v /\ SamePeriod(kind, Trunc(kind, v), v)
<1>1. CASE kind = "year"
  BY <1>1, SMT DEF Trunc, SamePeriod, Period, Field, YearDays
<1>2. CASE kind = "month"
  <2> DEFINE u == v - (v % 4)
  <2>1. u \in 0..v /\ u \div 16 = v \div 16 /\ (u % 16) \div 4 = (v % 16) \div 4
    BY SMT
  <2>2. Trunc(kind, v) = u
    BY <1>2 DEF Trunc, MonthDays
  <2>3. Field("year", u) = Field("year", v) /\ Field("month", u) = Field("month", v)
    BY <2>1 DEF Field, YearDays, MonthDays
  <2>4. SamePeriod(kind, u, v)
    BY <1>2, <2>3 DEF SamePeriod, Period
  <2> QED BY <2>1, <2>2, <2>4
<1>3. CASE kind = "week"
  <2> DEFINE u == v - (v % 3)
  <2>1. u \in 0..v /\ u - (u % 3) = v - (v % 3)
    BY SMT
  <2>2. Trunc(kind, v) = u
    BY <1>3 DEF Trunc, WeekDays
  <2>3. MiddleOfWeek(u) = MiddleOfWeek(v)
    BY <2>1 DEF MiddleOfWeek, WeekDays
  <2>4. Field("iso_year", u) = Field("iso_year", v) /\ Field("week", u) = Field("week", v)
    BY <2>3 DEF Field
  <2>5. SamePeriod(kind, u, v)
    BY <1>3, <2>4 DEF SamePeriod, Period
  <2> QED BY <2>1, <2>2, <2>5
<1>4. CASE kind = "day"
  BY <1>4, SMT DEF Trunc, SamePeriod
<1> QED BY <1>1, <1>2, <1>3, <1>4 DEF Kinds

(* No earlier day is in the period. *)
LEMMA TruncIsFirst ==
  ASSUME NEW kind \in Kinds, NEW v \in Nat, NEW u \in 0..v, SamePeriod(kind, u, v)
  PROVE  Trunc(kind, v) <= u
<1>1. CASE kind = "year"
  BY <1>1, SMT DEF Trunc, SamePeriod, Period, Field, YearDays
<1>2. CASE kind = "month"
  <2>1. Field("year", u) = Field("year", v) /\ Field("month", u) = Field("month", v)
    BY <1>2 DEF SamePeriod, Period
  <2>2. /\ u \div 16 = v \div 16
        /\ ((u % 16) \div 4) + 1 = ((v % 16) \div 4) + 1
    BY <2>1 DEF Field, YearDays, MonthDays
  <2>3. u \div 4 = v \div 4
    BY <2>2, SMT
  <2>4. v - (v % 4) <= u
    BY <2>3, SMT
  <2> QED BY <1>2, <2>4 DEF Trunc, MonthDays
<1>3. CASE kind = "week"
  <2>1. Field("iso_year", u) = Field("iso_year", v) /\ Field("week", u) = Field("week", v)
    BY <1>3 DEF SamePeriod, Period
  <2>2. MiddleOfWeek(u) = u - (u % 3) + 1 /\ MiddleOfWeek(v) = v - (v % 3) + 1
    BY SMT DEF MiddleOfWeek, WeekDays
  <2>3. /\ MiddleOfWeek(u) \div 16 = MiddleOfWeek(v) \div 16
        /\ ((MiddleOfWeek(u) % 16) \div 3) + 1 = ((MiddleOfWeek(v) % 16) \div 3) + 1
    BY <2>1 DEF Field, YearDays, WeekDays
  <2>4. v - (v % 3) = u - (u % 3)
    BY <2>2, <2>3, SMT
  <2>5. v - (v % 3) <= u
    BY <2>4, SMT
  <2> QED BY <1>3, <2>5 DEF Trunc, WeekDays
<1>4. CASE kind = "day"
  <2>1. /\ Field("year", u) = Field("year", v) /\ Field("month", u) = Field("month", v)
        /\ Field("day", u) = Field("day", v)
    BY <1>4 DEF SamePeriod, Period
  <2>2. /\ u \div 16 = v \div 16
        /\ ((u % 16) \div 4) + 1 = ((v % 16) \div 4) + 1
        /\ (u % 4) + 1 = (v % 4) + 1
    BY <2>1 DEF Field, YearDays, MonthDays
  <2>3. u = v
    BY <2>2, SMT
  <2> QED BY <1>4, <2>3 DEF Trunc
<1> QED BY <1>1, <1>2, <1>3, <1>4 DEF Kinds

(* A later day is never in an earlier period. *)
LEMMA TruncKeepsOrder ==
  ASSUME NEW kind \in Kinds, NEW u \in Nat, NEW v \in Nat, u <= v
  PROVE  Trunc(kind, u) <= Trunc(kind, v)
<1>1. CASE kind = "year" BY <1>1, SMT DEF Trunc, YearDays
<1>2. CASE kind = "month" BY <1>2, SMT DEF Trunc, MonthDays
<1>3. CASE kind = "week" BY <1>3, SMT DEF Trunc, WeekDays
<1>4. CASE kind = "day" BY <1>4, SMT DEF Trunc
<1> QED BY <1>1, <1>2, <1>3, <1>4 DEF Kinds

(* What the code answers for a Trunc of a kind that dates() takes is what  *)
(* SQL answers: the first day of the period of the date, which Extract     *)
(* tells apart from the others.                                            *)
THEOREM TruncAsSql ==
  ASSUME NEW kind \in Kinds, NEW v \in Nat \cup {None}
  PROVE  Apply(<<"trunc", kind>>, v) = SqlApply(<<"trunc", kind>>, v)
<1> DEFINE days == {u \in 0..v : SamePeriod(kind, u, v)}
<1>1. CASE v = None
  BY <1>1 DEF Apply, SqlApply
<1>2. CASE v # None
  <2>1. v \in Nat
    BY <1>2
  <2>2. Trunc(kind, v) \in days /\ \A u \in days : Trunc(kind, v) <= u
    BY <2>1, TruncInPeriod, TruncIsFirst
  <2>3. \A x \in days : (\A y \in days : x <= y) => x = Trunc(kind, v)
    BY <2>1, <2>2
  <2>4. Min(days) = Trunc(kind, v)
    BY <2>2, <2>3 DEF Min
  <2>5. SqlApply(<<"trunc", kind>>, v) = Min(days)
    BY <1>2 DEF SqlApply, SamePeriod
  <2>6. Apply(<<"trunc", kind>>, v) = Trunc(kind, v)
    BY <1>2 DEF Apply, Kinds
  <2> QED BY <2>4, <2>5, <2>6
<1> QED BY <1>1, <1>2

(* Rows that are sorted by a date are sorted by the first days of its      *)
(* periods: _parse_order_by may drop the Trunc of an ORDER BY.             *)
THEOREM DatesStaySorted ==
  ASSUME NEW kind \in Kinds, NEW seq \in Seq(Nat),
         \A i, j \in DOMAIN seq : i < j => seq[i] <= seq[j]
  PROVE  \A i, j \in DOMAIN seq : i < j => Trunc(kind, seq[i]) <= Trunc(kind, seq[j])
BY TruncKeepsOrder

-----------------------------------------------------------------------------
(* No function leaves a value as it is, and a list of one function applies *)
(* that one: in what the code does, and in what SQL does.                  *)
LEMMA ApplyNone ==
  ASSUME NEW v
  PROVE  ApplyAll(<<>>, v) = v
<1> DEFINE Step(iter, s) == IF s = {} THEN v ELSE Apply(<<>>[Max(s)], iter[s \ {Max(s)}])
           places == DOMAIN <<>>
           f == [s \in SUBSET places |-> v]
<1>1. ApplyAll(<<>>, v) = (CHOOSE iter : iter = [s \in SUBSET places |-> Step(iter, s)])[places]
  BY DEF ApplyAll, FoldLeft, MapThenFoldSet
<1>2. places = {}
  OBVIOUS
<1>3. f = [s \in SUBSET places |-> Step(f, s)]
  BY <1>2
<1>4. \A iter : iter = [s \in SUBSET places |-> Step(iter, s)] => iter[places] = v
  BY <1>2
<1> QED BY <1>1, <1>3, <1>4

LEMMA SqlApplyNone ==
  ASSUME NEW v
  PROVE  SqlApplyAll(<<>>, v) = v
<1> DEFINE Step(iter, s) == IF s = {} THEN v ELSE SqlApply(<<>>[Max(s)], iter[s \ {Max(s)}])
           places == DOMAIN <<>>
           f == [s \in SUBSET places |-> v]
<1>1. SqlApplyAll(<<>>, v) = (CHOOSE iter : iter = [s \in SUBSET places |-> Step(iter, s)])[places]
  BY DEF SqlApplyAll, FoldLeft, MapThenFoldSet
<1>2. places = {}
  OBVIOUS
<1>3. f = [s \in SUBSET places |-> Step(f, s)]
  BY <1>2
<1>4. \A iter : iter = [s \in SUBSET places |-> Step(iter, s)] => iter[places] = v
  BY <1>2
<1> QED BY <1>1, <1>3, <1>4

LEMMA ApplyOne ==
  ASSUME NEW v, NEW fn
  PROVE  ApplyAll(<<fn>>, v) = Apply(fn, v)
<1> DEFINE seq == <<fn>>
           places == DOMAIN seq
           Step(iter, s) == IF s = {} THEN v ELSE Apply(seq[Max(s)], iter[s \ {Max(s)}])
           f == [s \in SUBSET {1} |-> IF s = {} THEN v ELSE Apply(fn, v)]
<1>1. ApplyAll(seq, v) = (CHOOSE iter : iter = [s \in SUBSET places |-> Step(iter, s)])[places]
  BY DEF ApplyAll, FoldLeft, MapThenFoldSet
<1>2. places = {1} /\ seq[1] = fn
  OBVIOUS
<1>3. Max({1}) = 1
  BY DEF Max
<1>4. \A s \in SUBSET {1} : s = {} \/ s = {1}
  OBVIOUS
<1>5. {1} # {} /\ {1} \ {1} = {}
  OBVIOUS
<1> HIDE DEF seq, places
<1>6. \A s \in SUBSET {1} : f[s] = Step(f, s)
  BY <1>2, <1>3, <1>4, <1>5
<1>7. f = [s \in SUBSET places |-> Step(f, s)]
  BY <1>2, <1>6
<1>8. ASSUME NEW iter, iter = [s \in SUBSET places |-> Step(iter, s)]
      PROVE  iter[places] = Apply(fn, v)
  <2>1. iter[{}] = Step(iter, {})
    BY <1>2, <1>8
  <2>2. iter[{1}] = Step(iter, {1})
    BY <1>2, <1>8
  <2>3. iter[{1}] = Apply(fn, iter[{}])
    BY <2>2, <1>2, <1>3, <1>5
  <2> QED BY <2>1, <2>3, <1>2
<1> QED BY <1>1, <1>7, <1>8 DEF seq

LEMMA SqlApplyOne ==
  ASSUME NEW v, NEW fn
  PROVE  SqlApplyAll(<<fn>>, v) = SqlApply(fn, v)
<1> DEFINE seq == <<fn>>
           places == DOMAIN seq
           Step(iter, s) == IF s = {} THEN v ELSE SqlApply(seq[Max(s)], iter[s \ {Max(s)}])
           f == [s \in SUBSET {1} |-> IF s = {} THEN v ELSE SqlApply(fn, v)]
<1>1. SqlApplyAll(seq, v) = (CHOOSE iter : iter = [s \in SUBSET places |-> Step(iter, s)])[places]
  BY DEF SqlApplyAll, FoldLeft, MapThenFoldSet
<1>2. places = {1} /\ seq[1] = fn
  OBVIOUS
<1>3. Max({1}) = 1
  BY DEF Max
<1>4. \A s \in SUBSET {1} : s = {} \/ s = {1}
  OBVIOUS
<1>5. {1} # {} /\ {1} \ {1} = {}
  OBVIOUS
<1> HIDE DEF seq, places
<1>6. \A s \in SUBSET {1} : f[s] = Step(f, s)
  BY <1>2, <1>3, <1>4, <1>5
<1>7. f = [s \in SUBSET places |-> Step(f, s)]
  BY <1>2, <1>6
<1>8. ASSUME NEW iter, iter = [s \in SUBSET places |-> Step(iter, s)]
      PROVE  iter[places] = SqlApply(fn, v)
  <2>1. iter[{}] = Step(iter, {})
    BY <1>2, <1>8
  <2>2. iter[{1}] = Step(iter, {1})
    BY <1>2, <1>8
  <2>3. iter[{1}] = SqlApply(fn, iter[{}])
    BY <2>2, <1>2, <1>3, <1>5
  <2> QED BY <2>1, <2>3, <1>2
<1> QED BY <1>1, <1>7, <1>8 DEF seq


-----------------------------------------------------------------------------
(* Sign compares two numbers. *)
LEMMA SignFacts ==
  ASSUME NEW i \in Int, NEW j \in Int
  PROVE  /\ Sign(i, j) \in {-1, 0, 1}
         /\ Sign(i, j) < 0 <=> Sign(j, i) > 0
         /\ Sign(i, j) <= 0 <=> i <= j
BY DEF Sign

(* The comparator of _apply_ordering on one column, ascending or not, with *)
(* NULLs at either end: what it says of two rows it says of them the other *)
(* way round, and it is transitive, on rows whose values are numbers or    *)
(* NULL; so sorted() has one order to find.                                *)
THEOREM ColumnOrderIsConsistent ==
  ASSUME NEW r, NEW s, NEW t, NEW o,
         RowGet(r, o.col) \in Int \cup {None}, RowGet(s, o.col) \in Int \cup {None},
         RowGet(t, o.col) \in Int \cup {None}
  PROVE  /\ ColumnOrder(r, s, o) \in {-1, 0, 1}
         /\ ColumnOrder(r, s, o) < 0 <=> ColumnOrder(s, r, o) > 0
         /\ ColumnOrder(r, s, o) <= 0 /\ ColumnOrder(s, t, o) <= 0
              => ColumnOrder(r, t, o) <= 0
<1>1. ColumnOrder(r, s, o) \in {-1, 0, 1}
  BY SignFacts DEF ColumnOrder
<1>2. ColumnOrder(r, s, o) < 0 <=> ColumnOrder(s, r, o) > 0
  BY SignFacts DEF ColumnOrder
<1>3. ColumnOrder(r, s, o) <= 0 /\ ColumnOrder(s, t, o) <= 0 => ColumnOrder(r, t, o) <= 0
  <2>1. CASE o.desc
    BY <2>1, SignFacts DEF ColumnOrder
  <2>2. CASE ~o.desc
    BY <2>2, SignFacts DEF ColumnOrder
  <2> QED BY <2>1, <2>2
<1> QED BY <1>1, <1>2, <1>3

-----------------------------------------------------------------------------
(* A non-empty set of natural numbers has a least one: what the proofs     *)
(* below use where a list's places are searched from its beginning.        *)
LessThan == {ss \in Nat \X Nat : ss[1] < ss[2]}

LEMMA LessIsWellFounded == IsWellFoundedOn(LessThan, Nat)
BY NatLessThanWellFounded DEF OpToRel, LessThan

LEMMA LeastOf ==
  ASSUME NEW S \in SUBSET Nat, S # {}
  PROVE  \E m \in S : \A n \in S : m <= n
<1>1. PICK x \in S : \A y \in S : ~ (<<y, x>> \in LessThan)
  BY LessIsWellFounded, WFMin
<1>2. \A a, b \in Nat : a < b => <<a, b>> \in LessThan
  BY DEF LessThan
<1>3. \A y \in S : ~ (y < x)
  BY <1>1, <1>2
<1> QED BY <1>3

LEMMA MinIsLeast ==
  ASSUME NEW S \in SUBSET Nat, S # {}
  PROVE  Min(S) \in S /\ \A n \in S : Min(S) <= n
BY LeastOf DEF Min

-----------------------------------------------------------------------------
(* Lists of rows, and their keys.                                           *)
KeysRise(seq) == \A i, j \in DOMAIN seq : i < j => seq[i].pk < seq[j].pk
KeysDiffer(seq) == \A i, j \in DOMAIN seq : i # j => seq[i].pk # seq[j].pk

LEMMA SetOfAppended ==
  ASSUME NEW S, NEW seq \in Seq(S), NEW x
  PROVE  ToSet(Append(seq, x)) = ToSet(seq) \cup {x}
<1>1. DOMAIN Append(seq, x) = 1..(Len(seq) + 1) /\ DOMAIN seq = 1..Len(seq) /\ Len(seq) \in Nat
  OBVIOUS
<1>2. /\ \A i \in 1..Len(seq) : Append(seq, x)[i] = seq[i]
      /\ Append(seq, x)[Len(seq) + 1] = x
  OBVIOUS
<1>3. \A i \in 1..(Len(seq) + 1) : i \in 1..Len(seq) \/ i = Len(seq) + 1
  BY <1>1
<1>4. \A i \in 1..Len(seq) : i \in 1..(Len(seq) + 1)
  BY <1>1
<1>5. Len(seq) + 1 \in 1..(Len(seq) + 1)
  BY <1>1
<1> QED BY <1>1, <1>2, <1>3, <1>4, <1>5 DEF ToSet

LEMMA SliceIsAPart ==
  ASSUME NEW S, NEW seq \in Seq(S), NEW low \in Nat, NEW high \in (Nat \ {0}) \cup {None}
  PROVE  /\ Sliced(seq, low, high) \in Seq(S)
         /\ \A i \in DOMAIN Sliced(seq, low, high) :
              low + i \in DOMAIN seq /\ Sliced(seq, low, high)[i] = seq[low + i]
         /\ low = 0 /\ high = None => Sliced(seq, low, high) = seq
<1> DEFINE last == IF high = None \/ high > Len(seq) THEN Len(seq) ELSE high
<1>1. last \in Nat /\ last <= Len(seq) /\ Len(seq) \in Nat
  OBVIOUS
<1>2. Sliced(seq, low, high) = SubSeq(seq, low + 1, last)
  BY DEF Sliced
<1>3. low = 0 /\ high = None => last = Len(seq)
  OBVIOUS
<1> HIDE DEF last
<1>4. SubSeq(seq, low + 1, last) \in Seq(S)
  BY <1>1
<1>5. \A i \in DOMAIN SubSeq(seq, low + 1, last) :
        low + i \in DOMAIN seq /\ SubSeq(seq, low + 1, last)[i] = seq[low + i]
  BY <1>1
<1>6. SubSeq(seq, 1, Len(seq)) = seq
  OBVIOUS
<1> QED BY <1>2, <1>3, <1>4, <1>5, <1>6

(* At most one place of a list of rows in key order is before another.     *)
LEMMA RisingDiffers ==
  ASSUME NEW seq, DOMAIN seq \subseteq Int, \A i \in DOMAIN seq : seq[i].pk \in Int, KeysRise(seq)
  PROVE  KeysDiffer(seq)
<1>1. \A i, j \in DOMAIN seq : i # j => i < j \/ j < i
  OBVIOUS
<1>2. \A i, j \in DOMAIN seq : i # j => seq[i].pk < seq[j].pk \/ seq[j].pk < seq[i].pk
  BY <1>1 DEF KeysRise
<1> QED BY <1>2 DEF KeysDiffer

-----------------------------------------------------------------------------
(* The comparator on all columns.                                          *)
Comparable(r) == \A c : RowGet(r, c) \in Int \cup {None}

Kept(order) == {k \in DOMAIN order : HasColumn(order[k])}

(* The comparator says that r is not after s where no column does that the *)
(* earlier ones leave the choice to.                                       *)
NotAfter(r, s, order) ==
  \A k \in Kept(order) :
    (\A j \in Kept(order) : j < k => ColumnOrder(r, s, order[j]) = 0)
      => ColumnOrder(r, s, order[k]) <= 0

LEMMA CompareMeans ==
  ASSUME NEW r, NEW s, NEW order, DOMAIN order \subseteq Nat, Comparable(r), Comparable(s)
  PROVE  /\ Compare(r, s, order) \in {-1, 0, 1}
         /\ Compare(r, s, order) < 0 <=> Compare(s, r, order) > 0
         /\ Compare(r, s, order) <= 0 <=> NotAfter(r, s, order)
         /\ Compare(r, s, order) = 0
              <=> \A k \in Kept(order) : ColumnOrder(r, s, order[k]) = 0
         /\ Compare(r, s, order) < 0 =>
              \E k \in Kept(order) :
                /\ ColumnOrder(r, s, order[k]) < 0
                /\ \A j \in Kept(order) : j < k => ColumnOrder(r, s, order[j]) = 0
<1> DEFINE C(k) == ColumnOrder(r, s, order[k])
           D(k) == ColumnOrder(s, r, order[k])
           apart == {k \in DOMAIN order : HasColumn(order[k]) /\ C(k) # 0}
           back == {k \in DOMAIN order : HasColumn(order[k]) /\ D(k) # 0}
<1>1. \A k : /\ C(k) \in {-1, 0, 1} /\ D(k) \in {-1, 0, 1}
             /\ (C(k) < 0 <=> D(k) > 0) /\ (D(k) < 0 <=> C(k) > 0)
  BY ColumnOrderIsConsistent DEF Comparable
<1>2. \A k : C(k) # 0 <=> D(k) # 0
  BY <1>1
<1>3. apart = back
  BY <1>2
<1>4. Compare(r, s, order) = IF apart = {} THEN 0 ELSE C(Min(apart))
  BY DEF Compare
<1>5. Compare(s, r, order) = IF back = {} THEN 0 ELSE D(Min(back))
  BY DEF Compare
<1>6. apart # {} => Min(apart) \in apart /\ \A n \in apart : Min(apart) <= n
  BY MinIsLeast
<1>7. \A k : k \in apart <=> k \in Kept(order) /\ C(k) # 0
  BY DEF Kept
<1> HIDE DEF C, D, apart, back
<1>8. Compare(r, s, order) \in {-1, 0, 1}
  BY <1>1, <1>4
<1>9. Compare(r, s, order) < 0 <=> Compare(s, r, order) > 0
  BY <1>1, <1>3, <1>4, <1>5
<1>10. Compare(r, s, order) = 0 <=> \A k \in Kept(order) : C(k) = 0
  BY <1>1, <1>4, <1>6, <1>7
<1>11. apart # {} => /\ Min(apart) \in Kept(order) /\ C(Min(apart)) # 0
                     /\ \A j \in Kept(order) : j < Min(apart) => C(j) = 0
  BY <1>6, <1>7 DEF Kept
<1>12. Compare(r, s, order) < 0 =>
         \E k \in Kept(order) : C(k) < 0 /\ \A j \in Kept(order) : j < k => C(j) = 0
  BY <1>4, <1>11
<1>13. ASSUME Compare(r, s, order) <= 0, NEW k \in Kept(order),
              \A j \in Kept(order) : j < k => C(j) = 0
       PROVE  C(k) <= 0
  <2>1. CASE apart = {} \/ C(k) = 0
    BY <2>1, <1>1, <1>7
  <2>2. CASE apart # {} /\ C(k) # 0
    <3>1. k \in apart /\ Min(apart) <= k /\ ~(Min(apart) < k)
      BY <2>2, <1>6, <1>7, <1>11, <1>13
    <3>2. Min(apart) \in Nat /\ k \in Nat
      BY <2>2, <1>11 DEF Kept
    <3>3. k = Min(apart)
      BY <3>1, <3>2
    <3> QED BY <3>3, <2>2, <1>4, <1>13
  <2> QED BY <2>1, <2>2
<1>14. NotAfter(r, s, order) => Compare(r, s, order) <= 0
  BY <1>4, <1>11 DEF NotAfter, C
<1>15. Compare(r, s, order) <= 0 => NotAfter(r, s, order)
  BY <1>13 DEF NotAfter, C
<1> QED BY <1>8, <1>9, <1>10, <1>12, <1>14, <1>15 DEF C

(* Not being after is transitive: the first column that tells one of two   *)
(* neighbours apart tells the outer two apart the same way.                *)
LEMMA NotAfterIsTransitive ==
  ASSUME NEW r, NEW s, NEW t, NEW order, DOMAIN order \subseteq Nat,
         Comparable(r), Comparable(s), Comparable(t),
         NotAfter(r, s, order), NotAfter(s, t, order)
  PROVE  /\ NotAfter(r, t, order)
         /\ NotAfter(t, r, order) => NotAfter(s, r, order) /\ NotAfter(t, s, order)
<1> DEFINE RS(k) == ColumnOrder(r, s, order[k])
           SR(k) == ColumnOrder(s, r, order[k])
           ST(k) == ColumnOrder(s, t, order[k])
           TS(k) == ColumnOrder(t, s, order[k])
           RT(k) == ColumnOrder(r, t, order[k])
           TR(k) == ColumnOrder(t, r, order[k])
<1>1. \A k : /\ RS(k) \in {-1, 0, 1} /\ SR(k) \in {-1, 0, 1} /\ ST(k) \in {-1, 0, 1}
             /\ TS(k) \in {-1, 0, 1} /\ RT(k) \in {-1, 0, 1} /\ TR(k) \in {-1, 0, 1}
             /\ (RS(k) < 0 <=> SR(k) > 0) /\ (SR(k) < 0 <=> RS(k) > 0)
             /\ (ST(k) < 0 <=> TS(k) > 0) /\ (TS(k) < 0 <=> ST(k) > 0)
             /\ (RT(k) < 0 <=> TR(k) > 0) /\ (TR(k) < 0 <=> RT(k) > 0)
  BY ColumnOrderIsConsistent DEF Comparable
<1>2. \A k : /\ RS(k) <= 0 /\ ST(k) <= 0 => RT(k) <= 0
             /\ TR(k) <= 0 /\ RS(k) <= 0 => TS(k) <= 0
             /\ ST(k) <= 0 /\ TR(k) <= 0 => SR(k) <= 0
             /\ TS(k) <= 0 /\ SR(k) <= 0 => TR(k) <= 0
  BY ColumnOrderIsConsistent DEF Comparable
<1> DEFINE apart == {k \in Kept(order) : RS(k) # 0 \/ ST(k) # 0}
<1>3. \A k \in Kept(order) : (\A j \in Kept(order) : j < k => RS(j) = 0) => RS(k) <= 0
  BY DEF NotAfter
<1>4. \A k \in Kept(order) : (\A j \in Kept(order) : j < k => ST(j) = 0) => ST(k) <= 0
  BY DEF NotAfter
<1>5. apart \in SUBSET Nat
  BY DEF Kept
<1>6. \A k \in Kept(order) : k \notin apart => RS(k) = 0 /\ ST(k) = 0
  OBVIOUS
<1>7. \A k \in apart : k \in Kept(order) /\ (RS(k) # 0 \/ ST(k) # 0)
  OBVIOUS
<1>8. Kept(order) \subseteq Nat
  BY DEF Kept
<1>9. /\ (\A k \in Kept(order) : (\A j \in Kept(order) : j < k => RT(j) = 0) => RT(k) <= 0)
         => NotAfter(r, t, order)
      /\ NotAfter(t, r, order) =>
           \A k \in Kept(order) : (\A j \in Kept(order) : j < k => TR(j) = 0) => TR(k) <= 0
      /\ (\A k \in Kept(order) : SR(k) <= 0) => NotAfter(s, r, order)
      /\ (\A k \in Kept(order) : TS(k) <= 0) => NotAfter(t, s, order)
  BY DEF NotAfter
<1> HIDE DEF RS, SR, ST, TS, RT, TR, apart
<1>10. CASE apart = {}
  <2>1. \A k \in Kept(order) : RS(k) = 0 /\ ST(k) = 0
    BY <1>6, <1>10
  <2>2. \A k \in Kept(order) : RT(k) <= 0 /\ SR(k) <= 0 /\ TS(k) <= 0
    BY <2>1, <1>1, <1>2
  <2> QED BY <2>2, <1>9
<1>11. CASE apart # {}
  <2>1. PICK m \in apart : \A n \in apart : m <= n
    BY <1>5, <1>11, LeastOf
  <2>2. m \in Kept(order) /\ (RS(m) # 0 \/ ST(m) # 0)
    BY <1>7
  <2>3. \A j \in Kept(order) : j < m => RS(j) = 0 /\ ST(j) = 0
    BY <2>1, <2>2, <1>6, <1>8
  <2>4. RS(m) <= 0 /\ ST(m) <= 0
    BY <2>2, <2>3, <1>3, <1>4
  <2>5. RT(m) < 0
    BY <2>2, <2>4, <1>1, <1>2
  <2>6. \A j \in Kept(order) : j < m => RT(j) = 0 /\ TR(j) = 0
    BY <2>3, <1>1, <1>2
  <2>7. ASSUME NEW k \in Kept(order), \A j \in Kept(order) : j < k => RT(j) = 0
        PROVE  RT(k) <= 0
    <3>1. ~(m < k)
      BY <2>2, <2>5, <2>7
    <3>2. k = m \/ k < m
      BY <3>1, <2>2, <1>8
    <3>3. RT(k) < 0 \/ RT(k) = 0
      BY <3>2, <2>5, <2>6
    <3> QED BY <3>3, <1>1
  <2>8. ~NotAfter(t, r, order)
    BY <2>2, <2>5, <2>6, <1>1, <1>9
  <2> QED BY <2>7, <2>8, <1>9
<1> QED BY <1>10, <1>11

-----------------------------------------------------------------------------
(* A list of n rows that the comparator can compare.                       *)
Ranked(n, seq, order) ==
  /\ n \in Nat /\ DOMAIN seq = 1..n /\ DOMAIN order \subseteq Nat
  /\ \A i \in 1..n : Comparable(seq[i])

(* The order of the sort: what compares less comes first, and equals stay. *)
LEMMA BeforeIsTotal ==
  ASSUME NEW n, NEW seq, NEW order, Ranked(n, seq, order)
  PROVE  /\ \A i \in 1..n : ~Before(seq, order, i, i)
         /\ \A i, j \in 1..n :
              i # j => Before(seq, order, i, j) \/ Before(seq, order, j, i)
         /\ \A i, j, k \in 1..n :
              Before(seq, order, i, j) /\ Before(seq, order, j, k) => Before(seq, order, i, k)
<1> DEFINE C(i, j) == Compare(seq[i], seq[j], order)
<1>1. \A i, j \in 1..n : /\ C(i, j) \in {-1, 0, 1} /\ (C(i, j) < 0 <=> C(j, i) > 0)
                               /\ (C(i, j) <= 0 <=> NotAfter(seq[i], seq[j], order))
  BY CompareMeans DEF Ranked
<1>2. \A i, j, k \in 1..n :
        C(i, j) <= 0 /\ C(j, k) <= 0 =>
          C(i, k) <= 0 /\ (C(k, i) <= 0 => C(j, i) <= 0 /\ C(k, j) <= 0)
  BY <1>1, NotAfterIsTransitive DEF Ranked
<1>3. \A i, j \in 1..n : Before(seq, order, i, j) <=> C(i, j) < 0 \/ (C(i, j) = 0 /\ i < j)
  BY DEF Before
<1> HIDE DEF C
<1>4. \A i \in 1..n : ~Before(seq, order, i, i)
  BY <1>1, <1>3
<1>5. \A i, j \in 1..n : i # j => Before(seq, order, i, j) \/ Before(seq, order, j, i)
  BY <1>1, <1>3
<1>6. ASSUME NEW i \in 1..n, NEW j \in 1..n, NEW k \in 1..n,
             Before(seq, order, i, j), Before(seq, order, j, k)
      PROVE  Before(seq, order, i, k)
  <2>1. C(i, j) <= 0 /\ C(j, k) <= 0 /\ C(i, k) <= 0
    BY <1>1, <1>2, <1>3, <1>6
  <2>2. CASE C(i, k) < 0
    BY <2>2, <1>3
  <2>3. CASE C(i, k) = 0
    <3>1. C(k, i) = 0
      BY <2>3, <1>1
    <3>2. C(j, i) <= 0 /\ C(k, j) <= 0
      BY <2>1, <3>1, <1>2
    <3>3. C(i, j) = 0 /\ C(j, k) = 0
      BY <2>1, <3>2, <1>1
    <3>4. i < j /\ j < k
      BY <3>3, <1>3, <1>6
    <3>5. i < k
      BY <3>4
    <3> QED BY <2>3, <3>5, <1>3
  <2> QED BY <2>1, <2>2, <2>3, <1>1
<1> QED BY <1>4, <1>5, <1>6

(* The places of the rows of a list are its places: no two rows share one, *)
(* and a row that comes before another has the smaller one.                *)
LEMMA PlacesAreAll ==
  ASSUME NEW n, NEW seq, NEW order, Ranked(n, seq, order)
  PROVE  /\ \A i \in 1..n : Place(seq, order, i) \in 1..n
         /\ \A i, j \in 1..n :
              Before(seq, order, i, j) => Place(seq, order, i) < Place(seq, order, j)
         /\ \A k \in 1..n : \E i \in 1..n : Place(seq, order, i) = k
<1> DEFINE Below(i) == {j \in 1..n : Before(seq, order, j, i)}
           place == [i \in 1..n |-> Place(seq, order, i)]
<1>1. /\ \A i \in 1..n : ~Before(seq, order, i, i)
      /\ \A i, j \in 1..n : i # j => Before(seq, order, i, j) \/ Before(seq, order, j, i)
      /\ \A i, j, k \in 1..n :
           Before(seq, order, i, j) /\ Before(seq, order, j, k) => Before(seq, order, i, k)
  BY BeforeIsTotal
<1>0. n \in Nat /\ DOMAIN seq = 1..n
  BY DEF Ranked
<1>2. IsFiniteSet(1..n) /\ Cardinality(1..n) = n
  BY <1>0, FS_Interval
<1>3. \A i \in 1..n : IsFiniteSet(Below(i)) /\ Cardinality(Below(i)) \in Nat
  BY <1>2, FS_Subset, FS_CardinalityType
<1>4. \A i \in 1..n : Place(seq, order, i) = 1 + Cardinality(Below(i))
  BY <1>0 DEF Place
<1>5. ASSUME NEW i \in 1..n, NEW S, IsFiniteSet(S), Below(i) \subseteq S \ {i}, i \in S
      PROVE  Cardinality(Below(i)) + 1 <= Cardinality(S)
  <2>1. IsFiniteSet(S \ {i}) /\ Cardinality(S \ {i}) = Cardinality(S) - 1
    BY <1>5, FS_RemoveElement
  <2>2. Cardinality(Below(i)) <= Cardinality(S \ {i})
    BY <2>1, <1>5, FS_Subset
  <2>3. Cardinality(S) \in Nat /\ Cardinality(Below(i)) \in Nat
    BY <1>3, <1>5, FS_CardinalityType
  <2> QED BY <2>1, <2>2, <2>3
<1>6. \A i \in 1..n : Place(seq, order, i) \in 1..n
  <2> TAKE i \in 1..n
  <2>1. Below(i) \subseteq (1..n) \ {i}
    BY <1>1
  <2>2. Cardinality(Below(i)) + 1 <= n
    BY <2>1, <1>2, <1>5
  <2> QED BY <2>2, <1>3, <1>4
<1>7. ASSUME NEW i \in 1..n, NEW j \in 1..n, Before(seq, order, i, j)
      PROVE  Place(seq, order, i) < Place(seq, order, j)
  <2>1. Below(i) \subseteq Below(j) \ {i} /\ i \in Below(j)
    BY <1>1, <1>7
  <2>2. Cardinality(Below(i)) + 1 <= Cardinality(Below(j))
    BY <2>1, <1>3, <1>5
  <2>3. \A m, l \in Nat : m + 1 <= l => 1 + m < 1 + l
    OBVIOUS
  <2> QED BY <2>2, <2>3, <1>3, <1>4
<1>8. place \in Injection(1..n, 1..n)
  <2>1. place \in [1..n -> 1..n]
    BY <1>6
  <2>2. ASSUME NEW i \in 1..n, NEW j \in 1..n, place[i] = place[j]
        PROVE  i = j
    <3>1. ~(place[i] < place[j]) /\ ~(place[j] < place[i])
      BY <2>2, <1>6
    <3>2. ~Before(seq, order, i, j) /\ ~Before(seq, order, j, i)
      BY <3>1, <1>7
    <3> QED BY <3>2, <1>1
  <2> QED BY <2>1, <2>2 DEF Injection, IsInjective
<1>9. place \in Surjection(1..n, 1..n)
  BY <1>2, <1>8, FS_Injection
<1>10. \A k \in 1..n : \E i \in 1..n : Place(seq, order, i) = k
  BY <1>9 DEF Surjection
<1> QED BY <1>6, <1>7, <1>10

(* The sort puts the rows into their order and neither loses one nor takes *)
(* one twice: the list it gives is a re-numbering of the one it gets.      *)
LEMMA SortedIsRenumbered ==
  ASSUME NEW n, NEW seq, NEW order, Ranked(n, seq, order)
  PROVE  \E p \in [1..n -> 1..n] :
           /\ Sorted(seq, order) = [k \in 1..n |-> seq[p[k]]]
           /\ \A i \in 1..n : \E k \in 1..n : p[k] = i
           /\ \A j, k \in 1..n : j < k => Before(seq, order, p[j], p[k])
           /\ \A k \in 1..n : Place(seq, order, p[k]) = k
<1>1. /\ \A i \in 1..n : Place(seq, order, i) \in 1..n
      /\ \A i, j \in 1..n :
           Before(seq, order, i, j) => Place(seq, order, i) < Place(seq, order, j)
      /\ \A k \in 1..n : \E i \in 1..n : Place(seq, order, i) = k
  BY PlacesAreAll
<1>2. /\ \A i \in 1..n : ~Before(seq, order, i, i)
      /\ \A i, j \in 1..n : i # j => Before(seq, order, i, j) \/ Before(seq, order, j, i)
  BY BeforeIsTotal
<1> DEFINE At(k) == CHOOSE i \in 1..n : Place(seq, order, i) = k
           p == [k \in 1..n |-> At(k)]
<1>3. \A k \in 1..n : At(k) \in 1..n /\ Place(seq, order, At(k)) = k
  BY <1>1
<1>4. Sorted(seq, order) = [k \in 1..n |-> seq[p[k]]]
  BY DEF Sorted, Ranked
<1> HIDE DEF At
<1>5. p \in [1..n -> 1..n] /\ \A k \in 1..n : Place(seq, order, p[k]) = k
  BY <1>3
<1> HIDE DEF p
<1>6. ASSUME NEW i \in 1..n, NEW j \in 1..n, Place(seq, order, i) = Place(seq, order, j)
      PROVE  i = j
  <2>1. ~(Place(seq, order, i) < Place(seq, order, j))
        /\ ~(Place(seq, order, j) < Place(seq, order, i))
    BY <1>1, <1>6
  <2> QED BY <2>1, <1>1, <1>2
<1>7. \A i \in 1..n : p[Place(seq, order, i)] = i
  BY <1>1, <1>5, <1>6
<1>8. \A i \in 1..n : \E k \in 1..n : p[k] = i
  BY <1>1, <1>7
<1>9. ASSUME NEW j \in 1..n, NEW k \in 1..n, j < k
      PROVE  Before(seq, order, p[j], p[k])
  <2>1. p[j] \in 1..n /\ p[k] \in 1..n /\ Place(seq, order, p[j]) = j /\ Place(seq, order, p[k]) = k
    BY <1>5
  <2>2. p[j] # p[k] /\ ~(k < j)
    BY <2>1, <1>9
  <2>3. ~Before(seq, order, p[k], p[j])
    BY <2>1, <2>2, <1>1
  <2> QED BY <2>1, <2>2, <2>3, <1>2
<1> QED BY <1>4, <1>5, <1>8, <1>9

-----------------------------------------------------------------------------
(* The ORDER BY lists that SQL would sort the same way: columns, or the    *)
(* one Trunc that dates() has, of a column of dates.                       *)
PlainOrder(order) == \A k \in DOMAIN order : order[k].fns = <<>>

DatesOrder(order, S) ==
  /\ DOMAIN order = {1} /\ Compiles(order)
  /\ \E kind \in Kinds : order[1].fns = <<<<"trunc", kind>>>>
  /\ \A r \in S : RowGet(r, order[1].col) \in Nat \cup {None}

Sortable(order, S) == PlainOrder(order) \/ DatesOrder(order, S)

(* On a column, the comparator and SQL's ranks agree.                      *)
LEMMA RankOfColumn ==
  ASSUME NEW r, NEW s, NEW o, o.fns = <<>>, Comparable(r), Comparable(s)
  PROVE  /\ Lower(Rank(r, o), Rank(s, o)) <=> ColumnOrder(r, s, o) < 0
         /\ Rank(r, o) = Rank(s, o) <=> ColumnOrder(r, s, o) = 0
<1> DEFINE v == RowGet(r, o.col)
           w == RowGet(s, o.col)
           RankOf(x) == IF x = None THEN <<IF o.nulls_first THEN 0 ELSE 2, 0>>
                        ELSE <<1, IF o.desc THEN -x ELSE x>>
<1>1. Rank(r, o) = RankOf(v) /\ Rank(s, o) = RankOf(w)
  BY SqlApplyNone DEF Rank
<1>2. v \in Int \cup {None} /\ w \in Int \cup {None}
  BY DEF Comparable
<1>3. ColumnOrder(r, s, o) =
        CASE v = None /\ w = None -> 0
          [] v = None /\ w # None -> IF o.nulls_first THEN -1 ELSE 1
          [] v # None /\ w = None -> IF o.nulls_first THEN 1 ELSE -1
          [] v # None /\ w # None -> IF o.desc THEN Sign(w, v) ELSE Sign(v, w)
  BY DEF ColumnOrder
<1> HIDE DEF v, w
<1>4. CASE v = None \/ w = None
  BY <1>1, <1>3, <1>4 DEF Lower
<1>5. CASE v # None /\ w # None
  <2>1. v \in Int /\ w \in Int
    BY <1>2, <1>5
  <2>2. ColumnOrder(r, s, o) = IF o.desc THEN Sign(w, v) ELSE Sign(v, w)
    BY <1>3, <1>5
  <2>3. RankOf(v) = <<1, IF o.desc THEN -v ELSE v>> /\ RankOf(w) = <<1, IF o.desc THEN -w ELSE w>>
    BY <1>5
  <2>4. CASE o.desc
    BY <2>1, <2>2, <2>3, <2>4, <1>1 DEF Lower, Sign
  <2>5. CASE ~o.desc
    BY <2>1, <2>2, <2>3, <2>5, <1>1 DEF Lower, Sign
  <2> QED BY <2>4, <2>5
<1> QED BY <1>4, <1>5

(* On a Trunc of a date, which the comparator takes for the date, it never *)
(* contradicts SQL.                                                        *)
LEMMA RankOfTrunc ==
  ASSUME NEW r, NEW s, NEW o, NEW kind \in Kinds, o.fns = <<<<"trunc", kind>>>>,
         RowGet(r, o.col) \in Nat \cup {None}, RowGet(s, o.col) \in Nat \cup {None},
         ColumnOrder(r, s, o) <= 0
  PROVE  ~Lower(Rank(s, o), Rank(r, o))
<1> DEFINE v == RowGet(r, o.col)
           w == RowGet(s, o.col)
           First(x) == IF x = None THEN None ELSE Trunc(kind, x)
           RankOf(x) == IF x = None THEN <<IF o.nulls_first THEN 0 ELSE 2, 0>>
                        ELSE <<1, IF o.desc THEN -x ELSE x>>
<1>1. \A x \in Nat \cup {None} : SqlApplyAll(o.fns, x) = First(x)
  BY SqlApplyOne, TruncAsSql DEF Apply, Kinds
<1>2. Rank(r, o) = RankOf(First(v)) /\ Rank(s, o) = RankOf(First(w))
  BY <1>1 DEF Rank
<1>3. ColumnOrder(r, s, o) =
        CASE v = None /\ w = None -> 0
          [] v = None /\ w # None -> IF o.nulls_first THEN -1 ELSE 1
          [] v # None /\ w = None -> IF o.nulls_first THEN 1 ELSE -1
          [] v # None /\ w # None -> IF o.desc THEN Sign(w, v) ELSE Sign(v, w)
  BY DEF ColumnOrder
<1>4. v \in Nat \cup {None} /\ w \in Nat \cup {None}
  OBVIOUS
<1> HIDE DEF v, w
<1>5. CASE v = None \/ w = None
  BY <1>2, <1>3, <1>5 DEF Lower
<1>6. CASE v # None /\ w # None
  <2>1. v \in Nat /\ w \in Nat
    BY <1>4, <1>6
  <2>2. IF o.desc THEN w <= v ELSE v <= w
    BY <2>1, <1>3, <1>6, SignFacts
  <2>3. Trunc(kind, v) \in Int /\ Trunc(kind, w) \in Int
    BY <2>1, TruncInPeriod
  <2>4. IF o.desc THEN Trunc(kind, w) <= Trunc(kind, v) ELSE Trunc(kind, v) <= Trunc(kind, w)
    BY <2>1, <2>2, TruncKeepsOrder
  <2>5. First(v) = Trunc(kind, v) /\ First(w) = Trunc(kind, w)
    BY <1>6
  <2>6. First(v) # None /\ First(w) # None
    BY <2>3, <2>5, NullIsNoNumber
  <2> HIDE DEF First
  <2> QED BY <2>3, <2>4, <2>5, <2>6, <1>2 DEF Lower
<1> QED BY <1>5, <1>6

LEMMA ColumnsSortAsSql ==
  ASSUME NEW r, NEW s, NEW m \in Nat, NEW order, DOMAIN order = 1..m, PlainOrder(order),
         Comparable(r), Comparable(s)
  PROVE  /\ Compare(r, s, order) < 0 => RanksBefore(r, s, order)
         /\ Compare(r, s, order) = 0 => ~RanksBefore(s, r, order)
<1>1. \A k \in 1..m :
        /\ Lower(Rank(r, order[k]), Rank(s, order[k])) <=> ColumnOrder(r, s, order[k]) < 0
        /\ Rank(r, order[k]) = Rank(s, order[k]) <=> ColumnOrder(r, s, order[k]) = 0
        /\ Lower(Rank(s, order[k]), Rank(r, order[k])) <=> ColumnOrder(s, r, order[k]) < 0
  BY RankOfColumn DEF PlainOrder
<1>2. Len(<<>>) <= 1
  OBVIOUS
<1>3. Kept(order) = 1..m
  BY <1>2 DEF Kept, HasColumn, PlainOrder
<1>4. \A k \in 1..m : ColumnOrder(r, s, order[k]) = 0 => ~(ColumnOrder(s, r, order[k]) < 0)
  BY ColumnOrderIsConsistent DEF Comparable
<1>5. DOMAIN order \subseteq Nat
  OBVIOUS
<1>6. ASSUME Compare(r, s, order) < 0
      PROVE  RanksBefore(r, s, order)
  <2>1. PICK k \in 1..m : /\ ColumnOrder(r, s, order[k]) < 0
                          /\ \A j \in 1..m : j < k => ColumnOrder(r, s, order[j]) = 0
    BY <1>3, <1>5, <1>6, CompareMeans
  <2>2. \A j \in 1..(k - 1) : j \in 1..m /\ j < k
    OBVIOUS
  <2>3. \A j \in 1..(k - 1) : Rank(r, order[j]) = Rank(s, order[j])
    BY <2>1, <2>2, <1>1
  <2>4. Lower(Rank(r, order[k]), Rank(s, order[k]))
    BY <2>1, <1>1
  <2> QED BY <2>3, <2>4 DEF RanksBefore
<1>7. ASSUME Compare(r, s, order) = 0
      PROVE  ~RanksBefore(s, r, order)
  <2>1. \A k \in 1..m : ColumnOrder(r, s, order[k]) = 0
    BY <1>3, <1>5, <1>7, CompareMeans
  <2>2. \A k \in 1..m : ~Lower(Rank(s, order[k]), Rank(r, order[k]))
    BY <2>1, <1>1, <1>4
  <2> QED BY <2>2 DEF RanksBefore
<1> QED BY <1>6, <1>7

LEMMA DatesSortAsSql ==
  ASSUME NEW S, NEW r \in S, NEW s \in S, NEW order, DatesOrder(order, S),
         Comparable(r), Comparable(s), Compare(r, s, order) <= 0
  PROVE  /\ ~RanksBefore(s, r, order)
         /\ ColumnOrder(r, s, order[1]) <= 0
<1>1. DOMAIN order = {1} /\ DOMAIN order \subseteq Nat
  BY DEF DatesOrder
<1>2. PICK kind \in Kinds : order[1].fns = <<<<"trunc", kind>>>>
  BY DEF DatesOrder
<1>3. Len(order[1].fns) <= 1
  BY <1>2
<1>4. Kept(order) = {1}
  BY <1>1, <1>3 DEF Kept, HasColumn
<1>5. NotAfter(r, s, order)
  BY <1>1, CompareMeans
<1>6. \A j \in {1} : ~(j < 1)
  OBVIOUS
<1>7. ColumnOrder(r, s, order[1]) <= 0
  BY <1>4, <1>5, <1>6 DEF NotAfter
<1>8. ~Lower(Rank(s, order[1]), Rank(r, order[1]))
  BY <1>2, <1>7, RankOfTrunc DEF DatesOrder
<1> QED BY <1>1, <1>7, <1>8 DEF RanksBefore

-----------------------------------------------------------------------------
(* Recursive functions.  If each value is computed from those at lower     *)
(* numbers, there is a function of these values.                           *)
Numbered(D, N) == N \in Nat /\ D \subseteq Nat /\ \A n \in D : n <= N

Recurses(D, V, G) ==
  /\ V # {} /\ G \in [D -> [[D -> V] -> V]]
  /\ \A n \in D : \A g, h \in [D -> V] :
       (\A m \in D : m < n => g[m] = h[m]) => G[n][g] = G[n][h]

LEMMA RecursionExists ==
  ASSUME NEW D, NEW N, Numbered(D, N), NEW V, NEW G, Recurses(D, V, G)
  PROVE  \E f \in [D -> V] : \A n \in D : f[n] = G[n][f]
<1> DEFINE Follows(f, k) == \A n \in D : n < k => f[n] = G[n][f]
           bad == {k \in Nat : ~ \E f \in [D -> V] : Follows(f, k)}
<1>0. D \subseteq Nat /\ N \in Nat /\ \A n \in D : n <= N
  BY DEF Numbered
<1>1. bad = {}
  <2>1. SUFFICES ASSUME bad # {} PROVE FALSE
    OBVIOUS
  <2>2. bad \in SUBSET Nat
    OBVIOUS
  <2>3. PICK k \in bad : \A l \in bad : k <= l
    BY <2>1, <2>2, LeastOf
  <2>4. k \in Nat /\ ~ \E f \in [D -> V] : Follows(f, k)
    BY <2>3
  <2>5. CASE k = 0
    <3>1. PICK v \in V : TRUE
      BY DEF Recurses
    <3>2. [n \in D |-> v] \in [D -> V] /\ Follows([n \in D |-> v], 0)
      BY <1>0
    <3> QED BY <3>2, <2>4, <2>5
  <2>6. CASE k > 0
    <3>0. k - 1 \in Nat /\ ~(k <= k - 1)
      BY <2>4, <2>6
    <3>1. k - 1 \notin bad
      BY <3>0, <2>3
    <3>2. PICK h \in [D -> V] : Follows(h, k - 1)
      BY <3>0, <3>1
    <3> DEFINE f == IF k - 1 \in D THEN [h EXCEPT ![k - 1] = G[k - 1][h]] ELSE h
    <3>3. k - 1 \in D => G[k - 1][h] \in V
      BY DEF Recurses
    <3>4. /\ f \in [D -> V] /\ (k - 1 \in D => f[k - 1] = G[k - 1][h])
          /\ \A m \in D : m # k - 1 => f[m] = h[m]
      BY <3>3
    <3> HIDE DEF f
    <3>5. ASSUME NEW n \in D, n < k
          PROVE  f[n] = G[n][f]
      <4>1. \A m \in D : m < n => m # k - 1
        BY <1>0, <2>4, <3>5
      <4>4. \A m \in D : m < n => f[m] = h[m]
        BY <3>4, <4>1
      <4>2. G[n][f] = G[n][h]
        BY <3>4, <4>4 DEF Recurses
      <4>3. n = k - 1 \/ n < k - 1
        BY <1>0, <2>4, <3>5
      <4> QED BY <3>2, <3>4, <4>2, <4>3
    <3> QED BY <3>4, <3>5, <2>4
  <2> QED BY <2>4, <2>5, <2>6
<1>2. N + 1 \in Nat
  BY <1>0
<1>3. ASSUME NEW n \in D PROVE n < N + 1
  <2>1. n \in Nat /\ N \in Nat /\ n <= N
    BY <1>0
  <2>2. \A i, j \in Nat : i <= j => i < j + 1
    OBVIOUS
  <2> QED BY <2>1, <2>2
<1>4. PICK f \in [D -> V] : Follows(f, N + 1)
  BY <1>1, <1>2
<1> QED BY <1>3, <1>4

-----------------------------------------------------------------------------
(* WHERE trees.                                                            *)
LEMMA TreeShape ==
  ASSUME NEW w, IsTree(w)
  PROVE  /\ Len(w) \in Nat \ {0} /\ DOMAIN w = 1..Len(w) /\ Len(w) \in DOMAIN w
         /\ \A n \in DOMAIN w \ Leaves(w) :
              /\ w[n].kind = "node" /\ w[n].conn \in {"AND", "OR", "XOR"} /\ w[n].neg \in BOOLEAN
              /\ \A k \in w[n].kids : k \in DOMAIN w /\ k \in 1..(n - 1)
<1>1. w \in Seq(ToSet(w)) /\ w # <<>>
  BY DEF IsTree
<1>2. Len(w) \in Nat \ {0} /\ DOMAIN w = 1..Len(w)
  BY <1>1
<1>3. \A n \in DOMAIN w \ Leaves(w) :
        /\ w[n].kind = "node" /\ w[n].conn \in {"AND", "OR", "XOR"} /\ w[n].neg \in BOOLEAN
        /\ w[n].kids \subseteq 1..(n - 1)
  BY DEF IsTree, Leaves
<1>4. \A n \in DOMAIN w : \A k \in 1..(n - 1) : k \in DOMAIN w
  BY <1>2
<1> QED BY <1>2, <1>3, <1>4

LEMMA ConnectsIsBoolean ==
  ASSUME NEW node, NEW sat
  PROVE  Connects(node, sat) \in BOOLEAN
BY DEF Connects

LEMMA TruthIs ==
  ASSUME NEW w, IsTree(w), NEW known, Leaves(w) \subseteq DOMAIN known
  PROVE  \A n \in DOMAIN w :
           Truth(w, known)[n] = IF n \in DOMAIN known THEN known[n]
                                ELSE Connects(w[n], {k \in w[n].kids : Truth(w, known)[k]})
<1> DEFINE N == Len(w)
           V == BOOLEAN \cup {known[n] : n \in DOMAIN known}
           Step(n, g) == IF n \in DOMAIN known THEN known[n]
                         ELSE Connects(w[n], {k \in w[n].kids : g[k]})
           D == 1..N
           G == [n \in D |-> [g \in [D -> V] |-> Step(n, g)]]
<1>1. N \in Nat /\ DOMAIN w = D
  BY TreeShape
<1>2. \A n \in D : n \notin DOMAIN known => \A k \in w[n].kids : k \in D /\ k < n
  <2>1. \A n \in D : n \notin DOMAIN known => \A k \in w[n].kids : k \in D /\ k \in 1..(n - 1)
    BY <1>1, TreeShape
  <2> QED BY <2>1
<1>3. \A n \in D : \A g \in [D -> V] : G[n][g] = Step(n, g)
  OBVIOUS
<1>4. \A n, g : Step(n, g) \in V
  BY ConnectsIsBoolean
<1>5. G \in [D -> [[D -> V] -> V]]
  BY <1>4
<1>6. ASSUME NEW n \in D, NEW g, NEW h, \A m \in D : m < n => g[m] = h[m]
      PROVE  Step(n, g) = Step(n, h)
  <2>1. n \notin DOMAIN known => {k \in w[n].kids : g[k]} = {k \in w[n].kids : h[k]}
    BY <1>2, <1>6
  <2> QED BY <2>1
<1>8. V # {} /\ Numbered(D, N)
  <2>1. V # {}
    OBVIOUS
  <2>2. D \subseteq Nat /\ \A n \in D : n <= N
    OBVIOUS
  <2> QED BY <1>1, <2>1, <2>2 DEF Numbered
<1> HIDE DEF N, V, Step, G, D
<1>7. Recurses(D, V, G)
  <2> SUFFICES ASSUME NEW n \in D, NEW g \in [D -> V], NEW h \in [D -> V],
                      \A m \in D : m < n => g[m] = h[m]
               PROVE  G[n][g] = G[n][h]
    BY <1>5, <1>8 DEF Recurses
  <2>1. Step(n, g) = Step(n, h)
    BY <1>6
  <2> QED BY <1>3, <2>1
<1>9. PICK f \in [D -> V] : \A n \in D : f[n] = G[n][f]
  BY <1>7, <1>8, RecursionExists
<1>10. f = [n \in DOMAIN w |-> Step(n, f)]
  BY <1>1, <1>3, <1>9
<1>11. Truth(w, known) = CHOOSE g : g = [n \in DOMAIN w |-> Step(n, g)]
  BY DEF Truth, Step
<1>12. Truth(w, known) = [n \in DOMAIN w |-> Step(n, Truth(w, known))]
  BY <1>10, <1>11
<1> QED BY <1>12 DEF Step

(* What holds of the leaves, and of a node if it does of its children,     *)
(* holds of the tree.                                                      *)
LEMMA FromTheLeaves ==
  ASSUME NEW w, IsTree(w), NEW Good, Leaves(w) \subseteq Good,
         \A n \in DOMAIN w \ Leaves(w) : w[n].kids \subseteq Good => n \in Good
  PROVE  \A n \in DOMAIN w : n \in Good
<1> DEFINE bad == DOMAIN w \ Good
<1>1. bad = {}
  <2>1. SUFFICES ASSUME bad # {} PROVE FALSE
    OBVIOUS
  <2>2. bad \in SUBSET Nat /\ DOMAIN w \subseteq Nat
    BY TreeShape
  <2>3. PICK n \in bad : \A l \in bad : n <= l
    BY <2>1, <2>2, LeastOf
  <2>4. n \in DOMAIN w \ Leaves(w) /\ n \in Nat
    BY <2>2
  <2>5. ASSUME NEW k \in w[n].kids
        PROVE  k \in Good
    <3>1. k \in DOMAIN w /\ k \in 1..(n - 1)
      BY <2>4, TreeShape
    <3>2. k \in Nat /\ ~(n <= k)
      BY <3>1, <2>4
    <3> QED BY <3>1, <3>2, <2>3
  <2> QED BY <2>4, <2>5
<1> QED BY <1>1

(* The aliases that a node names are those its children do.                *)
LEMMA AliasesAre ==
  ASSUME NEW w, IsTree(w)
  PROVE  \A n \in DOMAIN w :
           JoinAliases(w)[n] =
             CASE w[n].kind = "node"   -> UNION {JoinAliases(w)[k] : k \in w[n].kids}
               [] w[n].kind = "lookup" -> IF w[n].fns = <<>> THEN {w[n].alias} \ {Main} ELSE {}
               [] OTHER                -> {}
<1> DEFINE N == Len(w)
           D == 1..N
           V == SUBSET {w[n].alias : n \in D}
           Step(n, g) == CASE w[n].kind = "node"   -> UNION {g[k] : k \in w[n].kids}
                           [] w[n].kind = "lookup" -> IF w[n].fns = <<>> THEN {w[n].alias} \ {Main} ELSE {}
                           [] OTHER                -> {}
           G == [n \in D |-> [g \in [D -> V] |-> Step(n, g)]]
<1>1. N \in Nat /\ DOMAIN w = D
  BY TreeShape
<1>2. \A n \in D : w[n].kind = "node" => \A k \in w[n].kids : k \in D /\ k < n
  <2>1. \A n \in D : w[n].kind = "node" => \A k \in w[n].kids : k \in D /\ k \in 1..(n - 1)
    BY <1>1, TreeShape DEF Leaves
  <2> QED BY <2>1
<1>3. \A n \in D : \A g \in [D -> V] : G[n][g] = Step(n, g)
  OBVIOUS
<1>4. ASSUME NEW n \in D, NEW g \in [D -> V]
      PROVE  Step(n, g) \in V
  <2>1. CASE w[n].kind = "node"
    <3>1. \A k \in w[n].kids : g[k] \in V
      BY <1>2, <2>1
    <3>2. UNION {g[k] : k \in w[n].kids} \in V
      BY <3>1
    <3> QED BY <2>1, <3>2
  <2>2. CASE w[n].kind # "node"
    BY <2>2
  <2> QED BY <2>1, <2>2
<1>5. G \in [D -> [[D -> V] -> V]]
  BY <1>4
<1>6. ASSUME NEW n \in D, NEW g, NEW h, \A m \in D : m < n => g[m] = h[m]
      PROVE  Step(n, g) = Step(n, h)
  <2>1. w[n].kind = "node" => {g[k] : k \in w[n].kids} = {h[k] : k \in w[n].kids}
    BY <1>2, <1>6
  <2> QED BY <2>1
<1>8. V # {} /\ Numbered(D, N)
  <2>1. V # {}
    OBVIOUS
  <2>2. D \subseteq Nat /\ \A n \in D : n <= N
    OBVIOUS
  <2> QED BY <1>1, <2>1, <2>2 DEF Numbered
<1> HIDE DEF N, V, Step, G, D
<1>7. Recurses(D, V, G)
  <2> SUFFICES ASSUME NEW n \in D, NEW g \in [D -> V], NEW h \in [D -> V],
                      \A m \in D : m < n => g[m] = h[m]
               PROVE  G[n][g] = G[n][h]
    BY <1>5, <1>8 DEF Recurses
  <2>1. Step(n, g) = Step(n, h)
    BY <1>6
  <2> QED BY <1>3, <2>1
<1>9. PICK f \in [D -> V] : \A n \in D : f[n] = G[n][f]
  BY <1>7, <1>8, RecursionExists
<1>10. f = [n \in DOMAIN w |-> Step(n, f)]
  BY <1>1, <1>3, <1>9
<1>11. JoinAliases(w) = CHOOSE g : g = [n \in DOMAIN w |-> Step(n, g)]
  BY DEF JoinAliases, Step
<1>12. JoinAliases(w) = [n \in DOMAIN w |-> Step(n, JoinAliases(w))]
  BY <1>10, <1>11
<1> QED BY <1>12 DEF Step

LEMMA KidsNameLess ==
  ASSUME NEW w, IsTree(w), NEW n \in DOMAIN w \ Leaves(w)
  PROVE  \A k \in w[n].kids : JoinAliases(w)[k] \subseteq JoinAliases(w)[n]
<1>1. w[n].kind = "node"
  BY TreeShape
<1>2. JoinAliases(w)[n] = UNION {JoinAliases(w)[k] : k \in w[n].kids}
  BY <1>1, AliasesAre
<1> QED BY <1>2

(* Where two answers agree on the leaves that name aliases of A only, they *)
(* agree on the nodes that do.                                             *)
LEMMA TruthsAgree ==
  ASSUME NEW w, IsTree(w), NEW known, NEW sql, NEW A,
         DOMAIN known = Leaves(w), DOMAIN sql = Leaves(w),
         \A n \in Leaves(w) : JoinAliases(w)[n] \subseteq A => (known[n] <=> sql[n])
  PROVE  \A n \in DOMAIN w :
           JoinAliases(w)[n] \subseteq A => (Truth(w, known)[n] <=> Truth(w, sql)[n])
<1> DEFINE Good == {n \in DOMAIN w : JoinAliases(w)[n] \subseteq A =>
                                       (Truth(w, known)[n] <=> Truth(w, sql)[n])}
<1>1. Leaves(w) \subseteq DOMAIN w
  BY DEF Leaves
<1>2. Leaves(w) \subseteq Good
  BY <1>1, TruthIs
<1>3. ASSUME NEW n \in DOMAIN w \ Leaves(w), w[n].kids \subseteq Good, JoinAliases(w)[n] \subseteq A
      PROVE  (Truth(w, known)[n] <=> Truth(w, sql)[n])
  <2>1. /\ Truth(w, known)[n] = Connects(w[n], {k \in w[n].kids : Truth(w, known)[k]})
        /\ Truth(w, sql)[n] = Connects(w[n], {k \in w[n].kids : Truth(w, sql)[k]})
    BY TruthIs
  <2>2. \A k \in w[n].kids : JoinAliases(w)[k] \subseteq A
    BY <1>3, KidsNameLess
  <2>3. \A k \in w[n].kids : Truth(w, known)[k] <=> Truth(w, sql)[k]
    BY <2>2, <1>3
  <2>4. {k \in w[n].kids : Truth(w, known)[k]} = {k \in w[n].kids : Truth(w, sql)[k]}
    BY <2>3
  <2> QED BY <2>1, <2>4
<1>4. \A n \in DOMAIN w \ Leaves(w) : w[n].kids \subseteq Good => n \in Good
  BY <1>3
<1> HIDE DEF Good
<1>5. \A n \in DOMAIN w : n \in Good
  BY <1>2, <1>4, FromTheLeaves
<1> QED BY <1>5 DEF Good

(* Without negations, what holds where less does of the leaves holds where *)
(* more does.                                                              *)
LEMMA TruthGrows ==
  ASSUME NEW w, IsTree(w), Positive(w), NEW known, NEW sql, NEW A,
         DOMAIN known = Leaves(w), DOMAIN sql = Leaves(w),
         \A n \in Leaves(w) : JoinAliases(w)[n] \subseteq A /\ sql[n] => known[n]
  PROVE  \A n \in DOMAIN w :
           JoinAliases(w)[n] \subseteq A /\ Truth(w, sql)[n] => Truth(w, known)[n]
<1> DEFINE Good == {n \in DOMAIN w : JoinAliases(w)[n] \subseteq A /\ Truth(w, sql)[n]
                                       => Truth(w, known)[n]}
<1>1. Leaves(w) \subseteq DOMAIN w
  BY DEF Leaves
<1>2. Leaves(w) \subseteq Good
  BY <1>1, TruthIs
<1>3. ASSUME NEW n \in DOMAIN w \ Leaves(w), w[n].kids \subseteq Good,
             JoinAliases(w)[n] \subseteq A, Truth(w, sql)[n]
      PROVE  Truth(w, known)[n]
  <2> DEFINE some == {k \in w[n].kids : Truth(w, sql)[k]}
             more == {k \in w[n].kids : Truth(w, known)[k]}
  <2>1. w[n].kind = "node" /\ w[n].conn \in {"AND", "OR"} /\ ~w[n].neg /\ w[n].neg \in BOOLEAN
    BY TreeShape DEF Positive
  <2>2. \A k \in w[n].kids : JoinAliases(w)[k] \subseteq A
    BY <1>3, KidsNameLess
  <2>3. some \subseteq more /\ more \subseteq w[n].kids
    BY <2>2, <1>3
  <2>4. Connects(w[n], some)
    BY <1>3, TruthIs
  <2> HIDE DEF some, more
  <2>5. Connects(w[n], more)
    <3>1. CASE w[n].kids = {}
      BY <3>1 DEF Connects
    <3>2. CASE w[n].kids # {} /\ w[n].conn = "AND"
      BY <3>2, <2>1, <2>3, <2>4 DEF Connects
    <3>3. CASE w[n].kids # {} /\ w[n].conn = "OR"
      BY <3>3, <2>1, <2>3, <2>4 DEF Connects
    <3> QED BY <3>1, <3>2, <3>3, <2>1
  <2> QED BY <2>5, TruthIs DEF more
<1>4. \A n \in DOMAIN w \ Leaves(w) : w[n].kids \subseteq Good => n \in Good
  BY <1>3
<1> HIDE DEF Good
<1>5. \A n \in DOMAIN w : n \in Good
  BY <1>2, <1>4, FromTheLeaves
<1> QED BY <1>5 DEF Good

-----------------------------------------------------------------------------
(* The part of a list that is in a set: its rows are those of the list in  *)
(* the set, and they stay in key order.                                    *)
LEMMA OnlyFollows ==
  ASSUME NEW T, NEW seq \in Seq(T), NEW S
  PROVE  \E f \in [0..Len(seq) -> Seq(T)] :
           /\ f[0] = <<>> /\ Only(seq, S) = f[Len(seq)]
           /\ \A n \in 1..Len(seq) :
                f[n] = IF seq[n] \in S THEN Append(f[n - 1], seq[n]) ELSE f[n - 1]
<1> DEFINE N == Len(seq)
           D == 0..N
           V == Seq(T)
           Step(n, g) == IF n = 0 THEN <<>>
                         ELSE IF seq[n] \in S THEN Append(g[n - 1], seq[n]) ELSE g[n - 1]
           G == [n \in D |-> [g \in [D -> V] |-> Step(n, g)]]
<1>1. N \in Nat
  OBVIOUS
<1>2. \A n \in D : n # 0 => n - 1 \in D /\ n - 1 < n /\ seq[n] \in T
  BY <1>1
<1>3. \A n \in D : \A g \in [D -> V] : G[n][g] = Step(n, g)
  OBVIOUS
<1>4. ASSUME NEW n \in D, NEW g \in [D -> V]
      PROVE  Step(n, g) \in V
  <2>1. CASE n = 0
    BY <2>1
  <2>2. CASE n # 0
    <3>1. g[n - 1] \in Seq(T) /\ seq[n] \in T
      BY <1>2, <2>2
    <3> QED BY <2>2, <3>1
  <2> QED BY <2>1, <2>2
<1>5. G \in [D -> [[D -> V] -> V]]
  BY <1>4
<1>6. ASSUME NEW n \in D, NEW g, NEW h, \A m \in D : m < n => g[m] = h[m]
      PROVE  Step(n, g) = Step(n, h)
  BY <1>2, <1>6
<1>8. V # {} /\ Numbered(D, N) /\ 0 \in D /\ N \in D
  BY <1>1 DEF Numbered
<1>13. \A n \in 1..N : n \in D /\ n # 0
  BY <1>1
<1> HIDE DEF N, V, Step, G, D
<1>7. Recurses(D, V, G)
  <2> SUFFICES ASSUME NEW n \in D, NEW g \in [D -> V], NEW h \in [D -> V],
                      \A m \in D : m < n => g[m] = h[m]
               PROVE  G[n][g] = G[n][h]
    BY <1>5, <1>8 DEF Recurses
  <2>1. Step(n, g) = Step(n, h)
    BY <1>6
  <2> QED BY <1>3, <2>1
<1>9. PICK f \in [D -> V] : \A n \in D : f[n] = G[n][f]
  BY <1>7, <1>8, RecursionExists
<1>10. f = [n \in D |-> Step(n, f)]
  BY <1>3, <1>9
<1> DEFINE first == CHOOSE g : g = [n \in D |-> Step(n, g)]
<1>11. Only(seq, S) = first[N]
  BY DEF Only, Step, D, N
<1>12. first = [n \in D |-> Step(n, first)]
  BY <1>10
<1> HIDE DEF first
<1>14. first \in [D -> V]
  <2> DEFINE bad == {n \in D : first[n] \notin V}
  <2>1. bad = {}
    <3>1. SUFFICES ASSUME bad # {} PROVE FALSE
      OBVIOUS
    <3>2. bad \in SUBSET Nat /\ D \subseteq Nat
      BY <1>1 DEF D
    <3>3. PICK n \in bad : \A m \in bad : n <= m
      BY <3>1, <3>2, LeastOf
    <3>4. CASE n = 0
      BY <3>3, <3>4, <1>12 DEF Step, V
    <3>5. CASE n # 0
      <4>1. n \in D /\ n \in Nat /\ n - 1 \in D /\ ~(n <= n - 1) /\ seq[n] \in T
        BY <3>2, <3>5, <1>2
      <4>2. first[n - 1] \in V
        BY <3>3, <4>1
      <4>4. first[n] = Step(n, first)
        BY <4>1, <1>12
      <4>3. first[n] \in V
        BY <3>5, <4>1, <4>2, <4>4 DEF Step, V
      <4> QED BY <3>3, <4>3
    <3> QED BY <3>4, <3>5
  <2>2. \A n \in D : first[n] \in V
    BY <2>1
  <2> QED BY <2>2, <1>12
<1>15. first[0] = <<>>
  BY <1>8, <1>12 DEF Step
<1>16. \A n \in 1..N : first[n] = IF seq[n] \in S THEN Append(first[n - 1], seq[n]) ELSE first[n - 1]
  BY <1>12, <1>13 DEF Step
<1> QED BY <1>11, <1>14, <1>15, <1>16, <1>8 DEF N, V, D

LEMMA OnlyIs ==
  ASSUME NEW T, NEW seq \in Seq(T), NEW S
  PROVE  /\ Only(seq, S) \in Seq(T)
         /\ ToSet(Only(seq, S)) = ToSet(seq) \cap S
         /\ KeysRise(seq) => KeysRise(Only(seq, S))
<1>1. PICK f \in [0..Len(seq) -> Seq(T)] :
        /\ f[0] = <<>> /\ Only(seq, S) = f[Len(seq)]
        /\ \A n \in 1..Len(seq) :
             f[n] = IF seq[n] \in S THEN Append(f[n - 1], seq[n]) ELSE f[n - 1]
  BY OnlyFollows
<1> DEFINE Part(k) == {seq[i] : i \in {j \in 1..k : seq[j] \in S}}
           Good(k) == ToSet(f[k]) = Part(k) /\ (KeysRise(seq) => KeysRise(f[k]))
           bad == {k \in 0..Len(seq) : ~Good(k)}
<1>2. Len(seq) \in Nat /\ DOMAIN seq = 1..Len(seq)
  OBVIOUS
<1>3. bad = {}
  <2>1. SUFFICES ASSUME bad # {} PROVE FALSE
    OBVIOUS
  <2>2. bad \in SUBSET Nat
    OBVIOUS
  <2>3. PICK k \in bad : \A l \in bad : k <= l
    BY <2>1, <2>2, LeastOf
  <2>4. k \in 0..Len(seq) /\ ~Good(k)
    BY <2>3
  <2>5. CASE k = 0
    <3>1. f[0] = <<>> /\ DOMAIN f[0] = {}
      BY <1>1
    <3>2. Good(0)
      BY <3>1 DEF ToSet, KeysRise
    <3> QED BY <3>2, <2>4, <2>5
  <2>6. CASE k # 0
    <3>1. k \in 1..Len(seq) /\ k - 1 \in 0..Len(seq) /\ ~(k <= k - 1) /\ k \in Nat
      BY <1>2, <2>4, <2>6
    <3> HIDE DEF Good
    <3>2. Good(k - 1)
      BY <3>1, <2>3
    <3>3. f[k - 1] \in Seq(T) /\ f[k] = IF seq[k] \in S THEN Append(f[k - 1], seq[k]) ELSE f[k - 1]
      BY <3>1, <1>1
    <3>4. \A i : i \in 1..k <=> i \in 1..(k - 1) \/ i = k
      BY <3>1
    <3>5. ToSet(f[k]) = Part(k)
      <4>1. CASE seq[k] \in S
        <5>1. ToSet(f[k]) = ToSet(f[k - 1]) \cup {seq[k]}
          BY <3>3, <4>1, SetOfAppended
        <5>2. Part(k) = Part(k - 1) \cup {seq[k]}
          BY <3>4, <4>1
        <5> QED BY <5>1, <5>2, <3>2 DEF Good
      <4>2. CASE seq[k] \notin S
        <5>1. Part(k) = Part(k - 1)
          BY <3>4, <4>2
        <5> QED BY <5>1, <3>2, <3>3, <4>2 DEF Good
      <4> QED BY <4>1, <4>2
    <3>6. ASSUME KeysRise(seq)
          PROVE  KeysRise(f[k])
      <4>0. KeysRise(f[k - 1])
        BY <3>2, <3>6 DEF Good
      <4>1. CASE seq[k] \in S
        <5> DEFINE g == f[k - 1]
                   n == Len(g)
        <5>1. n \in Nat /\ DOMAIN g = 1..n
          BY <3>3
        <5>2. f[k] = Append(g, seq[k]) /\ DOMAIN f[k] = 1..(n + 1) /\ f[k][n + 1] = seq[k]
              /\ \A i \in 1..n : f[k][i] = g[i]
          BY <3>3, <4>1
        <5>3. ASSUME NEW i \in 1..n PROVE g[i].pk < seq[k].pk
          <6>1. g[i] \in Part(k - 1)
            BY <5>1, <3>2 DEF Good, ToSet
          <6>2. PICK j \in 1..(k - 1) : g[i] = seq[j]
            BY <6>1
          <6>3. j \in DOMAIN seq /\ k \in DOMAIN seq /\ j < k
            BY <1>2, <3>1
          <6> QED BY <6>2, <6>3, <3>6 DEF KeysRise
        <5> HIDE DEF g, n
        <5>4. ASSUME NEW i \in DOMAIN f[k], NEW j \in DOMAIN f[k], i < j
              PROVE  f[k][i].pk < f[k][j].pk
          <6>1. i \in 1..n /\ (j \in 1..n \/ j = n + 1)
            BY <5>1, <5>2, <5>4
          <6>2. CASE j \in 1..n
            BY <6>1, <6>2, <5>1, <5>2, <5>4, <4>0 DEF KeysRise, g
          <6>3. CASE j = n + 1
            BY <6>1, <6>3, <5>2, <5>3
          <6> QED BY <6>1, <6>2, <6>3
        <5> QED BY <5>4 DEF KeysRise
      <4>2. CASE seq[k] \notin S
        BY <4>0, <4>2, <3>3
      <4> QED BY <4>1, <4>2
    <3>7. Good(k)
      BY <3>5, <3>6 DEF Good
    <3> QED BY <3>7, <2>4
  <2> QED BY <2>5, <2>6
<1>4. Len(seq) \in 0..Len(seq)
  BY <1>2
<1>5. Good(Len(seq)) /\ f[Len(seq)] \in Seq(T)
  BY <1>3, <1>4
<1>6. Part(Len(seq)) = ToSet(seq) \cap S
  BY <1>2 DEF ToSet
<1> QED BY <1>1, <1>5, <1>6

-----------------------------------------------------------------------------
(* Tables and joins.                                                       *)
TablesInOrder(tabs) == \A t \in DOMAIN tabs : InKeyOrder(tabs[t])

LEMMA TableIs ==
  ASSUME NEW tabs, TablesInOrder(tabs), NEW t
  PROVE  /\ TableRows(tabs, t) \in Seq(ToSet(TableRows(tabs, t)))
         /\ None \notin ToSet(TableRows(tabs, t)) /\ KeysRise(TableRows(tabs, t))
         /\ \A r \in ToSet(TableRows(tabs, t)) : r.pk \in Int /\ Comparable(r) /\ r \in Outers(tabs)
<1> DEFINE rows == TableRows(tabs, t)
<1>1. InKeyOrder(rows) /\ \A r \in ToSet(rows) : r \in Outers(tabs)
  <2>1. CASE t \in DOMAIN tabs
    BY <2>1 DEF TablesInOrder, TableRows, Outers
  <2>2. CASE t \notin DOMAIN tabs
    <3>1. rows = <<>> /\ ToSet(rows) = {}
      BY <2>2 DEF TableRows, ToSet
    <3> QED BY <3>1 DEF InKeyOrder
  <2> QED BY <2>1, <2>2
<1> HIDE DEF rows
<1>2. rows \in Seq(ToSet(rows)) /\ None \notin ToSet(rows) /\ KeysRise(rows)
  BY <1>1 DEF InKeyOrder, KeysRise
<1>3. \A r \in ToSet(rows) : r.pk \in Int /\ \A c \in DOMAIN r : r[c] \in Int \cup {None}
  BY <1>1 DEF InKeyOrder, ToSet
<1>4. \A r \in ToSet(rows) : Comparable(r)
  BY <1>3 DEF Comparable, RowGet
<1> QED BY <1>1, <1>2, <1>3, <1>4 DEF rows

LEMMA FlattenOne ==
  ASSUME NEW s
  PROVE  FlattenSeq(<<s>>) = s
<1> DEFINE one == <<s>>
           Step(i, g) == IF i = 1 THEN one[i] ELSE g[i - 1] \o one[i]
           f == [i \in 1..1 |-> s]
<1>1. Len(one) = 1 /\ one[1] = s
  OBVIOUS
<1>2. \A i \in 1..1 : i = 1
  OBVIOUS
<1>3. FlattenSeq(one) = (CHOOSE g : g = [i \in 1..Len(one) |-> Step(i, g)])[Len(one)]
  BY <1>1 DEF FlattenSeq
<1>4. f = [i \in 1..1 |-> Step(i, f)]
  BY <1>1, <1>2
<1>5. \A g : g = [i \in 1..1 |-> Step(i, g)] => g[1] = s
  BY <1>1
<1> HIDE DEF Step, f, one
<1>6. FlattenSeq(one) = (CHOOSE g : g = [i \in 1..1 |-> Step(i, g)])[1]
  BY <1>1, <1>3
<1>7. FlattenSeq(one) = s
  BY <1>4, <1>5, <1>6
<1> QED BY <1>7 DEF one

(* A join from the main table reaches the rows that it joins to the row.   *)
LEMMA ReachedIs ==
  ASSUME NEW tabs, TablesInOrder(tabs), NEW q, JoinsAreNear(q, tabs), NEW row,
         NEW a \in DOMAIN q.joins
  PROVE  ToSet(Reached(q, tabs, row, a)) = Joined(tabs, q.joins[a], row)
<1> DEFINE B == DOMAIN q.joins \cup {Main}
           From(b, p) == Only(TableRows(tabs, q.joins[b].table), Joined(tabs, q.joins[b], p))
           Step(b, g) == IF b = Main THEN <<row>>
                         ELSE FlattenSeq([i \in DOMAIN g[q.joins[b].parent] |->
                                            From(b, g[q.joins[b].parent][i])])
           f == [b \in B |-> IF b = Main THEN <<row>> ELSE From(b, row)]
<1>1. Main \notin DOMAIN q.joins /\ \A b \in DOMAIN q.joins : q.joins[b].parent = Main
  BY DEF JoinsAreNear
<1>2. \A b, g : b \in DOMAIN q.joins /\ g[Main] = <<row>> => Step(b, g) = From(b, row)
  <2> SUFFICES ASSUME NEW b \in DOMAIN q.joins, NEW g, g[Main] = <<row>>
               PROVE  Step(b, g) = From(b, row)
    OBVIOUS
  <2>1. Step(b, g) = FlattenSeq([i \in DOMAIN g[Main] |-> From(b, g[Main][i])])
    BY <1>1
  <2>2. DOMAIN <<row>> = {1} /\ <<row>>[1] = row
    OBVIOUS
  <2> HIDE DEF From
  <2>3. [i \in DOMAIN g[Main] |-> From(b, g[Main][i])] = <<From(b, row)>>
    BY <2>2
  <2> QED BY <2>1, <2>3, FlattenOne
<1>3. Reached(q, tabs, row, a) = (CHOOSE g : g = [b \in B |-> Step(b, g)])[a]
  BY DEF Reached
<1>6. Main \in B /\ a \in B
  OBVIOUS
<1>7. \A b \in B : b = Main \/ b \in DOMAIN q.joins
  OBVIOUS
<1>8. \A g : Step(Main, g) = <<row>>
  OBVIOUS
<1> HIDE DEF Step, From, B
<1>4. f = [b \in B |-> Step(b, f)]
  <2>1. f[Main] = <<row>>
    BY <1>6
  <2>2. \A b \in B : f[b] = Step(b, f)
    BY <2>1, <1>1, <1>2, <1>7, <1>8
  <2> QED BY <2>2
<1>5. \A g : g = [b \in B |-> Step(b, g)] => g[a] = From(a, row)
  <2> SUFFICES ASSUME NEW g, g = [b \in B |-> Step(b, g)] PROVE g[a] = From(a, row)
    OBVIOUS
  <2>1. g[Main] = <<row>> /\ g[a] = Step(a, g)
    BY <1>6, <1>8
  <2> QED BY <2>1, <1>2
<1> HIDE DEF f
<1>9. Reached(q, tabs, row, a) = From(a, row)
  BY <1>3, <1>4, <1>5
<1> DEFINE rows == TableRows(tabs, q.joins[a].table)
<1>10. rows \in Seq(ToSet(rows))
  BY TableIs
<1>11. ToSet(From(a, row)) = ToSet(rows) \cap Joined(tabs, q.joins[a], row)
  BY <1>10, OnlyIs DEF From
<1>12. Joined(tabs, q.joins[a], row) \subseteq ToSet(rows)
  BY DEF Joined
<1> QED BY <1>9, <1>11, <1>12

(* The ways to join a row along one join.                                  *)
Ways(q, tabs, row, a) ==
  LET R == Joined(tabs, q.joins[a], row) IN IF R = {} THEN {None} ELSE R

AllWays(q, tabs, row, A) ==
  {f \in [A -> UNION {Ways(q, tabs, row, a) : a \in A}] :
     \A a \in A : f[a] \in Ways(q, tabs, row, a)}

LEMMA VirtualRowsAre ==
  ASSUME NEW tabs, TablesInOrder(tabs), NEW q, JoinsAreNear(q, tabs), NEW row,
         NEW A \in SUBSET DOMAIN q.joins
  PROVE  VirtualRows(q, tabs, row, A) = AllWays(q, tabs, row, A)
<1> DEFINE choices == [a \in A |-> LET R == ToSet(Reached(q, tabs, row, a))
                                   IN IF R = {} THEN {None} ELSE R]
<1>1. \A a \in A : choices[a] = Ways(q, tabs, row, a)
  BY ReachedIs DEF Ways
<1>2. VirtualRows(q, tabs, row, A) = {pin \in [A -> UNION {choices[a] : a \in A}] :
                                        \A a \in A : pin[a] \in choices[a]}
  BY DEF VirtualRows
<1> HIDE DEF choices
<1>3. {choices[a] : a \in A} = {Ways(q, tabs, row, a) : a \in A}
  BY <1>1
<1> QED BY <1>1, <1>2, <1>3 DEF AllWays

LEMMA JoiningsAre ==
  ASSUME NEW tabs, TablesInOrder(tabs), NEW q, JoinsAreNear(q, tabs),
         NEW row \in ToSet(TableRows(tabs, q.main))
  PROVE  Joinings(q, tabs, row) = AllWays(q, tabs, row, DOMAIN q.joins)
<1> DEFINE J == DOMAIN q.joins
           Own(a) == ToSet(TableRows(tabs, q.joins[a].table)) \cup {None}
           Parent(f, j) == IF j.parent = Main THEN row ELSE f[j.parent]
           Partners(f, j) == IF Parent(f, j) = None THEN {}
                             ELSE {r \in Joined(tabs, j, Parent(f, j)) : RowGet(r, j.rcol) # None}
           Fits(f, a) == LET R == Partners(f, q.joins[a])
                         IN IF R = {} THEN f[a] = None ELSE f[a] \in R
<1>1. row # None
  BY TableIs
<1>2. \A a \in J : \A f : Fits(f, a) <=> f[a] \in Ways(q, tabs, row, a)
  <2> SUFFICES ASSUME NEW a \in J, NEW f
               PROVE  Fits(f, a) <=> f[a] \in Ways(q, tabs, row, a)
    OBVIOUS
  <2> DEFINE j == q.joins[a]
  <2>1. /\ j.parent = Main
        /\ NeverNull(tabs, q.main, j.lcol) \/ NeverNull(tabs, j.table, j.rcol)
    BY DEF JoinsAreNear
  <2>2. \A r \in Joined(tabs, j, row) : RowGet(r, j.rcol) # None
    BY <2>1 DEF Joined, NeverNull
  <2>3. Partners(f, j) = Joined(tabs, j, row)
    BY <1>1, <2>1, <2>2
  <2> QED BY <2>3 DEF Ways
<1>3. \A a \in J : Ways(q, tabs, row, a) \subseteq Own(a)
  BY DEF Ways, Joined
<1>4. Joinings(q, tabs, row) = {f \in [J -> UNION {Own(a) : a \in J}] :
                                  /\ \A a \in J : f[a] \in Own(a)
                                  /\ \A a \in J : Fits(f, a)}
  BY DEF Joinings
<1> HIDE DEF Own, Fits, Parent, Partners
<1>5. \A f : f \in Joinings(q, tabs, row) <=>
               f \in [J -> UNION {Own(a) : a \in J}] /\ \A a \in J : f[a] \in Ways(q, tabs, row, a)
  BY <1>2, <1>3, <1>4
<1>6. \A f : f \in AllWays(q, tabs, row, J) <=>
               f \in [J -> UNION {Ways(q, tabs, row, a) : a \in J}]
                 /\ \A a \in J : f[a] \in Ways(q, tabs, row, a)
  BY DEF AllWays
<1>7. \A f : (\A a \in J : f[a] \in Ways(q, tabs, row, a)) =>
               (f \in [J -> UNION {Own(a) : a \in J}] <=>
                f \in [J -> UNION {Ways(q, tabs, row, a) : a \in J}])
  BY <1>3
<1> QED BY <1>5, <1>6, <1>7

(* A virtual row is a part of a way to join the row along all joins, and   *)
(* each part of such a way is one.                                         *)
LEMMA WaysMeet ==
  ASSUME NEW q, NEW tabs, NEW row, NEW A, NEW J, A \subseteq J
  PROVE  /\ \A f \in AllWays(q, tabs, row, J) : [a \in A |-> f[a]] \in AllWays(q, tabs, row, A)
         /\ \A pin \in AllWays(q, tabs, row, A) :
              DOMAIN pin = A /\ \E f \in AllWays(q, tabs, row, J) : \A a \in A : f[a] = pin[a]
<1> DEFINE W(a) == Ways(q, tabs, row, a)
<1>1. \A a \in J : W(a) # {}
  BY DEF Ways
<1> HIDE DEF W
<1>2. \A f : f \in AllWays(q, tabs, row, J) <=>
               f \in [J -> UNION {W(a) : a \in J}] /\ \A a \in J : f[a] \in W(a)
  BY DEF AllWays, W
<1>3. \A f : f \in AllWays(q, tabs, row, A) <=>
               f \in [A -> UNION {W(a) : a \in A}] /\ \A a \in A : f[a] \in W(a)
  BY DEF AllWays, W
<1>4. ASSUME NEW f \in AllWays(q, tabs, row, J)
      PROVE  [a \in A |-> f[a]] \in AllWays(q, tabs, row, A)
  <2>1. \A a \in A : f[a] \in W(a)
    BY <1>2
  <2> QED BY <1>3, <2>1
<1>5. ASSUME NEW pin \in AllWays(q, tabs, row, A)
      PROVE  DOMAIN pin = A /\ \E f \in AllWays(q, tabs, row, J) : \A a \in A : f[a] = pin[a]
  <2> DEFINE f == [a \in J |-> IF a \in A THEN pin[a] ELSE CHOOSE r \in W(a) : TRUE]
  <2>1. DOMAIN pin = A /\ \A a \in A : pin[a] \in W(a)
    BY <1>3
  <2>2. \A a \in J : f[a] \in W(a)
    BY <2>1, <1>1
  <2>3. f \in AllWays(q, tabs, row, J)
    BY <2>2, <1>2
  <2>4. \A a \in A : f[a] = pin[a]
    OBVIOUS
  <2> QED BY <2>1, <2>3, <2>4
<1> QED BY <1>4, <1>5

-----------------------------------------------------------------------------
(* The slice of a sorted list.  By columns, a row ranks before another     *)
(* where the comparator says that it is less.                              *)
LEMMA RanksAre ==
  ASSUME NEW r, NEW s, NEW m \in Nat, NEW order, DOMAIN order = 1..m, PlainOrder(order),
         Comparable(r), Comparable(s)
  PROVE  RanksBefore(r, s, order) <=> Compare(r, s, order) < 0
<1>1. Compare(r, s, order) < 0 => RanksBefore(r, s, order)
  BY ColumnsSortAsSql
<1>2. ASSUME RanksBefore(r, s, order)
      PROVE  Compare(r, s, order) < 0
  <2>1. \A k \in 1..m :
          /\ Lower(Rank(r, order[k]), Rank(s, order[k])) <=> ColumnOrder(r, s, order[k]) < 0
          /\ Rank(r, order[k]) = Rank(s, order[k]) <=> ColumnOrder(s, r, order[k]) = 0
    BY RankOfColumn DEF PlainOrder
  <2>2. PICK k \in 1..m : /\ \A j \in 1..(k - 1) : Rank(r, order[j]) = Rank(s, order[j])
                          /\ Lower(Rank(r, order[k]), Rank(s, order[k]))
    BY <1>2 DEF RanksBefore
  <2>3. ~(ColumnOrder(s, r, order[k]) <= 0)
    <3>1. ColumnOrder(r, s, order[k]) < 0
      BY <2>1, <2>2
    <3>2. ColumnOrder(s, r, order[k]) > 0 /\ ColumnOrder(s, r, order[k]) \in {-1, 0, 1}
      BY <3>1, ColumnOrderIsConsistent DEF Comparable
    <3> QED BY <3>2
  <2>4. \A j \in 1..m : j < k => ColumnOrder(s, r, order[j]) = 0
    <3> SUFFICES ASSUME NEW j \in 1..m, j < k PROVE ColumnOrder(s, r, order[j]) = 0
      OBVIOUS
    <3>1. j \in 1..(k - 1)
      OBVIOUS
    <3> QED BY <3>1, <2>1, <2>2
  <2>5. Len(<<>>) <= 1
    OBVIOUS
  <2>6. Kept(order) = 1..m
    BY <2>5 DEF Kept, HasColumn, PlainOrder
  <2>7. ~NotAfter(s, r, order)
    BY <2>3, <2>4, <2>6 DEF NotAfter
  <2>8. DOMAIN order \subseteq Nat
    OBVIOUS
  <2>9. /\ Compare(s, r, order) \in {-1, 0, 1} /\ ~(Compare(s, r, order) <= 0)
        /\ Compare(r, s, order) < 0 <=> Compare(s, r, order) > 0
    BY <2>7, <2>8, CompareMeans
  <2> QED BY <2>9
<1> QED BY <1>1, <1>2

LEMMA PlacesCount ==
  ASSUME NEW n, NEW seq, NEW order, Ranked(n, seq, order), NEW m \in Nat, DOMAIN order = 1..m,
         PlainOrder(order), KeysRise(seq), \A i \in 1..n : seq[i].pk \in Int, NEW i \in 1..n
  PROVE  Place(seq, order, i) = 1 + Cardinality(EarlierRows(ToSet(seq), seq[i], order))
<1> DEFINE Below == {j \in 1..n : Before(seq, order, j, i)}
           Earlier == EarlierRows(ToSet(seq), seq[i], order)
           g == [j \in Below |-> seq[j]]
<1>1. n \in Nat /\ DOMAIN seq = 1..n /\ DOMAIN order \subseteq Nat
      /\ \A j \in 1..n : Comparable(seq[j])
  BY DEF Ranked
<1>2. \A j, k \in 1..n : j < k => seq[j].pk < seq[k].pk
  BY <1>1 DEF KeysRise
<1>3. \A j, k \in 1..n : j # k => seq[j].pk # seq[k].pk
  <2>1. \A j, k \in 1..n : j # k => j < k \/ k < j
    BY <1>1
  <2>2. \A j, k \in 1..n : j < k => seq[j].pk # seq[k].pk
    BY <1>2
  <2> QED BY <2>1, <2>2
<1>4. ASSUME NEW j \in 1..n
      PROVE  j \in Below <=> seq[j] \in Earlier
  <2> DEFINE C(r, s) == Compare(r, s, order)
  <2>1. /\ C(seq[j], seq[i]) \in {-1, 0, 1}
        /\ C(seq[i], seq[j]) \in {-1, 0, 1}
        /\ C(seq[i], seq[j]) < 0 <=> C(seq[j], seq[i]) > 0
        /\ C(seq[j], seq[i]) < 0 <=> C(seq[i], seq[j]) > 0
    BY <1>1, CompareMeans
  <2>2. /\ RanksBefore(seq[j], seq[i], order) <=> C(seq[j], seq[i]) < 0
        /\ RanksBefore(seq[i], seq[j], order) <=> C(seq[i], seq[j]) < 0
    BY <1>1, RanksAre
  <2>3. seq[j].pk < seq[i].pk <=> j < i
    <3>1. j < i => seq[j].pk < seq[i].pk
      BY <1>2
    <3>2. i < j => seq[i].pk < seq[j].pk
      BY <1>2
    <3>3. i < j \/ i = j \/ j < i
      BY <1>1
    <3>4. seq[i].pk \in Int /\ seq[j].pk \in Int
      OBVIOUS
    <3> QED BY <3>1, <3>2, <3>3, <3>4
  <2>4. Before(seq, order, j, i) <=> C(seq[j], seq[i]) < 0 \/ (C(seq[j], seq[i]) = 0 /\ j < i)
    BY DEF Before
  <2>5. seq[j] \in ToSet(seq)
    BY <1>1 DEF ToSet
  <2>6. seq[j] \in Earlier <=> \/ RanksBefore(seq[j], seq[i], order)
                               \/ ~RanksBefore(seq[i], seq[j], order) /\ seq[j].pk < seq[i].pk
    BY <2>5 DEF EarlierRows
  <2> HIDE DEF C, Earlier
  <2> QED BY <2>1, <2>2, <2>3, <2>4, <2>6
<1>5. IsFiniteSet(Below)
  <2>1. IsFiniteSet(1..n) /\ Below \in SUBSET (1..n)
    BY <1>1, FS_Interval
  <2> QED BY <2>1, FS_Subset
<1>6. \A s \in Earlier : \E j \in Below : s = seq[j]
  <2> TAKE s \in Earlier
  <2>1. s \in ToSet(seq)
    BY DEF EarlierRows
  <2>2. PICK j \in 1..n : s = seq[j]
    BY <2>1, <1>1 DEF ToSet
  <2> QED BY <2>2, <1>4
<1>7. \A j \in Below : j \in 1..n
  OBVIOUS
<1>9. Place(seq, order, i) = 1 + Cardinality(Below)
  BY <1>1 DEF Place
<1> HIDE DEF Below, Earlier
<1>8. g \in Bijection(Below, Earlier)
  BY <1>3, <1>4, <1>6, <1>7 DEF Bijection, Surjection, Injection, IsInjective
<1> HIDE DEF g
<1>10. Cardinality(Earlier) = Cardinality(Below)
  BY <1>5, <1>8, FS_Bijection DEF ExistsBijection
<1> QED BY <1>9, <1>10 DEF Earlier

(* The sort of a list has its items, each at its place.                    *)
LEMMA SortedHasAll ==
  ASSUME NEW n, NEW seq, NEW order, Ranked(n, seq, order), NEW S, seq \in Seq(S)
  PROVE  /\ Sorted(seq, order) \in [1..n -> S]
         /\ \A i \in 1..n : \E k \in 1..n : Sorted(seq, order)[k] = seq[i]
         /\ \A k \in 1..n : \E i \in 1..n :
              Sorted(seq, order)[k] = seq[i] /\ Place(seq, order, i) = k
<1>1. PICK p \in [1..n -> 1..n] :
        /\ Sorted(seq, order) = [k \in 1..n |-> seq[p[k]]]
        /\ \A i \in 1..n : \E k \in 1..n : p[k] = i
        /\ \A j, k \in 1..n : j < k => Before(seq, order, p[j], p[k])
        /\ \A k \in 1..n : Place(seq, order, p[k]) = k
  BY SortedIsRenumbered
<1> DEFINE sorted == Sorted(seq, order)
<1>2. sorted = [k \in 1..n |-> seq[p[k]]]
  BY <1>1
<1> HIDE DEF sorted
<1>3. DOMAIN seq = 1..n
  BY DEF Ranked
<1>4. \A i \in 1..n : seq[i] \in S
  <2>1. \A i \in DOMAIN seq : seq[i] \in S
    OBVIOUS
  <2> QED BY <2>1, <1>3
<1>5. \A k \in 1..n : p[k] \in 1..n
  OBVIOUS
<1>6. sorted \in [1..n -> S]
  BY <1>2, <1>4, <1>5
<1>7. \A k \in 1..n : sorted[k] = seq[p[k]]
  BY <1>2
<1>8. \A i \in 1..n : \E k \in 1..n : sorted[k] = seq[i]
  BY <1>1, <1>7
<1>9. \A k \in 1..n : \E i \in 1..n : sorted[k] = seq[i] /\ Place(seq, order, i) = k
  BY <1>1, <1>5, <1>7
<1> QED BY <1>6, <1>8, <1>9 DEF sorted

(* The places of a list that a slice takes.                                *)
Taken(n, low, high) == {l \in 1..n : low < l /\ (high = None \/ l <= high)}

ItemsAt(seq, K) == {seq[k] : k \in K}

LEMMA SliceTakes ==
  ASSUME NEW n \in Nat, NEW S, NEW seq \in [1..n -> S], NEW low \in Nat, NEW high \in (Nat \ {0}) \cup {None}
  PROVE  ToSet(Sliced(seq, low, high)) = ItemsAt(seq, Taken(n, low, high))
<1> DEFINE last == IF high = None \/ high > n THEN n ELSE high
           part == SubSeq(seq, low + 1, last)
<1>1. seq \in Seq(S) /\ Len(seq) = n
  OBVIOUS
<1>2. last \in Nat /\ last <= n
  OBVIOUS
<1>3. Sliced(seq, low, high) = part
  BY <1>1 DEF Sliced
<1>4. \A l \in 1..n : l \in Taken(n, low, high) <=> low + 1 <= l /\ l <= last
  <2>1. CASE high = None
    BY <2>1 DEF Taken
  <2>2. CASE high # None
    <3>1. high \in Nat
      BY <2>2
    <3> QED BY <3>1, <2>2 DEF Taken
  <2> QED BY <2>1, <2>2
<1> HIDE DEF last
<1>5. DOMAIN part = 1..(last - low) /\ \A i \in 1..(last - low) : part[i] = seq[low + i]
  BY <1>1, <1>2
<1> HIDE DEF part
<1>6. \A i \in 1..(last - low) : low + i \in 1..n /\ low + i \in Taken(n, low, high)
  <2> TAKE i \in 1..(last - low)
  <2>1. low + i \in 1..n /\ low + 1 <= low + i /\ low + i <= last
    BY <1>2
  <2> QED BY <2>1, <1>4
<1>7. \A k \in Taken(n, low, high) : k - low \in 1..(last - low) /\ low + (k - low) = k
  <2> TAKE k \in Taken(n, low, high)
  <2>1. k \in 1..n
    BY DEF Taken
  <2>2. low + 1 <= k /\ k <= last
    BY <2>1, <1>4
  <2> QED BY <2>1, <2>2, <1>2
<1>8. {part[i] : i \in 1..(last - low)} = {seq[k] : k \in Taken(n, low, high)}
  BY <1>5, <1>6, <1>7
<1>9. ToSet(part) = {part[i] : i \in 1..(last - low)}
  BY <1>5 DEF ToSet
<1> QED BY <1>3, <1>8, <1>9 DEF ItemsAt

(* A list that is not sliced has all its rows.                             *)
LEMMA WholeList ==
  ASSUME NEW S, NEW seq \in Seq(S), NEW order
  PROVE  SqlList(ToSet(seq), order, 0, None) = ToSet(seq)
<1>1. IsFiniteSet(ToSet(seq))
  <2>1. Len(seq) \in Nat /\ DOMAIN seq = 1..Len(seq)
    OBVIOUS
  <2>2. IsFiniteSet(1..Len(seq))
    BY <2>1, FS_Interval
  <2> DEFINE g == [i \in 1..Len(seq) |-> seq[i]]
  <2>3. g \in Surjection(1..Len(seq), ToSet(seq))
    BY <2>1 DEF Surjection, ToSet
  <2> QED BY <2>2, <2>3, FS_Surjection
<1> DEFINE Count(r) == Cardinality(EarlierRows(ToSet(seq), r, order))
<1>2. \A r \in ToSet(seq) : Count(r) \in Nat
  <2> TAKE r \in ToSet(seq)
  <2>1. EarlierRows(ToSet(seq), r, order) \in SUBSET ToSet(seq)
    BY DEF EarlierRows
  <2>2. IsFiniteSet(EarlierRows(ToSet(seq), r, order))
    BY <1>1, <2>1, FS_Subset
  <2> QED BY <2>2, FS_CardinalityType
<1>3. SqlList(ToSet(seq), order, 0, None) = {r \in ToSet(seq) : 0 <= Count(r)}
  BY DEF SqlList, InSlice
<1> HIDE DEF Count
<1> QED BY <1>2, <1>3


(* What _apply_ordering and the slice leave of a list in key order is what *)
(* SQL gives a place in the slice: by columns, or if nothing is sliced     *)
(* away.                                                                   *)
LEMMA SlicesAgree ==
  ASSUME NEW n, NEW seq, NEW order, Ranked(n, seq, order), NEW S, seq \in Seq(S),
         NEW m \in Nat, DOMAIN order = 1..m,
         KeysRise(seq), \A i \in 1..n : seq[i].pk \in Int,
         NEW low \in Nat, NEW high \in (Nat \ {0}) \cup {None},
         (low = 0 /\ high = None) \/ PlainOrder(order)
  PROVE  ToSet(Sliced(Sorted(seq, order), low, high)) = SqlList(ToSet(seq), order, low, high)
<1> DEFINE sorted == Sorted(seq, order)
           Count(r) == Cardinality(EarlierRows(ToSet(seq), r, order))
           In(c) == low <= c /\ (high = None \/ c < high)
<1>1. n \in Nat /\ DOMAIN seq = 1..n /\ IsFiniteSet(ToSet(seq))
  <2>1. n \in Nat /\ DOMAIN seq = 1..n
    BY DEF Ranked
  <2>2. IsFiniteSet(1..n)
    BY <2>1, FS_Interval
  <2> DEFINE g == [i \in 1..n |-> seq[i]]
  <2>3. g \in Surjection(1..n, ToSet(seq))
    BY <2>1 DEF Surjection, ToSet
  <2>4. IsFiniteSet(ToSet(seq))
    BY <2>2, <2>3, FS_Surjection
  <2> QED BY <2>1, <2>4
<1>2. /\ sorted \in [1..n -> S]
      /\ \A i \in 1..n : \E k \in 1..n : sorted[k] = seq[i]
      /\ \A k \in 1..n : \E i \in 1..n : sorted[k] = seq[i] /\ Place(seq, order, i) = k
  BY SortedHasAll
<1>3. SqlList(ToSet(seq), order, low, high) = {r \in ToSet(seq) : In(Count(r))}
  BY DEF SqlList, InSlice
<1> HIDE DEF sorted
<1>4. ToSet(Sliced(sorted, low, high)) = ItemsAt(sorted, Taken(n, low, high))
  <2>1. n \in Nat
    BY <1>1
  <2>2. sorted \in [1..n -> S]
    BY <1>2
  <2> QED BY <2>1, <2>2, SliceTakes
<1>5. \A r \in ToSet(seq) : Count(r) \in Nat
  <2> TAKE r \in ToSet(seq)
  <2>1. EarlierRows(ToSet(seq), r, order) \in SUBSET ToSet(seq)
    BY DEF EarlierRows
  <2>2. IsFiniteSet(EarlierRows(ToSet(seq), r, order))
    BY <1>1, <2>1, FS_Subset
  <2> QED BY <2>2, FS_CardinalityType
<1> HIDE DEF Count
<1>6. \A k \in 1..n : sorted[k] \in ToSet(seq)
  <2> TAKE k \in 1..n
  <2>1. PICK i \in 1..n : sorted[k] = seq[i]
    BY <1>2
  <2> QED BY <2>1, <1>1 DEF ToSet
<1>7. \A r \in ToSet(seq) : \E k \in 1..n : sorted[k] = r
  <2> TAKE r \in ToSet(seq)
  <2>1. PICK i \in 1..n : r = seq[i]
    BY <1>1 DEF ToSet
  <2> QED BY <2>1, <1>2
<1>8. \A k \in 1..n : k \in Taken(n, low, high) <=> In(Count(sorted[k]))
  <2>1. CASE low = 0 /\ high = None
    <3> TAKE k \in 1..n
    <3>1. Count(sorted[k]) \in Nat
      BY <1>5, <1>6
    <3> QED BY <3>1, <2>1, <1>1 DEF Taken
  <2>2. CASE PlainOrder(order)
    <3> TAKE k \in 1..n
    <3>1. PICK i \in 1..n : sorted[k] = seq[i] /\ Place(seq, order, i) = k
      BY <1>2
    <3>2. Place(seq, order, i) = 1 + Count(seq[i])
      BY <2>2, PlacesCount DEF Count
    <3>3. Count(sorted[k]) \in Nat
      BY <1>5, <1>6
    <3> SUFFICES ASSUME NEW c \in Nat, k = 1 + c
                 PROVE  k \in Taken(n, low, high) <=> In(c)
      BY <3>1, <3>2, <3>3
    <3>4. CASE high = None
      BY <3>4, <1>1 DEF Taken
    <3>5. CASE high # None
      <4>1. high \in Nat
        BY <3>5
      <4> QED BY <4>1, <3>5, <1>1 DEF Taken
    <3> QED BY <3>4, <3>5
  <2> QED BY <2>1, <2>2
<1>9. \A k \in Taken(n, low, high) : k \in 1..n
  BY DEF Taken
<1> HIDE DEF In
<1> QED BY <1>3, <1>4, <1>6, <1>7, <1>8, <1>9 DEF sorted, ItemsAt

-----------------------------------------------------------------------------
(* Lookups.  A tree that has an OuterRef is for an outer row.              *)
RunsWith(tabs, w, outer) == outer \in Outers(tabs) /\ (outer = None => ~Correlated(w))

(* What the code and SQL find for the subqueries K, as the code lists it   *)
(* and as SQL's set of rows, is the same.                                  *)
FoundAlike(tabs, found, sql, k, o) ==
  LET rows == TableRows(tabs, Subqueries[k].main)
  IN /\ ~Raises(tabs, k, o)
     /\ found[k][o] \in Seq(ToSet(rows)) /\ KeysRise(found[k][o])
     /\ ToSet(found[k][o]) = sql[k][o]

FindsAlike(tabs, found, sql, K) ==
  \A k \in K : \A o :
    RunsWith(tabs, Subqueries[k].where, o) => FoundAlike(tabs, found, sql, k, o)

LEMMA ListsAgree ==
  ASSUME NEW tabs, TablesInOrder(tabs), NEW k \in DOMAIN Subqueries, ListIsPlain(tabs, k),
         NEW found, NEW sql, NEW K, k \in K, FindsAlike(tabs, found, sql, K)
  PROVE  Listed(tabs, found, k) = SqlListed(tabs, sql, k)
<1> DEFINE s == Subqueries[k]
           rows == TableRows(tabs, s.main)
           seq == found[k][None]
           n == Len(seq)
           Value(r) == RowGet(r, s.cols[1].col)
<1>1. RunsWith(tabs, s.where, None)
  BY DEF RunsWith, Outers, ListIsPlain
<1>2. seq \in Seq(ToSet(rows)) /\ KeysRise(seq) /\ ToSet(seq) = sql[k][None]
  BY <1>1 DEF FindsAlike, FoundAlike
<1>3. \A r \in ToSet(rows) : r.pk \in Int /\ Comparable(r)
  BY TableIs
<1>4. s.order \in Seq(ToSet(s.order)) /\ s.low \in Nat /\ s.high \in (Nat \ {0}) \cup {None}
  BY SubqueriesNest
<1>5. s.cols[1].alias = Main /\ s.cols[1].fns = <<>> /\ \A r \in ToSet(rows) : Value(r) # None
  BY DEF ListIsPlain, NeverNull
<1>6. (s.low = 0 /\ s.high = None) \/ PlainOrder(s.order)
  BY DEF ListIsPlain, PlainOrder
<1>7. \A r : ExprValue(s, tabs, r, s.cols[1]) = Value(r)
  BY <1>5, ApplyNone DEF ExprValue, ColumnValue
<1>17. Arranged(seq, s.order) = Sorted(seq, s.order)
  BY DEF Arranged, ListIsPlain
<1> HIDE DEF s, rows, seq, Value
<1>8. DOMAIN seq = 1..n /\ n \in Nat /\ \A i \in 1..n : seq[i] \in ToSet(rows)
  BY <1>2
<1>9. Len(s.order) \in Nat /\ DOMAIN s.order = 1..Len(s.order)
  BY <1>4
<1>10. Ranked(n, seq, s.order)
  <2>1. DOMAIN s.order \subseteq Nat
    BY <1>9
  <2> QED BY <1>3, <1>8, <2>1 DEF Ranked
<1>11. \A i \in 1..n : seq[i].pk \in Int
  BY <1>3, <1>8
<1> HIDE DEF n
<1> DEFINE m == Len(s.order)
<1> HIDE DEF m
<1>12. m \in Nat /\ DOMAIN s.order = 1..m
  BY <1>9 DEF m
<1>13. ToSet(Sliced(Sorted(seq, s.order), s.low, s.high)) = SqlList(ToSet(seq), s.order, s.low, s.high)
  <2>1. seq \in Seq(ToSet(rows))
    BY <1>2
  <2>2. KeysRise(seq)
    BY <1>2
  <2>3. s.low \in Nat
    BY <1>4
  <2>4. s.high \in (Nat \ {0}) \cup {None}
    BY <1>4
  <2>5. m \in Nat
    BY <1>12
  <2>6. DOMAIN s.order = 1..m
    BY <1>12
  <2>7. (s.low = 0 /\ s.high = None) \/ PlainOrder(s.order)
    BY <1>6
  <2> DEFINE order == s.order
             low == s.low
             high == s.high
  <2> HIDE DEF order, low, high
  <2>8. ToSet(Sliced(Sorted(seq, order), low, high)) = SqlList(ToSet(seq), order, low, high)
    <3>1. seq \in Seq(ToSet(rows)) /\ KeysRise(seq) /\ low \in Nat /\ high \in (Nat \ {0}) \cup {None}
      BY <2>1, <2>2, <2>3, <2>4 DEF low, high
    <3>2. m \in Nat /\ DOMAIN order = 1..m /\ Ranked(n, seq, order)
      BY <2>5, <2>6, <1>10 DEF order
    <3>3. (low = 0 /\ high = None) \/ PlainOrder(order)
      BY <2>7 DEF low, high, order
    <3> QED BY <3>1, <3>2, <3>3, <1>11, SlicesAgree
  <2> QED BY <2>8 DEF order, low, high
<1> DEFINE list == SqlList(ToSet(seq), s.order, s.low, s.high)
<1>14. list \subseteq ToSet(rows)
  <2>1. list \subseteq ToSet(seq)
    BY DEF SqlList, InSlice
  <2>2. ToSet(seq) \subseteq ToSet(rows)
    BY <1>8 DEF ToSet
  <2> QED BY <2>1, <2>2
<1>15. Listed(tabs, found, k) = {ExprValue(s, tabs, r, s.cols[1]) : r \in list}
  BY <1>13, <1>17 DEF Listed, s, seq
<1>16. SqlListed(tabs, sql, k) = {Value(r) : r \in list} \ {None}
  BY <1>2 DEF SqlListed, SqlAnswer, s, Value
<1> HIDE DEF list
<1> QED BY <1>5, <1>7, <1>14, <1>15, <1>16

(* The values that a lookup on a joined column meets.                      *)
LEMMA JoinedLookup ==
  ASSUME NEW tabs, TablesInOrder(tabs), NEW q, JoinsAreNear(q, tabs), NEW row,
         NEW a \in DOMAIN q.joins, NEW col
  PROVE  /\ ToSet(JoinedValues(q, tabs, row, a, col, NoPin))
              = {RowGet(r, col) : r \in Joined(tabs, q.joins[a], row)}
         /\ \A pin : a \in DOMAIN pin =>
              ToSet(JoinedValues(q, tabs, row, a, col, pin))
                = IF pin[a] = None THEN {} ELSE {RowGet(pin[a], col)}
<1>1. ToSet(JoinedValues(q, tabs, row, a, col, NoPin))
        = {RowGet(r, col) : r \in Joined(tabs, q.joins[a], row)}
  <2> DEFINE seq == Reached(q, tabs, row, a)
  <2>1. ToSet(seq) = Joined(tabs, q.joins[a], row)
    BY ReachedIs
  <2>2. a \notin DOMAIN NoPin
    BY DEF NoPin
  <2>3. JoinedValues(q, tabs, row, a, col, NoPin) = [i \in DOMAIN seq |-> RowGet(seq[i], col)]
    BY <2>2 DEF JoinedValues, Column
  <2> HIDE DEF seq
  <2> QED BY <2>1, <2>3 DEF ToSet
<1>2. ASSUME NEW pin, a \in DOMAIN pin
      PROVE  ToSet(JoinedValues(q, tabs, row, a, col, pin))
                = IF pin[a] = None THEN {} ELSE {RowGet(pin[a], col)}
  <2>1. CASE pin[a] = None
    <3>1. JoinedValues(q, tabs, row, a, col, pin) = [i \in DOMAIN <<>> |-> RowGet(<<>>[i], col)]
      BY <1>2, <2>1 DEF JoinedValues, Column
    <3> QED BY <3>1, <2>1 DEF ToSet
  <2>2. CASE pin[a] # None
    <3> DEFINE one == <<pin[a]>>
    <3>1. JoinedValues(q, tabs, row, a, col, pin) = [i \in DOMAIN one |-> RowGet(one[i], col)]
      BY <1>2, <2>2 DEF JoinedValues, Column
    <3>2. DOMAIN one = {1} /\ one[1] = pin[a]
      OBVIOUS
    <3> HIDE DEF one
    <3> QED BY <3>1, <3>2, <2>2 DEF ToSet
  <2> QED BY <2>1, <2>2
<1> QED BY <1>1, <1>2

(* The lookups that a query may have, and what _resolve_outer_refs and     *)
(* _eval_subquery_rhs make of those that they change.                      *)
IsLookup(l) ==
  /\ DOMAIN l = {"kind", "alias", "col", "fns", "op", "rhs"} /\ l.kind = "lookup"
  /\ l.op = "outer" => l.rhs.op \in {"exact", "gt", "lte"}

Resolves(tabs, found, sql, outer, l) ==
  /\ l.op = "outer" => outer # None /\ (l.rhs.op = "exact" \/ RowGet(outer, l.rhs.col) # None)
  /\ l.op = "in_query" => /\ ~Raises(tabs, l.rhs, None)
                          /\ Listed(tabs, found, l.rhs) = SqlListed(tabs, sql, l.rhs)

LEMMA ResolvedIs ==
  ASSUME NEW tabs, NEW found, NEW sql, NEW outer, NEW l, IsLookup(l), l.op # "exact_query",
         Resolves(tabs, found, sql, outer, l)
  PROVE  LET r == Resolved(tabs, found, outer, l)
         IN /\ r.alias = l.alias /\ r.col = l.col /\ r.fns = l.fns
            /\ l.op = "outer" => r.op = l.rhs.op /\ r.rhs = RowGet(outer, l.rhs.col)
            /\ l.op = "in_query" => r.op = "in" /\ r.rhs = SqlListed(tabs, sql, l.rhs)
            /\ l.op \notin {"outer", "in_query"} => r.op = l.op /\ r.rhs = l.rhs
<1>1. CASE l.op = "outer"
  <2>1. Resolved(tabs, found, outer, l) = [l EXCEPT !.op = l.rhs.op, !.rhs = RowGet(outer, l.rhs.col)]
    BY <1>1 DEF Resolved, Resolves
  <2> QED BY <2>1, <1>1 DEF IsLookup
<1>2. CASE l.op = "in_query"
  <2>1. Resolved(tabs, found, outer, l) = [l EXCEPT !.op = "in", !.rhs = Listed(tabs, found, l.rhs)]
    BY <1>2 DEF Resolved, Resolves
  <2>2. Listed(tabs, found, l.rhs) = SqlListed(tabs, sql, l.rhs)
    BY <1>2 DEF Resolves
  <2> QED BY <2>1, <2>2, <1>2 DEF IsLookup
<1>3. CASE l.op \notin {"outer", "in_query"}
  BY <1>3 DEF Resolved
<1> QED BY <1>1, <1>2, <1>3

(* The lookups of a query whose WHERE reads as SQL, as the code and as SQL *)
(* see them on the value v that a column has.                              *)
PlainOps == {"exact", "in", "isnull", "text", "outer", "in_query", "gt", "lte", "year", "expr"}

SqlAccepts(tabs, sql, outer, l, v) ==
  CASE l.op = "outer"    -> /\ v # None /\ RowGet(outer, l.rhs.col) # None
                            /\ Accepts(l.rhs.op, RowGet(outer, l.rhs.col), v)
    [] l.op = "text"     -> v # None /\ v \in l.rhs
    [] l.op = "year"     -> v = l.rhs
    [] l.op = "in_query" -> v \in SqlListed(tabs, sql, l.rhs)
    [] OTHER             -> Accepts(l.op, l.rhs, v)

LEMMA PlainOpsAre ==
  ASSUME NEW q, NEW tabs, NEW l, LookupIsPlain(q, tabs, l)
  PROVE  l.op \in PlainOps
BY DEF LookupIsPlain, PlainOps

(* On a value that is there, an OuterRef means in SQL what it means in the *)
(* code.                                                                   *)
LEMMA OuterAgrees ==
  ASSUME NEW tabs, NEW found, NEW sql, NEW outer, NEW l, IsLookup(l), l.op = "outer",
         Resolves(tabs, found, sql, outer, l), NEW v, v # None
  PROVE  SqlAccepts(tabs, sql, outer, l, v) <=> Accepts(l.rhs.op, RowGet(outer, l.rhs.col), v)
<1> DEFINE x == RowGet(outer, l.rhs.col)
<1>1. SqlAccepts(tabs, sql, outer, l, v) <=> x # None /\ Accepts(l.rhs.op, x, v)
  BY DEF SqlAccepts
<1>2. l.rhs.op = "exact" \/ x # None
  BY DEF Resolves
<1>3. l.rhs.op = "exact" => (Accepts(l.rhs.op, x, v) <=> v = x)
  BY DEF Accepts
<1> HIDE DEF x
<1>4. SqlAccepts(tabs, sql, outer, l, v) <=> Accepts(l.rhs.op, x, v)
  BY <1>1, <1>2, <1>3
<1> QED BY <1>4 DEF x

LEMMA SqlLookupIs ==
  ASSUME NEW tabs, NEW sql, NEW outer, NEW row, NEW l, NEW f, IsLookup(l), l.op \in PlainOps \ {"expr"}
  PROVE  LET r == IF l.alias = Main THEN row ELSE f[l.alias]
             v == SqlApplyAll(l.fns, IF r = None THEN None ELSE RowGet(r, l.col))
         IN SqlLeaf(tabs, sql, outer, row, l, f) = SqlAccepts(tabs, sql, outer, l, v)
<1> DEFINE r == IF l.alias = Main THEN row ELSE f[l.alias]
           v == SqlApplyAll(l.fns, IF r = None THEN None ELSE RowGet(r, l.col))
<1>1. l.kind = "lookup" /\ l.op # "expr" /\ l.op # "exact_query"
  BY DEF IsLookup, PlainOps
<1>2. SqlLeaf(tabs, sql, outer, row, l, f) =
        CASE l.op = "outer" -> /\ v # None /\ RowGet(outer, l.rhs.col) # None
                               /\ Accepts(l.rhs.op, RowGet(outer, l.rhs.col), v)
          [] l.op = "expr"  -> v # None /\ v = RowGet(row, l.rhs)
          [] l.op = "text"  -> v # None /\ v \in l.rhs
          [] l.op = "year"  -> v = l.rhs
          [] l.op \in {"in_query", "exact_query"} -> v \in SqlListed(tabs, sql, l.rhs)
          [] OTHER -> Accepts(l.op, l.rhs, v)
  BY <1>1 DEF SqlLeaf
<1> HIDE DEF v
<1>3. SqlLeaf(tabs, sql, outer, row, l, f) = SqlAccepts(tabs, sql, outer, l, v)
  <2>1. CASE l.op = "outer"
    BY <2>1, <1>2 DEF SqlAccepts
  <2>2. CASE l.op = "text"
    BY <2>2, <1>2 DEF SqlAccepts
  <2>3. CASE l.op = "year"
    BY <2>3, <1>2 DEF SqlAccepts
  <2>4. CASE l.op = "in_query"
    BY <2>4, <1>2 DEF SqlAccepts
  <2>5. CASE l.op \notin {"outer", "text", "year", "in_query"}
    BY <2>5, <1>1, <1>2 DEF SqlAccepts
  <2> QED BY <2>1, <2>2, <2>3, <2>4, <2>5
<1> QED BY <1>3 DEF v

(* The code's two ways to a column of the row itself meet the same value.  *)
LEMMA AcceptsOne ==
  ASSUME NEW op, NEW rhs, op = "isnull" => rhs \in BOOLEAN, NEW x
  PROVE  AcceptsAny(op, rhs, {x}) <=> Accepts(op, rhs, x)
<1>1. CASE op = "isnull"
  <2>1. AcceptsAny(op, rhs, {x}) <=> IF rhs THEN x = None ELSE x # None
    BY <1>1 DEF AcceptsAny
  <2>2. Accepts(op, rhs, x) <=> ((x = None) = rhs)
    BY <1>1 DEF Accepts
  <2>3. rhs = TRUE \/ rhs = FALSE
    BY <1>1
  <2> QED BY <2>1, <2>2, <2>3
<1>2. CASE op # "isnull"
  BY <1>2 DEF AcceptsAny
<1> QED BY <1>1, <1>2

LEMMA OwnLookupIs ==
  ASSUME NEW q, NEW tabs, NEW row, NEW r, NEW pin,
         r.alias = Main, r.op # "expr", IsJoined(q, r) => r.fns = <<>>,
         r.op = "year" => r.fns # <<>>, r.op = "isnull" => r.rhs \in BOOLEAN
  PROVE  LookupHolds(q, tabs, row, r, pin)
           <=> Accepts(r.op, r.rhs, IF r.op = "year" THEN RowGet(row, r.col)
                                    ELSE ApplyAll(r.fns, RowGet(row, r.col)))
<1> DEFINE x == RowGet(row, r.col)
<1>1. CASE IsJoined(q, r)
  <2>1. r.fns = <<>> /\ r.op # "year" /\ ~AsksPart(r)
    BY <1>1 DEF AsksPart
  <2>2. ColumnValues(q, tabs, row, r, pin) = {x}
    BY DEF ColumnValues
  <2>3. LookupHolds(q, tabs, row, r, pin) <=> AcceptsAny(r.op, r.rhs, {x})
    BY <1>1, <2>1, <2>2 DEF LookupHolds
  <2>4. ApplyAll(r.fns, x) = x
    BY <2>1, ApplyNone
  <2> HIDE DEF x
  <2>5. AcceptsAny(r.op, r.rhs, {x}) <=> Accepts(r.op, r.rhs, x)
    BY AcceptsOne
  <2> QED BY <2>1, <2>3, <2>4, <2>5 DEF x
<1>2. CASE ~IsJoined(q, r)
  <2>1. ExprValue(q, tabs, row, r) = ApplyAll(r.fns, x)
    BY DEF ExprValue, ColumnValue
  <2>2. LookupHolds(q, tabs, row, r, pin)
          <=> Accepts(r.op, r.rhs, IF r.op = "year" THEN x ELSE ExprValue(q, tabs, row, r))
    BY <1>2 DEF LookupHolds
  <2> QED BY <2>1, <2>2
<1> QED BY <1>1, <1>2

(* On a column of the row itself, the code and SQL accept the same.        *)
LEMMA MainLookupAgrees ==
  ASSUME NEW tabs, TablesInOrder(tabs), NEW q, NEW row \in ToSet(TableRows(tabs, q.main)),
         NEW outer, NEW found, NEW sql, NEW pin, NEW f, NEW l,
         IsLookup(l), l.alias = Main, LookupIsPlain(q, tabs, l), l.op # "expr",
         Resolves(tabs, found, sql, outer, l)
  PROVE  LeafHolds(q, tabs, found, outer, row, l, pin) <=> SqlLeaf(tabs, sql, outer, row, l, f)
<1> DEFINE r == Resolved(tabs, found, outer, l)
           x == RowGet(row, l.col)
           v == ApplyAll(l.fns, x)
<1>1. l.op \in PlainOps \ {"expr"} /\ l.op # "exact_query"
  BY PlainOpsAre DEF PlainOps
<1>2. row # None
  BY TableIs
<1>3. v = SqlApplyAll(l.fns, x) /\ (IsJoined(q, l) => l.fns = <<>>)
  BY DEF LookupIsPlain
<1>4. SqlLeaf(tabs, sql, outer, row, l, f) = SqlAccepts(tabs, sql, outer, l, v)
  BY <1>1, <1>2, <1>3, SqlLookupIs
<1>5. LeafHolds(q, tabs, found, outer, row, l, pin) = LookupHolds(q, tabs, row, r, pin)
  BY DEF LeafHolds, IsLookup
<1>6. /\ r.alias = Main /\ r.col = l.col /\ r.fns = l.fns
      /\ l.op = "outer" => r.op = l.rhs.op /\ r.rhs = RowGet(outer, l.rhs.col)
      /\ l.op = "in_query" => r.op = "in" /\ r.rhs = SqlListed(tabs, sql, l.rhs)
      /\ l.op \notin {"outer", "in_query"} => r.op = l.op /\ r.rhs = l.rhs
  BY <1>1, ResolvedIs
<1> HIDE DEF r
<1>7. /\ IsJoined(q, r) => r.fns = <<>>
      /\ r.op # "expr" /\ (r.op = "year" <=> l.op = "year") /\ (r.op = "isnull" <=> l.op = "isnull")
  BY <1>1, <1>3, <1>6 DEF IsLookup, IsJoined
<1>8. /\ l.op = "year" => l.fns = <<<<"extract", "year">>>> /\ l.rhs # None
      /\ l.op = "isnull" => l.rhs \in BOOLEAN
      /\ l.op = "text" => Blank \notin l.rhs
      /\ l.op = "outer" => l.fns = <<>> /\ NeverNull(tabs, q.main, l.col)
  BY DEF LookupIsPlain
<1>9. LookupHolds(q, tabs, row, r, pin) <=> Accepts(r.op, r.rhs, IF l.op = "year" THEN x ELSE v)
  <2>0. \A fn : <<fn>> # <<>>
    OBVIOUS
  <2>1. r.op = "year" => r.fns # <<>>
    BY <2>0, <1>6, <1>7, <1>8
  <2>2. r.op = "isnull" => r.rhs \in BOOLEAN
    BY <1>6, <1>7, <1>8
  <2>3. LookupHolds(q, tabs, row, r, pin)
           <=> Accepts(r.op, r.rhs, IF r.op = "year" THEN RowGet(row, r.col)
                                    ELSE ApplyAll(r.fns, RowGet(row, r.col)))
    BY <1>6, <1>7, <2>1, <2>2, OwnLookupIs
  <2> QED BY <1>6, <1>7, <2>3
<1>10. CASE l.op = "year"
  <2>1. LookupHolds(q, tabs, row, r, pin) <=> Accepts("year", l.rhs, x)
    BY <1>10, <1>6, <1>9
  <2>3. v = SqlApply(<<"extract", "year">>, x)
    BY <1>3, <1>8, <1>10, SqlApplyOne
  <2>4. v = IF x = None THEN None ELSE Field("year", x)
    BY <2>3 DEF SqlApply
  <2>5. SqlAccepts(tabs, sql, outer, l, v) = (v = l.rhs)
    BY <1>10 DEF SqlAccepts
  <2>6. Accepts("year", l.rhs, x) = (x # None /\ Field("year", x) = l.rhs)
    BY DEF Accepts
  <2> QED BY <1>4, <1>5, <1>8, <1>10, <2>1, <2>4, <2>5, <2>6
<1>11. CASE l.op = "outer"
  <2>1. x # None
    BY <1>8, <1>11 DEF NeverNull
  <2>2. v # None
    BY <1>8, <1>11, <2>1, ApplyNone
  <2> HIDE DEF v
  <2>3. LookupHolds(q, tabs, row, r, pin) <=> Accepts(l.rhs.op, RowGet(outer, l.rhs.col), v)
    BY <1>11, <1>6, <1>9
  <2>4. SqlAccepts(tabs, sql, outer, l, v) <=> Accepts(l.rhs.op, RowGet(outer, l.rhs.col), v)
    BY <1>11, <2>2, OuterAgrees
  <2> QED BY <1>4, <1>5, <2>3, <2>4
<1> HIDE DEF v
<1>12. CASE l.op = "in_query"
  <2>3. LookupHolds(q, tabs, row, r, pin) <=> v \in SqlListed(tabs, sql, l.rhs)
    BY <1>12, <1>6, <1>9 DEF Accepts
  <2> QED BY <1>4, <1>5, <1>12, <2>3 DEF SqlAccepts
<1>13. CASE l.op = "text"
  <2>3. LookupHolds(q, tabs, row, r, pin) <=> (IF v = None THEN Blank ELSE v) \in l.rhs
    BY <1>13, <1>6, <1>9 DEF Accepts
  <2> QED BY <1>4, <1>5, <1>8, <1>13, <2>3 DEF SqlAccepts
<1>14. CASE l.op \notin {"year", "outer", "in_query", "text"}
  BY <1>4, <1>5, <1>6, <1>9, <1>14 DEF SqlAccepts
<1> QED BY <1>10, <1>11, <1>12, <1>13, <1>14

(* On a joined column, what the code accepts of the values V that it       *)
(* meets.                                                                  *)
LEMMA JoinedLookupIs ==
  ASSUME NEW tabs, TablesInOrder(tabs), NEW q, JoinsAreNear(q, tabs), NEW row, NEW outer,
         NEW found, NEW sql, NEW pin, NEW l,
         IsLookup(l), l.alias # Main, LookupIsPlain(q, tabs, l), l.op # "expr",
         Resolves(tabs, found, sql, outer, l)
  PROVE  LET r == Resolved(tabs, found, outer, l)
             V == ToSet(JoinedValues(q, tabs, row, l.alias, l.col, pin))
         IN /\ LeafHolds(q, tabs, found, outer, row, l, pin) <=> AcceptsAny(r.op, r.rhs, V)
            /\ l.op # "isnull" =>
                 (LeafHolds(q, tabs, found, outer, row, l, pin)
                    <=> \E v \in V : Accepts(r.op, r.rhs, v))
<1> DEFINE r == Resolved(tabs, found, outer, l)
           V == ToSet(JoinedValues(q, tabs, row, l.alias, l.col, pin))
<1>0. IsJoined(q, l) /\ l.fns = <<>>
  BY DEF LookupIsPlain, IsJoined
<1>1. l.op \in PlainOps \ {"expr", "year"}
  <2>1. l.op # "year"
    BY <1>0 DEF LookupIsPlain
  <2> QED BY <2>1, PlainOpsAre
<1>2. LeafHolds(q, tabs, found, outer, row, l, pin) = LookupHolds(q, tabs, row, r, pin)
  BY DEF LeafHolds, IsLookup
<1>3. /\ r.alias = l.alias /\ r.col = l.col /\ r.fns = l.fns
      /\ l.op = "outer" => r.op = l.rhs.op /\ r.rhs = RowGet(outer, l.rhs.col)
      /\ l.op = "in_query" => r.op = "in" /\ r.rhs = SqlListed(tabs, sql, l.rhs)
      /\ l.op \notin {"outer", "in_query"} => r.op = l.op /\ r.rhs = l.rhs
  BY <1>1, ResolvedIs DEF PlainOps
<1> HIDE DEF r
<1>4. r.op \notin {"expr", "year"} /\ (l.op # "isnull" => r.op # "isnull")
  BY <1>1, <1>3 DEF IsLookup
<1>5. LookupHolds(q, tabs, row, r, pin) <=> AcceptsAny(r.op, r.rhs, V)
  <2>1. IsJoined(q, r) /\ ~AsksPart(r)
    BY <1>0, <1>3 DEF IsJoined, AsksPart
  <2>2. ColumnValues(q, tabs, row, r, pin) = V
    BY <1>3 DEF ColumnValues
  <2> HIDE DEF V
  <2> QED BY <1>4, <2>1, <2>2 DEF LookupHolds
<1> HIDE DEF V
<1>6. l.op # "isnull" => (AcceptsAny(r.op, r.rhs, V) <=> \E v \in V : Accepts(r.op, r.rhs, v))
  BY <1>4 DEF AcceptsAny
<1> QED BY <1>2, <1>5, <1>6 DEF r, V

(* The joined column of one way to join the row.                           *)
LEMMA JoinedLookupAgrees ==
  ASSUME NEW tabs, TablesInOrder(tabs), NEW q, JoinsAreNear(q, tabs), NEW row, NEW outer,
         NEW found, NEW sql, NEW pin, NEW f, NEW l,
         IsLookup(l), l.alias # Main, LookupIsPlain(q, tabs, l), l.op # "expr",
         Resolves(tabs, found, sql, outer, l),
         l.alias \in DOMAIN pin, f[l.alias] = pin[l.alias],
         f[l.alias] \in Ways(q, tabs, row, l.alias)
  PROVE  LeafHolds(q, tabs, found, outer, row, l, pin) <=> SqlLeaf(tabs, sql, outer, row, l, f)
<1> DEFINE r == Resolved(tabs, found, outer, l)
           s == f[l.alias]
           v == IF s = None THEN None ELSE RowGet(s, l.col)
           V == IF s = None THEN {} ELSE {v}
           Holds == LeafHolds(q, tabs, found, outer, row, l, pin)
           Sql == SqlLeaf(tabs, sql, outer, row, l, f)
<1>1. l.op \in PlainOps \ {"expr", "year"} /\ l.alias \in DOMAIN q.joins /\ l.fns = <<>>
  <2>1. l.alias \in DOMAIN q.joins /\ l.fns = <<>>
    BY DEF LookupIsPlain, IsJoined
  <2>2. l.op # "year"
    BY <2>1 DEF LookupIsPlain
  <2> QED BY <2>1, <2>2, PlainOpsAre
<1>2. Sql = SqlAccepts(tabs, sql, outer, l, v)
  <2>1. SqlApplyAll(l.fns, v) = v
    BY <1>1, SqlApplyNone
  <2> QED BY <1>1, <2>1, SqlLookupIs
<1>3. ToSet(JoinedValues(q, tabs, row, l.alias, l.col, pin)) = V
  <2> DEFINE values == ToSet(JoinedValues(q, tabs, row, l.alias, l.col, pin))
  <2>1. \A a \in DOMAIN q.joins : \A col :
          a \in DOMAIN pin => ToSet(JoinedValues(q, tabs, row, a, col, pin))
                                = IF pin[a] = None THEN {} ELSE {RowGet(pin[a], col)}
    BY JoinedLookup
  <2>2. values = IF pin[l.alias] = None THEN {} ELSE {RowGet(pin[l.alias], l.col)}
    BY <1>1, <2>1
  <2> HIDE DEF values
  <2>3. values = V
    BY <2>2
  <2> QED BY <2>3 DEF values
<1>4. /\ Holds <=> AcceptsAny(r.op, r.rhs, V)
      /\ l.op # "isnull" => (Holds <=> \E u \in V : Accepts(r.op, r.rhs, u))
  BY <1>3, JoinedLookupIs
<1>5. /\ l.op = "outer" => r.op = l.rhs.op /\ r.rhs = RowGet(outer, l.rhs.col)
      /\ l.op = "in_query" => r.op = "in" /\ r.rhs = SqlListed(tabs, sql, l.rhs)
      /\ l.op \notin {"outer", "in_query"} => r.op = l.op /\ r.rhs = l.rhs
  BY <1>1, ResolvedIs DEF PlainOps
<1>6. /\ l.op = "exact" => l.rhs # None
      /\ l.op = "in" => None \notin l.rhs
      /\ l.op = "text" => Blank \notin l.rhs
      /\ l.op = "isnull" => l.rhs \in BOOLEAN
  BY DEF LookupIsPlain
<1>7. l.op = "outer" => (s # None => v # None)
  <2> SUFFICES ASSUME l.op = "outer", s # None PROVE v # None
    OBVIOUS
  <2>1. NeverNull(tabs, q.joins[l.alias].table, l.col)
    BY DEF LookupIsPlain
  <2>2. s \in ToSet(TableRows(tabs, q.joins[l.alias].table))
    BY DEF Ways, Joined
  <2> QED BY <2>1, <2>2 DEF NeverNull
<1>8. v = None \/ s # None
  OBVIOUS
<1>9. s = None => v = None
  OBVIOUS
<1> HIDE DEF r, Holds, Sql, v
<1> SUFFICES Holds <=> Sql
  BY DEF Holds, Sql
<1>10. l.op # "isnull" => (Holds <=> s # None /\ Accepts(r.op, r.rhs, v))
  BY <1>4
<1> HIDE DEF s
<1>11. CASE l.op = "isnull"
  <2>1. Holds <=> IF l.rhs THEN \A u \in V : u = None ELSE \E u \in V : u # None
    BY <1>4, <1>5, <1>11 DEF AcceptsAny
  <2>2. Sql = ((v = None) = l.rhs)
    BY <1>2, <1>11 DEF SqlAccepts, Accepts
  <2>3. CASE l.rhs = TRUE
    BY <2>1, <2>2, <2>3, <1>9
  <2>4. CASE l.rhs = FALSE
    BY <2>1, <2>2, <2>4, <1>9
  <2> QED BY <2>3, <2>4, <1>6, <1>11
<1>12. CASE l.op = "outer"
  <2>1. Holds <=> s # None /\ Accepts(l.rhs.op, RowGet(outer, l.rhs.col), v)
    BY <1>5, <1>10, <1>12
  <2>2. Sql => v # None
    BY <1>2, <1>12 DEF SqlAccepts
  <2>3. v # None => (Sql <=> Accepts(l.rhs.op, RowGet(outer, l.rhs.col), v))
    BY <1>2, <1>12, OuterAgrees
  <2> QED BY <2>1, <2>2, <2>3, <1>7, <1>9, <1>12
<1>13. CASE l.op = "in_query"
  <2>1. Holds <=> s # None /\ v \in SqlListed(tabs, sql, l.rhs)
    BY <1>5, <1>10, <1>13 DEF Accepts
  <2>2. Sql = (v \in SqlListed(tabs, sql, l.rhs))
    BY <1>2, <1>13 DEF SqlAccepts
  <2>3. None \notin SqlListed(tabs, sql, l.rhs)
    BY DEF SqlListed
  <2> QED BY <2>1, <2>2, <2>3, <1>9, <1>13
<1>14. CASE l.op = "text"
  <2>1. Holds <=> s # None /\ (IF v = None THEN Blank ELSE v) \in l.rhs
    BY <1>5, <1>10, <1>14 DEF Accepts
  <2>2. Sql = (v # None /\ v \in l.rhs)
    BY <1>2, <1>14 DEF SqlAccepts
  <2> QED BY <2>1, <2>2, <1>6, <1>9, <1>14
<1>15. CASE l.op = "exact"
  <2>1. Holds <=> s # None /\ v = l.rhs
    BY <1>5, <1>10, <1>15 DEF Accepts
  <2>2. Sql = (v = l.rhs)
    BY <1>2, <1>15 DEF SqlAccepts, Accepts
  <2> QED BY <2>1, <2>2, <1>6, <1>9, <1>15
<1>16. CASE l.op = "in"
  <2>1. Holds <=> s # None /\ v \in l.rhs
    BY <1>5, <1>10, <1>16 DEF Accepts
  <2>2. Sql = (v \in l.rhs)
    BY <1>2, <1>16 DEF SqlAccepts, Accepts
  <2> QED BY <2>1, <2>2, <1>6, <1>9, <1>16
<1>17. CASE l.op \in {"gt", "lte"}
  <2>1. Holds <=> s # None /\ Accepts(l.op, l.rhs, v)
    BY <1>5, <1>10, <1>17
  <2>2. Sql = Accepts(l.op, l.rhs, v)
    BY <1>2, <1>17 DEF SqlAccepts
  <2>3. Accepts(l.op, l.rhs, v) => v # None
    BY <1>17 DEF Accepts
  <2> QED BY <2>1, <2>2, <2>3, <1>9
<1>18. l.op \in {"isnull", "outer", "in_query", "text", "exact", "in", "gt", "lte"}
  BY <1>1 DEF PlainOps
<1> HIDE DEF V
<1> QED BY <1>11, <1>12, <1>13, <1>14, <1>15, <1>16, <1>17, <1>18

(* A query whose WHERE reads as SQL, on found and sql, what the code and   *)
(* SQL have found for its subqueries.                                      *)
Comprehended(q, tabs, found, sql, outer) ==
  /\ TablesInOrder(tabs) /\ IsTree(q.where) /\ QueryIsPlain(q, tabs)
  /\ Uses(q.where) \subseteq DOMAIN Subqueries /\ FindsAlike(tabs, found, sql, Uses(q.where))
  /\ RunsWith(tabs, q.where, outer)

LEMMA ExistsAgrees ==
  ASSUME NEW tabs, NEW found, NEW sql, NEW K, FindsAlike(tabs, found, sql, K),
         NEW k \in K, NEW o, RunsWith(tabs, Subqueries[k].where, o), ExistsIsPlain(k)
  PROVE  Raises(tabs, k, o) \/ found[k][o] # <<>> <=> SqlAnswer(sql, k, o) # {}
<1> DEFINE seq == found[k][o]
           rows == TableRows(tabs, Subqueries[k].main)
           order == Subqueries[k].order
<1>1. ~Raises(tabs, k, o) /\ seq \in Seq(ToSet(rows)) /\ ToSet(seq) = sql[k][o]
  BY DEF FindsAlike, FoundAlike
<1>2. SqlAnswer(sql, k, o) = SqlList(ToSet(seq), order, 0, None)
  BY <1>1 DEF SqlAnswer, ExistsIsPlain
<1> HIDE DEF seq, order
<1>3. SqlList(ToSet(seq), order, 0, None) = ToSet(seq)
  BY <1>1, WholeList
<1>4. seq # <<>> <=> ToSet(seq) # {}
  BY <1>1 DEF ToSet
<1> QED BY <1>1, <1>2, <1>3, <1>4 DEF seq

(* What a lookup is about is there.                                        *)
LEMMA ResolvesIn ==
  ASSUME NEW q, NEW tabs, NEW found, NEW sql, NEW outer,
         Comprehended(q, tabs, found, sql, outer),
         NEW n \in Leaves(q.where), q.where[n].kind = "lookup"
  PROVE  Resolves(tabs, found, sql, outer, q.where[n])
<1> DEFINE w == q.where
           l == w[n]
<1>1. /\ TablesInOrder(tabs) /\ Uses(w) \subseteq DOMAIN Subqueries
      /\ FindsAlike(tabs, found, sql, Uses(w)) /\ RunsWith(tabs, w, outer)
  BY DEF Comprehended
<1>2. LookupIsPlain(q, tabs, l)
  BY DEF Comprehended, QueryIsPlain
<1>3. ASSUME l.op = "outer"
      PROVE  outer # None /\ (l.rhs.op = "exact" \/ RowGet(outer, l.rhs.col) # None)
  <2>1. Correlated(w)
    BY <1>3 DEF Correlated
  <2>2. outer # None /\ outer \in Outers(tabs)
    BY <1>1, <2>1 DEF RunsWith
  <2>3. PICK u \in DOMAIN tabs : outer \in ToSet(tabs[u])
    BY <2>2 DEF Outers
  <2>4. outer \in ToSet(TableRows(tabs, u))
    BY <2>3 DEF TableRows
  <2>5. l.rhs.op = "exact" \/ \A t \in DOMAIN tabs : NeverNull(tabs, t, l.rhs.col)
    BY <1>2, <1>3 DEF LookupIsPlain
  <2>6. l.rhs.op = "exact" \/ NeverNull(tabs, u, l.rhs.col)
    BY <2>5
  <2> QED BY <2>2, <2>4, <2>6 DEF NeverNull
<1>4. ASSUME l.op = "in_query"
      PROVE  ~Raises(tabs, l.rhs, None) /\ Listed(tabs, found, l.rhs) = SqlListed(tabs, sql, l.rhs)
  <2>1. l.rhs \in Uses(w)
    BY <1>4 DEF Uses
  <2>2. l.rhs \in DOMAIN Subqueries /\ ListIsPlain(tabs, l.rhs)
    BY <1>1, <1>2, <1>4, <2>1 DEF LookupIsPlain
  <2>3. Listed(tabs, found, l.rhs) = SqlListed(tabs, sql, l.rhs)
    BY <1>1, <2>1, <2>2, ListsAgree
  <2>4. RunsWith(tabs, Subqueries[l.rhs].where, None)
    BY <2>2 DEF RunsWith, Outers, ListIsPlain
  <2>5. ~Raises(tabs, l.rhs, None)
    BY <1>1, <2>1, <2>4 DEF FindsAlike, FoundAlike
  <2> QED BY <2>3, <2>5
<1> QED BY <1>3, <1>4 DEF Resolves

LEMMA LeafAgrees ==
  ASSUME NEW q, NEW tabs, NEW found, NEW sql, NEW outer,
         Comprehended(q, tabs, found, sql, outer),
         NEW row \in ToSet(TableRows(tabs, q.main)),
         NEW n \in Leaves(q.where), NEW f \in AllWays(q, tabs, row, DOMAIN q.joins), NEW pin,
         JoinAliases(q.where)[n] \subseteq DOMAIN pin, \A a \in DOMAIN pin : f[a] = pin[a]
  PROVE  LET l == q.where[n]
         IN IF l.kind = "lookup" /\ l.op = "expr"
            THEN LeafHolds(q, tabs, found, outer, row, l, pin) = TRUE
            ELSE LeafHolds(q, tabs, found, outer, row, l, pin) <=> SqlLeaf(tabs, sql, outer, row, l, f)
<1> DEFINE w == q.where
           l == w[n]
           Holds == LeafHolds(q, tabs, found, outer, row, l, pin)
           Sql == SqlLeaf(tabs, sql, outer, row, l, f)
<1>1. /\ TablesInOrder(tabs) /\ IsTree(w) /\ QueryIsPlain(q, tabs) /\ JoinsAreNear(q, tabs)
      /\ Uses(w) \subseteq DOMAIN Subqueries /\ FindsAlike(tabs, found, sql, Uses(w))
      /\ RunsWith(tabs, w, outer)
  BY DEF Comprehended, QueryIsPlain
<1>2. n \in DOMAIN w /\ l.kind \in {"lookup", "nothing", "exists"}
  BY <1>1 DEF Leaves, IsTree
<1>3. CASE l.kind = "nothing"
  BY <1>3 DEF LeafHolds, SqlLeaf
<1>4. CASE l.kind = "exists"
  <2>1. l.sub \in Uses(w)
    BY <1>4 DEF Uses
  <2>2. RunsWith(tabs, Subqueries[l.sub].where, row)
    BY <1>1, TableIs DEF RunsWith
  <2>3. ExistsIsPlain(l.sub)
    BY <1>1, <1>2, <1>4 DEF QueryIsPlain
  <2> DEFINE F == Raises(tabs, l.sub, row) \/ found[l.sub][row] # <<>>
             S == SqlAnswer(sql, l.sub, row) # {}
  <2>6. F = S
    BY <1>1, <2>1, <2>2, <2>3, ExistsAgrees
  <2>7. Holds = (l.expected = F) /\ Sql = (l.expected = S)
    BY <1>4 DEF LeafHolds, SqlLeaf
  <2> HIDE DEF F, S
  <2>8. Holds = Sql
    BY <2>6, <2>7
  <2> QED BY <1>4, <2>8
<1>5. CASE l.kind = "lookup" /\ l.op = "expr"
  <2>1. Resolved(tabs, found, outer, l) = l
    BY <1>5 DEF Resolved
  <2> QED BY <1>5, <2>1 DEF LeafHolds, LookupHolds
<1>6. CASE l.kind = "lookup" /\ l.op # "expr"
  <2>1. IsLookup(l) /\ LookupIsPlain(q, tabs, l)
    BY <1>1, <1>2, <1>6 DEF IsLookup, QueryIsPlain, IsTree
  <2>2. Resolves(tabs, found, sql, outer, l)
    BY <1>6, ResolvesIn
  <2> HIDE DEF l
  <2>3. CASE l.alias = Main
    <3>1. Holds <=> Sql
      BY <1>1, <1>6, <2>1, <2>2, <2>3, MainLookupAgrees
    <3> QED BY <3>1, <1>6 DEF l
  <2>4. CASE l.alias # Main
    <3>1. l.alias \in DOMAIN q.joins /\ l.fns = <<>>
      BY <2>1, <2>4 DEF LookupIsPlain, IsJoined
    <3>2. JoinAliases(w)[n] = {l.alias} \ {Main}
      BY <1>1, <1>2, <1>6, <3>1, AliasesAre DEF l
    <3>3. l.alias \in DOMAIN pin /\ f[l.alias] = pin[l.alias]
      BY <2>4, <3>2
    <3>4. f[l.alias] \in Ways(q, tabs, row, l.alias)
      BY <3>1 DEF AllWays
    <3>5. Holds <=> Sql
      BY <1>1, <1>6, <2>1, <2>2, <2>4, <3>3, <3>4, JoinedLookupAgrees
    <3> QED BY <3>5, <1>6 DEF l
  <2> QED BY <2>3, <2>4
<1> QED BY <1>2, <1>3, <1>4, <1>5, <1>6

(* Without a pinned row, a lookup on a joined column holds if it does on   *)
(* one way to join the row.                                                *)
LEMMA LeafAlone ==
  ASSUME NEW q, NEW tabs, NEW found, NEW sql, NEW outer,
         Comprehended(q, tabs, found, sql, outer),
         NEW row \in ToSet(TableRows(tabs, q.main)),
         NEW n \in Leaves(q.where), q.where[n].kind = "lookup", q.where[n].alias # Main,
         q.where[n].op \notin {"isnull", "expr"}
  PROVE  LeafHolds(q, tabs, found, outer, row, q.where[n], NoPin)
           <=> \E f \in AllWays(q, tabs, row, DOMAIN q.joins) :
                 SqlLeaf(tabs, sql, outer, row, q.where[n], f)
<1> DEFINE w == q.where
           l == w[n]
           a == l.alias
           J == DOMAIN q.joins
           r == Resolved(tabs, found, outer, l)
           Holds(pin) == LeafHolds(q, tabs, found, outer, row, l, pin)
           Sql(f) == SqlLeaf(tabs, sql, outer, row, l, f)
           Fits(v) == Accepts(r.op, r.rhs, v)
           Value(s) == RowGet(s, l.col)
<1>1. /\ TablesInOrder(tabs) /\ IsTree(w) /\ QueryIsPlain(q, tabs) /\ JoinsAreNear(q, tabs)
  BY DEF Comprehended, QueryIsPlain
<1>2. n \in DOMAIN w /\ IsLookup(l) /\ LookupIsPlain(q, tabs, l)
  BY <1>1 DEF Leaves, IsTree, IsLookup, QueryIsPlain
<1>3. a \in J /\ l.fns = <<>>
  BY <1>2 DEF LookupIsPlain, IsJoined
<1>4. JoinAliases(w)[n] = {a} \ {Main}
  BY <1>1, <1>2, <1>3, AliasesAre
<1> DEFINE R == Joined(tabs, q.joins[a], row)
<1>5. None \notin R
  <2>1. R \subseteq ToSet(TableRows(tabs, q.joins[a].table))
    BY DEF Joined
  <2> QED BY <1>1, <2>1, TableIs
<1>6. \A pin : Holds(pin) <=> \E v \in ToSet(JoinedValues(q, tabs, row, a, l.col, pin)) : Fits(v)
  <2>1. Resolves(tabs, found, sql, outer, l)
    BY ResolvesIn
  <2> QED BY <1>1, <1>2, <2>1, JoinedLookupIs
<1>7. /\ ToSet(JoinedValues(q, tabs, row, a, l.col, NoPin)) = {Value(s) : s \in R}
      /\ \A pin : a \in DOMAIN pin =>
           ToSet(JoinedValues(q, tabs, row, a, l.col, pin))
             = IF pin[a] = None THEN {} ELSE {Value(pin[a])}
  <2>1. \A b \in J : \A col :
          /\ ToSet(JoinedValues(q, tabs, row, b, col, NoPin))
              = {RowGet(s, col) : s \in Joined(tabs, q.joins[b], row)}
          /\ \A pin : b \in DOMAIN pin =>
              ToSet(JoinedValues(q, tabs, row, b, col, pin))
                = IF pin[b] = None THEN {} ELSE {RowGet(pin[b], col)}
    BY <1>1, JoinedLookup
  <2> QED BY <1>3, <2>1
<1> HIDE DEF Fits, Value
<1>8. Holds(NoPin) <=> \E s \in R : Fits(Value(s))
  BY <1>6, <1>7
<1>9. \A pin : a \in DOMAIN pin => (Holds(pin) <=> pin[a] # None /\ Fits(Value(pin[a])))
  BY <1>6, <1>7
<1>10. \A f \in AllWays(q, tabs, row, J) : \A pin :
         DOMAIN pin = {a} /\ f[a] = pin[a] => (Holds(pin) <=> Sql(f))
  <2> SUFFICES ASSUME NEW f \in AllWays(q, tabs, row, J), NEW pin, DOMAIN pin = {a}, f[a] = pin[a]
               PROVE  Holds(pin) <=> Sql(f)
    OBVIOUS
  <2>1. JoinAliases(w)[n] \subseteq DOMAIN pin /\ \A b \in DOMAIN pin : f[b] = pin[b]
    BY <1>4
  <2>2. IF l.kind = "lookup" /\ l.op = "expr" THEN Holds(pin) = TRUE ELSE Holds(pin) <=> Sql(f)
    BY <2>1, LeafAgrees
  <2> HIDE DEF Holds, Sql
  <2> QED BY <2>2
<1>11. Ways(q, tabs, row, a) = IF R = {} THEN {None} ELSE R
  BY DEF Ways
<1> HIDE DEF Holds, Sql, R
<1>12. ASSUME NEW s \in R, Fits(Value(s))
       PROVE  \E f \in AllWays(q, tabs, row, J) : Sql(f)
  <2> DEFINE pin == [b \in {a} |-> s]
  <2>1. DOMAIN pin = {a} /\ pin[a] = s
    OBVIOUS
  <2>2. pin \in AllWays(q, tabs, row, {a})
    BY <1>11, <1>12 DEF AllWays
  <2> HIDE DEF pin
  <2>3. {a} \subseteq J
    BY <1>3
  <2>4. PICK f \in AllWays(q, tabs, row, J) : \A b \in {a} : f[b] = pin[b]
    BY <2>2, <2>3, WaysMeet
  <2>5. Holds(pin)
    BY <1>5, <1>9, <1>12, <2>1
  <2>6. f[a] = pin[a]
    BY <2>4
  <2> QED BY <1>10, <2>1, <2>5, <2>6
<1>13. ASSUME NEW f \in AllWays(q, tabs, row, J), Sql(f)
       PROVE  \E s \in R : Fits(Value(s))
  <2> DEFINE pin == [b \in {a} |-> f[a]]
  <2>1. DOMAIN pin = {a} /\ pin[a] = f[a]
    OBVIOUS
  <2> HIDE DEF pin
  <2>2. Holds(pin)
    BY <1>10, <1>13, <2>1
  <2>3. f[a] # None /\ Fits(Value(f[a]))
    BY <1>9, <2>1, <2>2
  <2>4. f[a] \in Ways(q, tabs, row, a)
    BY <1>3 DEF AllWays
  <2> QED BY <1>11, <2>3, <2>4
<1>14. Holds(NoPin) <=> \E f \in AllWays(q, tabs, row, J) : Sql(f)
  BY <1>8, <1>12, <1>13
<1> QED BY <1>14 DEF Holds, Sql

-----------------------------------------------------------------------------
(* The tree.  It names joins of its query only, and there is a way to join *)
(* a row along them.                                                       *)
LEMMA NodesNameJoins ==
  ASSUME NEW q, NEW tabs, NEW found, NEW sql, NEW outer,
         Comprehended(q, tabs, found, sql, outer)
  PROVE  \A n \in DOMAIN q.where : JoinAliases(q.where)[n] \subseteq DOMAIN q.joins
<1> DEFINE w == q.where
           Good == {n \in DOMAIN w : JoinAliases(w)[n] \subseteq DOMAIN q.joins}
<1>1. IsTree(w) /\ QueryIsPlain(q, tabs)
  BY DEF Comprehended
<1>2. ASSUME NEW n \in Leaves(w)
      PROVE  n \in Good
  <2>1. n \in DOMAIN w /\ w[n].kind \in {"lookup", "nothing", "exists"}
    BY <1>1 DEF Leaves, IsTree
  <2>2. CASE w[n].kind = "lookup"
    <3>1. w[n].alias = Main \/ w[n].alias \in DOMAIN q.joins
      BY <1>1, <2>2 DEF QueryIsPlain, LookupIsPlain
    <3>2. JoinAliases(w)[n] = IF w[n].fns = <<>> THEN {w[n].alias} \ {Main} ELSE {}
      BY <1>1, <2>1, <2>2, AliasesAre
    <3> QED BY <2>1, <3>1, <3>2
  <2>3. CASE w[n].kind # "lookup"
    <3>1. JoinAliases(w)[n] = {}
      BY <1>1, <2>1, <2>3, AliasesAre
    <3> QED BY <2>1, <3>1
  <2> QED BY <2>2, <2>3
<1>3. ASSUME NEW n \in DOMAIN w \ Leaves(w), w[n].kids \subseteq Good
      PROVE  n \in Good
  <2>1. w[n].kind = "node"
    BY <1>1, TreeShape
  <2>2. JoinAliases(w)[n] = UNION {JoinAliases(w)[k] : k \in w[n].kids}
    BY <1>1, <2>1, AliasesAre
  <2> QED BY <1>3, <2>2
<1>4. Leaves(w) \subseteq Good
  BY <1>2
<1>5. \A n \in DOMAIN w \ Leaves(w) : w[n].kids \subseteq Good => n \in Good
  BY <1>3
<1> HIDE DEF Good
<1>6. \A n \in DOMAIN w : n \in Good
  BY <1>1, <1>4, <1>5, FromTheLeaves
<1> QED BY <1>6 DEF Good

LEMMA WaysExist ==
  ASSUME NEW q, NEW tabs, NEW row, NEW J
  PROVE  \E f \in AllWays(q, tabs, row, J) : TRUE
<1> DEFINE pin == [a \in {} |-> None]
<1>1. pin \in AllWays(q, tabs, row, {})
  BY DEF AllWays
<1>2. {} \subseteq J
  OBVIOUS
<1> HIDE DEF pin
<1> QED BY <1>1, <1>2, WaysMeet

(* The leaves, as SQL sees them on one way to join the row.                *)
SqlLeaves(q, tabs, sql, outer, row, f) ==
  [n \in Leaves(q.where) |-> SqlLeaf(tabs, sql, outer, row, q.where[n], f)]

(* On a virtual row, the nodes that name no other alias than it pins agree *)
(* with SQL on each way to join the row that has it as a part.             *)
LEMMA PinnedTruth ==
  ASSUME NEW q, NEW tabs, NEW found, NEW sql, NEW outer,
         Comprehended(q, tabs, found, sql, outer),
         NEW row \in ToSet(TableRows(tabs, q.main)),
         NEW f \in AllWays(q, tabs, row, DOMAIN q.joins), NEW pin,
         \A a \in DOMAIN pin : f[a] = pin[a],
         NEW n \in DOMAIN q.where, JoinAliases(q.where)[n] \subseteq DOMAIN pin
  PROVE  /\ Evaluable(q.where) =>
              (Truth(q.where, LeavesHold(q, tabs, found, outer, row, pin))[n]
                 <=> Truth(q.where, SqlLeaves(q, tabs, sql, outer, row, f))[n])
         /\ Positive(q.where) =>
              (Truth(q.where, SqlLeaves(q, tabs, sql, outer, row, f))[n]
                 => Truth(q.where, LeavesHold(q, tabs, found, outer, row, pin))[n])
<1> DEFINE w == q.where
           known == LeavesHold(q, tabs, found, outer, row, pin)
           sure == SqlLeaves(q, tabs, sql, outer, row, f)
           A == DOMAIN pin
<1>1. IsTree(w)
  BY DEF Comprehended
<1>2. DOMAIN known = Leaves(w) /\ DOMAIN sure = Leaves(w)
  BY DEF LeavesHold, SqlLeaves
<1>3. \A m \in Leaves(w) : JoinAliases(w)[m] \subseteq A =>
        /\ Evaluable(w) => (known[m] <=> sure[m])
        /\ sure[m] => known[m]
  <2> SUFFICES ASSUME NEW m \in Leaves(w), JoinAliases(w)[m] \subseteq A
               PROVE  /\ Evaluable(w) => (known[m] <=> sure[m])
                      /\ sure[m] => known[m]
    OBVIOUS
  <2> DEFINE Holds == LeafHolds(q, tabs, found, outer, row, w[m], pin)
             Sql == SqlLeaf(tabs, sql, outer, row, w[m], f)
  <2>1. IF w[m].kind = "lookup" /\ w[m].op = "expr" THEN Holds = TRUE ELSE Holds <=> Sql
    BY LeafAgrees
  <2>2. known[m] = Holds /\ sure[m] = Sql
    BY DEF LeavesHold, SqlLeaves
  <2>3. Evaluable(w) => ~(w[m].kind = "lookup" /\ w[m].op = "expr")
    BY DEF Evaluable
  <2> HIDE DEF Holds, Sql, known, sure
  <2> QED BY <2>1, <2>2, <2>3
<1> HIDE DEF known, sure, A, w
<1>4. Evaluable(w) => (Truth(w, known)[n] <=> Truth(w, sure)[n])
  <2> SUFFICES ASSUME Evaluable(w) PROVE Truth(w, known)[n] <=> Truth(w, sure)[n]
    OBVIOUS
  <2>1. \A m \in Leaves(w) : JoinAliases(w)[m] \subseteq A => (known[m] <=> sure[m])
    BY <1>3
  <2>2. \A m \in DOMAIN w : JoinAliases(w)[m] \subseteq A => (Truth(w, known)[m] <=> Truth(w, sure)[m])
    BY <1>1, <1>2, <2>1, TruthsAgree
  <2> QED BY <2>2 DEF w, A
<1>5. Positive(w) => (Truth(w, sure)[n] => Truth(w, known)[n])
  <2> SUFFICES ASSUME Positive(w) PROVE Truth(w, sure)[n] => Truth(w, known)[n]
    OBVIOUS
  <2>1. \A m \in Leaves(w) : JoinAliases(w)[m] \subseteq A /\ sure[m] => known[m]
    BY <1>3
  <2>2. \A m \in DOMAIN w : JoinAliases(w)[m] \subseteq A /\ Truth(w, sure)[m] => Truth(w, known)[m]
    BY <1>1, <1>2, <2>1, TruthGrows
  <2> QED BY <2>2 DEF w, A
<1> QED BY <1>4, <1>5 DEF w, known, sure

(* An AND finds a virtual row if there is a way to join the row on which   *)
(* SQL has all that is below it.                                           *)
LEMMA PinsAgree ==
  ASSUME NEW q, NEW tabs, NEW found, NEW sql, NEW outer,
         Comprehended(q, tabs, found, sql, outer),
         NEW row \in ToSet(TableRows(tabs, q.main)), NEW n \in Ands(q.where)
  PROVE  LET SqlPins == \E f \in AllWays(q, tabs, row, DOMAIN q.joins) : \A k \in q.where[n].kids :
                          Truth(q.where, SqlLeaves(q, tabs, sql, outer, row, f))[k]
         IN /\ Evaluable(q.where) => (Pins(q, tabs, found, outer, row, n) <=> SqlPins)
            /\ Positive(q.where) => (SqlPins => Pins(q, tabs, found, outer, row, n))
<1> DEFINE w == q.where
           J == DOMAIN q.joins
           A == JoinAliases(w)[n]
           kids == w[n].kids
           Known(pin, k) == Truth(w, LeavesHold(q, tabs, found, outer, row, pin))[k]
           Sure(f, k) == Truth(w, SqlLeaves(q, tabs, sql, outer, row, f))[k]
<1>1. IsTree(w) /\ TablesInOrder(tabs) /\ JoinsAreNear(q, tabs)
  BY DEF Comprehended, QueryIsPlain
<1>2. n \in DOMAIN w \ Leaves(w)
  BY DEF Ands
<1>3. A \subseteq J
  BY <1>2, NodesNameJoins
<1>4. \A k \in kids : k \in DOMAIN w /\ JoinAliases(w)[k] \subseteq A
  BY <1>1, <1>2, TreeShape, KidsNameLess
<1>5. VirtualRows(q, tabs, row, JoinAliases(w)[n] \cap J) = AllWays(q, tabs, row, A)
  <2>1. JoinAliases(w)[n] \cap J = A
    BY <1>3
  <2>2. A \in SUBSET J
    BY <1>3
  <2> HIDE DEF A
  <2>3. VirtualRows(q, tabs, row, A) = AllWays(q, tabs, row, A)
    BY <1>1, <2>2, VirtualRowsAre
  <2> QED BY <2>1, <2>3
<1>6. Pins(q, tabs, found, outer, row, n) <=>
        \E pin \in AllWays(q, tabs, row, A) : \A k \in kids : Known(pin, k)
  BY <1>5 DEF Pins
<1>7. ASSUME NEW f \in AllWays(q, tabs, row, J), NEW pin, DOMAIN pin = A, \A a \in A : f[a] = pin[a],
             NEW k \in kids
      PROVE  /\ Evaluable(w) => (Known(pin, k) <=> Sure(f, k))
             /\ Positive(w) => (Sure(f, k) => Known(pin, k))
  <2>1. JoinAliases(w)[k] \subseteq DOMAIN pin /\ \A a \in DOMAIN pin : f[a] = pin[a]
    BY <1>4, <1>7
  <2>2. k \in DOMAIN w
    BY <1>4
  <2> QED BY <2>1, <2>2, PinnedTruth
<1> HIDE DEF Known, Sure, A, kids, w, J
<1>8. ASSUME NEW f \in AllWays(q, tabs, row, J), \A k \in kids : Sure(f, k), Evaluable(w) \/ Positive(w)
      PROVE  \E pin \in AllWays(q, tabs, row, A) : \A k \in kids : Known(pin, k)
  <2> DEFINE pin == [a \in A |-> f[a]]
  <2>1. pin \in AllWays(q, tabs, row, A)
    BY <1>3, WaysMeet
  <2>2. DOMAIN pin = A /\ \A a \in A : f[a] = pin[a]
    OBVIOUS
  <2> HIDE DEF pin
  <2> QED BY <1>7, <1>8, <2>1, <2>2
<1>9. ASSUME NEW pin \in AllWays(q, tabs, row, A), \A k \in kids : Known(pin, k), Evaluable(w)
      PROVE  \E f \in AllWays(q, tabs, row, J) : \A k \in kids : Sure(f, k)
  <2>1. DOMAIN pin = A
    BY <1>3, WaysMeet
  <2>2. PICK f \in AllWays(q, tabs, row, J) : \A a \in A : f[a] = pin[a]
    BY <1>3, WaysMeet
  <2> QED BY <1>7, <1>9, <2>1, <2>2
<1> DEFINE SqlPins == \E f \in AllWays(q, tabs, row, J) : \A k \in kids : Sure(f, k)
<1>10. /\ Evaluable(w) => (Pins(q, tabs, found, outer, row, n) <=> SqlPins)
       /\ Positive(w) => (SqlPins => Pins(q, tabs, found, outer, row, n))
  BY <1>6, <1>8, <1>9
<1> QED BY <1>10 DEF Sure, kids, w, J

(* What the code and SQL make of the leaves, up to the top of the tree.    *)
LEMMA TopIs ==
  ASSUME NEW q, IsTree(q.where), NEW tabs, NEW found, NEW outer, NEW row, NEW n \in DOMAIN q.where
  PROVE  LET top == Truth(q.where, TopHolds(q, tabs, found, outer, row))
         IN top[n] = IF n \in Leaves(q.where)
                     THEN LeafHolds(q, tabs, found, outer, row, q.where[n], NoPin)
                     ELSE IF n \in Ands(q.where)
                     THEN q.where[n].neg # Pins(q, tabs, found, outer, row, n)
                     ELSE Connects(q.where[n], {k \in q.where[n].kids : top[k]})
<1> DEFINE w == q.where
           Top == TopHolds(q, tabs, found, outer, row)
           top == Truth(w, Top)
<1>1. DOMAIN Top = Leaves(w) \cup Ands(w)
  BY DEF TopHolds
<1>2. top[n] = IF n \in DOMAIN Top THEN Top[n] ELSE Connects(w[n], {k \in w[n].kids : top[k]})
  BY <1>1, TruthIs
<1>3. n \in Leaves(w) => Top[n] = LeafHolds(q, tabs, found, outer, row, w[n], NoPin)
  <2>1. n \in Leaves(w) => Top[n] = LeavesHold(q, tabs, found, outer, row, NoPin)[n]
    BY DEF TopHolds
  <2> QED BY <2>1 DEF LeavesHold
<1>4. n \in Ands(w) /\ n \notin Leaves(w) => Top[n] = (w[n].neg # Pins(q, tabs, found, outer, row, n))
  BY DEF TopHolds
<1> HIDE DEF Top, top
<1> QED BY <1>1, <1>2, <1>3, <1>4 DEF top, Top

LEMMA SqlTruthIs ==
  ASSUME NEW q, IsTree(q.where), NEW tabs, NEW sql, NEW outer, NEW row, NEW f, NEW n \in DOMAIN q.where
  PROVE  LET sure == Truth(q.where, SqlLeaves(q, tabs, sql, outer, row, f))
         IN sure[n] = IF n \in Leaves(q.where) THEN SqlLeaf(tabs, sql, outer, row, q.where[n], f)
                      ELSE Connects(q.where[n], {k \in q.where[n].kids : sure[k]})
<1> DEFINE w == q.where
           known == SqlLeaves(q, tabs, sql, outer, row, f)
           sure == Truth(w, known)
<1>1. DOMAIN known = Leaves(w)
  BY DEF SqlLeaves
<1>2. sure[n] = IF n \in DOMAIN known THEN known[n] ELSE Connects(w[n], {k \in w[n].kids : sure[k]})
  BY <1>1, TruthIs
<1>3. n \in Leaves(w) => known[n] = SqlLeaf(tabs, sql, outer, row, w[n], f)
  BY DEF SqlLeaves
<1> HIDE DEF known, sure
<1> QED BY <1>1, <1>2, <1>3 DEF sure, known

LEMMA PinnedIs ==
  ASSUME NEW q, IsTree(q.where), NEW tabs, NEW found, NEW outer, NEW row, NEW pin,
         NEW n \in Leaves(q.where)
  PROVE  Truth(q.where, LeavesHold(q, tabs, found, outer, row, pin))[n]
           = LeafHolds(q, tabs, found, outer, row, q.where[n], pin)
<1> DEFINE w == q.where
           known == LeavesHold(q, tabs, found, outer, row, pin)
<1>1. DOMAIN known = Leaves(w) /\ n \in DOMAIN w
  BY DEF LeavesHold, Leaves
<1>2. Truth(w, known)[n] = known[n]
  BY <1>1, TruthIs
<1>3. known[n] = LeafHolds(q, tabs, found, outer, row, w[n], pin)
  BY DEF LeavesHold
<1> QED BY <1>2, <1>3

LEMMA ConnectsGrows ==
  ASSUME NEW node, node.conn \in {"AND", "OR"}, ~node.neg, node.neg \in BOOLEAN,
         NEW some, NEW more, some \subseteq more, more \subseteq node.kids, Connects(node, some)
  PROVE  Connects(node, more)
<1>1. CASE node.kids = {}
  BY <1>1 DEF Connects
<1>2. CASE node.kids # {} /\ node.conn = "AND"
  BY <1>2 DEF Connects
<1>3. CASE node.kids # {} /\ node.conn = "OR"
  BY <1>3 DEF Connects
<1> QED BY <1>1, <1>2, <1>3

(* A query whose tree is an AND selects by its virtual rows.               *)
LEMMA RootIsAnd ==
  ASSUME NEW q, IsTree(q.where), Len(q.where) \in Ands(q.where),
         NEW tabs, NEW found, NEW outer, NEW row
  PROVE  Selects(q, tabs, found, outer, row)
           = (q.where[Len(q.where)].neg # Pins(q, tabs, found, outer, row, Len(q.where)))
<1> DEFINE w == q.where
           n == Len(w)
           Top == TopHolds(q, tabs, found, outer, row)
           top == Truth(w, Top)
<1>1. n \in Ands(w) /\ n \notin Leaves(w) /\ n \in DOMAIN w
  BY DEF Ands
<1>2. DOMAIN Top = Leaves(w) \cup Ands(w)
  BY DEF TopHolds
<1>3. \A i \in DOMAIN w :
        top[i] = IF i \in DOMAIN Top THEN Top[i] ELSE Connects(w[i], {k \in w[i].kids : top[k]})
  <2> TAKE i \in DOMAIN w
  <2> QED BY <1>2, TruthIs
<1>4. Top[n] = (w[n].neg # Pins(q, tabs, found, outer, row, n))
  BY <1>1 DEF TopHolds
<1>5. Selects(q, tabs, found, outer, row) = top[n]
  BY DEF Selects
<1> HIDE DEF Top, top
<1> QED BY <1>1, <1>2, <1>3, <1>4, <1>5


(* The nodes that name no joined column do not depend on the way.          *)
LEMMA AloneTruth ==
  ASSUME NEW q, NEW tabs, NEW found, NEW sql, NEW outer,
         Comprehended(q, tabs, found, sql, outer),
         NEW row \in ToSet(TableRows(tabs, q.main)),
         NEW f \in AllWays(q, tabs, row, DOMAIN q.joins)
  PROVE  \A n \in DOMAIN q.where : JoinAliases(q.where)[n] = {} =>
           LET top == Truth(q.where, TopHolds(q, tabs, found, outer, row))
               sure == Truth(q.where, SqlLeaves(q, tabs, sql, outer, row, f))
           IN /\ Evaluable(q.where) => (top[n] <=> sure[n])
              /\ Positive(q.where) => (sure[n] => top[n])
<1> DEFINE w == q.where
           top == Truth(w, TopHolds(q, tabs, found, outer, row))
           pinned == Truth(w, LeavesHold(q, tabs, found, outer, row, NoPin))
           Sure(g) == Truth(w, SqlLeaves(q, tabs, sql, outer, row, g))
           sure == Sure(f)
           F == AllWays(q, tabs, row, DOMAIN q.joins)
           Good == {n \in DOMAIN w : JoinAliases(w)[n] = {} =>
                      /\ Evaluable(w) => (top[n] <=> sure[n])
                      /\ Positive(w) => (sure[n] => top[n])}
<1>1. IsTree(w)
  BY DEF Comprehended
<1>2. \A n \in DOMAIN w : JoinAliases(w)[n] = {} => \A g \in F :
        /\ Evaluable(w) => (pinned[n] <=> Sure(g)[n])
        /\ Positive(w) => (Sure(g)[n] => pinned[n])
  <2> SUFFICES ASSUME NEW n \in DOMAIN w, JoinAliases(w)[n] = {}, NEW g \in F
               PROVE  /\ Evaluable(w) => (pinned[n] <=> Sure(g)[n])
                      /\ Positive(w) => (Sure(g)[n] => pinned[n])
    OBVIOUS
  <2>1. DOMAIN NoPin = {}
    BY DEF NoPin
  <2>2. JoinAliases(w)[n] \subseteq DOMAIN NoPin /\ \A a \in DOMAIN NoPin : g[a] = NoPin[a]
    BY <2>1
  <2> QED BY <2>2, PinnedTruth
<1>3. \A n \in DOMAIN w \ Leaves(w) : \A k \in w[n].kids :
        k \in DOMAIN w /\ (JoinAliases(w)[n] = {} => JoinAliases(w)[k] = {})
  <2> SUFFICES ASSUME NEW n \in DOMAIN w \ Leaves(w), NEW k \in w[n].kids
               PROVE  k \in DOMAIN w /\ (JoinAliases(w)[n] = {} => JoinAliases(w)[k] = {})
    OBVIOUS
  <2>1. k \in DOMAIN w
    BY <1>1, TreeShape
  <2>2. JoinAliases(w)[k] \subseteq JoinAliases(w)[n]
    BY <1>1, KidsNameLess
  <2> QED BY <2>1, <2>2
<1>4. \A n \in DOMAIN w :
        /\ top[n] = IF n \in Leaves(w) THEN LeafHolds(q, tabs, found, outer, row, w[n], NoPin)
                    ELSE IF n \in Ands(w) THEN w[n].neg # Pins(q, tabs, found, outer, row, n)
                    ELSE Connects(w[n], {k \in w[n].kids : top[k]})
        /\ n \notin Leaves(w) => sure[n] = Connects(w[n], {k \in w[n].kids : sure[k]})
  <2> TAKE n \in DOMAIN w
  <2>1. top[n] = IF n \in Leaves(w) THEN LeafHolds(q, tabs, found, outer, row, w[n], NoPin)
                 ELSE IF n \in Ands(w) THEN w[n].neg # Pins(q, tabs, found, outer, row, n)
                 ELSE Connects(w[n], {k \in w[n].kids : top[k]})
    BY <1>1, TopIs
  <2>2. sure[n] = IF n \in Leaves(w) THEN SqlLeaf(tabs, sql, outer, row, w[n], f)
                  ELSE Connects(w[n], {k \in w[n].kids : sure[k]})
    BY <1>1, SqlTruthIs
  <2> QED BY <2>1, <2>2
<1>5. \A n \in Leaves(w) : top[n] = pinned[n] /\ n \in DOMAIN w
  <2> TAKE n \in Leaves(w)
  <2>1. n \in DOMAIN w
    BY DEF Leaves
  <2>2. top[n] = LeafHolds(q, tabs, found, outer, row, w[n], NoPin)
    BY <1>4, <2>1
  <2>3. pinned[n] = LeafHolds(q, tabs, found, outer, row, w[n], NoPin)
    BY <1>1, PinnedIs
  <2> QED BY <2>1, <2>2, <2>3
<1>6. \A n \in Ands(w) :
        /\ Evaluable(w) => (Pins(q, tabs, found, outer, row, n) <=> \E g \in F : \A k \in w[n].kids : Sure(g)[k])
        /\ Positive(w) => ((\E g \in F : \A k \in w[n].kids : Sure(g)[k]) => Pins(q, tabs, found, outer, row, n))
  BY PinsAgree
<1>7. \A n \in DOMAIN w \ Leaves(w) :
        /\ w[n].conn \in {"AND", "OR", "XOR"} /\ w[n].neg \in BOOLEAN
        /\ Positive(w) => ~w[n].neg /\ w[n].conn # "XOR"
  BY <1>1, TreeShape DEF Positive
<1>8. f \in F
  OBVIOUS
<1> HIDE DEF top, pinned, Sure, F, w
<1>9. Leaves(w) \subseteq Good
  BY <1>2, <1>5, <1>8
<1>10. ASSUME NEW n \in DOMAIN w \ Leaves(w), w[n].kids \subseteq Good, JoinAliases(w)[n] = {}
       PROVE  /\ Evaluable(w) => (top[n] <=> sure[n])
              /\ Positive(w) => (sure[n] => top[n])
  <2> DEFINE kids == w[n].kids
             some == {k \in kids : sure[k]}
             more == {k \in kids : top[k]}
             P == Pins(q, tabs, found, outer, row, n)
  <2>1. \A k \in kids : k \in DOMAIN w /\ JoinAliases(w)[k] = {}
    BY <1>3, <1>10
  <2>2. sure[n] = Connects(w[n], some)
    BY <1>4, <1>10
  <2>3. CASE n \in Ands(w)
    <3>1. w[n].conn = "AND" /\ kids # {}
      BY <2>3 DEF Ands
    <3>2. top[n] = (w[n].neg # P)
      BY <1>4, <1>10, <2>3
    <3>3. sure[n] = (w[n].neg # (some = kids))
      BY <2>2, <3>1 DEF Connects
    <3>4. some = kids <=> \A k \in kids : sure[k]
      OBVIOUS
    <3>5. Evaluable(w) => \A g \in F : \A k \in kids : Sure(g)[k] <=> sure[k]
      BY <1>2, <1>8, <2>1
    <3>6. Evaluable(w) => (P <=> some = kids)
      BY <1>6, <1>8, <2>3, <3>4, <3>5
    <3>7. Positive(w) => (some = kids => P)
      BY <1>6, <1>8, <2>3, <3>4
    <3>8. P \in BOOLEAN
      BY DEF Pins
    <3>9. w[n].neg \in BOOLEAN /\ (Positive(w) => w[n].neg = FALSE)
      BY <1>7
    <3> HIDE DEF some, kids, P, sure
    <3> QED BY <3>2, <3>3, <3>6, <3>7, <3>8, <3>9
  <2>4. CASE n \notin Ands(w)
    <3>1. top[n] = Connects(w[n], more)
      BY <1>4, <1>10, <2>4
    <3>2. Evaluable(w) => some = more
      BY <1>10, <2>1
    <3>3. Positive(w) => some \subseteq more
      BY <1>10, <2>1
    <3>4. more \subseteq w[n].kids
      OBVIOUS
    <3> HIDE DEF some, more
    <3>5. Positive(w) => (Connects(w[n], some) => Connects(w[n], more))
      BY <3>3, <3>4, <1>7, ConnectsGrows
    <3> QED BY <2>2, <3>1, <3>2, <3>5
  <2> QED BY <2>3, <2>4
<1>11. \A n \in DOMAIN w \ Leaves(w) : w[n].kids \subseteq Good => n \in Good
  BY <1>10
<1> HIDE DEF Good
<1>12. \A n \in DOMAIN w : n \in Good
  BY <1>1, <1>9, <1>11, FromTheLeaves
<1> QED BY <1>12 DEF Good, top, w, Sure

(* On top, where ANDs that are not negated and lookups are joined by ORs,  *)
(* the code has what SQL has on some way to join the row.                  *)
LEMMA TopTruth ==
  ASSUME NEW q, NEW tabs, NEW found, NEW sql, NEW outer,
         Comprehended(q, tabs, found, sql, outer),
         NEW row \in ToSet(TableRows(tabs, q.main))
  PROVE  LET holds == Selects(q, tabs, found, outer, row)
             sure == \E f \in AllWays(q, tabs, row, DOMAIN q.joins) :
                       Truth(q.where, SqlLeaves(q, tabs, sql, outer, row, f))[Len(q.where)]
         IN /\ Evaluable(q.where) => (holds <=> sure)
            /\ Positive(q.where) => (sure => holds)
<1> DEFINE w == q.where
           J == DOMAIN q.joins
           F == AllWays(q, tabs, row, J)
           held == Truth(w, TopHolds(q, tabs, found, outer, row))
           Sure(f) == Truth(w, SqlLeaves(q, tabs, sql, outer, row, f))
           Some(n) == \E f \in F : Sure(f)[n]
           Agree(n) == /\ Evaluable(w) => (held[n] <=> Some(n))
                       /\ Positive(w) => (Some(n) => held[n])
<1>1. IsTree(w) /\ QueryIsPlain(q, tabs) /\ Len(w) \in DOMAIN w
  BY TreeShape DEF Comprehended
<1>2. PICK top \in SUBSET DOMAIN w :
        /\ Len(w) \in top
        /\ \A n \in top :
             \/ JoinAliases(w)[n] = {}
             \/ w[n].kind = "lookup" /\ w[n].op # "isnull"
             \/ w[n].kind = "node" /\ ~w[n].neg /\ w[n].conn = "AND"
             \/ w[n].kind = "node" /\ ~w[n].neg /\ w[n].conn = "OR" /\ w[n].kids \subseteq top
  BY <1>1 DEF QueryIsPlain, AndsAreOnTop
<1>3. \A n \in DOMAIN w :
        /\ held[n] = IF n \in Leaves(w) THEN LeafHolds(q, tabs, found, outer, row, w[n], NoPin)
                     ELSE IF n \in Ands(w) THEN w[n].neg # Pins(q, tabs, found, outer, row, n)
                     ELSE Connects(w[n], {k \in w[n].kids : held[k]})
        /\ \A f : Sure(f)[n] = IF n \in Leaves(w) THEN SqlLeaf(tabs, sql, outer, row, w[n], f)
                               ELSE Connects(w[n], {k \in w[n].kids : Sure(f)[k]})
  <2>0. IsTree(w)
    BY <1>1
  <2> TAKE n \in DOMAIN w
  <2>1. held[n] = IF n \in Leaves(w) THEN LeafHolds(q, tabs, found, outer, row, w[n], NoPin)
                  ELSE IF n \in Ands(w) THEN w[n].neg # Pins(q, tabs, found, outer, row, n)
                  ELSE Connects(w[n], {k \in w[n].kids : held[k]})
    BY <2>0, TopIs, SMTT(60)
  <2>2. ASSUME NEW f
        PROVE  Sure(f)[n] = IF n \in Leaves(w) THEN SqlLeaf(tabs, sql, outer, row, w[n], f)
                            ELSE Connects(w[n], {k \in w[n].kids : Sure(f)[k]})
    BY <2>0, SqlTruthIs
  <2> QED BY <2>1, <2>2
<1>4. \A n \in DOMAIN w : JoinAliases(w)[n] = {} =>
        \A f \in F : /\ Evaluable(w) => (held[n] <=> Sure(f)[n])
                     /\ Positive(w) => (Sure(f)[n] => held[n])
  BY AloneTruth
<1>5. \E f \in F : TRUE
  BY WaysExist
<1>6. \A n \in Ands(w) :
        /\ Evaluable(w) => (Pins(q, tabs, found, outer, row, n) <=> \E f \in F : \A k \in w[n].kids : Sure(f)[k])
        /\ Positive(w) => ((\E f \in F : \A k \in w[n].kids : Sure(f)[k]) => Pins(q, tabs, found, outer, row, n))
  BY PinsAgree
<1>7. \A n \in DOMAIN w : (n \in Leaves(w) <=> w[n].kind # "node")
                          /\ (n \notin Leaves(w) => w[n].neg \in BOOLEAN)
  BY <1>1, TreeShape DEF Leaves
<1>8. ASSUME NEW n \in DOMAIN w, w[n].kind = "lookup", w[n].op # "isnull", JoinAliases(w)[n] # {}
      PROVE  Agree(n)
  <2>1. n \in Leaves(w)
    BY <1>7, <1>8
  <2>2. w[n].alias # Main
    <3>1. JoinAliases(w)[n] = IF w[n].fns = <<>> THEN {w[n].alias} \ {Main} ELSE {}
      BY <1>1, <1>8, AliasesAre
    <3> QED BY <3>1, <1>8
  <2> DEFINE Holds == LeafHolds(q, tabs, found, outer, row, w[n], NoPin)
             Sql(f) == SqlLeaf(tabs, sql, outer, row, w[n], f)
  <2>3. held[n] = Holds /\ \A f : Sure(f)[n] = Sql(f)
    BY <1>3, <2>1
  <2>4. CASE w[n].op = "expr"
    <3>1. ~Evaluable(w)
      BY <1>8, <2>1, <2>4 DEF Evaluable
    <3>2. Resolved(tabs, found, outer, w[n]) = w[n]
      BY <2>4 DEF Resolved
    <3>3. Holds = TRUE
      BY <1>8, <2>4, <3>2 DEF LeafHolds, LookupHolds
    <3> QED BY <2>3, <3>1, <3>3
  <2>5. CASE w[n].op # "expr"
    <3>1. Holds <=> \E f \in F : Sql(f)
      BY <1>8, <2>1, <2>2, <2>5, LeafAlone
    <3> HIDE DEF Holds, Sql
    <3> QED BY <2>3, <3>1
  <2> QED BY <2>4, <2>5
<1> HIDE DEF held, Sure, F, w
<1>9. ASSUME NEW n \in DOMAIN w, JoinAliases(w)[n] = {}
      PROVE  Agree(n)
  BY <1>4, <1>5, <1>9
<1>10. ASSUME NEW n \in DOMAIN w, w[n].kind = "node", ~w[n].neg, w[n].conn = "AND"
       PROVE  Agree(n)
  <2> DEFINE P == Pins(q, tabs, found, outer, row, n)
  <2>1. n \notin Leaves(w) /\ w[n].neg = FALSE
    BY <1>7, <1>10
  <2>2. CASE w[n].kids = {}
    <3>1. JoinAliases(w)[n] = UNION {JoinAliases(w)[k] : k \in w[n].kids}
      BY <1>1, <1>10, AliasesAre
    <3>2. JoinAliases(w)[n] = {}
      BY <3>1, <2>2
    <3> QED BY <3>2, <1>9
  <2>3. CASE w[n].kids # {}
    <3>1. n \in Ands(w)
      BY <1>10, <2>1, <2>3 DEF Ands
    <3>2. P \in BOOLEAN
      BY DEF Pins
    <3>3. held[n] = P
      <4>1. held[n] = (w[n].neg # P)
        BY <1>3, <2>1, <3>1
      <4> HIDE DEF P
      <4> QED BY <4>1, <2>1, <3>2
    <3>4. ASSUME NEW f \in F
          PROVE  Sure(f)[n] <=> \A k \in w[n].kids : Sure(f)[k]
      <4> DEFINE sat == {k \in w[n].kids : Sure(f)[k]}
      <4>1. Sure(f)[n] = Connects(w[n], sat)
        BY <1>3, <2>1
      <4>2. Connects(w[n], sat) = (w[n].neg # (sat = w[n].kids))
        BY <1>10, <2>3 DEF Connects
      <4>3. sat = w[n].kids <=> \A k \in w[n].kids : Sure(f)[k]
        OBVIOUS
      <4> HIDE DEF sat
      <4> QED BY <2>1, <4>1, <4>2, <4>3
    <3> HIDE DEF P
    <3>5. Some(n) <=> \E f \in F : \A k \in w[n].kids : Sure(f)[k]
      BY <3>4
    <3> QED BY <1>6, <3>1, <3>3, <3>5 DEF P
  <2> QED BY <2>2, <2>3
<1>11. ASSUME NEW n \in DOMAIN w, w[n].kind = "node", ~w[n].neg, w[n].conn = "OR",
              \A k \in w[n].kids : Agree(k)
       PROVE  Agree(n)
  <2>1. n \notin Leaves(w) /\ w[n].neg = FALSE /\ n \notin Ands(w)
    BY <1>7, <1>11 DEF Ands
  <2>2. CASE w[n].kids = {}
    <3>1. JoinAliases(w)[n] = UNION {JoinAliases(w)[k] : k \in w[n].kids}
      BY <1>1, <1>11, AliasesAre
    <3>2. JoinAliases(w)[n] = {}
      BY <3>1, <2>2
    <3> QED BY <3>2, <1>9
  <2>3. CASE w[n].kids # {}
    <3> DEFINE LikeOr(sat) == Connects(w[n], sat) <=> sat # {}
    <3>1. ASSUME NEW sat PROVE LikeOr(sat)
      <4>1. Connects(w[n], sat) = (w[n].neg # (sat # {}))
        BY <1>11, <2>3 DEF Connects
      <4> QED BY <4>1, <2>1
    <3>2. held[n] <=> \E k \in w[n].kids : held[k]
      <4> DEFINE sat == {k \in w[n].kids : held[k]}
      <4>1. held[n] = Connects(w[n], sat)
        BY <1>3, <2>1
      <4>2. sat # {} <=> \E k \in w[n].kids : held[k]
        OBVIOUS
      <4> HIDE DEF sat
      <4> QED BY <3>1, <4>1, <4>2
    <3>3. ASSUME NEW f \in F
          PROVE  Sure(f)[n] <=> \E k \in w[n].kids : Sure(f)[k]
      <4> DEFINE sat == {k \in w[n].kids : Sure(f)[k]}
      <4>1. Sure(f)[n] = Connects(w[n], sat)
        BY <1>3, <2>1
      <4>2. sat # {} <=> \E k \in w[n].kids : Sure(f)[k]
        OBVIOUS
      <4> HIDE DEF sat
      <4> QED BY <3>1, <4>1, <4>2
    <3>4. Some(n) <=> \E k \in w[n].kids : Some(k)
      BY <3>3
    <3> HIDE DEF Some
    <3> QED BY <1>11, <3>2, <3>4
  <2> QED BY <2>2, <2>3
<1> DEFINE Good == {n \in DOMAIN w : n \in top => Agree(n)}
<1>12. ASSUME NEW n \in Leaves(w)
       PROVE  n \in Good
  <2>1. n \in DOMAIN w /\ w[n].kind # "node"
    BY DEF Leaves
  <2>2. n \in top => Agree(n)
    <3> HIDE DEF Agree
    <3> QED BY <1>2, <1>8, <1>9, <2>1
  <2> QED BY <2>1, <2>2
<1>13. ASSUME NEW n \in DOMAIN w \ Leaves(w), w[n].kids \subseteq Good
       PROVE  n \in Good
  <2>1. ASSUME n \in top, w[n].kids \subseteq top PROVE \A k \in w[n].kids : Agree(k)
    <3> HIDE DEF Agree
    <3> QED BY <1>13, <2>1
  <2>2. n \in top => Agree(n)
    <3> HIDE DEF Agree
    <3> QED BY <1>2, <1>7, <1>9, <1>10, <1>11, <2>1
  <2> HIDE DEF Agree
  <2> QED BY <2>2
<1>14. Leaves(w) \subseteq Good
  BY <1>12
<1>15. \A n \in DOMAIN w \ Leaves(w) : w[n].kids \subseteq Good => n \in Good
  BY <1>13
<1> HIDE DEF Good
<1>16. \A n \in DOMAIN w : n \in Good
  BY <1>1, <1>14, <1>15, FromTheLeaves
<1>17. Agree(Len(w))
  <2> HIDE DEF Agree
  <2> QED BY <1>1, <1>2, <1>16 DEF Good
<1> QED BY <1>17 DEF Selects, held, Sure, F, w

-----------------------------------------------------------------------------
(* Subqueries.  Of what is found for them, a query reads what it names.    *)
LEMMA LeafReads ==
  ASSUME NEW w, IsTree(w), NEW n \in Leaves(w), NEW g, NEW h, \A k \in Uses(w) : g[k] = h[k],
         NEW q, NEW tabs, NEW outer, NEW row, NEW pin
  PROVE  /\ LeafHolds(q, tabs, g, outer, row, w[n], pin) = LeafHolds(q, tabs, h, outer, row, w[n], pin)
         /\ SqlLeaf(tabs, g, outer, row, w[n], pin) = SqlLeaf(tabs, h, outer, row, w[n], pin)
<1> DEFINE l == w[n]
<1>1. n \in DOMAIN w /\ l.kind \in {"lookup", "nothing", "exists"}
  BY DEF Leaves, IsTree
<1>2. CASE l.kind = "nothing"
  BY <1>2 DEF LeafHolds, SqlLeaf
<1>3. CASE l.kind = "exists"
  <2>1. l.sub \in Uses(w)
    BY <1>3 DEF Uses
  <2>2. g[l.sub] = h[l.sub]
    BY <2>1
  <2> QED BY <1>3, <2>2 DEF LeafHolds, SqlLeaf, SqlAnswer
<1>4. CASE l.kind = "lookup"
  <2>1. l.op \in {"in_query", "exact_query"} => l.rhs \in Uses(w)
    BY <1>4 DEF Uses
  <2>2. l.op \in {"in_query", "exact_query"} => g[l.rhs] = h[l.rhs]
    BY <2>1
  <2>3. l.op \in {"in_query", "exact_query"} =>
          Listed(tabs, g, l.rhs) = Listed(tabs, h, l.rhs) /\ SqlListed(tabs, g, l.rhs) = SqlListed(tabs, h, l.rhs)
    BY <2>2 DEF Listed, SqlListed, SqlAnswer
  <2> HIDE DEF l
  <2>4. Resolved(tabs, g, outer, l) = Resolved(tabs, h, outer, l)
    <3>1. CASE l.op = "in_query"
      BY <2>3, <3>1 DEF Resolved
    <3>2. CASE l.op = "exact_query"
      BY <3>2 DEF Resolved
    <3>3. CASE l.op = "outer"
      BY <3>3 DEF Resolved
    <3>4. CASE l.op \notin {"in_query", "exact_query", "outer"}
      BY <3>4 DEF Resolved
    <3> QED BY <3>1, <3>2, <3>3, <3>4
  <2>5. LeafHolds(q, tabs, g, outer, row, l, pin) = LeafHolds(q, tabs, h, outer, row, l, pin)
    BY <1>4, <2>4 DEF LeafHolds
  <2>6. SqlLeaf(tabs, g, outer, row, l, pin) = SqlLeaf(tabs, h, outer, row, l, pin)
    BY <1>4, <2>3 DEF SqlLeaf
  <2> QED BY <2>5, <2>6 DEF l
<1> QED BY <1>1, <1>2, <1>3, <1>4

LEMMA SelectsReads ==
  ASSUME NEW q, IsTree(q.where), NEW g, NEW h, \A k \in Uses(q.where) : g[k] = h[k],
         NEW tabs, NEW outer, NEW row
  PROVE  /\ Selects(q, tabs, g, outer, row) = Selects(q, tabs, h, outer, row)
         /\ SqlSelects(q, tabs, g, outer, row) = SqlSelects(q, tabs, h, outer, row)
<1> DEFINE w == q.where
<1>1. \A pin : LeavesHold(q, tabs, g, outer, row, pin) = LeavesHold(q, tabs, h, outer, row, pin)
  <2> TAKE pin
  <2>1. \A n \in Leaves(w) :
          LeafHolds(q, tabs, g, outer, row, w[n], pin) = LeafHolds(q, tabs, h, outer, row, w[n], pin)
    <3> TAKE n \in Leaves(w)
    <3> HIDE DEF w
    <3>1. IsTree(w) /\ \A k \in Uses(w) : g[k] = h[k]
      BY DEF w
    <3> QED BY <3>1, LeafReads
  <2> QED BY <2>1 DEF LeavesHold
<1>2. \A n : Pins(q, tabs, g, outer, row, n) = Pins(q, tabs, h, outer, row, n)
  BY <1>1 DEF Pins
<1>3. TopHolds(q, tabs, g, outer, row) = TopHolds(q, tabs, h, outer, row)
  BY <1>1, <1>2 DEF TopHolds
<1>4. Selects(q, tabs, g, outer, row) = Selects(q, tabs, h, outer, row)
  BY <1>3 DEF Selects
<1>5. \A f : [n \in Leaves(w) |-> SqlLeaf(tabs, g, outer, row, w[n], f)]
               = [n \in Leaves(w) |-> SqlLeaf(tabs, h, outer, row, w[n], f)]
  <2> TAKE f
  <2>1. \A n \in Leaves(w) : SqlLeaf(tabs, g, outer, row, w[n], f) = SqlLeaf(tabs, h, outer, row, w[n], f)
    BY LeafReads
  <2> QED BY <2>1
<1>6. SqlSelects(q, tabs, g, outer, row) = SqlSelects(q, tabs, h, outer, row)
  BY <1>5 DEF SqlSelects
<1> QED BY <1>4, <1>6

(* What the code finds for the subqueries, and what SQL does.              *)
LEMMA SubqueriesAre ==
  /\ Len(Subqueries) \in Nat /\ DOMAIN Subqueries = 1..Len(Subqueries)
  /\ \A k \in DOMAIN Subqueries :
       /\ IsTree(Subqueries[k].where)
       /\ \A m \in Uses(Subqueries[k].where) : m \in DOMAIN Subqueries /\ m < k
<1>1. Len(Subqueries) \in Nat /\ DOMAIN Subqueries = 1..Len(Subqueries)
  <2>1. Subqueries \in Seq(ToSet(Subqueries))
    BY SubqueriesNest
  <2> QED BY <2>1
<1>2. ASSUME NEW k \in DOMAIN Subqueries
      PROVE  /\ IsTree(Subqueries[k].where)
             /\ \A m \in Uses(Subqueries[k].where) : m \in DOMAIN Subqueries /\ m < k
  <2>1. IsTree(Subqueries[k].where) /\ Uses(Subqueries[k].where) \subseteq 1..(k - 1)
    BY SubqueriesNest
  <2> QED BY <1>1, <2>1
<1> QED BY <1>1, <1>2

LEMMA FoundIs ==
  ASSUME NEW tabs, TablesInOrder(tabs)
  PROVE  \A k \in DOMAIN Subqueries :
           Found(tabs)[k] =
             [o \in Outers(tabs) |->
                Only(TableRows(tabs, Subqueries[k].main),
                     {r \in ToSet(TableRows(tabs, Subqueries[k].main)) :
                        Selects(Subqueries[k], tabs, Found(tabs), o, r)})]
<1> DEFINE D == DOMAIN Subqueries
           N == Len(Subqueries)
           rows(k) == TableRows(tabs, Subqueries[k].main)
           T == UNION {Seq(ToSet(rows(k))) : k \in D}
           V == [Outers(tabs) -> T \cup {<<>>}]
           Step(k, g) == [o \in Outers(tabs) |->
                            Only(rows(k), {r \in ToSet(rows(k)) : Selects(Subqueries[k], tabs, g, o, r)})]
           G == [k \in D |-> [g \in [D -> V] |-> Step(k, g)]]
<1>1. N \in Nat /\ D = 1..N
  BY SubqueriesAre
<1>2. \A k \in D : IsTree(Subqueries[k].where)
                   /\ \A m \in Uses(Subqueries[k].where) : m \in D /\ m < k
  BY SubqueriesAre
<1>3. \A k \in D : \A g \in [D -> V] : G[k][g] = Step(k, g)
  OBVIOUS
<1>4. ASSUME NEW k \in D, NEW g
      PROVE  Step(k, g) \in V
  <2>1. rows(k) \in Seq(ToSet(rows(k)))
    BY TableIs
  <2>2. \A S : Only(rows(k), S) \in Seq(ToSet(rows(k)))
    BY <2>1, OnlyIs
  <2>3. \A S : Only(rows(k), S) \in T
    BY <2>2
  <2> HIDE DEF rows, T
  <2> QED BY <2>3
<1>5. ASSUME NEW k \in D, NEW g, NEW h, \A m \in D : m < k => g[m] = h[m]
      PROVE  Step(k, g) = Step(k, h)
  <2>1. \A m \in Uses(Subqueries[k].where) : g[m] = h[m]
    BY <1>2, <1>5
  <2>2. \A o, r : Selects(Subqueries[k], tabs, g, o, r) = Selects(Subqueries[k], tabs, h, o, r)
    BY <1>2, <2>1, SelectsReads
  <2> HIDE DEF rows
  <2> QED BY <2>2
<1>6. V # {}
  <2>1. [o \in Outers(tabs) |-> <<>>] \in V
    BY Zenon
  <2> QED BY <2>1
<1>7. Numbered(D, N)
  <2>1. D \subseteq Nat /\ \A n \in D : n <= N
    BY <1>1
  <2> QED BY <1>1, <2>1 DEF Numbered
<1> HIDE DEF rows, T, V, Step, D, N
<1>8. G \in [D -> [[D -> V] -> V]]
  BY <1>4
<1> HIDE DEF G
<1>9. Recurses(D, V, G)
  <2> SUFFICES ASSUME NEW n \in D, NEW g \in [D -> V], NEW h \in [D -> V],
                      \A m \in D : m < n => g[m] = h[m]
               PROVE  G[n][g] = G[n][h]
    BY <1>6, <1>8 DEF Recurses
  <2>1. Step(n, g) = Step(n, h)
    BY <1>5
  <2> QED BY <1>3, <2>1
<1>10. PICK f \in [D -> V] : \A n \in D : f[n] = G[n][f]
  BY <1>7, <1>9, RecursionExists
<1>11. f = [k \in D |-> Step(k, f)]
  BY <1>3, <1>10
<1>12. Found(tabs) = CHOOSE g : g = [k \in D |-> Step(k, g)]
  BY DEF Found, Step, D, rows
<1>13. Found(tabs) = [k \in D |-> Step(k, Found(tabs))]
  BY <1>11, <1>12
<1> QED BY <1>13 DEF Step, D, rows

LEMMA SqlFoundIs ==
  ASSUME NEW tabs
  PROVE  \A k \in DOMAIN Subqueries :
           SqlFound(tabs)[k] =
             [o \in Outers(tabs) |->
                {r \in ToSet(TableRows(tabs, Subqueries[k].main)) :
                   SqlSelects(Subqueries[k], tabs, SqlFound(tabs), o, r)}]
<1> DEFINE D == DOMAIN Subqueries
           N == Len(Subqueries)
           all(k) == ToSet(TableRows(tabs, Subqueries[k].main))
           V == [Outers(tabs) -> SUBSET (UNION {all(k) : k \in D})]
           Step(k, g) == [o \in Outers(tabs) |->
                            {r \in all(k) : SqlSelects(Subqueries[k], tabs, g, o, r)}]
           G == [k \in D |-> [g \in [D -> V] |-> Step(k, g)]]
<1>1. N \in Nat /\ D = 1..N
  BY SubqueriesAre
<1>2. \A k \in D : IsTree(Subqueries[k].where)
                   /\ \A m \in Uses(Subqueries[k].where) : m \in D /\ m < k
  BY SubqueriesAre
<1>3. \A k \in D : \A g \in [D -> V] : G[k][g] = Step(k, g)
  OBVIOUS
<1>4. ASSUME NEW k \in D, NEW g
      PROVE  Step(k, g) \in V
  <2>1. all(k) \subseteq UNION {all(m) : m \in D}
    OBVIOUS
  <2> HIDE DEF all
  <2> QED BY <2>1
<1>5. ASSUME NEW k \in D, NEW g, NEW h, \A m \in D : m < k => g[m] = h[m]
      PROVE  Step(k, g) = Step(k, h)
  <2>1. \A m \in Uses(Subqueries[k].where) : g[m] = h[m]
    BY <1>2, <1>5
  <2>2. \A o, r : SqlSelects(Subqueries[k], tabs, g, o, r) = SqlSelects(Subqueries[k], tabs, h, o, r)
    BY <1>2, <2>1, SelectsReads
  <2> HIDE DEF all
  <2> QED BY <2>2
<1>6. V # {}
  <2>1. [o \in Outers(tabs) |-> {}] \in V
    BY Zenon
  <2> QED BY <2>1
<1>7. Numbered(D, N)
  <2>1. D \subseteq Nat /\ \A n \in D : n <= N
    BY <1>1
  <2> QED BY <1>1, <2>1 DEF Numbered
<1> HIDE DEF all, V, Step, D, N
<1>8. G \in [D -> [[D -> V] -> V]]
  BY <1>4
<1> HIDE DEF G
<1>9. Recurses(D, V, G)
  <2> SUFFICES ASSUME NEW n \in D, NEW g \in [D -> V], NEW h \in [D -> V],
                      \A m \in D : m < n => g[m] = h[m]
               PROVE  G[n][g] = G[n][h]
    BY <1>6, <1>8 DEF Recurses
  <2>1. Step(n, g) = Step(n, h)
    BY <1>5
  <2> QED BY <1>3, <2>1
<1>10. PICK f \in [D -> V] : \A n \in D : f[n] = G[n][f]
  BY <1>7, <1>9, RecursionExists
<1>11. f = [k \in D |-> Step(k, f)]
  BY <1>3, <1>10
<1>12. SqlFound(tabs) = CHOOSE g : g = [k \in D |-> Step(k, g)]
  BY DEF SqlFound, Step, D, all
<1>13. SqlFound(tabs) = [k \in D |-> Step(k, SqlFound(tabs))]
  BY <1>11, <1>12
<1> QED BY <1>13 DEF Step, D, all

(* One query, from what is found for its subqueries: it selects the rows   *)
(* that SQL selects, or at least those.                                    *)
LEMMA SelectsAsSql ==
  ASSUME NEW q, NEW tabs, NEW found, NEW sql, NEW outer,
         Comprehended(q, tabs, found, sql, outer),
         NEW row \in ToSet(TableRows(tabs, q.main))
  PROVE  /\ Evaluable(q.where) =>
              (Selects(q, tabs, found, outer, row) <=> SqlSelects(q, tabs, sql, outer, row))
         /\ Positive(q.where) =>
              (SqlSelects(q, tabs, sql, outer, row) => Selects(q, tabs, found, outer, row))
<1> DEFINE Sure(f) == Truth(q.where, SqlLeaves(q, tabs, sql, outer, row, f))[Len(q.where)]
           F == AllWays(q, tabs, row, DOMAIN q.joins)
<1>1. TablesInOrder(tabs) /\ JoinsAreNear(q, tabs)
  BY DEF Comprehended, QueryIsPlain
<1>2. Joinings(q, tabs, row) = F
  BY <1>1, JoiningsAre
<1>3. SqlSelects(q, tabs, sql, outer, row) <=> \E f \in F : Sure(f)
  BY <1>2 DEF SqlSelects, SqlLeaves
<1>4. /\ Evaluable(q.where) => (Selects(q, tabs, found, outer, row) <=> \E f \in F : Sure(f))
      /\ Positive(q.where) => ((\E f \in F : Sure(f)) => Selects(q, tabs, found, outer, row))
  BY TopTruth
<1> HIDE DEF F, Sure
<1> QED BY <1>3, <1>4

(* No lookup of a plain subquery raises: it compares values with values of *)
(* their type.                                                             *)
LEMMA NothingRaises ==
  ASSUME NEW tabs, NEW k \in DOMAIN Subqueries, QueryIsPlain(Subqueries[k], tabs),
         NEW o, RunsWith(tabs, Subqueries[k].where, o)
  PROVE  ~Raises(tabs, k, o)
<1> DEFINE s == Subqueries[k]
<1>1. s.sub
  BY SubqueriesNest
<1>2. ASSUME NEW r, NEW n \in Leaves(s.where), s.where[n].kind = "lookup",
             LookupRaises(o, r, s.where[n])
      PROVE  FALSE
  <2> DEFINE l == s.where[n]
  <2>1. LookupIsPlain(s, tabs, l)
    BY <1>2 DEF QueryIsPlain
  <2>2. l.fns = <<>>
    BY <1>1, <2>1 DEF LookupIsPlain, IsJoined
  <2>3. ~AsksPart(l)
    BY <2>2 DEF AsksPart
  <2>4. l.op = "outer" /\ l.rhs.op # "exact" /\ o # None /\ RowGet(o, l.rhs.col) = None
    BY <1>2, <2>3 DEF LookupRaises
  <2>5. \A t \in DOMAIN tabs : NeverNull(tabs, t, l.rhs.col)
    BY <2>1, <2>4 DEF LookupIsPlain
  <2>6. PICK u \in DOMAIN tabs : o \in ToSet(tabs[u])
    BY <2>4 DEF RunsWith, Outers
  <2>7. o \in ToSet(TableRows(tabs, u)) /\ NeverNull(tabs, u, l.rhs.col)
    BY <2>5, <2>6 DEF TableRows
  <2> QED BY <2>4, <2>7 DEF NeverNull
<1> QED BY <1>2 DEF Raises

(* The code finds for each subquery the rows that SQL finds, in the order  *)
(* of their keys.                                                          *)
LEMMA SubqueriesFindAlike ==
  ASSUME NEW q, NEW tabs, TablesInOrder(tabs), ReadsAsSql(q, tabs)
  PROVE  FindsAlike(tabs, Found(tabs), SqlFound(tabs), DOMAIN Subqueries)
<1> DEFINE found == Found(tabs)
           sql == SqlFound(tabs)
           D == DOMAIN Subqueries
           bad == {k \in D : ~FindsAlike(tabs, found, sql, {k})}
<1>1. bad = {}
  <2>1. SUFFICES ASSUME bad # {} PROVE FALSE
    OBVIOUS
  <2>2. bad \in SUBSET Nat
    BY SubqueriesAre
  <2>3. PICK k \in bad : \A m \in bad : k <= m
    BY <2>1, <2>2, LeastOf
  <2> DEFINE s == Subqueries[k]
             rows == TableRows(tabs, s.main)
  <2>4. k \in D /\ k \in Nat
    BY <2>2
  <2>5. IsTree(s.where) /\ \A m \in Uses(s.where) : m \in D /\ m < k
    BY <2>4, SubqueriesAre
  <2>6. \A m \in Uses(s.where) : FindsAlike(tabs, found, sql, {m})
    <3> TAKE m \in Uses(s.where)
    <3>1. m \in D /\ m \in Nat /\ m < k
      BY <2>5, SubqueriesAre
    <3>2. ~(k <= m)
      BY <2>4, <3>1
    <3> QED BY <2>3, <3>1, <3>2
  <2>7. FindsAlike(tabs, found, sql, Uses(s.where))
    BY <2>6 DEF FindsAlike
  <2>8. QueryIsPlain(s, tabs) /\ Evaluable(s.where)
    BY <2>4 DEF ReadsAsSql
  <2>9. \A o : RunsWith(tabs, s.where, o) => Comprehended(s, tabs, found, sql, o)
    BY <2>5, <2>7, <2>8 DEF Comprehended
  <2>10. \A o : RunsWith(tabs, s.where, o) =>
           \A r \in ToSet(rows) : Selects(s, tabs, found, o, r) <=> SqlSelects(s, tabs, sql, o, r)
    BY <2>8, <2>9, SelectsAsSql
  <2>11. \A o \in Outers(tabs) :
           /\ found[k][o] = Only(rows, {r \in ToSet(rows) : Selects(s, tabs, found, o, r)})
           /\ sql[k][o] = {r \in ToSet(rows) : SqlSelects(s, tabs, sql, o, r)}
    <3>1. found[k] = [o \in Outers(tabs) |->
                        Only(rows, {r \in ToSet(rows) : Selects(s, tabs, found, o, r)})]
      BY <2>4, FoundIs
    <3>2. sql[k] = [o \in Outers(tabs) |-> {r \in ToSet(rows) : SqlSelects(s, tabs, sql, o, r)}]
      BY <2>4, SqlFoundIs
    <3> HIDE DEF found, sql, rows, s
    <3> QED BY <3>1, <3>2
  <2>12. rows \in Seq(ToSet(rows)) /\ KeysRise(rows)
    BY TableIs
  <2>13. ASSUME NEW o, RunsWith(tabs, s.where, o)
         PROVE  FoundAlike(tabs, found, sql, k, o)
    <3>0. o \in Outers(tabs) /\ ~Raises(tabs, k, o)
      BY <2>4, <2>8, <2>13, NothingRaises DEF RunsWith
    <3> DEFINE S == {r \in ToSet(rows) : Selects(s, tabs, found, o, r)}
    <3>1. found[k][o] = Only(rows, S)
      BY <2>11, <3>0
    <3>2. S = sql[k][o] /\ S \subseteq ToSet(rows)
      BY <2>10, <2>11, <2>13, <3>0
    <3> HIDE DEF S
    <3>3. /\ Only(rows, S) \in Seq(ToSet(rows)) /\ ToSet(Only(rows, S)) = ToSet(rows) \cap S
          /\ KeysRise(Only(rows, S))
      BY <2>12, OnlyIs
    <3> QED BY <3>0, <3>1, <3>2, <3>3 DEF FoundAlike
  <2>14. FindsAlike(tabs, found, sql, {k})
    BY <2>13 DEF FindsAlike
  <2> QED BY <2>3, <2>14
<1>2. \A k \in D : FindsAlike(tabs, found, sql, {k})
  BY <1>1
<1> QED BY <1>2 DEF FindsAlike

(* A query whose WHERE reads as SQL finds the rows that SQL selects, if    *)
(* the code can evaluate its lookups, and at least those, if it has no     *)
(* negations: _row_matches_where against SQL, over all tables and trees.   *)
THEOREM RowMatchesAsSql ==
  ASSUME NEW q, IsTree(q.where), Uses(q.where) \subseteq DOMAIN Subqueries,
         NEW tabs, TablesInOrder(tabs), ReadsAsSql(q, tabs),
         NEW row \in ToSet(TableRows(tabs, q.main))
  PROVE  /\ Evaluable(q.where) => (RowMatches(q, tabs, row) <=> SqlSelected(q, tabs, row))
         /\ Positive(q.where) => (SqlSelected(q, tabs, row) => RowMatches(q, tabs, row))
<1> DEFINE found == Found(tabs)
           sql == SqlFound(tabs)
<1>1. FindsAlike(tabs, found, sql, DOMAIN Subqueries)
  BY SubqueriesFindAlike
<1>2. FindsAlike(tabs, found, sql, Uses(q.where)) /\ RunsWith(tabs, q.where, None)
  BY <1>1 DEF FindsAlike, RunsWith, Outers, ReadsAsSql
<1>3. Comprehended(q, tabs, found, sql, None)
  BY <1>2 DEF Comprehended, ReadsAsSql
<1>4. /\ Evaluable(q.where) => (Selects(q, tabs, found, None, row) <=> SqlSelects(q, tabs, sql, None, row))
      /\ Positive(q.where) => (SqlSelects(q, tabs, sql, None, row) => Selects(q, tabs, found, None, row))
  BY <1>3, SelectsAsSql
<1> QED BY <1>4 DEF RowMatches, SqlSelected
==============================================================================
