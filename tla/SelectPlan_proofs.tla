--------------------------- MODULE SelectPlan_proofs --------------------------
(***************************************************************************)
(* Theorems about the phases of a query, for any tables, queries and       *)
(* methods.                                                                *)
(***************************************************************************)
EXTENDS SelectPlan, WhereEval_proofs

-----------------------------------------------------------------------------
(* The invariant.                                                          *)

(* While the scan goes on, the rows that matched are those of the part of  *)
(* the table that was seen, in key order.                                  *)
SeenRows == {Scanned[i] : i \in 1..(Len(Scanned) - Len(todo))}

Scanning ==
  phase = "scan" =>
    /\ ToSet(matching) = {r \in SeenRows : RowMatches(query, tabs, r)}
    /\ KeysRise(matching)
    /\ method = "exists" => matching = <<>>

(* Nothing is answered before the rows are built.                          *)
NothingYet == phase \notin {"distinct", "done"} => rows = <<>>

(* After it they are all of them.                                          *)
ScanIsWhole ==
  \/ phase \in {"order", "slice"}
  \/ phase = "build" /\ method = "aggregate"
  => ToSet(matching) = Chosen

KeptInKeyOrder ==
  phase = "order" \/ (phase = "build" /\ method = "aggregate") => KeysRise(matching)

(* The sort and the slice leave each row there once.                       *)
EachRowOnce ==
  phase # "scan" /\ method \in {"select", "count"} =>
    /\ KeysDiffer(matching)
    /\ ToSet(matching) \subseteq Chosen
    /\ query.low = 0 /\ query.high = None => ToSet(matching) = Chosen

(* DISTINCT has kept the first occurrence of each tuple it has looked at.  *)
Firsts(m) ==
  /\ rows \in Seq(ToSet(Built))
  /\ IsInjective(rows)
  /\ ToSet(rows) = {Built[k] : k \in 1..m}
  /\ \A i, j \in DOMAIN rows : i < j =>
       \E k \in 1..m : Built[k] = rows[i] /\ \A l \in 1..k : Built[l] # rows[j]

Deduplicating ==
  phase = "distinct" =>
    /\ tuples \in Seq(ToSet(Built)) /\ Len(tuples) <= Len(Built)
    /\ tuples = SubSeq(Built, Len(Built) - Len(tuples) + 1, Len(Built))
    /\ Firsts(Len(Built) - Len(tuples))

Inputs == tabs \in Databases /\ query \in Queries /\ method \in Methods

IInv ==
  /\ Inputs /\ TypeOK /\ Scanning /\ NothingYet /\ ScanIsWhole /\ KeptInKeyOrder
  /\ EachRowOnce /\ Deduplicating /\ DistinctOnce /\ AnswersAgree

-----------------------------------------------------------------------------
(* The ORDER BY that the sort goes by. *)
Effective == IF Compiles(query.order) THEN query.order ELSE <<>>

(* The sort of a list that the scan made is in the order SQL asks for, or  *)
(* in key order if the ORDER BY is dropped.                                *)
LEMMA ArrangedInOrder ==
  ASSUME NEW n, NEW seq, Ranked(n, seq, Effective), NEW m \in Nat,
         DOMAIN query.order = 1..m, KeysRise(seq), Sortable(query.order, ToSet(seq))
  PROVE  InOrder(Arranged(seq, query.order))
<1> DEFINE order == Effective
           C(i, j) == Compare(seq[i], seq[j], order)
<1>0. Arranged(seq, query.order) = Sorted(seq, order)
  BY DEF Arranged, Effective
<1>1. n \in Nat /\ DOMAIN seq = 1..n /\ DOMAIN order \subseteq Nat
  BY DEF Ranked
<1>2. \A i \in 1..n : Comparable(seq[i]) /\ seq[i] \in ToSet(seq)
  BY <1>1 DEF Ranked, ToSet
<1>3. PICK p \in [1..n -> 1..n] :
        /\ Sorted(seq, order) = [k \in 1..n |-> seq[p[k]]]
        /\ \A j, k \in 1..n : j < k => Before(seq, order, p[j], p[k])
  BY SortedIsRenumbered
<1>4. \A i, j \in 1..n :
        Before(seq, order, i, j) =>
          C(i, j) < 0 \/ (C(i, j) = 0 /\ seq[i].pk < seq[j].pk)
  BY <1>1 DEF Before, KeysRise
<1>5. \A i, j \in 1..n : C(i, j) < 0 => ~(C(j, i) <= 0) /\ C(i, j) <= 0
  <2>1. \A i, j \in 1..n : C(i, j) \in {-1, 0, 1} /\ (C(i, j) < 0 <=> C(j, i) > 0)
    BY <1>1, <1>2, CompareMeans
  <2> HIDE DEF C
  <2> QED BY <2>1
<1> DEFINE Fine(r, s) == IF Compiles(query.order)
                         THEN \/ RanksBefore(r, s, query.order)
                              \/ /\ ~RanksBefore(s, r, query.order)
                                 /\ \/ r.pk < s.pk
                                    \/ \E k \in DOMAIN query.order : query.order[k].fns # <<>>
                         ELSE r.pk < s.pk
<1>6. ASSUME NEW i \in 1..n, NEW j \in 1..n, Before(seq, order, i, j)
      PROVE  Fine(seq[i], seq[j])
  <2>1. C(i, j) < 0 \/ (C(i, j) = 0 /\ seq[i].pk < seq[j].pk)
    BY <1>4, <1>6
  <2>2. CASE Compiles(query.order) /\ PlainOrder(query.order)
    <3>1. order = query.order
      BY <2>2 DEF Effective
    <3>2. /\ C(i, j) < 0 => RanksBefore(seq[i], seq[j], query.order)
          /\ C(i, j) = 0 => ~RanksBefore(seq[j], seq[i], query.order)
      BY <3>1, <2>2, <1>2, ColumnsSortAsSql
    <3> QED BY <2>1, <2>2, <3>2
  <2>3. CASE DatesOrder(query.order, ToSet(seq))
    <3>1. C(i, j) <= 0
      BY <2>1, <1>5
    <3>2. order = query.order /\ Compiles(query.order)
      BY <2>3 DEF Effective, DatesOrder
    <3>3. ~RanksBefore(seq[j], seq[i], query.order)
      BY <2>3, <3>1, <3>2, <1>2, DatesSortAsSql
    <3>4. 1 \in DOMAIN query.order /\ query.order[1].fns # <<>>
      BY <2>3 DEF DatesOrder
    <3> QED BY <3>2, <3>3, <3>4
  <2>4. CASE ~Compiles(query.order)
    <3>1. order = <<>>
      BY <2>4 DEF Effective
    <3>2. C(i, j) = 0
      BY <3>1 DEF Compare
    <3>3. seq[i].pk < seq[j].pk
      <4> HIDE DEF C
      <4> QED BY <2>1, <3>2
    <3> QED BY <2>4, <3>3
  <2> QED BY <2>2, <2>3, <2>4 DEF Sortable
<1> HIDE DEF Fine
<1>7. \A j, k \in 1..n : j < k => Fine(seq[p[j]], seq[p[k]])
  BY <1>3, <1>6
<1>8. DOMAIN Sorted(seq, order) = 1..n /\ \A k \in 1..n : Sorted(seq, order)[k] = seq[p[k]]
  BY <1>3
<1>9. \A j, k \in DOMAIN Sorted(seq, order) :
        j < k => Fine(Sorted(seq, order)[j], Sorted(seq, order)[k])
  BY <1>7, <1>8
<1> QED BY <1>0, <1>9 DEF InOrder, Fine

-----------------------------------------------------------------------------
(* Lists.                                                                  *)
(* The end of a list after its first m elements: its head is the next one. *)
LEMMA EndOfList ==
  ASSUME NEW S, NEW seq \in Seq(S), NEW left \in Seq(S), left # <<>>,
         Len(left) <= Len(seq), left = SubSeq(seq, Len(seq) - Len(left) + 1, Len(seq))
  PROVE  LET m == Len(seq) - Len(left)
         IN /\ m \in Nat /\ m + 1 \in DOMAIN seq
            /\ Head(left) = seq[m + 1]
            /\ Len(Tail(left)) = Len(left) - 1
            /\ Len(seq) - Len(Tail(left)) = m + 1
            /\ Tail(left) = SubSeq(seq, m + 2, Len(seq))
<1> DEFINE m == Len(seq) - Len(left)
<1>1. m \in Nat /\ Len(seq) \in Nat /\ m + 1 \in Nat
  OBVIOUS
<1>2. left \in Seq(S)
  OBVIOUS
<1>3. Len(left) > 0
  BY <1>2
<1>4. m + 1 <= Len(seq) /\ m + 1 \in 1..Len(seq)
  BY <1>1, <1>3
<1>5. left = SubSeq(seq, m + 1, Len(seq))
  OBVIOUS
<1>6. Head(left) = seq[m + 1]
  BY <1>1, <1>4, <1>5
<1>7. Len(Tail(left)) = Len(left) - 1
  BY <1>2, <1>3
<1>8. Tail(left) = SubSeq(seq, m + 2, Len(seq))
  BY <1>1, <1>4, <1>5
<1> QED BY <1>1, <1>4, <1>6, <1>7, <1>8

-----------------------------------------------------------------------------
(* A query that must meet a condition that nothing meets selects no row.   *)
LEMMA NothingSelects ==
  ASSUME NEW q, IsTree(q.where), IsEmpty(q), NothingIsRequired(q),
         NEW db, NEW found, NEW outer, NEW row
  PROVE  ~Selects(q, db, found, outer, row)
<1> DEFINE w == q.where
           n == Len(w)
           P == Pins(q, db, found, outer, row, n)
<1>1. n \in DOMAIN w
  BY TreeShape
<1>2. w[n].kind = "node" /\ w[n].conn = "AND" /\ w[n].neg # TRUE
  BY DEF IsEmpty, NothingIsRequired
<1>3. PICK k \in w[n].kids : w[k].kind = "nothing"
  BY DEF IsEmpty
<1>4. n \in Ands(w) /\ n \notin Leaves(w)
  BY <1>1, <1>2, <1>3 DEF Ands, Leaves
<1>5. w[n].neg = FALSE /\ k \in Leaves(w)
  BY <1>1, <1>2, <1>3, <1>4, TreeShape DEF Leaves
<1>6. \A pin : ~Truth(w, LeavesHold(q, db, found, outer, row, pin))[k]
  <2> TAKE pin
  <2>1. Truth(w, LeavesHold(q, db, found, outer, row, pin))[k]
          = LeafHolds(q, db, found, outer, row, w[k], pin)
    BY <1>5, PinnedIs
  <2>2. LeafHolds(q, db, found, outer, row, w[k], pin) = FALSE
    BY <1>3 DEF LeafHolds
  <2> QED BY <2>1, <2>2
<1>7. P = FALSE
  BY <1>3, <1>6 DEF Pins
<1>8. Selects(q, db, found, outer, row) = (w[n].neg # P)
  BY <1>4, RootIsAnd
<1> HIDE DEF P
<1> QED BY <1>5, <1>7, <1>8

(* What a query may meet.                                                  *)
LEMMA InputsAreFit ==
  ASSUME Inputs
  PROVE  /\ Scanned \in Seq(MainRows)
         /\ \A r \in MainRows : r.pk \in Int /\ Comparable(r)
         /\ KeysRise(Scanned)
         /\ query.order \in Seq(ToSet(query.order)) /\ query.cols \in Seq(ToSet(query.cols))
         /\ query.low \in Nat /\ query.high \in (Nat \ {0}) \cup {None}
         /\ IsEmpty(query) => Chosen = {}
<1>1. TablesInOrder(tabs)
  BY PlanConstants DEF Inputs, TablesInOrder
<1>2. /\ Scanned \in Seq(MainRows) /\ KeysRise(Scanned)
      /\ \A r \in MainRows : r.pk \in Int /\ Comparable(r)
  BY <1>1, TableIs DEF Scanned, MainRows
<1>3. /\ query.order \in Seq(ToSet(query.order)) /\ query.cols \in Seq(ToSet(query.cols))
      /\ query.low \in Nat /\ query.high \in (Nat \ {0}) \cup {None}
      /\ IsTree(query.where) /\ NothingIsRequired(query)
  BY PlanConstants DEF Inputs
<1>4. IsEmpty(query) => Chosen = {}
  BY <1>3, NothingSelects DEF Chosen, RowMatches
<1> QED BY <1>2, <1>3, <1>4

LEMMA SameInputs ==
  ASSUME Same
  PROVE  /\ Scanned' = Scanned /\ MainRows' = MainRows /\ Chosen' = Chosen
         /\ Inputs' <=> Inputs
         /\ query' = query /\ tabs' = tabs /\ method' = method
         /\ IsEmpty(query)' <=> IsEmpty(query)
         /\ matching' = matching => Built' = Built
<1>1. query' = query /\ tabs' = tabs /\ method' = method
  BY DEF Same
<1>2. Scanned' = Scanned /\ MainRows' = MainRows
  BY <1>1 DEF Scanned, MainRows
<1>3. Chosen' = Chosen
  BY <1>1, <1>2 DEF Chosen
<1>4. Inputs' <=> Inputs
  BY <1>1 DEF Inputs
<1>5. IsEmpty(query)' <=> IsEmpty(query)
  BY <1>1
<1>6. matching' = matching => Built' = Built
  BY <1>1 DEF Built, RowTuple
<1> QED BY <1>1, <1>2, <1>3, <1>4, <1>5, <1>6

LEMMA InitHolds == Init => IInv
<1> SUFFICES ASSUME Init PROVE IInv
  OBVIOUS
<1>1. Inputs /\ phase = "scan" /\ todo = Scanned /\ matching = <<>> /\ rows = <<>>
  BY DEF Init, Inputs, Scanned
<1>2. Scanned \in Seq(MainRows)
  BY <1>1, InputsAreFit
<1>3. Len(Scanned) \in Nat /\ SubSeq(Scanned, 1, Len(Scanned)) = Scanned
  BY <1>2
<1>4. Len(Scanned) - Len(todo) = 0
  BY <1>1, <1>3
<1>5. TypeOK
  BY <1>1, <1>2, <1>3, <1>4 DEF TypeOK, Inputs
<1>6. SeenRows = {} /\ ToSet(matching) = {}
  BY <1>1, <1>4 DEF SeenRows, ToSet
<1>7. Scanning
  BY <1>1, <1>6 DEF Scanning, KeysRise
<1> QED BY <1>1, <1>5, <1>7 DEF IInv, NothingYet, ScanIsWhole, KeptInKeyOrder, EachRowOnce,
   Deduplicating, DistinctOnce, AnswersAgree

-----------------------------------------------------------------------------
(* The steps keep the invariant.                                           *)
LEMMA ScannedPart ==
  ASSUME IInv, phase = "scan"
  PROVE  /\ Scanned \in Seq(MainRows) /\ Len(Scanned) - Len(todo) \in 0..Len(Scanned)
         /\ ToSet(matching) \subseteq Chosen
         /\ todo = <<>> => ToSet(matching) = Chosen
         /\ DOMAIN matching = 1..Len(matching) /\ Len(matching) \in Nat
         /\ KeysRise(matching) /\ KeysDiffer(matching)
<1>1. Inputs /\ TypeOK /\ Scanning
  BY DEF IInv
<1>2. Scanned \in Seq(MainRows) /\ \A r \in MainRows : r.pk \in Int
  BY <1>1, InputsAreFit
<1>3. Len(todo) \in Nat /\ Len(Scanned) \in Nat /\ Len(todo) <= Len(Scanned)
  BY <1>1, <1>2 DEF TypeOK
<1>4. Len(Scanned) - Len(todo) \in 0..Len(Scanned)
  BY <1>3
<1>5. \A i \in 1..(Len(Scanned) - Len(todo)) : i \in DOMAIN Scanned
  BY <1>2, <1>3
<1>6. SeenRows \subseteq MainRows
  BY <1>5 DEF SeenRows, MainRows, ToSet
<1>7. ToSet(matching) = {r \in SeenRows : RowMatches(query, tabs, r)} /\ KeysRise(matching)
  BY <1>1 DEF Scanning
<1>8. ToSet(matching) \subseteq Chosen
  BY <1>6, <1>7 DEF Chosen
<1>9. ASSUME todo = <<>>
      PROVE  ToSet(matching) = Chosen
  <2>1. Len(Scanned) - Len(todo) = Len(Scanned)
    BY <1>3, <1>9
  <2>2. SeenRows = MainRows
    BY <2>1, <1>2 DEF SeenRows, MainRows, ToSet
  <2> QED BY <2>2, <1>7 DEF Chosen
<1>10. matching \in Seq(MainRows)
  BY <1>1 DEF TypeOK
<1>11. DOMAIN matching = 1..Len(matching) /\ Len(matching) \in Nat
  BY <1>10
<1>12. \A i \in DOMAIN matching : matching[i].pk \in Int
  BY <1>2, <1>10
<1>13. DOMAIN matching \subseteq Int
  BY <1>11
<1>14. KeysDiffer(matching)
  BY <1>7, <1>12, <1>13, RisingDiffers
<1> QED BY <1>2, <1>4, <1>7, <1>8, <1>9, <1>11, <1>14

LEMMA AnswersNothingKeeps ==
  ASSUME IInv, AnswersNothing
  PROVE  IInv'
<1>1. /\ phase = "scan" /\ phase' = "done" /\ IsEmpty(query) /\ method \notin {"exists", "count"}
      /\ rows' = IF method = "select" THEN <<>> ELSE <<0, None, None, None, None>>
      /\ UNCHANGED <<todo, matching, tuples>> /\ Same
  BY DEF AnswersNothing, Runs
<1>2. Inputs /\ TypeOK
  BY DEF IInv
<1>3. Chosen = {} /\ Chosen' = {} /\ Inputs' /\ query' = query /\ method' = method
  BY <1>1, <1>2, InputsAreFit, SameInputs
<1>4. ToSet(matching) = {} /\ DOMAIN matching = {}
  BY <1>1, <1>3, ScannedPart DEF ToSet
<1>5. TypeOK'
  BY <1>1, <1>2, SameInputs DEF TypeOK
<1>6. Built' = Built /\ DOMAIN Built = {}
  BY <1>1, <1>4, SameInputs DEF Built
<1>7. ToSet(matching)' = {} /\ ToSet(Built)' = {} /\ KeysDiffer(matching)'
  BY <1>1, <1>4, <1>6 DEF ToSet, KeysDiffer
<1>8. EachRowOnce'
  BY <1>3, <1>7 DEF EachRowOnce
<1>9. DistinctOnce'
  <2>1. CASE method = "select"
    <3>1. rows' = <<>> /\ DOMAIN <<>> = {}
      BY <2>1, <1>1
    <3>2. IsInjective(rows)' /\ ToSet(rows)' = {} /\ \A i \in DOMAIN rows' : FALSE
      BY <3>1 DEF IsInjective, ToSet
    <3> QED BY <3>2, <1>7 DEF DistinctOnce
  <2>2. CASE method # "select"
    BY <2>2, <1>3 DEF DistinctOnce
  <2> QED BY <2>1, <2>2
<1>10. AnswersAgree'
  <2>1. CASE method = "aggregate"
    <3>1. rows' = <<0, None, None, None, None>>
      BY <1>1, <2>1
    <3>2. Cardinality({}) = 0
      BY FS_EmptySet
    <3>3. rows'[1] = 0 /\ \A k \in 2..5 : rows'[k] = None
      BY <3>1
    <3> QED BY <2>1, <3>2, <3>3, <1>3 DEF AnswersAgree
  <2>2. CASE method # "aggregate"
    BY <2>2, <1>1, <1>3 DEF AnswersAgree
  <2> QED BY <2>1, <2>2
<1>11. Scanning' /\ NothingYet' /\ ScanIsWhole' /\ KeptInKeyOrder' /\ Deduplicating'
  BY <1>1 DEF Scanning, NothingYet, ScanIsWhole, KeptInKeyOrder, Deduplicating
<1> QED BY <1>3, <1>5, <1>8, <1>9, <1>10, <1>11 DEF IInv

LEMMA MatchKeeps ==
  ASSUME IInv, Match
  PROVE  IInv'
<1> DEFINE row == Head(todo)
           hit == RowMatches(query, tabs, row)
           m == Len(Scanned) - Len(todo)
<1>1. /\ phase = "scan" /\ todo # <<>> /\ todo' = Tail(todo) /\ Same
      /\ matching' = IF hit THEN Append(matching, row) ELSE matching
      /\ IF hit /\ method = "exists" THEN phase' = "done" /\ rows' = TRUE
                                     ELSE phase' = "scan" /\ rows' = rows
  BY DEF Match
<1>2. Inputs /\ TypeOK /\ Scanning
  BY DEF IInv
<1>3. /\ Scanned \in Seq(MainRows) /\ KeysRise(Scanned)
      /\ \A r \in MainRows : r.pk \in Int
  BY <1>2, InputsAreFit
<1>4. /\ Scanned' = Scanned /\ MainRows' = MainRows /\ Chosen' = Chosen /\ Inputs'
      /\ query' = query /\ tabs' = tabs /\ method' = method
  BY <1>1, <1>2, SameInputs
<1>5. /\ todo \in Seq(MainRows) /\ matching \in Seq(MainRows) /\ Len(todo) <= Len(Scanned)
      /\ todo = SubSeq(Scanned, Len(Scanned) - Len(todo) + 1, Len(Scanned))
  BY <1>2 DEF TypeOK
<1>6. /\ m \in Nat /\ m + 1 \in DOMAIN Scanned /\ row = Scanned[m + 1]
      /\ Len(Tail(todo)) = Len(todo) - 1
      /\ Len(Scanned) - Len(Tail(todo)) = m + 1
      /\ Tail(todo) = SubSeq(Scanned, m + 2, Len(Scanned))
  BY <1>1, <1>3, <1>5, EndOfList
<1>7. row \in MainRows
  BY <1>3, <1>6
<1>8. TypeOK'
  <2>1. matching' \in Seq(MainRows)
    BY <1>1, <1>5, <1>7
  <2>2. todo' \in Seq(MainRows) /\ Len(todo') <= Len(Scanned)
    BY <1>1, <1>5, <1>6
  <2>3. todo' = SubSeq(Scanned, Len(Scanned) - Len(todo') + 1, Len(Scanned))
    <3>1. m + 2 = Len(Scanned) - Len(todo') + 1
      BY <1>1, <1>6
    <3> QED BY <3>1, <1>1, <1>6
  <2>4. /\ phase' \in {"scan", "done"} /\ method' \in Methods
        /\ phase' = "done" /\ method' = "exists" => rows' \in BOOLEAN
    BY <1>1, <1>2, <1>4 DEF Inputs
  <2> QED BY <2>1, <2>2, <2>3, <2>4, <1>4 DEF TypeOK
<1>9. SeenRows' = SeenRows \cup {row}
  <2>1. SeenRows = {Scanned[i] : i \in 1..m} /\ SeenRows' = {Scanned[i] : i \in 1..(m + 1)}
    BY <1>1, <1>4, <1>6 DEF SeenRows
  <2>2. \A i : i \in 1..(m + 1) <=> i \in 1..m \/ i = m + 1
    BY <1>6
  <2> HIDE DEF m, row
  <2> QED BY <2>1, <2>2, <1>6
<1>10. ToSet(matching)' = {r \in SeenRows' : RowMatches(query', tabs', r)}
  <2>1. ToSet(matching) = {r \in SeenRows : RowMatches(query, tabs, r)}
    BY <1>1, <1>2 DEF Scanning
  <2>2. ToSet(matching)' = IF hit THEN ToSet(matching) \cup {row} ELSE ToSet(matching)
    BY <1>1, <1>5, SetOfAppended
  <2> QED BY <2>1, <2>2, <1>4, <1>9
<1>11. KeysRise(matching)'
  <2>1. KeysRise(matching) /\ ToSet(matching) \subseteq SeenRows
    BY <1>1, <1>2 DEF Scanning
  <2>2. \A r \in SeenRows : r.pk < row.pk
    <3>1. \A i \in 1..m : i \in DOMAIN Scanned /\ i < m + 1
      BY <1>3, <1>6
    <3>2. \A i \in 1..m : Scanned[i].pk < Scanned[m + 1].pk
      BY <3>1, <1>3, <1>6 DEF KeysRise
    <3> QED BY <3>2, <1>6 DEF SeenRows
  <2>3. CASE ~hit
    BY <2>1, <2>3, <1>1
  <2>4. CASE hit
    <3> DEFINE n == Len(matching)
    <3>1. /\ DOMAIN matching = 1..n /\ n \in Nat
          /\ DOMAIN matching' = 1..(n + 1)
          /\ \A i \in 1..n : matching'[i] = matching[i]
          /\ matching'[n + 1] = row
      BY <2>4, <1>1, <1>5
    <3>2. \A i \in 1..n : matching[i] \in SeenRows
      BY <2>1, <3>1 DEF ToSet
    <3> HIDE DEF n, row
    <3>3. ASSUME NEW i \in 1..(n + 1), NEW j \in 1..(n + 1), i < j
          PROVE  matching'[i].pk < matching'[j].pk
      <4>1. i \in 1..n
        BY <3>1, <3>3
      <4>2. CASE j \in 1..n
        BY <4>1, <4>2, <3>1, <3>3, <2>1 DEF KeysRise
      <4>3. CASE j = n + 1
        BY <4>1, <4>3, <3>1, <3>2, <2>2
      <4> QED BY <4>2, <4>3, <3>1, <3>3
    <3> QED BY <3>1, <3>3 DEF KeysRise
  <2> QED BY <2>3, <2>4
<1>12. CASE hit /\ method = "exists"
  <2>1. phase' = "done" /\ rows' = TRUE
    BY <1>1, <1>12
  <2>2. row \in Chosen
    BY <1>7, <1>12 DEF Chosen
  <2>3. AnswersAgree'
    BY <2>1, <2>2, <1>4, <1>12 DEF AnswersAgree
  <2>4. /\ Scanning' /\ NothingYet' /\ ScanIsWhole' /\ KeptInKeyOrder' /\ EachRowOnce'
        /\ Deduplicating'
        /\ DistinctOnce'
    BY <2>1, <1>4, <1>12 DEF Scanning, NothingYet, ScanIsWhole, KeptInKeyOrder, EachRowOnce,
       Deduplicating, DistinctOnce
  <2> QED BY <2>3, <2>4, <1>4, <1>8 DEF IInv
<1>13. CASE ~(hit /\ method = "exists")
  <2>1. phase' = "scan" /\ rows' = rows
    BY <1>1, <1>13
  <2>2. Scanning'
    <3>1. method = "exists" => matching' = <<>>
      BY <1>1, <1>2, <1>13 DEF Scanning
    <3> QED BY <2>1, <3>1, <1>1, <1>2, <1>4, <1>10, <1>11 DEF Scanning
  <2>3. /\ NothingYet' /\ ScanIsWhole' /\ KeptInKeyOrder' /\ EachRowOnce' /\ Deduplicating'
        /\ DistinctOnce' /\ AnswersAgree'
    BY <2>1, <1>1 DEF IInv, NothingYet, ScanIsWhole, KeptInKeyOrder, EachRowOnce, Deduplicating,
       DistinctOnce, AnswersAgree
  <2> QED BY <2>2, <2>3, <1>4, <1>8 DEF IInv
<1> QED BY <1>12, <1>13

LEMMA ScanEndsKeeps ==
  ASSUME IInv, ScanEnds
  PROVE  IInv'
<1>1. /\ phase = "scan" /\ todo = <<>> /\ UNCHANGED <<todo, matching, tuples>> /\ Same
      /\ CASE method \in {"select", "count"} -> phase' = "order" /\ UNCHANGED rows
           [] method = "exists"              -> phase' = "done" /\ rows' = FALSE
           [] method = "aggregate"           -> phase' = "build" /\ UNCHANGED rows
  BY DEF ScanEnds
<1>2. Inputs /\ TypeOK /\ Scanning /\ NothingYet
             /\ method \in {"select", "exists", "count", "aggregate"}
  BY PlanConstants DEF IInv, Inputs
<1>3. /\ Scanned' = Scanned /\ MainRows' = MainRows /\ Chosen' = Chosen /\ Inputs'
      /\ query' = query /\ tabs' = tabs /\ method' = method
  BY <1>1, <1>2, SameInputs
<1>4. /\ ToSet(matching) = Chosen /\ KeysRise(matching) /\ KeysDiffer(matching)
  BY <1>1, ScannedPart
<1>5. /\ method \in {"select", "count"} => phase' = "order"
      /\ method = "exists" => phase' = "done" /\ rows' = FALSE
      /\ method = "aggregate" => phase' = "build"
      /\ method # "exists" => rows' = rows
  BY <1>1, <1>2
<1>6. TypeOK'
  BY <1>1, <1>2, <1>3, <1>5 DEF TypeOK
<1>7. ToSet(matching)' = Chosen /\ KeysRise(matching)' /\ KeysDiffer(matching)'
  BY <1>1, <1>4
<1>8. AnswersAgree'
  <2>1. method = "exists" => Chosen = {}
    BY <1>1, <1>2, <1>4 DEF Scanning, ToSet
  <2> QED BY <2>1, <1>2, <1>3, <1>5 DEF AnswersAgree
<1>9. Scanning' /\ NothingYet'
  BY <1>1, <1>2, <1>5 DEF Scanning, NothingYet
<1>10. ScanIsWhole' /\ KeptInKeyOrder' /\ EachRowOnce'
  BY <1>3, <1>5, <1>7 DEF ScanIsWhole, KeptInKeyOrder, EachRowOnce
<1>11. Deduplicating' /\ DistinctOnce'
  BY <1>2, <1>3, <1>5 DEF Deduplicating, DistinctOnce
<1> QED BY <1>3, <1>6, <1>8, <1>9, <1>10, <1>11 DEF IInv

(* The rows kept so far are rows of the table, which can be compared.      *)
LEMMA MatchingIsRanked ==
  ASSUME Inputs, TypeOK
  PROVE  /\ Ranked(Len(matching), matching, Effective)
         /\ DOMAIN matching = 1..Len(matching) /\ Len(matching) \in Nat
         /\ \A i \in DOMAIN matching : matching[i] \in MainRows /\ matching[i].pk \in Int
         /\ \E n \in Nat : DOMAIN query.order = 1..n
<1>1. matching \in Seq(MainRows)
  BY DEF TypeOK
<1>2. /\ \A r \in MainRows : r.pk \in Int /\ Comparable(r)
      /\ query.order \in Seq(ToSet(query.order))
  BY InputsAreFit
<1>3. DOMAIN query.order = 1..Len(query.order) /\ Len(query.order) \in Nat
  BY <1>2
<1>4. DOMAIN matching = 1..Len(matching) /\ Len(matching) \in Nat
  BY <1>1
<1>5. \A i \in DOMAIN matching : matching[i] \in MainRows
  BY <1>1
<1>6. DOMAIN Effective \subseteq Nat
  BY <1>3 DEF Effective
<1> QED BY <1>2, <1>3, <1>4, <1>5, <1>6 DEF Ranked

LEMMA ApplyOrderingKeeps ==
  ASSUME IInv, ApplyOrdering
  PROVE  IInv'
<1> DEFINE n == Len(matching)
<1>1. /\ phase = "order" /\ matching' = Sorted(matching, Effective) /\ phase' = "slice"
      /\ UNCHANGED <<todo, tuples, rows>> /\ Same
  BY DEF ApplyOrdering, Arranged, Effective
<1>2. /\ Inputs /\ TypeOK /\ method \in {"select", "count"}
      /\ ToSet(matching) = Chosen /\ KeysDiffer(matching) /\ NothingYet
  BY <1>1 DEF IInv, TypeOK, ScanIsWhole, EachRowOnce
<1>3. /\ Scanned' = Scanned /\ MainRows' = MainRows /\ Chosen' = Chosen /\ Inputs'
      /\ query' = query /\ tabs' = tabs /\ method' = method
  BY <1>1, <1>2, SameInputs
<1>4. /\ Ranked(n, matching, Effective) /\ DOMAIN matching = 1..n /\ n \in Nat
      /\ \A i \in DOMAIN matching : matching[i] \in MainRows
  BY <1>2, MatchingIsRanked
<1>5. PICK p \in [1..n -> 1..n] :
        /\ Sorted(matching, Effective) = [k \in 1..n |-> matching[p[k]]]
        /\ \A i \in 1..n : \E k \in 1..n : p[k] = i
        /\ \A j, k \in 1..n : j < k => Before(matching, Effective, p[j], p[k])
  BY <1>4, SortedIsRenumbered
<1>6. \A i \in 1..n : ~Before(matching, Effective, i, i)
  BY <1>4, BeforeIsTotal
<1>7. DOMAIN matching' = 1..n /\ \A k \in 1..n : matching'[k] = matching[p[k]]
  BY <1>1, <1>5
<1>8. matching' \in Seq(MainRows)
  <2>1. matching' \in [1..n -> MainRows]
    BY <1>1, <1>4, <1>5
  <2> QED BY <2>1, <1>4
<1>9. ToSet(matching)' = Chosen
  <2>1. ToSet(matching) = {matching[i] : i \in 1..n}
    BY <1>4 DEF ToSet
  <2>2. ToSet(matching)' = {matching[p[k]] : k \in 1..n}
    BY <1>7 DEF ToSet
  <2>3. \A k \in 1..n : p[k] \in 1..n
    BY <1>5
  <2>4. \A i \in 1..n : \E k \in 1..n : matching[i] = matching[p[k]]
    BY <1>5
  <2> HIDE DEF n
  <2>5. ToSet(matching)' = ToSet(matching)
    BY <2>1, <2>2, <2>3, <2>4
  <2> QED BY <2>5, <1>2
<1>10. KeysDiffer(matching)'
  <2>1. ASSUME NEW j \in 1..n, NEW k \in 1..n, j # k
        PROVE  matching'[j].pk # matching'[k].pk
    <3>1. j < k \/ k < j
      BY <1>4, <2>1
    <3>2. p[j] # p[k] /\ p[j] \in 1..n /\ p[k] \in 1..n
      BY <3>1, <1>5, <1>6
    <3> QED BY <3>2, <1>2, <1>4, <1>7 DEF KeysDiffer
  <2> QED BY <2>1, <1>7 DEF KeysDiffer
<1>11. TypeOK'
  BY <1>1, <1>2, <1>3, <1>8 DEF TypeOK
<1>12. /\ Scanning' /\ NothingYet' /\ ScanIsWhole' /\ KeptInKeyOrder' /\ EachRowOnce'
       /\ Deduplicating'
       /\ DistinctOnce' /\ AnswersAgree'
  BY <1>1, <1>2, <1>3, <1>9, <1>10 DEF Scanning, NothingYet, ScanIsWhole, KeptInKeyOrder,
     EachRowOnce, Deduplicating, DistinctOnce, AnswersAgree
<1> QED BY <1>3, <1>11, <1>12 DEF IInv

LEMMA SliceKeeps ==
  ASSUME IInv, Slice
  PROVE  IInv'
<1>1. /\ phase = "slice" /\ matching' = Sliced(matching, query.low, query.high)
      /\ phase' = "build" /\ UNCHANGED <<todo, tuples, rows>> /\ Same
  BY DEF Slice
<1>2. /\ Inputs /\ TypeOK /\ method \in {"select", "count"}
      /\ ToSet(matching) = Chosen /\ KeysDiffer(matching) /\ NothingYet
      /\ matching \in Seq(MainRows)
  BY <1>1 DEF IInv, TypeOK, ScanIsWhole, EachRowOnce
<1>3. /\ Scanned' = Scanned /\ MainRows' = MainRows /\ Chosen' = Chosen /\ Inputs'
      /\ query' = query /\ tabs' = tabs /\ method' = method
  BY <1>1, <1>2, SameInputs
<1>4. query.low \in Nat /\ query.high \in (Nat \ {0}) \cup {None}
  BY <1>2, InputsAreFit
<1>5. /\ matching' \in Seq(MainRows)
      /\ \A i \in DOMAIN matching' :
           query.low + i \in DOMAIN matching /\ matching'[i] = matching[query.low + i]
      /\ query.low = 0 /\ query.high = None => matching' = matching
  BY <1>1, <1>2, <1>4, SliceIsAPart
<1>6. ToSet(matching)' \subseteq Chosen
  BY <1>2, <1>5 DEF ToSet
<1>7. KeysDiffer(matching)'
  <2>1. ASSUME NEW i \in DOMAIN matching', NEW j \in DOMAIN matching', i # j
        PROVE  matching'[i].pk # matching'[j].pk
    <3>1. i \in Nat /\ j \in Nat
      BY <1>5
    <3>2. query.low + i # query.low + j
      BY <3>1, <2>1, <1>4
    <3> QED BY <3>2, <1>2, <1>5 DEF KeysDiffer
  <2> QED BY <2>1 DEF KeysDiffer
<1>8. query.low = 0 /\ query.high = None => ToSet(matching)' = Chosen
  BY <1>2, <1>5
<1>9. TypeOK'
  BY <1>1, <1>2, <1>3, <1>5 DEF TypeOK
<1>10. /\ Scanning' /\ NothingYet' /\ ScanIsWhole' /\ KeptInKeyOrder' /\ EachRowOnce'
       /\ Deduplicating'
       /\ DistinctOnce' /\ AnswersAgree'
  BY <1>1, <1>2, <1>3, <1>6, <1>7, <1>8 DEF Scanning, NothingYet, ScanIsWhole, KeptInKeyOrder,
     EachRowOnce, Deduplicating, DistinctOnce, AnswersAgree
<1> QED BY <1>3, <1>9, <1>10 DEF IInv

LEMMA BuiltIsAList ==
  ASSUME Inputs, TypeOK
  PROVE  /\ DOMAIN Built = 1..Len(matching) /\ Len(Built) = Len(matching)
         /\ Built \in Seq(ToSet(Built)) /\ SubSeq(Built, 1, Len(Built)) = Built
<1>1. DOMAIN matching = 1..Len(matching) /\ Len(matching) \in Nat
  BY MatchingIsRanked
<1>2. Built = [i \in 1..Len(matching) |-> RowTuple(matching[i])]
  BY <1>1 DEF Built
<1>3. Built \in [1..Len(matching) -> ToSet(Built)]
  BY <1>2 DEF ToSet
<1>4. Built \in Seq(ToSet(Built))
  BY <1>1, <1>3
<1>5. DOMAIN Built = 1..Len(matching) /\ Len(Built) = Len(matching)
  BY <1>1, <1>2
<1>6. SubSeq(Built, 1, Len(Built)) = Built
  BY <1>4
<1> QED BY <1>4, <1>5, <1>6

LEMMA BuildRowsKeeps ==
  ASSUME IInv, BuildRows
  PROVE  IInv'
<1>1. /\ phase = "build" /\ method = "select" /\ UNCHANGED <<todo, matching>> /\ Same
      /\ IF query.distinct /\ Built # <<>>
         THEN phase' = "distinct" /\ tuples' = Built /\ rows' = rows
         ELSE phase' = "done" /\ rows' = Built /\ tuples' = tuples
  BY DEF BuildRows
<1>2. Inputs /\ TypeOK /\ EachRowOnce /\ rows = <<>>
  BY <1>1 DEF IInv, NothingYet
<1>3. /\ Scanned' = Scanned /\ MainRows' = MainRows /\ Chosen' = Chosen /\ Inputs'
      /\ query' = query /\ tabs' = tabs /\ method' = method /\ Built' = Built
  BY <1>1, <1>2, SameInputs
<1>4. EachRowOnce'
  BY <1>1, <1>2, <1>3 DEF EachRowOnce, KeysDiffer, ToSet
<1>5. /\ Scanning' /\ NothingYet' /\ ScanIsWhole' /\ KeptInKeyOrder' /\ AnswersAgree'
  BY <1>1, <1>3 DEF Scanning, NothingYet, ScanIsWhole, KeptInKeyOrder, AnswersAgree
<1>6. CASE query.distinct /\ Built # <<>>
  <2>1. phase' = "distinct" /\ tuples' = Built /\ rows' = <<>>
    BY <1>1, <1>2, <1>6
  <2>2. TypeOK'
    BY <2>1, <1>1, <1>2, <1>3, <1>6 DEF TypeOK
  <2>3. Firsts(0)'
    <3>1. rows' \in Seq(ToSet(Built')) /\ DOMAIN rows' = {} /\ ToSet(rows') = {}
      BY <2>1 DEF ToSet
    <3>2. 1..0 = {}
      OBVIOUS
    <3> QED BY <3>1, <3>2 DEF Firsts, IsInjective
  <2>4. Deduplicating'
    <3>1. /\ Built \in Seq(ToSet(Built)) /\ SubSeq(Built, 1, Len(Built)) = Built
          /\ Len(Built) \in Nat /\ Len(Built) - Len(Built) = 0
      BY <1>2, BuiltIsAList
    <3>2. Firsts(Len(Built) - Len(tuples))'
      BY <2>1, <2>3, <3>1, <1>3
    <3> QED BY <2>1, <3>1, <3>2, <1>3 DEF Deduplicating
  <2>5. DistinctOnce'
    BY <2>1 DEF DistinctOnce
  <2> QED BY <2>2, <2>4, <2>5, <1>3, <1>4, <1>5 DEF IInv
<1>7. CASE ~(query.distinct /\ Built # <<>>)
  <2>1. phase' = "done" /\ rows' = Built
    BY <1>1, <1>7
  <2>2. TypeOK'
    BY <2>1, <1>1, <1>2, <1>3 DEF TypeOK
  <2>3. DistinctOnce'
    <3>1. query.distinct => rows' = <<>> /\ Built' = <<>>
      BY <2>1, <1>3, <1>7
    <3>2. DOMAIN <<>> = {}
      OBVIOUS
    <3> QED BY <3>1, <3>2, <1>3 DEF DistinctOnce, IsInjective, ToSet
  <2>4. Deduplicating'
    BY <2>1 DEF Deduplicating
  <2> QED BY <2>2, <2>3, <2>4, <1>3, <1>4, <1>5 DEF IInv
<1> QED BY <1>6, <1>7

(* One more tuple is looked at.                                            *)
LEMMA FirstsGrow ==
  ASSUME NEW m \in Nat, Firsts(m), Built' = Built, m + 1 \in DOMAIN Built,
         rows' = IF Seen(Built[m + 1]) THEN rows ELSE Append(rows, Built[m + 1])
  PROVE  Firsts(m + 1)'
<1> DEFINE t == Built[m + 1]
<1>1. /\ rows \in Seq(ToSet(Built)) /\ IsInjective(rows)
      /\ ToSet(rows) = {Built[k] : k \in 1..m}
      /\ \A i, j \in DOMAIN rows : i < j =>
           \E k \in 1..m : Built[k] = rows[i] /\ \A l \in 1..k : Built[l] # rows[j]
  BY DEF Firsts
<1>2. t \in ToSet(Built)
  BY DEF ToSet
<1>3. \A k : k \in 1..(m + 1) <=> k \in 1..m \/ k = m + 1
  OBVIOUS
<1>4. {Built[k] : k \in 1..(m + 1)} = ToSet(rows) \cup {t}
  BY <1>1, <1>3
<1>5. CASE t \in ToSet(rows)
  <2>1. rows' = rows
    BY <1>5 DEF Seen
  <2>2. {Built[k] : k \in 1..(m + 1)} = ToSet(rows)
    BY <1>4, <1>5
  <2>3. \A i, j \in DOMAIN rows : i < j =>
          \E k \in 1..(m + 1) : Built[k] = rows[i] /\ \A l \in 1..k : Built[l] # rows[j]
    BY <1>1, <1>3
  <2>4. ToSet(rows)' = {Built'[k] : k \in 1..(m + 1)}
    BY <2>1, <2>2
  <2>5. IsInjective(rows)' /\ rows' \in Seq(ToSet(Built'))
    BY <2>1, <1>1
  <2>6. \A i, j \in DOMAIN rows' : i < j =>
          \E k \in 1..(m + 1) : Built'[k] = rows'[i] /\ \A l \in 1..k : Built'[l] # rows'[j]
    BY <2>1, <2>3
  <2> QED BY <2>4, <2>5, <2>6 DEF Firsts
<1>6. CASE t \notin ToSet(rows)
  <2> DEFINE n == Len(rows)
  <2>1. rows' = Append(rows, t)
    BY <1>6 DEF Seen
  <2>2. /\ n \in Nat /\ DOMAIN rows = 1..n /\ DOMAIN rows' = 1..(n + 1)
        /\ \A i \in 1..n : rows'[i] = rows[i]
        /\ rows'[n + 1] = t
        /\ \A i : i \in 1..(n + 1) <=> i \in 1..n \/ i = n + 1
    BY <2>1, <1>1
  <2>3. rows' \in Seq(ToSet(Built'))
    BY <2>1, <1>1, <1>2
  <2>4. ToSet(rows)' = {Built'[k] : k \in 1..(m + 1)}
    BY <2>1, <1>1, <1>4, SetOfAppended
  <2>5. \A i \in 1..n : rows[i] \in ToSet(rows)
    BY <2>2 DEF ToSet
  <2> HIDE DEF n, t
  <2>6. IsInjective(rows)'
    <3>1. \A i, j \in 1..n : rows[i] = rows[j] => i = j
      BY <1>1, <2>2 DEF IsInjective
    <3>2. \A i \in 1..n : rows'[i] # t
      BY <2>2, <2>5, <1>6
    <3>3. \A i, j \in 1..(n + 1) : rows'[i] = rows'[j] => i = j
      BY <3>1, <3>2, <2>2
    <3> QED BY <3>3, <2>2 DEF IsInjective
  <2>7. ASSUME NEW i \in 1..(n + 1), NEW j \in 1..(n + 1), i < j
        PROVE  \E k \in 1..(m + 1) : Built[k] = rows'[i] /\ \A l \in 1..k : Built[l] # rows'[j]
    <3>1. i \in 1..n
      BY <2>2, <2>7
    <3>2. CASE j \in 1..n
      <4>1. \E k \in 1..m : Built[k] = rows[i] /\ \A l \in 1..k : Built[l] # rows[j]
        BY <3>1, <3>2, <2>2, <2>7, <1>1
      <4> QED BY <4>1, <3>1, <3>2, <2>2, <1>3
    <3>3. CASE j = n + 1
      <4>1. PICK k \in 1..m : Built[k] = rows[i]
        BY <3>1, <2>5, <1>1
      <4>2. \A l \in 1..k : l \in 1..m
        OBVIOUS
      <4>3. \A l \in 1..k : Built[l] # t
        BY <4>2, <1>1, <1>6
      <4> QED BY <4>1, <4>3, <3>1, <3>3, <2>2, <1>3
    <3> QED BY <3>2, <3>3, <2>2
  <2>8. \A i, j \in DOMAIN rows' : i < j =>
          \E k \in 1..(m + 1) : Built'[k] = rows'[i] /\ \A l \in 1..k : Built'[l] # rows'[j]
    BY <2>2, <2>7
  <2> QED BY <2>3, <2>4, <2>6, <2>8 DEF Firsts
<1> QED BY <1>5, <1>6

LEMMA DistinctKeeps ==
  ASSUME IInv, Distinct
  PROVE  IInv'
<1>1. /\ phase = "distinct" /\ tuples' = Tail(tuples) /\ UNCHANGED <<todo, matching>> /\ Same
      /\ rows' = IF Seen(Head(tuples)) THEN rows ELSE Append(rows, Head(tuples))
      /\ phase' = IF Tail(tuples) = <<>> THEN "done" ELSE "distinct"
  BY DEF Distinct
<1>2. /\ Inputs /\ TypeOK /\ EachRowOnce /\ Deduplicating
      /\ method = "select" /\ tuples # <<>>
  BY <1>1 DEF IInv, TypeOK
<1>3. /\ Scanned' = Scanned /\ MainRows' = MainRows /\ Chosen' = Chosen /\ Inputs'
      /\ query' = query /\ tabs' = tabs /\ method' = method /\ Built' = Built
  BY <1>1, <1>2, SameInputs
<1>4. /\ Built \in Seq(ToSet(Built)) /\ DOMAIN Built = 1..Len(Built) /\ Len(Built) \in Nat
  BY <1>2, BuiltIsAList
<1>5. /\ tuples \in Seq(ToSet(Built)) /\ Len(tuples) <= Len(Built)
      /\ tuples = SubSeq(Built, Len(Built) - Len(tuples) + 1, Len(Built))
      /\ Firsts(Len(Built) - Len(tuples))
  BY <1>1, <1>2 DEF Deduplicating
<1>l. Len(tuples) \in Nat /\ Len(Built) \in Nat /\ Len(tuples) <= Len(Built)
  BY <1>4, <1>5
<1>m. PICK m \in Nat : m = Len(Built) - Len(tuples)
  BY <1>l
<1>6. /\ m + 1 \in DOMAIN Built
      /\ Head(tuples) = Built[m + 1]
      /\ Len(Tail(tuples)) = Len(tuples) - 1
      /\ Len(Built) - Len(Tail(tuples)) = m + 1
      /\ Tail(tuples) = SubSeq(Built, m + 2, Len(Built))
  BY <1>2, <1>4, <1>5, <1>m, EndOfList
<1>7. rows' = IF Seen(Built[m + 1]) THEN rows ELSE Append(rows, Built[m + 1])
  BY <1>1, <1>6
<1>8. Tail(tuples) \in Seq(ToSet(Built))
  BY <1>2, <1>5
<1>9. Firsts(m + 1)'
  BY <1>3, <1>5, <1>6, <1>7, <1>m, FirstsGrow
<1>10. EachRowOnce'
  BY <1>1, <1>2, <1>3 DEF EachRowOnce, KeysDiffer, ToSet
<1>11. TypeOK'
  BY <1>1, <1>2, <1>3 DEF TypeOK
<1>12. /\ Scanning' /\ NothingYet' /\ ScanIsWhole' /\ KeptInKeyOrder' /\ AnswersAgree'
  BY <1>1, <1>2, <1>3 DEF Scanning, NothingYet, ScanIsWhole, KeptInKeyOrder, AnswersAgree
<1>13. Deduplicating'
  <2>1. Len(tuples') <= Len(Built)
    BY <1>1, <1>5, <1>6
  <2>2. m + 2 = Len(Built) - Len(tuples') + 1
    <3>1. \A a : a = m + 1 => m + 2 = a + 1
      OBVIOUS
    <3> QED BY <3>1, <1>1, <1>6
  <2>3. tuples' = SubSeq(Built', Len(Built') - Len(tuples') + 1, Len(Built'))
    BY <2>2, <1>1, <1>3, <1>6
  <2>4. Firsts(Len(Built) - Len(tuples))'
    BY <1>1, <1>3, <1>6, <1>9
  <2> QED BY <2>1, <2>3, <2>4, <1>1, <1>3, <1>8 DEF Deduplicating
<1>14. DistinctOnce'
  <2> SUFFICES ASSUME phase' = "done" PROVE DistinctOnce'
    BY DEF DistinctOnce
  <2>1. Tail(tuples) = <<>>
    BY <1>1
  <2>2. m + 1 = Len(Built)
    <3>1. Len(<<>>) = 0
      OBVIOUS
    <3>2. Len(Tail(tuples)) = 0
      BY <2>1, <3>1
    <3>3. Len(Built) - Len(Tail(tuples)) = m + 1 /\ Len(Built) \in Nat
      BY <1>4, <1>6
    <3>4. \A b \in Nat : b - 0 = b
      OBVIOUS
    <3> QED BY <3>2, <3>3, <3>4
  <2>3. 1..(m + 1) = DOMAIN Built'
    BY <2>2, <1>3, <1>4
  <2>4. ToSet(Built)' = {Built'[k] : k \in 1..(m + 1)}
    BY <2>3 DEF ToSet
  <2> QED BY <2>3, <2>4, <1>9 DEF DistinctOnce, Firsts
<1> QED BY <1>3, <1>10, <1>11, <1>12, <1>13, <1>14 DEF IInv

(* Rows whose keys differ are as many as their keys.                       *)
LEMMA KeysCounted ==
  ASSUME NEW n \in Nat, NEW seq, DOMAIN seq = 1..n, KeysDiffer(seq)
  PROVE  /\ Cardinality({seq[i].pk : i \in DOMAIN seq}) = n
         /\ Cardinality(ToSet(seq)) = n
<1>1. IsFiniteSet(1..n) /\ Cardinality(1..n) = n
  BY FS_Interval
<1>2. \A i, j \in 1..n : i # j => seq[i].pk # seq[j].pk
  BY DEF KeysDiffer
<1> DEFINE keys == [i \in 1..n |-> seq[i].pk]
           K == {seq[i].pk : i \in 1..n}
           items == [i \in 1..n |-> seq[i]]
           T == {seq[i] : i \in 1..n}
<1>3. keys \in [1..n -> K] /\ items \in [1..n -> T]
  OBVIOUS
<1>4. \A i, j \in 1..n : (keys[i] = keys[j] \/ items[i] = items[j]) => i = j
  BY <1>2
<1>5. \A k \in K : \E i \in 1..n : keys[i] = k
  OBVIOUS
<1>6. \A t \in T : \E i \in 1..n : items[i] = t
  OBVIOUS
<1>7. K = {seq[i].pk : i \in DOMAIN seq} /\ T = ToSet(seq)
  BY DEF ToSet
<1> HIDE DEF keys, items, K, T
<1>8. keys \in Surjection(1..n, K) /\ keys \in Injection(1..n, K)
  BY <1>3, <1>4, <1>5 DEF Surjection, Injection, IsInjective
<1>9. items \in Surjection(1..n, T) /\ items \in Injection(1..n, T)
  BY <1>3, <1>4, <1>6 DEF Surjection, Injection, IsInjective
<1>10. Cardinality(K) = n /\ Cardinality(T) = n
  BY <1>1, <1>8, <1>9, FS_Surjection
<1> QED BY <1>7, <1>10

LEMMA CountInnerKeeps ==
  ASSUME IInv, CountInner
  PROVE  IInv'
<1>1. /\ phase = "build" /\ method = "count" /\ phase' = "done"
      /\ UNCHANGED <<todo, matching, tuples>> /\ Same
      /\ rows' = <<Cardinality({matching[i].pk : i \in DOMAIN matching})>>
  BY DEF CountInner
<1>2. Inputs /\ TypeOK /\ EachRowOnce
  BY DEF IInv
<1>3. /\ Scanned' = Scanned /\ MainRows' = MainRows /\ Chosen' = Chosen /\ Inputs'
      /\ query' = query /\ tabs' = tabs /\ method' = method
  BY <1>1, <1>2, SameInputs
<1>4. /\ KeysDiffer(matching)
      /\ query.low = 0 /\ query.high = None => ToSet(matching) = Chosen
  BY <1>1, <1>2 DEF EachRowOnce
<1>5. DOMAIN matching = 1..Len(matching) /\ Len(matching) \in Nat
  BY <1>2, MatchingIsRanked
<1>6. Cardinality({matching[i].pk : i \in DOMAIN matching}) = Cardinality(ToSet(matching))
  BY <1>4, <1>5, KeysCounted
<1>7. query.low = 0 /\ query.high = None => rows'[1] = Cardinality(Chosen)
  BY <1>1, <1>4, <1>6
<1>8. AnswersAgree'
  BY <1>1, <1>3, <1>7 DEF AnswersAgree
<1>9. EachRowOnce'
  BY <1>1, <1>2, <1>3 DEF EachRowOnce, KeysDiffer, ToSet
<1>10. TypeOK'
  BY <1>1, <1>2, <1>3 DEF TypeOK
<1>11. /\ Scanning' /\ NothingYet' /\ ScanIsWhole' /\ KeptInKeyOrder' /\ Deduplicating'
       /\ DistinctOnce'
  BY <1>1, <1>3 DEF Scanning, NothingYet, ScanIsWhole, KeptInKeyOrder, Deduplicating, DistinctOnce
<1> QED BY <1>3, <1>8, <1>9, <1>10, <1>11 DEF IInv

-----------------------------------------------------------------------------
(* Some of the places of a list hold a greatest and a least value, if they *)
(* hold numbers: the places up to m do where those up to m - 1 do.         *)
LEMMA GreatestOf ==
  ASSUME NEW n \in Nat, NEW v, NEW places \in SUBSET (1..n), places # {},
         \A i \in places : v[i] \in Int
  PROVE  \E i \in places : \A j \in places : v[j] <= v[i]
<1> DEFINE HasOne(P) == \E i \in P : \A j \in P : v[j] <= v[i]
           Fails(m) == \E P \in SUBSET places : P # {} /\ P \subseteq 1..m /\ ~HasOne(P)
           bad == {m \in Nat : Fails(m)}
<1>1. SUFFICES ASSUME ~HasOne(places)
               PROVE  FALSE
  OBVIOUS
<1>2. n \in bad
  BY <1>1
<1>3. bad \in SUBSET Nat /\ bad # {}
  BY <1>2
<1>4. PICK m \in bad : \A l \in bad : m <= l
  BY <1>3, LeastOf
<1>5. m \in Nat /\ Fails(m)
  BY <1>4
<1>6. PICK P \in SUBSET places : P # {} /\ P \subseteq 1..m /\ ~HasOne(P)
  BY <1>5
<1>7. m \in P
  <2>1. SUFFICES ASSUME m \notin P
                 PROVE  FALSE
    OBVIOUS
  <2>2. \A i \in P : i \in 1..(m - 1) /\ m - 1 \in Nat
    BY <2>1, <1>5, <1>6
  <2>3. m - 1 \in Nat /\ P \subseteq 1..(m - 1)
    BY <2>2, <1>6
  <2>4. Fails(m - 1)
    BY <2>3, <1>6
  <2>5. m - 1 \in bad
    BY <2>3, <2>4
  <2>6. ~(m <= m - 1)
    BY <1>5
  <2> QED BY <2>5, <2>6, <1>4
<1>8. P \ {m} # {}
  <2>1. ASSUME P \ {m} = {}
        PROVE  FALSE
    <3>1. \A j \in P : j = m
      BY <2>1
    <3>2. v[m] \in Int
      BY <1>6, <1>7
    <3>3. HasOne(P)
      BY <3>1, <3>2, <1>7
    <3> QED BY <3>3, <1>6
  <2> QED BY <2>1
<1>9. \A i \in P \ {m} : i \in 1..(m - 1) /\ m - 1 \in Nat
  BY <1>5, <1>6
<1>10. m - 1 \in Nat /\ P \ {m} \subseteq 1..(m - 1)
  BY <1>8, <1>9
<1>11. HasOne(P \ {m})
  <2>1. ASSUME ~HasOne(P \ {m})
        PROVE  FALSE
    <3>1. P \ {m} \in SUBSET places
      BY <1>6
    <3>2. Fails(m - 1)
      BY <2>1, <3>1, <1>8, <1>10
    <3>3. m - 1 \in bad
      BY <3>2, <1>10
    <3>4. ~(m <= m - 1)
      BY <1>5
    <3> QED BY <3>3, <3>4, <1>4
  <2> QED BY <2>1
<1>12. PICK i \in P \ {m} : \A j \in P \ {m} : v[j] <= v[i]
  BY <1>11
<1>13. v[m] \in Int /\ v[i] \in Int /\ \A j \in P : v[j] \in Int
  BY <1>6, <1>7
<1>14. CASE v[m] <= v[i]
  <2>1. \A j \in P : v[j] <= v[i]
    BY <1>12, <1>14
  <2> QED BY <2>1, <1>6
<1>15. CASE ~(v[m] <= v[i])
  <2>1. v[i] <= v[m]
    BY <1>13, <1>15
  <2>2. \A j \in P \ {m} : v[j] <= v[m]
    BY <2>1, <1>12, <1>13
  <2>3. \A j \in P : v[j] <= v[m]
    BY <2>2, <1>13
  <2> QED BY <2>3, <1>6, <1>7
<1> QED BY <1>14, <1>15

LEMMA ExtremesOf ==
  ASSUME NEW n \in Nat, NEW v, NEW places \in SUBSET (1..n), places # {},
         \A i \in places : v[i] \in Int
  PROVE  LET V == {v[i] : i \in places}
         IN /\ Max(V) \in V /\ Min(V) \in V
            /\ \A x \in V : Min(V) <= x /\ x <= Max(V)
<1> DEFINE V == {v[i] : i \in places}
           w == [i \in places |-> 0 - v[i]]
<1>1. PICK i \in places : \A j \in places : v[j] <= v[i]
  BY GreatestOf
<1>2. \E x \in V : \A y \in V : x >= y
  <2>1. \A j \in places : v[i] >= v[j]
    BY <1>1
  <2> QED BY <2>1
<1>3. Max(V) \in V /\ \A y \in V : Max(V) >= y
  BY <1>2 DEF Max
<1>4. \A k \in places : w[k] = 0 - v[k] /\ w[k] \in Int
  OBVIOUS
<1> HIDE DEF w
<1>5. PICK l \in places : \A j \in places : w[j] <= w[l]
  BY <1>4, GreatestOf
<1>6. \A a, b \in Int : 0 - a <= 0 - b => b <= a
  OBVIOUS
<1>7. \A j \in places : v[l] <= v[j]
  BY <1>4, <1>5, <1>6
<1>8. \E x \in V : \A y \in V : x <= y
  BY <1>7
<1>9. Min(V) \in V /\ \A y \in V : Min(V) <= y
  BY <1>8 DEF Min
<1>10. V \subseteq Int
  OBVIOUS
<1> HIDE DEF V
<1>11. \A y \in V : y <= Max(V)
  BY <1>3, <1>10
<1> QED BY <1>3, <1>9, <1>11 DEF V

LEMMA AggregateKeeps ==
  ASSUME IInv, Aggregate
  PROVE  IInv'
<1> DEFINE source == query.cols[1]
           n == Len(matching)
           values == [i \in DOMAIN matching |-> RowGet(matching[i], source.col)]
           known == {i \in DOMAIN matching : source.fns = <<>> /\ values[i] # None}
           Known == {values[i] : i \in known}
           Answered == {RowGet(r, source.col) : r \in Chosen} \ {None}
           OrNull(v) == IF known = {} THEN None ELSE v
           sum == OrNull(Total(values, known))
           mean == OrNull(<<Total(values, known), Cardinality(known)>>)
<1>1. /\ phase = "build" /\ method = "aggregate" /\ phase' = "done"
      /\ UNCHANGED <<todo, matching, tuples>> /\ Same
      /\ rows' = <<Len(matching), OrNull(Max(Known)), OrNull(Min(Known)), sum, mean>>
  BY DEF Aggregate
<1>2. Inputs /\ TypeOK /\ ToSet(matching) = Chosen /\ KeysRise(matching)
  BY <1>1 DEF IInv, ScanIsWhole, KeptInKeyOrder
<1>3. /\ Scanned' = Scanned /\ MainRows' = MainRows /\ Chosen' = Chosen /\ Inputs'
      /\ query' = query /\ tabs' = tabs /\ method' = method
  BY <1>1, <1>2, SameInputs
<1>4. /\ DOMAIN matching = 1..n /\ n \in Nat
      /\ \A i \in DOMAIN matching : matching[i] \in MainRows /\ matching[i].pk \in Int
  BY <1>2, MatchingIsRanked
<1>5. \A r \in MainRows : Comparable(r)
  BY <1>2, InputsAreFit
<1>6. n = Cardinality(Chosen)
  <2>1. KeysDiffer(matching)
    BY <1>2, <1>4, RisingDiffers
  <2> QED BY <2>1, <1>2, <1>4, KeysCounted
<1>7. rows'[1] = n /\ rows'[2] = OrNull(Max(Known)) /\ rows'[3] = OrNull(Min(Known))
      /\ rows'[4] = sum /\ rows'[5] = mean
  BY <1>1
<1>8. ASSUME source.fns = <<>>
      PROVE  Known = Answered /\ known \in SUBSET (1..n) /\ \A i \in known : values[i] \in Int
  <2>1. ToSet(matching) = {matching[i] : i \in 1..n}
    BY <1>4 DEF ToSet
  <2>2. \A i \in 1..n : values[i] = RowGet(matching[i], source.col)
    BY <1>4
  <2>3. \A i : i \in known <=> i \in 1..n /\ values[i] # None
    BY <1>4, <1>8
  <2>4. \A i \in 1..n : values[i] \in Int \cup {None}
    BY <2>2, <1>4, <1>5 DEF Comparable
  <2> HIDE DEF values, known, n
  <2>5. Answered = {RowGet(matching[i], source.col) : i \in 1..n} \ {None}
    BY <2>1, <1>2
  <2>6. Known = Answered
    BY <2>2, <2>3, <2>5
  <2> QED BY <2>3, <2>4, <2>6
<1>9. ASSUME source.fns = <<>>, known = {}
      PROVE  Answered = {} /\ \A k \in 2..5 : rows'[k] = None
  <2>1. Answered = {}
    BY <1>8, <1>9
  <2>2. rows'[2] = None /\ rows'[3] = None /\ rows'[4] = None /\ rows'[5] = None
    BY <1>7, <1>9
  <2>3. \A k \in 2..5 : k = 2 \/ k = 3 \/ k = 4 \/ k = 5
    OBVIOUS
  <2> QED BY <2>1, <2>2, <2>3
<1>10. ASSUME source.fns = <<>>, known # {}
       PROVE  /\ Answered # {} /\ rows'[2] \in Answered /\ rows'[3] \in Answered
              /\ \A v \in Answered : rows'[3] <= v /\ v <= rows'[2]
  <2>1. Known = Answered /\ Known # {}
    BY <1>8, <1>10
  <2>2. known \in SUBSET (1..n) /\ \A i \in known : values[i] \in Int
    BY <1>8, <1>10
  <2>3. rows'[2] = Max(Known) /\ rows'[3] = Min(Known)
    BY <1>7, <1>10
  <2>4. /\ Max(Known) \in Known /\ Min(Known) \in Known
        /\ \A x \in Known : Min(Known) <= x /\ x <= Max(Known)
    <3> HIDE DEF values, known, n
    <3> QED BY <2>2, <1>4, <1>10, ExtremesOf
  <2> QED BY <2>1, <2>3, <2>4
<1>11. AnswersAgree'
  <2> HIDE DEF values, known, n, Known, sum, mean, OrNull
  <2>1. /\ source.fns = <<>> /\ Answered = {} => \A k \in 2..5 : rows'[k] = None
        /\ source.fns = <<>> /\ Answered # {} =>
             /\ rows'[2] \in Answered /\ rows'[3] \in Answered
             /\ \A v \in Answered : rows'[3] <= v /\ v <= rows'[2]
    BY <1>9, <1>10
  <2>2. rows'[1] = Cardinality(Chosen)
    BY <1>6, <1>7
  <2> QED BY <2>1, <2>2, <1>1, <1>3 DEF AnswersAgree
<1>12. TypeOK'
  BY <1>1, <1>2, <1>3 DEF TypeOK
<1>13. /\ Scanning' /\ NothingYet' /\ ScanIsWhole' /\ KeptInKeyOrder' /\ EachRowOnce'
       /\ Deduplicating' /\ DistinctOnce'
  BY <1>1, <1>3 DEF Scanning, NothingYet, ScanIsWhole, KeptInKeyOrder, EachRowOnce, Deduplicating,
     DistinctOnce
<1> QED BY <1>3, <1>11, <1>12, <1>13 DEF IInv

LEMMA StutterKeeps ==
  ASSUME IInv, UNCHANGED vars
  PROVE  IInv'
<1>1. /\ UNCHANGED <<phase, todo, matching, tuples, rows>> /\ Same
  BY DEF vars, Same
<1>2. /\ Scanned' = Scanned /\ MainRows' = MainRows /\ Chosen' = Chosen /\ Inputs' <=> Inputs
      /\ query' = query /\ tabs' = tabs /\ method' = method /\ Built' = Built
  BY <1>1, SameInputs
<1>3. TypeOK' /\ Scanning' /\ NothingYet' /\ Inputs'
  BY <1>1, <1>2 DEF IInv, TypeOK, Scanning, NothingYet, SeenRows, KeysRise, ToSet
<1>4. ScanIsWhole' /\ KeptInKeyOrder' /\ EachRowOnce'
  BY <1>1, <1>2 DEF IInv, ScanIsWhole, KeptInKeyOrder, EachRowOnce, KeysRise, KeysDiffer, ToSet
<1>5. Deduplicating'
  <2>1. Deduplicating' <=> Deduplicating
    BY <1>1, <1>2 DEF Deduplicating, Firsts
  <2> QED BY <2>1 DEF IInv
<1>7. DistinctOnce'
  <2>1. DistinctOnce' <=> DistinctOnce
    BY <1>1, <1>2 DEF DistinctOnce
  <2> QED BY <2>1 DEF IInv
<1>6. AnswersAgree'
  BY <1>1, <1>2 DEF IInv, AnswersAgree
<1> QED BY <1>3, <1>4, <1>5, <1>6, <1>7 DEF IInv

LEMMA StepKeeps == IInv /\ [Next]_vars => IInv'
<1> SUFFICES ASSUME IInv, [Next]_vars PROVE IInv'
  OBVIOUS
<1>1. CASE AnswersNothing BY <1>1, AnswersNothingKeeps
<1>2. CASE Match BY <1>2, MatchKeeps
<1>3. CASE ScanEnds BY <1>3, ScanEndsKeeps
<1>4. CASE ApplyOrdering BY <1>4, ApplyOrderingKeeps
<1>5. CASE Slice BY <1>5, SliceKeeps
<1>6. CASE BuildRows BY <1>6, BuildRowsKeeps
<1>7. CASE Distinct BY <1>7, DistinctKeeps
<1>8. CASE CountInner BY <1>8, CountInnerKeeps
<1>9. CASE Aggregate BY <1>9, AggregateKeeps
<1>10. CASE UNCHANGED vars BY <1>10, StutterKeeps
<1> QED BY <1>1, <1>2, <1>3, <1>4, <1>5, <1>6, <1>7, <1>8, <1>9, <1>10 DEF Next

LEMMA Invariant == Spec => []IInv
<1>1. Init => IInv
  BY InitHolds
<1>2. IInv /\ [Next]_vars => IInv'
  BY StepKeeps
<1> QED BY <1>1, <1>2, PTL DEF Spec

-----------------------------------------------------------------------------
(* What is left to scan is the end of the table, only select and count go  *)
(* through sort and slice, and only select has DISTINCT to do, whatever    *)
(* the tables, the queries and the predicate on rows.                      *)
THEOREM PlanTypeOK == Spec => []TypeOK
<1>1. IInv => TypeOK
  BY DEF IInv
<1> QED BY <1>1, Invariant, PTL

(* After its scan every method but exists() has exactly the rows of the    *)
(* table that the predicate accepts.                                       *)
THEOREM ScanKeepsWhatMatches == Spec => []ScanIsWhole
<1>1. IInv => ScanIsWhole
  BY DEF IInv
<1> QED BY <1>1, Invariant, PTL

LEMMA ChosenAsSql ==
  ASSUME Inputs, ReadsAsSql(query, tabs)
  PROVE  /\ Evaluable(query.where) => Chosen = SqlRows
         /\ Positive(query.where) => SqlRows \subseteq Chosen
<1>1. TablesInOrder(tabs) /\ IsTree(query.where) /\ Uses(query.where) \subseteq DOMAIN Subqueries
  BY PlanConstants DEF Inputs, TablesInOrder
<1>2. ASSUME NEW r \in MainRows
      PROVE  /\ Evaluable(query.where) =>
                  (RowMatches(query, tabs, r) <=> SqlSelected(query, tabs, r))
             /\ Positive(query.where) =>
                  (SqlSelected(query, tabs, r) => RowMatches(query, tabs, r))
  <2>1. r \in ToSet(TableRows(tabs, query.main))
    BY DEF MainRows, Scanned
  <2> QED BY <1>1, <2>1, RowMatchesAsSql
<1> QED BY <1>2 DEF Chosen, SqlRows

(* What _row_matches_where keeps of the table is what SQL selects, if the  *)
(* conditions of the query are ones that the code reads as SQL does: the   *)
(* conditions of one filter() hold of one joined row although each looks   *)
(* for its values by itself, exclude() is the complement, EXISTS speaks of *)
(* the row at hand, IN of the rows its own query lists.  For any tables,   *)
(* any tree and any chain of subqueries.                                   *)
THEOREM RowsAreSelected == Spec => [](ReadsAsSql(query, tabs) => RowsSelected)
<1>1. ASSUME IInv, ReadsAsSql(query, tabs), ScanIsOver, Evaluable(query.where)
      PROVE  ToSet(matching) = SqlRows
  <2>1. ToSet(matching) = Chosen
    BY <1>1 DEF IInv, ScanIsWhole, ScanIsOver
  <2> QED BY <1>1, <2>1, ChosenAsSql DEF IInv
<1>2. IInv => (ReadsAsSql(query, tabs) => RowsSelected)
  BY <1>1 DEF RowsSelected
<1> QED BY <1>2, Invariant, PTL

(* A condition on an expression, which the code cannot evaluate and takes  *)
(* for true, loses no row that SQL selects if nothing in the tree is       *)
(* negated.                                                                *)
THEOREM NothingIsLost == Spec => [](ReadsAsSql(query, tabs) => NothingLost)
<1>1. ASSUME IInv, ReadsAsSql(query, tabs), ScanIsOver, Positive(query.where)
      PROVE  SqlRows \subseteq ToSet(matching)
  <2>1. ToSet(matching) = Chosen
    BY <1>1 DEF IInv, ScanIsWhole, ScanIsOver
  <2> QED BY <1>1, <2>1, ChosenAsSql DEF IInv
<1>2. IInv => (ReadsAsSql(query, tabs) => NothingLost)
  BY <1>1 DEF NothingLost
<1> QED BY <1>2, Invariant, PTL

(* SELECT DISTINCT answers every tuple of a selected row, each once and in *)
(* the order of its first occurrence: the loop of execute_sql over the     *)
(* rows that were built never drops the only one of its kind.              *)
THEOREM DistinctIsOnce == Spec => []DistinctOnce
<1>1. IInv => DistinctOnce
  BY DEF IInv
<1> QED BY <1>1, Invariant, PTL

(* exists(), count() and aggregate() agree about the rows that the WHERE   *)
(* selects, although each goes its own way through the scan: exists() is   *)
(* whether there is one, count() of an inner query and COUNT their number, *)
(* MAX and MIN a value of one of them that none exceeds, NULL if there are *)
(* no values.                                                              *)
THEOREM AnswersAlwaysAgree == Spec => []AnswersAgree
<1>1. IInv => AnswersAgree
  BY DEF IInv
<1> QED BY <1>1, Invariant, PTL

-----------------------------------------------------------------------------
(* The order of the rows.  From the sort on, the rows are as ORDER BY asks *)
(* if its list is one that SQL would sort the same way.                    *)
Ordering ==
  Sortable(query.order, MainRows) /\ method = "select" /\ phase \notin {"scan", "order"} =>
    InOrder(matching)

LEMMA OrderingKept ==
  ASSUME IInv, Ordering, [Next]_vars
  PROVE  Ordering'
<1> SUFFICES ASSUME Sortable(query.order, MainRows)', method' = "select",
                    phase' \notin {"scan", "order"}
             PROVE  InOrder(matching)'
  BY DEF Ordering
<1>1. Same
  BY DEF Next, vars, Same, AnswersNothing, Match, ScanEnds, ApplyOrdering, Slice, BuildRows,
         Distinct, CountInner, Aggregate
<1>2. Inputs /\ TypeOK /\ KeptInKeyOrder
  BY DEF IInv
<1>3. query' = query /\ method' = method /\ MainRows' = MainRows
  BY <1>1, SameInputs
<1>4. method = "select" /\ Sortable(query.order, MainRows)
  BY <1>3 DEF Sortable, PlainOrder, DatesOrder
<1>5. CASE AnswersNothing
  <2>1. phase = "scan" /\ IsEmpty(query) /\ matching' = matching
    BY <1>4, <1>5 DEF AnswersNothing, Runs
  <2>2. ToSet(matching) = {}
    BY <2>1, <1>2, InputsAreFit, ScannedPart
  <2>3. DOMAIN matching' = {}
    BY <2>1, <2>2 DEF ToSet
  <2> QED BY <2>3 DEF InOrder
<1>6. CASE Match \/ ScanEnds \/ CountInner \/ Aggregate
  <2>1. ~ScanEnds /\ ~CountInner /\ ~Aggregate
    BY <1>4 DEF ScanEnds, CountInner, Aggregate
  <2>2. phase' = phase /\ phase = "scan"
    BY <2>1, <1>4, <1>6 DEF Match
  <2> QED BY <2>2
<1>7. CASE ApplyOrdering
  <2>1. phase = "order" /\ matching' = Arranged(matching, query.order)
    BY <1>7 DEF ApplyOrdering
  <2>2. /\ Ranked(Len(matching), matching, Effective)
        /\ \A i \in DOMAIN matching : matching[i] \in MainRows
        /\ \E m \in Nat : DOMAIN query.order = 1..m
    BY <1>2, MatchingIsRanked
  <2>3. ToSet(matching) \subseteq MainRows
    BY <2>2 DEF ToSet
  <2>4. Sortable(query.order, ToSet(matching)) /\ KeysRise(matching)
    BY <2>1, <2>3, <1>2, <1>4 DEF Sortable, DatesOrder, KeptInKeyOrder
  <2>5. InOrder(Arranged(matching, query.order))
    BY <2>2, <2>4, ArrangedInOrder
  <2> QED BY <2>1, <2>5, <1>3 DEF InOrder
<1>8. CASE Slice
  <2>1. /\ phase = "slice" /\ matching' = Sliced(matching, query.low, query.high)
        /\ matching \in Seq(MainRows)
    BY <1>2, <1>8 DEF Slice, TypeOK
  <2>2. InOrder(matching)
    BY <2>1, <1>4 DEF Ordering
  <2>3. query.low \in Nat /\ query.high \in (Nat \ {0}) \cup {None}
    BY <1>2, InputsAreFit
  <2>4. LET kept == Sliced(matching, query.low, query.high)
        IN /\ kept \in Seq(MainRows)
           /\ \A i \in DOMAIN kept :
                query.low + i \in DOMAIN matching /\ kept[i] = matching[query.low + i]
           /\ query.low = 0 /\ query.high = None => kept = matching
    BY <2>1, <2>3, SliceIsAPart
  <2>6. /\ matching' \in Seq(MainRows)
        /\ \A i \in DOMAIN matching' :
             query.low + i \in DOMAIN matching /\ matching'[i] = matching[query.low + i]
    BY <2>1, <2>4
  <2>5. \A i, j \in DOMAIN matching' : i < j => query.low + i < query.low + j
    BY <2>3, <2>6
  <2> QED BY <2>2, <2>6, <2>5, <1>3 DEF InOrder
<1>9. CASE BuildRows \/ Distinct \/ UNCHANGED vars
  <2>1. phase \notin {"scan", "order"} /\ matching' = matching
    BY <1>9 DEF BuildRows, Distinct, vars
  <2>2. InOrder(matching)
    BY <2>1, <1>4 DEF Ordering
  <2> QED BY <2>1, <2>2, <1>3 DEF InOrder
<1> QED BY <1>5, <1>6, <1>7, <1>8, <1>9 DEF Next

LEMMA OrderInvariant == Spec => [](IInv /\ Ordering)
<1>1. Init => IInv /\ Ordering
  BY InitHolds DEF Init, Ordering
<1>2. IInv /\ Ordering /\ [Next]_vars => (IInv /\ Ordering)'
  BY StepKeeps, OrderingKept
<1> QED BY <1>1, <1>2, PTL DEF Spec

(* The rows of a SELECT, sorted by the comparator of _apply_ordering and   *)
(* sliced, are in the order that SQL gives to ORDER BY: for any list of    *)
(* columns, ascending or descending and with NULLs at either end, with     *)
(* ties in key order, and for the Trunc of a date that dates() orders by,  *)
(* which the sort takes for the date itself; and in key order if the       *)
(* ORDER BY cannot be compiled and is dropped.                             *)
THEOREM RowsAreOrdered ==
  Spec => [](Sortable(query.order, MainRows) => OrderedAsAsked)
<1>1. IInv /\ Ordering => (Sortable(query.order, MainRows) => OrderedAsAsked)
  BY DEF Ordering, OrderedAsAsked
<1> QED BY <1>1, OrderInvariant, PTL

-----------------------------------------------------------------------------
(* A query of dates().                                                     *)
FirstDay(kind, v) == IF v = None THEN None ELSE Trunc(kind, v)

LEMMA DatesQuery ==
  ASSUME Inputs, TypeOK, AsksForDates, Sortable(query.order, MainRows)
  PROVE  LET o == query.order[1]
         IN \E kind \in Kinds :
              /\ DOMAIN query.order = {1} /\ o.fns = <<<<"trunc", kind>>>>
              /\ \A r \in MainRows : RowGet(r, o.col) \in Nat \cup {None}
              /\ \A v \in Nat \cup {None} : SqlApplyAll(o.fns, v) = FirstDay(kind, v)
              /\ \A i \in DOMAIN matching : Built[i] = <<FirstDay(kind, RowGet(matching[i], o.col))>>
<1> DEFINE o == query.order[1]
           c == query.cols[1]
<1>1. /\ o.fns # <<>> /\ c.fns = o.fns /\ c.col = o.col /\ c.alias = Main
      /\ Len(query.order) = 1 /\ Len(query.cols) = 1
  BY DEF AsksForDates
<1>2. query.order \in Seq(ToSet(query.order)) /\ query.cols \in Seq(ToSet(query.cols))
  BY InputsAreFit
<1>3. DOMAIN query.order = {1} /\ DOMAIN query.cols = {1}
  BY <1>1, <1>2
<1>4. DatesOrder(query.order, MainRows)
  BY <1>1, <1>3 DEF Sortable, PlainOrder
<1>5. PICK kind \in Kinds : o.fns = <<<<"trunc", kind>>>>
  BY <1>4 DEF DatesOrder
<1>6. \A r \in MainRows : RowGet(r, o.col) \in Nat \cup {None}
  BY <1>4 DEF DatesOrder
<1>7. \A v \in Nat \cup {None} : Apply(<<"trunc", kind>>, v) = FirstDay(kind, v)
  BY DEF Apply, Kinds, FirstDay
<1>8. \A v \in Nat \cup {None} : SqlApplyAll(o.fns, v) = FirstDay(kind, v)
  BY <1>5, <1>7, SqlApplyOne, TruncAsSql
<1>9. \A r : ExprValue(query, tabs, r, c) = Apply(<<"trunc", kind>>, RowGet(r, o.col))
  BY <1>1, <1>5, ApplyOne DEF ExprValue, ColumnValue
<1>10. ASSUME NEW i \in DOMAIN matching
       PROVE  Built[i] = <<FirstDay(kind, RowGet(matching[i], o.col))>>
  <2>1. matching[i] \in MainRows
    BY MatchingIsRanked
  <2>2. Built[i] = [k \in {1} |-> ExprValue(query, tabs, matching[i], query.cols[k])]
    BY <1>3 DEF Built, RowTuple
  <2>3. Built[i] = [k \in {1} |-> ExprValue(query, tabs, matching[i], c)]
    BY <2>2
  <2>4. \A x : [k \in {1} |-> x] = <<x>>
    OBVIOUS
  <2>5. ExprValue(query, tabs, matching[i], c) = FirstDay(kind, RowGet(matching[i], o.col))
    BY <2>1, <1>6, <1>7, <1>9
  <2> HIDE DEF c
  <2> QED BY <2>3, <2>4, <2>5
<1> HIDE DEF o
<1>11. \E k \in Kinds :
         /\ DOMAIN query.order = {1} /\ o.fns = <<<<"trunc", k>>>>
         /\ \A r \in MainRows : RowGet(r, o.col) \in Nat \cup {None}
         /\ \A v \in Nat \cup {None} : SqlApplyAll(o.fns, v) = FirstDay(k, v)
         /\ \A i \in DOMAIN matching : Built[i] = <<FirstDay(k, RowGet(matching[i], o.col))>>
  BY <1>3, <1>5, <1>6, <1>8, <1>10
<1> QED BY <1>11 DEF o

LEMMA DatesInOrder ==
  ASSUME IInv, Ordering, Sortable(query.order, MainRows), phase = "done", AsksForDates
  PROVE  LET o == query.order[1]
             days == {SqlApplyAll(o.fns, RowGet(r, o.col)) : r \in MainRows} \ {None}
         IN /\ ToSet(rows) = {<<d>> : d \in days}
            /\ \A i, j \in DOMAIN rows : i < j =>
                 IF o.desc THEN rows[i][1] > rows[j][1] ELSE rows[i][1] < rows[j][1]
<1> DEFINE o == query.order[1]
           n == Len(matching)
           Day(i) == RowGet(matching[i], o.col)
           days == {SqlApplyAll(o.fns, RowGet(r, o.col)) : r \in MainRows} \ {None}
<1>1. /\ Inputs /\ TypeOK /\ EachRowOnce /\ DistinctOnce
      /\ method = "select" /\ query.distinct /\ query.low = 0 /\ query.high = None
      /\ Chosen = {r \in MainRows : RowGet(r, o.col) # None}
  BY DEF IInv, AsksForDates
<1>2. PICK kind \in Kinds :
        /\ DOMAIN query.order = {1} /\ o.fns = <<<<"trunc", kind>>>>
        /\ \A r \in MainRows : RowGet(r, o.col) \in Nat \cup {None}
        /\ \A v \in Nat \cup {None} : SqlApplyAll(o.fns, v) = FirstDay(kind, v)
        /\ \A i \in DOMAIN matching : Built[i] = <<FirstDay(kind, RowGet(matching[i], o.col))>>
  BY <1>1, DatesQuery
<1>3. /\ DOMAIN matching = 1..n /\ n \in Nat /\ DOMAIN Built = 1..n
      /\ ToSet(matching) = Chosen
  BY <1>1, MatchingIsRanked, BuiltIsAList DEF EachRowOnce
<1>4. ToSet(matching) = {matching[i] : i \in 1..n} /\ ToSet(Built) = {Built[i] : i \in 1..n}
  BY <1>3 DEF ToSet
<1>5. \A i \in 1..n : matching[i] \in Chosen
  BY <1>3, <1>4
<1>6. \A i \in 1..n : matching[i] \in MainRows /\ Day(i) \in Nat
  BY <1>1, <1>2, <1>5
<1>7. \A v \in Nat : FirstDay(kind, v) = Trunc(kind, v) /\ Trunc(kind, v) \in Nat
  <2>1. \A v \in Nat : v # None /\ Trunc(kind, v) \in 0..v
    BY NullIsNoNumber, TruncInPeriod
  <2> QED BY <2>1 DEF FirstDay
<1> DEFINE First(i) == Trunc(kind, Day(i))
<1>8. \A i \in 1..n : First(i) \in Nat /\ Built[i] = <<First(i)>>
  BY <1>2, <1>3, <1>6, <1>7
<1>9. days = {First(i) : i \in 1..n}
  <2>1. days = {FirstDay(kind, RowGet(r, o.col)) : r \in MainRows} \ {None}
    BY <1>2
  <2>2. \A r \in MainRows : RowGet(r, o.col) # None =>
          FirstDay(kind, RowGet(r, o.col)) = Trunc(kind, RowGet(r, o.col))
          /\ Trunc(kind, RowGet(r, o.col)) # None
    BY <1>2, <1>7, NullIsNoNumber
  <2>3. \A r \in MainRows : RowGet(r, o.col) = None => FirstDay(kind, RowGet(r, o.col)) = None
    BY DEF FirstDay
  <2>4. days = {Trunc(kind, RowGet(r, o.col)) : r \in Chosen}
    BY <2>1, <2>2, <2>3, <1>1
  <2>5. Chosen = {matching[i] : i \in 1..n}
    BY <1>3, <1>4
  <2> QED BY <2>4, <2>5
<1>10. ASSUME NEW i \in 1..n, NEW j \in 1..n, i < j
       PROVE  IF o.desc THEN First(j) <= First(i) ELSE First(i) <= First(j)
  <2>a. \A v \in Nat : /\ SqlApplyAll(o.fns, v) = Trunc(kind, v)
                       /\ Trunc(kind, v) \in Nat /\ Trunc(kind, v) # None
    <3>1. \A v \in Nat : SqlApplyAll(o.fns, v) = FirstDay(kind, v)
      BY <1>2
    <3>2. \A v \in Nat : v # None
      BY NullIsNoNumber
    <3> HIDE DEF o
    <3> QED BY <3>1, <3>2, <1>7
  <2>b. Day(i) \in Nat /\ Day(j) \in Nat
    BY <1>6
  <2>1. /\ SqlApplyAll(o.fns, Day(i)) = First(i) /\ SqlApplyAll(o.fns, Day(j)) = First(j)
        /\ First(i) \in Nat /\ First(j) \in Nat /\ First(i) # None /\ First(j) # None
    BY <2>a, <2>b
  <2>2. /\ Rank(matching[i], o) = <<1, IF o.desc THEN -First(i) ELSE First(i)>>
        /\ Rank(matching[j], o) = <<1, IF o.desc THEN -First(j) ELSE First(j)>>
    BY <2>1 DEF Rank
  <2>3. InOrder(matching)
    BY <1>1 DEF Ordering
  <2>c. Compiles(query.order)
    BY <1>2 DEF Sortable, DatesOrder, PlainOrder
  <2>4. \/ RanksBefore(matching[i], matching[j], query.order)
        \/ ~RanksBefore(matching[j], matching[i], query.order)
    BY <2>3, <2>c, <1>3, <1>10 DEF InOrder
  <2>5. \A j1 \in 1..(1 - 1) : FALSE
    OBVIOUS
  <2>6. \A r, s : RanksBefore(r, s, query.order) <=> Lower(Rank(r, o), Rank(s, o))
    BY <2>5, <1>2 DEF RanksBefore
  <2>7. Lower(Rank(matching[i], o), Rank(matching[j], o))
        \/ ~Lower(Rank(matching[j], o), Rank(matching[i], o))
    BY <2>4, <2>6
  <2> HIDE DEF First, o
  <2> QED BY <2>1, <2>2, <2>7 DEF Lower
<1>11. /\ IsInjective(rows) /\ ToSet(rows) = ToSet(Built)
       /\ \A i, j \in DOMAIN rows : i < j =>
            \E k \in DOMAIN Built : Built[k] = rows[i] /\ \A l \in 1..k : Built[l] # rows[j]
  BY <1>1 DEF DistinctOnce
<1> HIDE DEF First, days, n, Day
<1>12. ToSet(rows) = {<<d>> : d \in days}
  BY <1>4, <1>8, <1>9, <1>11
<1>13. ASSUME NEW i \in DOMAIN rows, NEW j \in DOMAIN rows, i < j
       PROVE  IF o.desc THEN rows[i][1] > rows[j][1] ELSE rows[i][1] < rows[j][1]
  <2>1. PICK k \in 1..n : Built[k] = rows[i] /\ \A l \in 1..k : Built[l] # rows[j]
    BY <1>3, <1>11, <1>13
  <2>2. rows[j] \in ToSet(Built)
    BY <1>11, <1>13 DEF ToSet
  <2>3. PICK m \in 1..n : Built[m] = rows[j]
    BY <2>2, <1>4
  <2>4. k < m
    BY <2>1, <2>3, <1>3
  <2>5. rows[i] = <<First(k)>> /\ rows[j] = <<First(m)>> /\ First(k) \in Nat /\ First(m) \in Nat
    BY <2>1, <2>3, <1>8
  <2>6. First(k) # First(m)
    <3>1. k \in 1..k
      BY <1>3
    <3> QED BY <3>1, <2>1, <2>5
  <2>7. IF o.desc THEN First(m) <= First(k) ELSE First(k) <= First(m)
    BY <2>4, <1>10
  <2>8. rows[i][1] = First(k) /\ rows[j][1] = First(m)
    BY <2>5
  <2> HIDE DEF o
  <2> QED BY <2>5, <2>6, <2>7, <2>8
<1> QED BY <1>12, <1>13 DEF days

(* dates() lists the first day of each period that has a row, each once    *)
(* and in order, ascending or descending: the sort by the column, which    *)
(* takes a Trunc for its date, and the truncation and DISTINCT afterwards  *)
(* give what SQL's sort by the truncated date gives.                       *)
THEOREM DatesAreListed ==
  Spec => [](Sortable(query.order, MainRows) => DatesListed)
<1>1. IInv /\ Ordering => (Sortable(query.order, MainRows) => DatesListed)
  BY DatesInOrder DEF DatesListed
<1> QED BY <1>1, OrderInvariant, PTL

-----------------------------------------------------------------------------
(* Sums.  MapThenSumSet is a fold in an order that CHOOSE gives; these say *)
(* that the order does not matter.                                         *)
Numbers(v, S) == IsFiniteSet(S) /\ \A x \in S : v[x] \in Int

OneOf(s) == CHOOSE x \in s : TRUE

(* One round of the fold, and a function that is its result on all parts.  *)
Round(v, g, s) == IF s = {} THEN 0 ELSE v[OneOf(s)] + g[s \ {OneOf(s)}]

FoldOf(v, S, g) == g = [s \in SUBSET S |-> Round(v, g, s)]

(* The parts of S of at most k elements.                                   *)
PartsUpTo(S, k) == {s \in SUBSET S : Cardinality(s) <= k}

LEMMA PartsOf ==
  ASSUME NEW S, IsFiniteSet(S), NEW s \in SUBSET S
  PROVE  /\ IsFiniteSet(s) /\ Cardinality(s) \in Nat /\ Cardinality(s) <= Cardinality(S)
         /\ \A x \in s : s \ {x} \in SUBSET S /\ Cardinality(s \ {x}) = Cardinality(s) - 1
         /\ s # {} => OneOf(s) \in s /\ Cardinality(s) > 0
         /\ Cardinality({}) = 0
<1>1. IsFiniteSet(s) /\ Cardinality(s) \in Nat /\ Cardinality(s) <= Cardinality(S)
  BY FS_Subset, FS_CardinalityType
<1>2. \A x \in s : Cardinality(s \ {x}) = Cardinality(s) - 1
  BY <1>1, FS_RemoveElement
<1>3. s # {} => OneOf(s) \in s
  BY DEF OneOf
<1>4. s # {} => Cardinality(s) # 0
  BY <1>1, FS_EmptySet
<1>5. Cardinality({}) = 0
  BY FS_EmptySet
<1> QED BY <1>1, <1>2, <1>3, <1>4, <1>5

LEMMA FoldExists ==
  ASSUME NEW v, NEW S, Numbers(v, S)
  PROVE  \E g : FoldOf(v, S, g) /\ \A s \in SUBSET S : g[s] \in Int
<1> DEFINE Level(k, g) == \A s \in PartsUpTo(S, k) : g[s] = Round(v, g, s) /\ g[s] \in Int
           bad == {k \in Nat : ~ \E g : Level(k, g)}
<1>0. IsFiniteSet(S) /\ \A x \in S : v[x] \in Int
  BY DEF Numbers
<1>1. bad = {}
  <2>1. SUFFICES ASSUME bad # {}
                 PROVE  FALSE
    OBVIOUS
  <2>2. bad \in SUBSET Nat
    OBVIOUS
  <2>3. PICK k \in bad : \A l \in bad : k <= l
    BY <2>1, <2>2, LeastOf
  <2>4. k \in Nat /\ ~ \E g : Level(k, g)
    BY <2>3
  <2>5. CASE k = 0
    <3> DEFINE g == [s \in {{}} |-> 0]
    <3>1. \A s \in PartsUpTo(S, 0) : s = {}
      <4> SUFFICES ASSUME NEW s \in PartsUpTo(S, 0) PROVE s = {}
        OBVIOUS
      <4>1. s \in SUBSET S /\ Cardinality(s) <= 0
        BY DEF PartsUpTo
      <4> QED BY <4>1, <1>0, PartsOf
    <3>2. g[{}] = 0
      OBVIOUS
    <3>3. Level(0, g)
      BY <3>1, <3>2 DEF Round
    <3> QED BY <3>3, <2>4, <2>5
  <2>6. CASE k > 0
    <3>1. k - 1 \in Nat /\ k - 1 \notin bad
      BY <2>3, <2>4, <2>6
    <3>2. PICK h : Level(k - 1, h)
      BY <3>1
    <3> DEFINE g == [s \in PartsUpTo(S, k) |-> Round(v, h, s)]
    <3>3. ASSUME NEW s \in PartsUpTo(S, k)
          PROVE  g[s] = Round(v, g, s) /\ g[s] \in Int
      <4>1. CASE s = {}
        BY <4>1, <3>3 DEF Round
      <4>2. CASE s # {}
        <5> DEFINE x == OneOf(s)
                   rest == s \ {x}
        <5>1. s \in SUBSET S /\ Cardinality(s) <= k
          BY <3>3 DEF PartsUpTo
        <5>2. x \in s /\ rest \in SUBSET S /\ Cardinality(rest) = Cardinality(s) - 1
              /\ Cardinality(s) \in Nat
          BY <4>2, <5>1, <1>0, PartsOf
        <5>3. Cardinality(rest) <= k - 1 /\ Cardinality(rest) <= k
          BY <5>1, <5>2, <2>4
        <5>4. rest \in PartsUpTo(S, k - 1) /\ rest \in PartsUpTo(S, k)
          BY <5>2, <5>3 DEF PartsUpTo
        <5>5. h[rest] = Round(v, h, rest) /\ h[rest] \in Int
          BY <3>2, <5>4
        <5>6. g[rest] = h[rest] /\ g[s] = Round(v, h, s)
          BY <3>3, <5>4, <5>5
        <5>7. v[x] \in Int
          BY <5>1, <5>2, <1>0
        <5> HIDE DEF g
        <5> QED BY <4>2, <5>5, <5>6, <5>7 DEF Round
      <4> QED BY <4>1, <4>2
    <3>4. Level(k, g)
      BY <3>3
    <3> QED BY <3>4, <2>4
  <2> QED BY <2>4, <2>5, <2>6
<1>2. Cardinality(S) \in Nat
  BY <1>0, FS_CardinalityType
<1>3. PICK h : Level(Cardinality(S), h)
  BY <1>1, <1>2
<1>4. \A s \in SUBSET S : s \in PartsUpTo(S, Cardinality(S))
  BY <1>0, PartsOf DEF PartsUpTo
<1> DEFINE g == [s \in SUBSET S |-> h[s]]
<1>5. ASSUME NEW s \in SUBSET S
      PROVE  g[s] = Round(v, g, s) /\ g[s] \in Int
  <2>1. g[s] = h[s] /\ h[s] = Round(v, h, s) /\ h[s] \in Int
    BY <1>3, <1>4
  <2>2. s # {} => g[s \ {OneOf(s)}] = h[s \ {OneOf(s)}]
    OBVIOUS
  <2> QED BY <2>1, <2>2 DEF Round
<1>6. g = [s \in SUBSET S |-> Round(v, g, s)]
  BY <1>5
<1> QED BY <1>5, <1>6 DEF FoldOf

(* The folds over a set and over a part of it agree on the part.           *)
LEMMA FoldsAgree ==
  ASSUME NEW v, NEW S, IsFiniteSet(S), NEW T \in SUBSET S,
         NEW g, FoldOf(v, S, g), NEW h, FoldOf(v, T, h), NEW t \in SUBSET T
  PROVE  g[t] = h[t]
<1> DEFINE bad == {n \in Nat : \E s \in SUBSET T : Cardinality(s) = n /\ g[s] # h[s]}
<1>0. \A s \in SUBSET T : /\ s \in SUBSET S
                          /\ g[s] = Round(v, g, s) /\ h[s] = Round(v, h, s)
  BY DEF FoldOf
<1>1. bad = {}
  <2>1. SUFFICES ASSUME bad # {}
                 PROVE  FALSE
    OBVIOUS
  <2>2. bad \in SUBSET Nat
    OBVIOUS
  <2>3. PICK n \in bad : \A m \in bad : n <= m
    BY <2>1, <2>2, LeastOf
  <2>4. PICK s \in SUBSET T : Cardinality(s) = n /\ g[s] # h[s]
    BY <2>3
  <2>5. s # {}
    BY <2>4, <1>0 DEF Round
  <2> DEFINE x == OneOf(s)
             rest == s \ {x}
  <2>6. x \in s /\ Cardinality(rest) = n - 1 /\ n > 0 /\ n \in Nat
    BY <2>4, <2>5, <1>0, PartsOf
  <2>7. rest \in SUBSET T /\ n - 1 \in Nat /\ n - 1 \notin bad
    BY <2>3, <2>6
  <2>8. g[rest] = h[rest]
    BY <2>6, <2>7
  <2> HIDE DEF bad
  <2>9. g[s] = v[x] + g[rest] /\ h[s] = v[x] + h[rest]
    BY <2>5, <1>0 DEF Round
  <2> QED BY <2>4, <2>8, <2>9
<1>2. Cardinality(t) \in Nat
  BY <1>0, PartsOf
<1> QED BY <1>1, <1>2

LEMMA SumIsFold ==
  ASSUME NEW v, NEW S, Numbers(v, S)
  PROVE  /\ Total(v, {}) = 0
         /\ Total(v, S) \in Int
         /\ S # {} => Total(v, S) = v[OneOf(S)] + Total(v, S \ {OneOf(S)})
<1> DEFINE Fold(T) == CHOOSE g : FoldOf(v, T, g)
<1>1. ASSUME NEW T \in SUBSET S
      PROVE  /\ FoldOf(v, T, Fold(T)) /\ Total(v, T) = Fold(T)[T]
             /\ Total(v, T) \in Int
  <2>1. Numbers(v, T)
    BY PartsOf DEF Numbers
  <2>2. PICK g : FoldOf(v, T, g) /\ \A s \in SUBSET T : g[s] \in Int
    BY <2>1, FoldExists
  <2>3. FoldOf(v, T, Fold(T))
    BY <2>2
  <2>4. Total(v, T) = Fold(T)[T]
    BY DEF Total, MapThenSumSet, MapThenFoldSet, FoldOf, Round, OneOf
  <2>5. Fold(T)[T] = g[T]
    <3> HIDE DEF Fold
    <3>1. IsFiniteSet(T) /\ T \in SUBSET T
      BY <2>1 DEF Numbers
    <3> QED BY <2>2, <2>3, <3>1, FoldsAgree
  <2> QED BY <2>2, <2>3, <2>4, <2>5
<1> HIDE DEF Fold
<1>2. Fold({})[{}] = 0
  <2>1. {} \in SUBSET {} /\ {} \in SUBSET S
    OBVIOUS
  <2> QED BY <2>1, <1>1 DEF FoldOf, Round
<1>3. ASSUME S # {}
      PROVE  Total(v, S) = v[OneOf(S)] + Total(v, S \ {OneOf(S)})
  <2> DEFINE rest == S \ {OneOf(S)}
  <2>1. rest \in SUBSET S /\ S \in SUBSET S /\ rest \in SUBSET rest
    OBVIOUS
  <2>2. Fold(S)[S] = v[OneOf(S)] + Fold(S)[rest]
    BY <2>1, <1>1, <1>3 DEF FoldOf, Round
  <2>3. Fold(S)[rest] = Fold(rest)[rest]
    BY <2>1, <1>1, FoldsAgree DEF Numbers
  <2> QED BY <2>1, <2>2, <2>3, <1>1
<1> QED BY <1>1, <1>2, <1>3

(* Any element may be added last.                                          *)
LEMMA SumWithout ==
  ASSUME NEW v, NEW S, Numbers(v, S), NEW y \in S
  PROVE  Total(v, S) = v[y] + Total(v, S \ {y})
<1> DEFINE Splits(T) == \A z \in T : Total(v, T) = v[z] + Total(v, T \ {z})
           bad == {n \in Nat : \E T \in SUBSET S : Cardinality(T) = n /\ ~Splits(T)}
<1>0. /\ IsFiniteSet(S) /\ \A x \in S : v[x] \in Int
      /\ \A T \in SUBSET S : Numbers(v, T)
  BY PartsOf DEF Numbers
<1>1. bad = {}
  <2>1. SUFFICES ASSUME bad # {}
                 PROVE  FALSE
    OBVIOUS
  <2>2. bad \in SUBSET Nat
    OBVIOUS
  <2>3. PICK n \in bad : \A m \in bad : n <= m
    BY <2>1, <2>2, LeastOf
  <2>4. PICK T \in SUBSET S : Cardinality(T) = n /\ ~Splits(T)
    BY <2>3
  <2>5. PICK z \in T : Total(v, T) # v[z] + Total(v, T \ {z})
    BY <2>4
  <2> DEFINE x == OneOf(T)
  <2>6. x \in T /\ n \in Nat /\ n > 0 /\ \A w \in T : Cardinality(T \ {w}) = n - 1
    BY <2>4, <2>5, <1>0, PartsOf
  <2>7. Total(v, T) = v[x] + Total(v, T \ {x})
    BY <2>5, <1>0, SumIsFold
  <2>8. z # x
    BY <2>5, <2>7
  <2>9. n - 1 \in Nat /\ n - 1 \notin bad
    BY <2>3, <2>6
  <2>10. Splits(T \ {x}) /\ Splits(T \ {z})
    BY <2>6, <2>9
  <2>11. z \in T \ {x} /\ x \in T \ {z} /\ (T \ {x}) \ {z} = (T \ {z}) \ {x}
    BY <2>6, <2>8
  <2> DEFINE both == (T \ {z}) \ {x}
  <2>12. /\ Total(v, T \ {x}) = v[z] + Total(v, both)
         /\ Total(v, T \ {z}) = v[x] + Total(v, both)
    BY <2>10, <2>11
  <2>13. v[x] \in Int /\ v[z] \in Int /\ Total(v, both) \in Int
    BY <2>6, <1>0, SumIsFold
  <2> HIDE DEF x, both
  <2> QED BY <2>5, <2>7, <2>12, <2>13
<1>2. S \in SUBSET S /\ Cardinality(S) \in Nat
  BY <1>0, FS_CardinalityType
<1> QED BY <1>1, <1>2

(* Two sets whose elements stand for each other have the same sum.         *)
LEMMA SumsMatch ==
  ASSUME NEW v, NEW P, Numbers(v, P), NEW w, NEW h, NEW R,
         \A i \in P : h[i] \in R /\ w[h[i]] = v[i],
         \A r \in R : \E i \in P : h[i] = r,
         \A i, j \in P : h[i] = h[j] => i = j
  PROVE  Total(v, P) = Total(w, R)
<1> DEFINE Image(Q) == {h[i] : i \in Q}
           Matches(Q) == Total(v, Q) = Total(w, Image(Q))
           bad == {n \in Nat : \E Q \in SUBSET P : Cardinality(Q) = n /\ ~Matches(Q)}
<1>0. /\ IsFiniteSet(P) /\ \A i \in P : v[i] \in Int
      /\ \A Q \in SUBSET P : Numbers(v, Q)
  BY PartsOf DEF Numbers
<1>1. \A Q \in SUBSET P : Numbers(w, Image(Q))
  <2> TAKE Q \in SUBSET P
  <2>1. IsFiniteSet(Q)
    BY <1>0, PartsOf
  <2> DEFINE f == [i \in Q |-> h[i]]
  <2>2. f \in Surjection(Q, Image(Q))
    BY DEF Surjection
  <2>3. IsFiniteSet(Image(Q))
    BY <2>1, <2>2, FS_Surjection
  <2>4. \A r \in Image(Q) : w[r] \in Int
    BY <1>0
  <2> QED BY <2>3, <2>4 DEF Numbers
<1>2. bad = {}
  <2>1. SUFFICES ASSUME bad # {}
                 PROVE  FALSE
    OBVIOUS
  <2>2. bad \in SUBSET Nat
    OBVIOUS
  <2>3. PICK n \in bad : \A m \in bad : n <= m
    BY <2>1, <2>2, LeastOf
  <2>4. PICK Q \in SUBSET P : Cardinality(Q) = n /\ ~Matches(Q)
    BY <2>3
  <2>5. Q # {}
    <3>1. Image({}) = {} /\ {} \in SUBSET P
      OBVIOUS
    <3>2. Total(v, {}) = 0 /\ Total(w, {}) = 0
      BY <3>1, <1>0, <1>1, SumIsFold
    <3> QED BY <3>1, <3>2, <2>4
  <2>6. PICK i \in Q : TRUE
    BY <2>5
  <2>7. n \in Nat /\ n > 0 /\ Cardinality(Q \ {i}) = n - 1
    BY <2>4, <2>6, <1>0, PartsOf
  <2>8. n - 1 \in Nat /\ n - 1 \notin bad
    <3> HIDE DEF bad
    <3> QED BY <2>3, <2>7
  <2>9. Matches(Q \ {i})
    BY <2>7, <2>8
  <2>10. Total(v, Q) = v[i] + Total(v, Q \ {i})
    BY <2>6, <1>0, SumWithout
  <2>11. h[i] \in Image(Q) /\ Image(Q) \ {h[i]} = Image(Q \ {i})
    BY <2>6
  <2>12. Total(w, Image(Q)) = w[h[i]] + Total(w, Image(Q) \ {h[i]})
    <3> HIDE DEF Image
    <3> QED BY <2>11, <1>1, SumWithout
  <2>13. w[h[i]] = v[i]
    BY <2>6
  <2> QED BY <2>4, <2>9, <2>10, <2>11, <2>12, <2>13
<1>3. Image(P) = R
  OBVIOUS
<1>4. P \in SUBSET P /\ Cardinality(P) \in Nat
  BY <1>0, FS_CardinalityType
<1>5. Matches(P)
  BY <1>2, <1>4
<1> QED BY <1>3, <1>5

-----------------------------------------------------------------------------
(* SUM and AVG of the rows that the WHERE selects.                         *)
Summed(main, chosen, col, answer) ==
  LET value == [r \in main |-> RowGet(r, col)]
      known == {r \in chosen : value[r] # None}
  IN known # {} =>
       /\ answer[4] = Total(value, known)
       /\ answer[5] = <<Total(value, known), Cardinality(known)>>

SumsSummed ==
  phase = "done" /\ method = "aggregate" /\ query.cols[1].fns = <<>> =>
    Summed(MainRows, Chosen, query.cols[1].col, rows)

LEMMA SumsAreSummed == SumsAgree <=> SumsSummed
BY DEF SumsAgree, SumsSummed, Summed, Total

LEMMA AggregateSums ==
  ASSUME IInv, Aggregate, query.cols[1].fns = <<>>
  PROVE  Summed(MainRows, Chosen, query.cols[1].col, rows')
<1> DEFINE col == query.cols[1].col
           n == Len(matching)
           values == [i \in DOMAIN matching |-> RowGet(matching[i], col)]
           known == {i \in DOMAIN matching : values[i] # None}
           value == [r \in MainRows |-> RowGet(r, col)]
           Known == {r \in Chosen : value[r] # None}
           sum == Total(values, known)
<1>1. phase = "build" /\ method = "aggregate"
  BY DEF Aggregate
<1>2. known # {} => rows'[4] = sum /\ rows'[5] = <<sum, Cardinality(known)>>
  BY DEF Aggregate
<1>3. Inputs /\ TypeOK /\ ToSet(matching) = Chosen /\ KeysRise(matching)
  BY <1>1 DEF IInv, ScanIsWhole, KeptInKeyOrder
<1>4. /\ DOMAIN matching = 1..n /\ n \in Nat
      /\ \A i \in DOMAIN matching : matching[i] \in MainRows /\ matching[i].pk \in Int
  BY <1>3, MatchingIsRanked
<1>5. \A i, j \in 1..n : matching[i] = matching[j] => i = j
  <2>1. KeysDiffer(matching)
    BY <1>3, <1>4, RisingDiffers
  <2> QED BY <2>1, <1>4 DEF KeysDiffer
<1>6. Chosen = {matching[i] : i \in 1..n}
  BY <1>3, <1>4 DEF ToSet
<1>7. \A i \in 1..n : values[i] = value[matching[i]] /\ matching[i] \in Chosen
  BY <1>4, <1>6
<1>8. known \subseteq 1..n /\ \A i \in 1..n : i \in known <=> values[i] # None
  BY <1>4
<1>9. \A r : r \in Known <=> r \in Chosen /\ value[r] # None
  OBVIOUS
<1> DEFINE items == [i \in known |-> matching[i]]
<1>10. \A i \in known : items[i] = matching[i]
  OBVIOUS
<1>11. items \in [known -> Known]
  <2> HIDE DEF values, value, known, Known, n
  <2>1. \A i \in known : matching[i] \in Known
    BY <1>7, <1>8, <1>9
  <2> QED BY <2>1
<1>12. \A i \in known : values[i] \in Int
  <2>1. \A r \in MainRows : value[r] \in Int \cup {None}
    BY <1>3, InputsAreFit DEF Comparable
  <2> HIDE DEF values, value, known, Known, n
  <2> QED BY <2>1, <1>4, <1>7, <1>8
<1> HIDE DEF values, value, known, Known, n, items
<1>13. \A i \in known : items[i] \in Known /\ value[items[i]] = values[i]
  BY <1>7, <1>8, <1>10, <1>11
<1>14. \A r \in Known : \E i \in known : items[i] = r
  BY <1>6, <1>7, <1>8, <1>9, <1>10
<1>15. \A i, j \in known : items[i] = items[j] => i = j
  BY <1>5, <1>8, <1>10
<1>16. IsFiniteSet(known)
  <2>1. IsFiniteSet(1..n) /\ known \in SUBSET (1..n)
    BY <1>4, <1>8, FS_Interval
  <2> QED BY <2>1, FS_Subset
<1>17. Total(values, known) = Total(value, Known)
  <2>1. Numbers(values, known)
    BY <1>12, <1>16 DEF Numbers
  <2> QED BY <2>1, <1>13, <1>14, <1>15, SumsMatch
<1>18. Cardinality(known) = Cardinality(Known)
  <2>1. items \in Surjection(known, Known) /\ items \in Injection(known, Known)
    BY <1>11, <1>14, <1>15 DEF Surjection, Injection, IsInjective
  <2> QED BY <2>1, <1>16, FS_Surjection
<1>19. Known # {} => /\ rows'[4] = Total(value, Known)
                     /\ rows'[5] = <<Total(value, Known), Cardinality(Known)>>
  BY <1>2, <1>14, <1>17, <1>18
<1> QED BY <1>19 DEF Summed, value, Known

LEMMA SumsKept ==
  ASSUME IInv, SumsSummed, [Next]_vars
  PROVE  SumsSummed'
<1> SUFFICES ASSUME phase' = "done", method' = "aggregate", query'.cols[1].fns = <<>>
             PROVE  Summed(MainRows', Chosen', query'.cols[1].col, rows')
  BY DEF SumsSummed
<1>1. Same
  BY DEF Next, vars, Same, AnswersNothing, Match, ScanEnds, ApplyOrdering, Slice, BuildRows,
         Distinct, CountInner, Aggregate
<1>2. query' = query /\ method' = method /\ MainRows' = MainRows /\ Chosen' = Chosen
  BY <1>1, SameInputs
<1>3. method = "aggregate" /\ query.cols[1].fns = <<>>
  BY <1>2
<1>4. Inputs /\ TypeOK
  BY DEF IInv
<1>5. CASE AnswersNothing
  <2>1. Chosen = {}
    BY <1>3, <1>4, <1>5, InputsAreFit DEF AnswersNothing, Runs
  <2> QED BY <2>1, <1>2 DEF Summed
<1>6. CASE Aggregate
  BY <1>2, <1>3, <1>6, AggregateSums
<1>7. CASE UNCHANGED vars
  <2>1. phase = "done" /\ rows' = rows
    BY <1>7 DEF vars
  <2> QED BY <2>1, <1>2, <1>3 DEF SumsSummed
<1>8. ~Match /\ ~ScanEnds /\ ~ApplyOrdering /\ ~Slice /\ ~BuildRows /\ ~Distinct /\ ~CountInner
  BY <1>3, <1>4 DEF Match, ScanEnds, ApplyOrdering, Slice, BuildRows, Distinct, CountInner, TypeOK
<1> QED BY <1>5, <1>6, <1>7, <1>8 DEF Next

(* SUM and AVG are the sum, and the sum and the number, of the values that *)
(* the selected rows have in the column, however equal some of them are    *)
(* and in whatever order _compute_annotation adds them: each row once.     *)
THEOREM SumsAreOfTheRows == Spec => []SumsAgree
<1>1. Init => IInv /\ SumsSummed
  BY InitHolds DEF Init, SumsSummed
<1>2. IInv /\ SumsSummed /\ [Next]_vars => (IInv /\ SumsSummed)'
  BY StepKeeps, SumsKept
<1>3. SumsSummed => SumsAgree
  BY SumsAreSummed
<1> QED BY <1>1, <1>2, <1>3, PTL DEF Spec
==============================================================================
