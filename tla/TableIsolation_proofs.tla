------------------------ MODULE TableIsolation_proofs ------------------------
(***************************************************************************)
(* Proofs about transactions over tables, with and without migrations: the *)
(* steps of TableStore and SchemaEditor are commits, new views, changes of *)
(* registered objects or steps that leave the store alone, and with that   *)
(* they implement SnapshotStore, for any threads, tables, keys and object  *)
(* ids, and whether or not the storage resolves conflicts.                 *)
(***************************************************************************)
EXTENDS SchemaEditor, TableStore_proofs

StaysOpen == \A d \in Conn : pc'[d] # "closed" => pc[d] # "closed"

(* v differs from c's view in the objects objs. *)
Differs(c, v, objs) ==
  /\ Root \notin objs => v.tab = work[c].tab /\ v.seq = work[c].seq
  /\ \A tr \in Tree \ objs : v.rows[tr] = work[c].rows[tr]
  /\ \A r \in Row \ objs : v.val[r] = work[c].val[r]

(* v has the tables c sees or fewer, or a new one, or one renamed. *)
Names(c, v) ==
  \/ \A t \in Table : v.tab[t] \in {Nil, work[c].tab[t]}
  \/ \E t \in Table, tr \in Tree \ used :
       v.tab = [work[c].tab EXCEPT ![t] = tr] /\ tr \in used'
  \/ \E t, u \in Table :
       work[c].tab[u] = Nil /\ v.tab = [work[c].tab EXCEPT ![u] = work[c].tab[t], ![t] = Nil]

(* The kinds of steps. *)
Keeps == UNCHANGED store /\ StaysOpen

Changes(c) ==
  /\ \E v, objs : Differs(c, v, objs) /\ Names(c, v) /\ Change(c, v, objs)
  /\ used \subseteq used'
  /\ StaysOpen

Renews(c, w) ==
  /\ w = db \/ pc'[c] = "closed"
  /\ \A d \in Conn \ {c} : pc'[d] = pc[d]
  /\ UNCHANGED <<db, used>>
  /\ snap' = [snap EXCEPT ![c] = w] /\ work' = [work EXCEPT ![c] = w]
  /\ dirty' = [dirty EXCEPT ![c] = {}] /\ stale' = [stale EXCEPT ![c] = {}]

Kind(c) ==
  Keeps \/ Changes(c) \/ CommitSucceeds(c) \/ Renews(c, db) \/ Renews(c, EmptyView)

-----------------------------------------------------------------------------
(* The statements register what they change. *)

LEMMA BindTreeChanges ==
  ASSUME TypeInv, NEW c \in Conn, NEW t \in Table, BindTree(c, t), StaysOpen
  PROVE  Changes(c)
<1>1. PICK tr \in ({"tree"} \X {t} \X Gen) \ used :
        /\ Change(c, [work[c] EXCEPT !.tab[t] = tr], {Root, tr})
        /\ used' = used \cup {tr}
  BY DEF BindTree
<1> DEFINE v == [work[c] EXCEPT !.tab[t] = tr]
<1>2. tr \in Tree \ used /\ work[c] \in View
  BY DEF Tree, TypeInv, TypeOK
<1>3. v.tab = [work[c].tab EXCEPT ![t] = tr] /\ v.rows = work[c].rows /\ v.val = work[c].val
  BY <1>2 DEF View
<1>4. Differs(c, v, {Root, tr})
  BY <1>3 DEF Differs
<1>5. Names(c, v)
  BY <1>1, <1>2, <1>3 DEF Names
<1>6. QED BY <1>1, <1>4, <1>5 DEF Changes

LEMMA PutKeysChanges ==
  ASSUME TypeInv, NEW c \in Conn, NEW tr \in Tree, NEW f, NEW objs,
         tr \in objs \/ f = work[c].rows[tr], Change(c, PutKeys(work[c], tr, f), objs),
         used' = used, StaysOpen
  PROVE  Changes(c)
<1> DEFINE v == PutKeys(work[c], tr, f)
<1>1. /\ v.tab = work[c].tab /\ v.seq = work[c].seq /\ v.val = work[c].val
      /\ v.rows = [work[c].rows EXCEPT ![tr] = f] /\ work[c].rows \in [Tree -> [Pk -> Row \cup {Nil}]]
  BY DEF PutKeys, View, TypeInv, TypeOK
<1> HIDE DEF v
<1>2. Differs(c, v, objs) /\ Names(c, v)
  BY <1>1 DEF Differs, Names
<1>3. QED BY <1>2 DEF Changes, v

LEMMA SetRowsChanges ==
  ASSUME TypeInv, NEW c \in Conn, NEW S \in SUBSET Row, NEW x, SetRows(c, S, x), StaysOpen
  PROVE  Changes(c)
<1> DEFINE g == [r \in Row |-> IF r \in S THEN x ELSE work[c].val[r]]
           v == PutVals(work[c], g)
<1>1. Change(c, v, S) /\ used' = used
  BY DEF SetRows
<1>2. \A r \in Row \ S : g[r] = work[c].val[r]
  OBVIOUS
<1> HIDE DEF g
<1>3. v.tab = work[c].tab /\ v.seq = work[c].seq /\ v.rows = work[c].rows /\ v.val = g
  BY DEF PutVals, View, TypeInv, TypeOK
<1> HIDE DEF v
<1>4. Differs(c, v, S) /\ Names(c, v)
  BY <1>2, <1>3 DEF Differs, Names
<1>5. QED BY <1>1, <1>4 DEF Changes

(* A row is put into w, which has c's rows and may have another sequence. *)
LEMMA PutRowChanges ==
  ASSUME TypeInv, NEW c \in Conn, NEW w \in View, NEW t \in Table, NEW k, NEW r \in Row, NEW x,
         NEW objs, w.tab = work[c].tab, w.rows = work[c].rows, w.val = work[c].val,
         Root \notin objs => w.seq = work[c].seq, work[c].tab[t] \in objs, r \in objs,
         Change(c, PutRow(w, t, k, r, x), objs), used \subseteq used', StaysOpen
  PROVE  Changes(c)
<1> DEFINE v == PutRow(w, t, k, r, x)
<1>1. /\ v.tab = work[c].tab /\ v.seq = w.seq
      /\ \A tr \in Tree : tr # work[c].tab[t] => v.rows[tr] = work[c].rows[tr]
      /\ \A s \in Row : s # r => v.val[s] = work[c].val[s]
  BY DEF PutRow, View
<1> HIDE DEF v
<1>2. Differs(c, v, objs) /\ Names(c, v)
  BY <1>1 DEF Differs, Names
<1>3. QED BY <1>2 DEF Changes, v

LEMMA PutSeqKeeps ==
  ASSUME TypeInv, NEW c \in Conn, NEW t \in Table, NEW ct \in SeqOf(c, t), NEW n \in Int
  PROVE  LET w == PutSeq(work[c], t, ct, n) IN
         /\ w \in View /\ w.tab = work[c].tab /\ w.rows = work[c].rows /\ w.val = work[c].val
         /\ Root \notin RootIfNew(c, t) => w.seq = work[c].seq
<1>1. ct \in Ctr
  BY SeqOfType DEF TypeInv
<1>2. Root \notin RootIfNew(c, t) => ct = work[c].seq[t]
  BY DEF RootIfNew, SeqOf
<1>3. QED BY <1>1, <1>2 DEF PutSeq, View, TypeInv, TypeOK

LEMMA InsertAutoChanges ==
  ASSUME TypeInv, NEW c \in Conn, NEW t \in Table, NEW r \in Row, NEW x \in Val,
         NEW ct \in SeqOf(c, t), InsertAuto(c, t, r, x, ct), StaysOpen
  PROVE  Changes(c)
<1> DEFINE n == AutoPk(c, t, ct)
           w == PutSeq(work[c], t, ct, n)
           objs == RootIfNew(c, t) \cup {ct, work[c].tab[t], r}
<1>1. n \in Int /\ Change(c, PutRow(w, t, n, r, x), objs) /\ used \subseteq used'
  BY Constants DEF InsertAuto
<1>2. /\ w \in View /\ w.tab = work[c].tab /\ w.rows = work[c].rows /\ w.val = work[c].val
      /\ Root \notin objs => w.seq = work[c].seq
  BY <1>1, PutSeqKeeps
<1>3. work[c].tab[t] \in objs /\ r \in objs
  OBVIOUS
<1> HIDE DEF n, w, objs
<1>4. QED BY <1>1, <1>2, <1>3, PutRowChanges

LEMMA InsertIntChanges ==
  ASSUME TypeInv, NEW c \in Conn, NEW t \in Table, NEW k \in IntPk, NEW r \in Row, NEW x \in Val,
         NEW ct \in SeqOf(c, t), InsertInt(c, t, k, r, x, ct), StaysOpen
  PROVE  Changes(c)
<1> DEFINE behind == work[c].seq[t] = Nil \/ work[c].len[ct] <= k
           w == IF behind THEN PutSeq(work[c], t, ct, k) ELSE work[c]
           objs == {work[c].tab[t], r} \cup (IF behind THEN {ct} \cup RootIfNew(c, t) ELSE {})
<1>1. k \in Int /\ Change(c, PutRow(w, t, k, r, x), objs) /\ used \subseteq used'
  BY Constants DEF InsertInt
<1>2. /\ w \in View /\ w.tab = work[c].tab /\ w.rows = work[c].rows /\ w.val = work[c].val
      /\ Root \notin objs => w.seq = work[c].seq
  <2>1. CASE behind
    BY <1>1, <2>1, PutSeqKeeps
  <2>2. CASE ~behind
    BY <2>2 DEF TypeInv, TypeOK
  <2>3. QED BY <2>1, <2>2
<1>3. work[c].tab[t] \in objs /\ r \in objs
  OBVIOUS
<1> HIDE DEF w, objs
<1>4. QED BY <1>1, <1>2, <1>3, PutRowChanges

LEMMA InsertOtherChanges ==
  ASSUME TypeInv, NEW c \in Conn, NEW t \in Table, NEW k \in OtherPk, NEW r \in Row, NEW x \in Val,
         InsertOther(c, t, k, r, x), StaysOpen
  PROVE  Changes(c)
<1>1. /\ Change(c, PutRow(work[c], t, k, r, x), {work[c].tab[t], r}) /\ used \subseteq used'
      /\ work[c] \in View
  BY DEF InsertOther, TypeInv, TypeOK
<1>2. QED BY <1>1, PutRowChanges

LEMMA DropChanges ==
  ASSUME TypeInv, NEW c \in Conn, NEW t \in Table, DropBtree(c, t)
  PROVE  Changes(c)
<1> DEFINE v == [work[c] EXCEPT !.tab[t] = Nil, !.seq[t] = Nil]
           objs == IF work[c].tab[t] = Nil /\ work[c].seq[t] = Nil THEN {} ELSE {Root}
<1>1. Change(c, v, objs) /\ used' = used /\ StaysOpen
  BY DEF DropBtree, StatementEnds, StaysOpen, TypeInv, TypeOK
<1>2. /\ v.tab = [work[c].tab EXCEPT ![t] = Nil] /\ v.seq = [work[c].seq EXCEPT ![t] = Nil]
      /\ v.rows = work[c].rows /\ v.val = work[c].val
      /\ work[c].tab \in [Table -> Tree \cup {Nil}] /\ work[c].seq \in [Table -> Ctr \cup {Nil}]
  BY DEF View, TypeInv, TypeOK
<1> HIDE DEF v
<1>3. Differs(c, v, objs)
  BY <1>2 DEF Differs
<1>4. Names(c, v)
  BY <1>2 DEF Names
<1>5. QED BY <1>1, <1>3, <1>4 DEF Changes

LEMMA RenameChanges ==
  ASSUME TypeInv, NEW c \in Conn, NEW t \in Table, NEW u \in Table, AlterDbTable(c, t, u)
  PROVE  Changes(c)
<1> DEFINE v == Renamed(work[c], t, u)
<1>1. Change(c, v, {Root}) /\ used' = used /\ StaysOpen /\ work[c].tab[u] = Nil
  BY DEF AlterDbTable, StaysOpen, TypeInv, TypeOK
<1>2. /\ v.tab = [work[c].tab EXCEPT ![u] = work[c].tab[t], ![t] = Nil]
      /\ v.rows = work[c].rows /\ v.val = work[c].val
  BY DEF Renamed, View, TypeInv, TypeOK
<1> HIDE DEF v
<1>3. Differs(c, v, {Root}) /\ Names(c, v)
  BY <1>1, <1>2 DEF Differs, Names
<1>4. QED BY <1>1, <1>3 DEF Changes

-----------------------------------------------------------------------------
(* Every step is of a kind. *)

LEMMA StepKind ==
  ASSUME TypeInv, Next
  PROVE  \E c \in Conn : Kind(c)
<1>0. pc \in [Conn -> Places]
  BY DEF TypeInv, TypeOK
<1>1. PICK c \in Conn : \/ TransactionEnds(c) \/ Lifecycle(c)
                       \/ TableOps(c) \/ Inserts(c) \/ Updates(c) \/ Deletes(c)
  BY DEF Next
<1>2. CASE TransactionEnds(c)
  <2>1. CASE CommitConflicts(c)
    BY <1>0, <2>1 DEF CommitConflicts, StatementRaises, Refresh, Renews, Kind
  <2>2. CASE CommitRefused(c)
    BY <1>0, <2>2 DEF CommitRefused, StatementRaises, Keeps, StaysOpen, Kind
  <2>3. QED BY <1>2, <2>1, <2>2 DEF TransactionEnds, Kind
<1>3. CASE Lifecycle(c)
  <2>1. CASE Connect(c)
    BY <1>0, <2>1 DEF Connect, Refresh, Renews, Kind
  <2>2. CASE Close(c)
    BY <1>0, <2>2 DEF Close, Renews, Kind
  <2>3. CASE BeginAtomic(c) \/ EndAtomic(c)
    BY <1>0, <2>3 DEF BeginAtomic, EndAtomic, Keeps, StaysOpen, Kind
  <2>4. CASE RollbackAtomic(c)
    BY <1>0, <2>4 DEF RollbackAtomic, Abort, Refresh, Renews, Kind
  <2>5. QED BY <1>3, <2>1, <2>2, <2>3, <2>4 DEF Lifecycle
<1>4. CASE TableOps(c)
  <2>1. ASSUME NEW t \in Table, EnsureBtree(c, t) PROVE Kind(c)
    <3>1. StaysOpen
      BY <1>0, <2>1 DEF EnsureBtree, StatementEnds, StaysOpen
    <3>2. QED BY <2>1, <3>1, BindTreeChanges DEF EnsureBtree, Kind
  <2>2. ASSUME NEW t \in Table, DropBtree(c, t) PROVE Kind(c)
    BY <2>2, DropChanges DEF Kind
  <2>3. ASSUME NEW T \in SUBSET Table, FlushStarts(c, T) PROVE Kind(c)
    BY <1>0, <2>3 DEF FlushStarts, Keeps, StaysOpen, Kind
  <2>4. ASSUME NEW t \in Table, FlushSkips(c, t) PROVE Kind(c)
    BY <1>0, <2>4 DEF FlushSkips, Keeps, StaysOpen, Kind
  <2>5. ASSUME NEW t \in Table, FlushTable(c, t) PROVE Kind(c)
    <3> DEFINE tr == work[c].tab[t]
               f == [k \in Pk |-> Nil]
               objs == IF \E k \in Pk : work[c].rows[tr][k] # Nil THEN {tr} ELSE {}
    <3>1. StaysOpen
      BY <1>0, <2>5 DEF FlushTable, StaysOpen
    <3>2. tr \in Tree /\ Change(c, PutKeys(work[c], tr, f), objs) /\ used' = used
      BY <2>5 DEF FlushTable, TypeInv, TypeOK, View
    <3>3. tr \in objs \/ f = work[c].rows[tr]
      <4>1. work[c].rows[tr] \in [Pk -> Row \cup {Nil}]
        BY <3>2 DEF TypeInv, TypeOK, View
      <4>2. QED BY <4>1
    <3> HIDE DEF f, objs, tr
    <3>4. QED BY <3>1, <3>2, <3>3, PutKeysChanges DEF Kind
  <2>6. CASE FlushRaises(c)
    BY <1>0, <2>6 DEF FlushRaises, StatementRaises, Keeps, StaysOpen, Kind
  <2>7. QED BY <1>4, <2>1, <2>2, <2>3, <2>4, <2>5, <2>6 DEF TableOps
<1>5. CASE Inserts(c)
  <2>1. ASSUME NEW t \in Table, InsertStarts(c, t) PROVE Kind(c)
    <3>1. StaysOpen
      BY <1>0, <2>1 DEF InsertStarts, StaysOpen
    <3>2. CASE UNCHANGED store
      BY <3>1, <3>2 DEF Keeps, Kind
    <3>3. QED BY <2>1, <3>1, <3>2, BindTreeChanges DEF InsertStarts, Kind
  <2>2. ASSUME NEW last \in BOOLEAN, InsertAutoRow(c, last) \/ InsertGivenRow(c, last)
        PROVE  Kind(c)
    <3>1. StaysOpen /\ todo[c] \subseteq Table
      BY <1>0, <2>2 DEF InsertAutoRow, InsertGivenRow, StatementEnds, StaysOpen, TypeInv, TypeOK
    <3>2. QED
      BY <2>2, <3>1, InsertAutoChanges, InsertIntChanges, InsertOtherChanges
      DEF InsertAutoRow, InsertGivenRow, Kind
  <2>3. CASE InsertRaises(c)
    BY <1>0, <2>3 DEF InsertRaises, StatementRaises, Keeps, StaysOpen, Kind
  <2>4. QED BY <1>5, <2>1, <2>2, <2>3 DEF Inserts
<1>6. CASE Updates(c)
  <2>0. PICK t \in Table : \E S \in SUBSET RowsIn(work[c], t), x \in Val :
          Update(c, t, S, x) \/ UpdateRaises(c, t, S, x)
    BY <1>6 DEF Updates
  <2>1. PICK S \in SUBSET RowsIn(work[c], t), x \in Val :
          Update(c, t, S, x) \/ UpdateRaises(c, t, S, x)
    BY <2>0
  <2>2. S \in SUBSET Row
    BY DEF RowsIn, TypeInv, TypeOK, View
  <2>3. StaysOpen
    BY <1>0, <2>1 DEF Update, UpdateRaises, StatementEnds, StatementRaises, StaysOpen
  <2>4. QED BY <2>1, <2>2, <2>3, SetRowsChanges DEF Update, UpdateRaises, Kind
<1>7. CASE Deletes(c)
  <2>1. PICK t \in Table, K \in SUBSET Pk : Delete(c, t, K)
    BY <1>7 DEF Deletes
  <2> DEFINE tr == work[c].tab[t]
             f == [k \in Pk |-> IF k \in K THEN Nil ELSE work[c].rows[tr][k]]
             objs == IF K = {} THEN {} ELSE {tr}
  <2>2. StaysOpen
    BY <1>0, <2>1 DEF Delete, StatementEnds, StaysOpen
  <2>3. tr \in Tree /\ Change(c, PutKeys(work[c], tr, f), objs) /\ used' = used
    BY <2>1 DEF Delete, TypeInv, TypeOK, View
  <2>4. tr \in objs \/ f = work[c].rows[tr]
    <3>1. work[c].rows[tr] \in [Pk -> Row \cup {Nil}]
      BY <2>3 DEF TypeInv, TypeOK, View
    <3>2. QED BY <3>1
  <2> HIDE DEF f, objs, tr
  <2>5. QED BY <2>2, <2>3, <2>4, PutKeysChanges DEF Kind
<1>8. QED BY <1>1, <1>2, <1>3, <1>4, <1>5, <1>6, <1>7

LEMMA SchemaStepKind ==
  ASSUME TypeInv, NEW c \in Conn, SchemaOps(c)
  PROVE  Kind(c)
<1>0. pc \in [Conn -> Places]
  BY DEF TypeInv, TypeOK
<1>1. ASSUME NEW t \in Table, NEW u \in Table, AlterDbTable(c, t, u) PROVE Kind(c)
  BY <1>1, RenameChanges DEF Kind
<1>2. CASE ExitEditor(c)
  BY <1>0, <1>2 DEF ExitEditor, Keeps, StaysOpen, Kind
<1>3. CASE ExitEditorAborts(c)
  BY <1>0, <1>3 DEF ExitEditorAborts, Abort, Refresh, Renews, Kind
<1>4. QED BY <1>1, <1>2, <1>3 DEF SchemaOps

(* The types of TableStore are those of SchemaEditor. *)
LEMMA SchemaTypeNext == TypeInv /\ [SchemaNext]_vars => TypeInv'
<1> SUFFICES ASSUME TypeInv, [SchemaNext]_vars PROVE TypeInv'
  OBVIOUS
<1>1. CASE [Next]_vars
  BY <1>1, TypeNext
<1>2. ASSUME NEW c \in Conn, NEW t \in Table, NEW u \in Table, AlterDbTable(c, t, u)
      PROVE  TypeInv'
  <2>1. Renamed(work[c], t, u) \in View /\ {Root} \in SUBSET Obj
    <3>1. work[c] \in View
      BY DEF TypeInv, TypeOK
    <3>2. ASSUME NEW v \in View PROVE Renamed(v, t, u) \in View
      BY DEF Renamed, View
    <3>3. QED BY <3>1, <3>2 DEF Obj
  <2>2. Change(c, Renamed(work[c], t, u), {Root})
    BY <1>2 DEF AlterDbTable
  <2>3. /\ db' \in View /\ snap' \in [Conn -> View] /\ work' \in [Conn -> View]
        /\ dirty' \in [Conn -> SUBSET Obj] /\ stale' \in [Conn -> SUBSET Obj]
    BY <2>1, <2>2, ChangeType DEF TypeInv
  <2>4. TypeOK'
    BY <1>2, <2>3 DEF AlterDbTable, TypeInv, TypeOK, Places, Continuations
  <2>5. \A d \in Conn \ {c} : work'[d] = work[d] /\ dirty'[d] = dirty[d]
    BY <2>2 DEF Change, TypeInv, TypeOK
  <2>6. TodoBound'
    BY <1>2, <2>5 DEF AlterDbTable, TypeInv, TypeOK, TodoBound
  <2>7. QED BY <2>4, <2>6 DEF TypeInv
<1>3. ASSUME NEW c \in Conn, ExitEditor(c) PROVE TypeInv'
  BY <1>3 DEF ExitEditor, store, TypeInv, TypeOK, TodoBound, Places, Continuations
<1>4. ASSUME NEW c \in Conn, ExitEditorAborts(c) PROVE TypeInv'
  <2>1. db' \in View /\ Refresh(c)
    BY <1>4 DEF ExitEditorAborts, Abort, TypeInv, TypeOK
  <2>2. snap' \in [Conn -> View] /\ work' \in [Conn -> View] /\ dirty' \in [Conn -> SUBSET Obj]
    BY <2>1, RefreshType DEF TypeInv
  <2>3. TypeOK'
    BY <1>4, <2>1, <2>2 DEF ExitEditorAborts, Abort, TypeInv, TypeOK
  <2>4. \A d \in Conn \ {c} : work'[d] = work[d] /\ dirty'[d] = dirty[d]
    BY <2>1 DEF Refresh, TypeInv, TypeOK
  <2>5. TodoBound'
    BY <1>4, <2>4 DEF ExitEditorAborts, TypeInv, TypeOK, TodoBound
  <2>6. QED BY <2>3, <2>5 DEF TypeInv
<1>5. QED BY <1>1, <1>2, <1>3, <1>4 DEF SchemaNext, SchemaOps

-----------------------------------------------------------------------------
(* The invariant of both specifications: what a thread did not register it *)
(* did not change, and what others have not committed since is as it was   *)
(* when the thread's transaction began.                                    *)
OwnChanges(c) ==
  /\ Root \notin dirty[c] => work[c].tab = snap[c].tab /\ work[c].seq = snap[c].seq
  /\ \A tr \in Tree \ dirty[c] : work[c].rows[tr] = snap[c].rows[tr]
  /\ \A r \in Row \ dirty[c] : work[c].val[r] = snap[c].val[r]

OthersChanges(c) ==
  pc[c] # "closed" =>
    /\ Root \notin stale[c] => snap[c].tab = db.tab /\ snap[c].seq = db.seq
    /\ \A tr \in Tree \ stale[c] : snap[c].rows[tr] = db.rows[tr]
    /\ \A r \in Row \ stale[c] : snap[c].val[r] = db.val[r]

Tracked == \A c \in Conn : OwnChanges(c) /\ OthersChanges(c)

LEMMA TrackedInit == Init => Tracked
BY DEF Init, Tracked, OwnChanges, OthersChanges

LEMMA RenewsTracks ==
  ASSUME TypeInv, Tracked, NEW c \in Conn, NEW w \in {db, EmptyView}, Renews(c, w)
  PROVE  Tracked'
<1>1. /\ snap'[c] = w /\ work'[c] = w /\ dirty'[c] = {} /\ stale'[c] = {} /\ db' = db
      /\ w = db \/ pc'[c] = "closed"
      /\ \A d \in Conn \ {c} : /\ snap'[d] = snap[d] /\ work'[d] = work[d] /\ pc'[d] = pc[d]
                              /\ dirty'[d] = dirty[d] /\ stale'[d] = stale[d]
  BY DEF Renews, TypeInv, TypeOK
<1>2. OwnChanges(c)' /\ OthersChanges(c)'
  BY <1>1 DEF OwnChanges, OthersChanges
<1>3. ASSUME NEW d \in Conn \ {c} PROVE OwnChanges(d)' /\ OthersChanges(d)'
  BY <1>1 DEF Tracked, OwnChanges, OthersChanges
<1>4. QED BY <1>2, <1>3 DEF Tracked

LEMMA ChangesTracks ==
  ASSUME TypeInv, Tracked, NEW c \in Conn, Changes(c)
  PROVE  Tracked'
<1>0. PICK v, objs : Differs(c, v, objs) /\ Change(c, v, objs)
  BY DEF Changes
<1>1. /\ work'[c] = v /\ dirty'[c] = dirty[c] \cup objs
      /\ \A d \in Conn \ {c} : work'[d] = work[d] /\ dirty'[d] = dirty[d]
      /\ db' = db /\ snap' = snap /\ stale' = stale
  BY <1>0 DEF Change, TypeInv, TypeOK
<1>2. OwnChanges(c)'
  BY <1>0, <1>1 DEF Tracked, OwnChanges, Differs
<1>3. \A d \in Conn \ {c} : OwnChanges(d)'
  BY <1>1 DEF Tracked, OwnChanges
<1>4. \A d \in Conn : OthersChanges(d)'
  BY <1>1 DEF Tracked, OthersChanges, Changes, StaysOpen
<1>5. QED BY <1>2, <1>3, <1>4 DEF Tracked

(* A commit stores what it registered, and tells the others. *)
LEMMA CommitTracks ==
  ASSUME TypeInv, Tracked, NEW c \in Conn, CommitSucceeds(c)
  PROVE  Tracked'
<1>1. /\ db' = Committed(c)
      /\ snap'[c] = db' /\ work'[c] = db' /\ dirty'[c] = {} /\ stale'[c] = {}
      /\ \A d \in Conn \ {c} :
           /\ snap'[d] = snap[d] /\ work'[d] = work[d] /\ dirty'[d] = dirty[d] /\ pc'[d] = pc[d]
           /\ pc[d] # "closed" => stale'[d] = stale[d] \cup dirty[c]
  BY DEF CommitSucceeds, Refresh, TypeInv, TypeOK
<1>2. /\ Root \notin dirty[c] => Committed(c).tab = db.tab /\ Committed(c).seq = db.seq
      /\ \A tr \in Tree \ dirty[c] : Committed(c).rows[tr] = db.rows[tr]
      /\ \A r \in Row \ dirty[c] : Committed(c).val[r] = db.val[r]
  BY DEF Committed
<1>3. OwnChanges(c)' /\ OthersChanges(c)'
  BY <1>1 DEF OwnChanges, OthersChanges
<1>4. ASSUME NEW d \in Conn \ {c} PROVE OwnChanges(d)' /\ OthersChanges(d)'
  BY <1>1, <1>2 DEF Tracked, OwnChanges, OthersChanges
<1>5. QED BY <1>3, <1>4 DEF Tracked

LEMMA KindTracks ==
  ASSUME TypeInv, Tracked, NEW c \in Conn, Kind(c)
  PROVE  Tracked'
<1>1. CASE Keeps
  BY <1>1 DEF Keeps, StaysOpen, store, Tracked, OwnChanges, OthersChanges
<1>2. QED BY <1>1, ChangesTracks, CommitTracks, RenewsTracks DEF Kind

-----------------------------------------------------------------------------
(* The refinement, kind by kind. *)

LEMMA DataHas ==
  ASSUME NEW v
  PROVE  /\ \A s \in {"tab", "seq"} \X Table :
              s \in DataSlot /\ Data(v)[s] = IF s[1] = "tab" THEN v.tab[s[2]] ELSE v.seq[s[2]]
         /\ \A s \in {"key"} \X Tree \X Pk : s \in DataSlot /\ Data(v)[s] = v.rows[s[2]][s[3]]
         /\ \A s \in {"val"} \X Row : s \in DataSlot /\ Data(v)[s] = v.val[s[2]]
BY DEF Data, DataSlot

LEMMA DataIs ==
  ASSUME NEW v, NEW f, \A s \in DataSlot : Data(v)[s] = f[s]
  PROVE  Data(v) = [s \in DataSlot |-> f[s]]
<1>1. Data(v) = [s \in DataSlot |-> Data(v)[s]]
  BY DEF Data
<1>2. QED BY <1>1

(* What a step makes of the mapped state. *)
LEMMA DataNext ==
  /\ Data(db)' = Data(db')
  /\ [d \in Conn |-> Data(snap[d])]' = [d \in Conn |-> Data(snap'[d])]
  /\ [d \in Conn |-> Data(work[d])]' = [d \in Conn |-> Data(work'[d])]
<1>1. Data(db)' = Data(db')
  BY DEF Data
<1>2. [d \in Conn |-> Data(snap[d])]' = [d \in Conn |-> Data(snap'[d])]
  BY DEF Data
<1>3. [d \in Conn |-> Data(work[d])]' = [d \in Conn |-> Data(work'[d])]
  BY DEF Data
<1>4. QED BY <1>1, <1>2, <1>3

LEMMA RenewsDiscard ==
  ASSUME TypeInv, NEW c \in Conn, NEW w \in View,
         snap' = [snap EXCEPT ![c] = w], work' = [work EXCEPT ![c] = w]
  PROVE  Isolation!Renew(c, Data(w))
<1>1. \A d \in Conn : /\ snap'[d] = IF d = c THEN w ELSE snap[d]
                      /\ work'[d] = IF d = c THEN w ELSE work[d]
  BY DEF TypeInv, TypeOK
<1>2. \A d \in Conn : /\ Data(snap'[d]) = IF d = c THEN Data(w) ELSE Data(snap[d])
                      /\ Data(work'[d]) = IF d = c THEN Data(w) ELSE Data(work[d])
  BY <1>1
<1>3. /\ [d \in Conn |-> Data(snap'[d])] = [[d \in Conn |-> Data(snap[d])] EXCEPT ![c] = Data(w)]
      /\ [d \in Conn |-> Data(work'[d])] = [[d \in Conn |-> Data(work[d])] EXCEPT ![c] = Data(w)]
  BY <1>2, Zenon
<1>4. QED BY <1>3, DataNext DEF Isolation!Renew

(* Of the slots c's commit writes nobody else has written one, also where  *)
(* the storage merges two versions of a table.                             *)
LEMMA CommitInstalls ==
  ASSUME TypeInv, Tracked, NEW c \in Conn, CommitSucceeds(c)
  PROVE  Isolation!Install(c)
<1> DEFINE W == {s \in DataSlot : Data(work[c])[s] # Data(snap[c])[s]}
<1>1. Isolation!Written(c) = W
  BY DEF Isolation!Written
<1>2. /\ db' = Committed(c) /\ db' \in View /\ ~Conflicting(c)
      /\ snap' = [snap EXCEPT ![c] = db'] /\ work' = [work EXCEPT ![c] = db']
      /\ OwnChanges(c) /\ OthersChanges(c) /\ pc[c] # "closed"
  BY CommittedType DEF CommitSucceeds, Refresh, TypeInv, Tracked
<1>3. \A o \in dirty[c] \cap stale[c] : o \in Ctr \/ (o \in Tree /\ TreeMerges(c, o))
  BY <1>2 DEF Conflicting, Mergeable
<1> DEFINE Installed(s) ==
             /\ Data(work[c])[s] # Data(snap[c])[s] => Data(db)[s] = Data(snap[c])[s]
             /\ Data(db')[s] = IF Data(work[c])[s] # Data(snap[c])[s]
                               THEN Data(work[c])[s] ELSE Data(db)[s]
<1>4. ASSUME NEW s \in {"tab", "seq"} \X Table PROVE Installed(s)
  <2>0. \A v : Data(v)[s] = IF s[1] = "tab" THEN v.tab[s[2]] ELSE v.seq[s[2]]
    BY DataHas
  <2>1. CASE Root \in dirty[c]
    <3>1. snap[c].tab = db.tab /\ snap[c].seq = db.seq
      BY <1>2, <1>3, <2>1, Ids DEF OthersChanges
    <3>2. db'.tab = work[c].tab /\ db'.seq = work[c].seq
      BY <1>2, <2>1 DEF Committed
    <3>3. QED BY <2>0, <3>1, <3>2
  <2>2. CASE Root \notin dirty[c]
    <3>1. work[c].tab = snap[c].tab /\ work[c].seq = snap[c].seq
      BY <1>2, <2>2 DEF OwnChanges
    <3>2. db'.tab = db.tab /\ db'.seq = db.seq
      BY <1>2, <2>2 DEF Committed
    <3>3. QED BY <2>0, <3>1, <3>2
  <2>3. QED BY <2>1, <2>2
<1>5. ASSUME NEW s \in {"key"} \X Tree \X Pk PROVE Installed(s)
  <2> DEFINE tr == s[2]
             k == s[3]
             mine == work[c].rows[tr][k]
             base == snap[c].rows[tr][k]
             com == db.rows[tr][k]
  <2>1. tr \in Tree /\ k \in Pk
    OBVIOUS
  <2>2. mine # base => com = base
    <3>1. CASE tr \notin dirty[c]
      BY <1>2, <2>1, <3>1 DEF OwnChanges
    <3>2. CASE tr \in dirty[c] /\ tr \notin stale[c]
      BY <1>2, <2>1, <3>2 DEF OthersChanges
    <3>3. CASE tr \in dirty[c] /\ tr \in stale[c]
      BY <1>3, <2>1, <3>3, Ids DEF TreeMerges
    <3>4. QED BY <3>1, <3>2, <3>3
  <2>3. db'.rows[tr][k] = IF mine # base THEN mine ELSE com
    <3>1. CASE tr \in dirty[c]
      BY <1>2, <2>1, <3>1 DEF Committed, MergedRows
    <3>2. CASE tr \notin dirty[c]
      <4>1. mine = base
        BY <1>2, <2>1, <3>2 DEF OwnChanges
      <4>2. db'.rows[tr] = db.rows[tr]
        BY <1>2, <2>1, <3>2 DEF Committed
      <4>3. QED BY <4>1, <4>2
    <3>3. QED BY <3>1, <3>2
  <2>4. QED BY <2>2, <2>3, DataHas
<1>6. ASSUME NEW s \in {"val"} \X Row PROVE Installed(s)
  <2> DEFINE r == s[2]
  <2>1. r \in Row
    OBVIOUS
  <2>2. CASE r \in dirty[c]
    <3>1. snap[c].val[r] = db.val[r]
      BY <1>2, <1>3, <2>1, <2>2, Ids DEF OthersChanges
    <3>2. db'.val[r] = work[c].val[r]
      BY <1>2, <2>1, <2>2 DEF Committed
    <3>3. QED BY <3>1, <3>2, DataHas
  <2>3. CASE r \notin dirty[c]
    <3>1. work[c].val[r] = snap[c].val[r]
      BY <1>2, <2>1, <2>3 DEF OwnChanges
    <3>2. db'.val[r] = db.val[r]
      BY <1>2, <2>1, <2>3 DEF Committed
    <3>3. QED BY <3>1, <3>2, DataHas
  <2>4. QED BY <2>2, <2>3
<1>7. \A s \in DataSlot : Installed(s)
  BY <1>4, <1>5, <1>6 DEF DataSlot
<1>8. \A s \in W : Data(db)[s] = Data(snap[c])[s]
  BY <1>7
<1>9. Data(db') = [s \in DataSlot |-> IF s \in W THEN Data(work[c])[s] ELSE Data(db)[s]]
  <2> DEFINE f == [s \in DataSlot |-> IF s \in W THEN Data(work[c])[s] ELSE Data(db)[s]]
  <2>1. \A s \in DataSlot : Data(db')[s] = f[s]
    BY <1>7
  <2>2. f = [s \in DataSlot |-> f[s]]
    OBVIOUS
  <2> HIDE DEF f
  <2>3. Data(db') = f
    BY <2>1, <2>2, DataIs
  <2>4. QED BY <2>3 DEF f
<1>10. Isolation!Renew(c, Data(db'))
  BY <1>2, RenewsDiscard
<1>11. QED
  BY <1>1, <1>8, <1>9, <1>10, DataNext DEF Isolation!Install

LEMMA KindRefines ==
  ASSUME TypeInv, Tracked, NEW c \in Conn, Kind(c)
  PROVE  [Isolation!SNext]_Isolation!svars
<1>1. CASE Keeps
  BY <1>1, DataNext DEF Keeps, store, Isolation!svars
<1>2. CASE Changes(c)
  <2>1. \A d \in Conn \ {c} : work'[d] = work[d]
    BY <1>2 DEF Changes, Change, TypeInv, TypeOK
  <2>2. UNCHANGED <<db, snap>>
    BY <1>2 DEF Changes, Change
  <2>3. Isolation!Write(c)
    BY <2>1, <2>2, DataNext DEF Isolation!Write
  <2>4. QED BY <2>3 DEF Isolation!SNext
<1>3. CASE CommitSucceeds(c)
  BY <1>3, CommitInstalls DEF Isolation!SNext
<1>4. CASE Renews(c, db)
  <2>1. Isolation!Renew(c, Data(db)) /\ db' = db
    BY <1>4, RenewsDiscard DEF Renews, TypeInv, TypeOK
  <2>2. Isolation!Discard(c)
    BY <2>1, DataNext DEF Isolation!Discard
  <2>3. QED BY <2>2 DEF Isolation!SNext
<1>5. CASE Renews(c, EmptyView)
  <2>1. Isolation!Renew(c, Data(EmptyView)) /\ db' = db
    BY <1>5, RenewsDiscard, EmptyViewType DEF Renews
  <2>2. Isolation!Leave(c)
    BY <2>1, DataNext DEF Isolation!Leave
  <2>3. QED BY <2>2 DEF Isolation!SNext
<1>6. QED BY <1>1, <1>2, <1>3, <1>4, <1>5 DEF Kind

LEMMA SchemaKind ==
  ASSUME TypeInv, SchemaNext
  PROVE  \E c \in Conn : Kind(c)
BY StepKind, SchemaStepKind DEF SchemaNext

LEMMA SchemaAlways == SchemaSpec => [](TypeInv /\ Tracked)
<1>1. Init => TypeInv /\ Tracked
  BY TypeInit, TrackedInit
<1>2. TypeInv /\ Tracked /\ [SchemaNext]_vars => TypeInv' /\ Tracked'
  <2> SUFFICES ASSUME TypeInv, Tracked, [SchemaNext]_vars PROVE TypeInv' /\ Tracked'
    OBVIOUS
  <2>1. TypeInv'
    BY SchemaTypeNext
  <2>2. CASE UNCHANGED vars
    BY <2>1, <2>2 DEF vars, store, Tracked, OwnChanges, OthersChanges
  <2>3. CASE SchemaNext
    BY <2>1, <2>3, SchemaKind, KindTracks
  <2>4. QED BY <2>1, <2>2, <2>3
<1>3. QED BY <1>1, <1>2, PTL DEF SchemaSpec

(* Snapshot isolation holds while other threads migrate: no table created, *)
(* dropped or renamed makes a commit lose or mix what another installed.   *)
THEOREM MigrationsAreIsolated == SchemaSpec => SnapshotIsolation
<1>1. Init => Isolation!SInit
  BY DEF Init, Isolation!SInit
<1>2. TypeInv /\ Tracked /\ [SchemaNext]_vars => [Isolation!SNext]_Isolation!svars
  <2> SUFFICES ASSUME TypeInv, Tracked, [SchemaNext]_vars
               PROVE  [Isolation!SNext]_Isolation!svars
    OBVIOUS
  <2>1. CASE UNCHANGED vars
    BY <2>1, DataNext DEF vars, store, Isolation!svars
  <2>2. CASE SchemaNext
    BY <2>2, SchemaKind, KindRefines
  <2>3. QED BY <2>1, <2>2
<1>3. QED
  BY <1>1, <1>2, SchemaAlways, PTL DEF SchemaSpec, SnapshotIsolation, Isolation!SSpec

(* Every commit of every statement, merged by the storage or not, is one   *)
(* that snapshot isolation with the first committer winning allows.        *)
THEOREM CommitsAreIsolated == Spec => SnapshotIsolation
<1>1. Spec => SchemaSpec
  <2>1. [Next]_vars => [SchemaNext]_vars
    BY DEF SchemaNext
  <2>2. QED BY <2>1, PTL DEF Spec, SchemaSpec
<1>2. QED BY <1>1, MigrationsAreIsolated, PTL

-----------------------------------------------------------------------------
(* Names of tables: a table that is bound has been given an id, so that a  *)
(* new table is nobody's.                                                  *)
Bound(v) == \A t \in Table : v.tab[t] \in used \cup {Nil}

NamesInv ==
  /\ OneName(db) /\ Bound(db)
  /\ \A c \in Conn : OneName(work[c]) /\ Bound(work[c])

LEMMA NamesKept ==
  ASSUME TypeInv, NEW c \in Conn, NEW v, OneName(work[c]), Bound(work[c]),
         Names(c, v), used \subseteq used'
  PROVE  OneName(v) /\ Bound(v)'
<1>1. /\ work[c].tab \in [Table -> Tree \cup {Nil}]
      /\ \A t \in Table : work[c].tab[t] \in used \cup {Nil}
  BY DEF Bound, TypeInv, TypeOK, View
<1>2. CASE \A t \in Table : v.tab[t] \in {Nil, work[c].tab[t]}
  BY <1>1, <1>2 DEF OneName, Bound
<1>3. ASSUME NEW t \in Table, NEW tr \in Tree \ used,
             v.tab = [work[c].tab EXCEPT ![t] = tr], tr \in used'
      PROVE  OneName(v) /\ Bound(v)'
  <2>1. \A u \in Table : v.tab[u] = IF u = t THEN tr ELSE work[c].tab[u]
    BY <1>1, <1>3
  <2>2. tr # Nil
    BY Constants
  <2>3. QED BY <1>1, <1>3, <2>1, <2>2 DEF OneName, Bound
<1>4. ASSUME NEW t \in Table, NEW u \in Table, work[c].tab[u] = Nil,
             v.tab = [work[c].tab EXCEPT ![u] = work[c].tab[t], ![t] = Nil]
      PROVE  OneName(v) /\ Bound(v)'
  <2>1. \A x \in Table : v.tab[x] = IF x = t THEN Nil
                                    ELSE IF x = u THEN work[c].tab[t] ELSE work[c].tab[x]
    BY <1>1, <1>4
  <2>2. QED BY <1>1, <1>4, <2>1 DEF OneName, Bound
<1>5. QED BY <1>2, <1>3, <1>4 DEF Names

LEMMA KindNames ==
  ASSUME TypeInv, NamesInv, NEW c \in Conn, Kind(c)
  PROVE  NamesInv'
<1>1. CASE Keeps
  BY <1>1 DEF Keeps, store, NamesInv, OneName, Bound
<1>2. CASE Changes(c)
  <2>1. PICK v, objs : Names(c, v) /\ Change(c, v, objs)
    BY <1>2 DEF Changes
  <2>2. used \subseteq used'
    BY <1>2 DEF Changes
  <2>3. OneName(v) /\ Bound(v)'
    BY <2>1, <2>2, NamesKept DEF NamesInv
  <2>4. work'[c] = v /\ db' = db /\ \A d \in Conn \ {c} : work'[d] = work[d]
    BY <2>1 DEF Change, TypeInv, TypeOK
  <2>5. QED BY <2>2, <2>3, <2>4 DEF NamesInv, OneName, Bound
<1>3. CASE CommitSucceeds(c)
  <2>1. db' = Committed(c) /\ work'[c] = db' /\ used' = used
        /\ \A d \in Conn \ {c} : work'[d] = work[d]
    BY <1>3 DEF CommitSucceeds, Refresh, TypeInv, TypeOK
  <2>2. db'.tab = work[c].tab \/ db'.tab = db.tab
    BY <2>1 DEF Committed
  <2>3. QED BY <2>1, <2>2 DEF NamesInv, OneName, Bound
<1>4. ASSUME NEW w \in {db, EmptyView}, Renews(c, w) PROVE NamesInv'
  <2>1. work'[c] = w /\ db' = db /\ used' = used /\ \A d \in Conn \ {c} : work'[d] = work[d]
    BY <1>4 DEF Renews, TypeInv, TypeOK
  <2>2. OneName(w) /\ Bound(w)
    BY EmptyViewHas DEF NamesInv, OneName, Bound
  <2>3. QED BY <2>1, <2>2 DEF NamesInv, OneName, Bound
<1>5. QED BY <1>1, <1>2, <1>3, <1>4 DEF Kind

(* However threads create, drop and rename tables and whichever of their   *)
(* commits succeed, no rows are reachable under two names.                 *)
THEOREM OneNamePerTable == SchemaSpec => []TablesHaveOneName
<1>1. Init => NamesInv
  BY EmptyViewHas DEF Init, NamesInv, OneName, Bound
<1>2. TypeInv /\ NamesInv /\ [SchemaNext]_vars => NamesInv'
  <2> SUFFICES ASSUME TypeInv, NamesInv, [SchemaNext]_vars PROVE NamesInv'
    OBVIOUS
  <2>1. CASE UNCHANGED vars
    BY <2>1 DEF vars, store, NamesInv, OneName, Bound
  <2>2. CASE SchemaNext
    BY <2>2, SchemaKind, KindNames
  <2>3. QED BY <2>1, <2>2
<1>3. NamesInv => TablesHaveOneName
  BY DEF NamesInv, TablesHaveOneName
<1>4. QED BY <1>1, <1>2, <1>3, SchemaAlways, PTL DEF SchemaSpec
=============================================================================
