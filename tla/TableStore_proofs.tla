-------------------------- MODULE TableStore_proofs --------------------------
(***************************************************************************)
(* Proofs about TableStore, for any number of threads, tables, keys, rows  *)
(* and object ids.                                                         *)
(***************************************************************************)
EXTENDS TableStore, TLAPS

-----------------------------------------------------------------------------
(* Types.  A statement that inserts works on a table that exists: the one  *)
(* it found, or the one it has just bound in the root.                     *)
TodoBound ==
  \A c \in Conn :
    /\ pc[c] = "inserting" => \A t \in todo[c] : work[c].tab[t] # Nil
    /\ pc[c] = "commit" /\ then[c] = "inserting" =>
         Root \in dirty[c] /\ \A t \in todo[c] : work[c].tab[t] # Nil

TypeInv == TypeOK /\ TodoBound

(* What a commit stores is a state of the database. *)
LEMMA CommittedType ==
  ASSUME TypeOK, NEW c \in Conn
  PROVE  Committed(c) \in View
<1>1. \A tr \in Tree : MergedRows(c, tr) \in [Pk -> Row \cup {Nil}]
  BY DEF TypeOK, View, MergedRows
<1>2. QED
  BY <1>1 DEF TypeOK, View, Committed

LEMMA EmptyViewType == EmptyView \in View
BY DEF EmptyView, View

(* Writing a row, and a sequence, into a state gives a state. *)
LEMMA PutRowType ==
  ASSUME NEW v \in View, NEW t \in Table, NEW k \in Pk, NEW r \in Row, NEW x \in Val
  PROVE  PutRow(v, t, k, r, x) \in View
BY DEF PutRow, View

LEMMA PutSeqType ==
  ASSUME NEW v \in View, NEW t \in Table, NEW ct \in Ctr, NEW n \in Int
  PROVE  PutSeq(v, t, ct, n) \in View /\ PutSeq(v, t, ct, n).tab = v.tab
BY DEF PutSeq, View

LEMMA SeqOfType ==
  ASSUME TypeOK, NEW c \in Conn, NEW t \in Table
  PROVE  SeqOf(c, t) \subseteq Ctr
BY DEF SeqOf, Ctr, TypeOK, View

LEMMA ChangeType ==
  ASSUME TypeOK, NEW c \in Conn, NEW v \in View, NEW objs \in SUBSET Obj, Change(c, v, objs)
  PROVE  db' \in View /\ snap' \in [Conn -> View] /\ work' \in [Conn -> View]
         /\ dirty' \in [Conn -> SUBSET Obj] /\ stale' \in [Conn -> SUBSET Obj]
BY DEF TypeOK, Change

LEMMA RefreshType ==
  ASSUME TypeOK, NEW c \in Conn, db' \in View, Refresh(c)
  PROVE  snap' \in [Conn -> View] /\ work' \in [Conn -> View] /\ dirty' \in [Conn -> SUBSET Obj]
BY DEF TypeOK, Refresh
LEMMA PutKeysType ==
  ASSUME NEW v \in View, NEW tr \in Tree, NEW f \in [Pk -> Row \cup {Nil}]
  PROVE  PutKeys(v, tr, f) \in View
BY DEF PutKeys, View

LEMMA PutValsType ==
  ASSUME NEW v \in View, NEW g \in [Row -> Val \cup {Nil}]
  PROVE  PutVals(v, g) \in View
BY DEF PutVals, View

LEMMA BindTreeType ==
  ASSUME TypeOK, NEW c \in Conn, NEW t \in Table, BindTree(c, t)
  PROVE  /\ db' \in View /\ snap' \in [Conn -> View] /\ work' \in [Conn -> View]
         /\ dirty' \in [Conn -> SUBSET Obj] /\ stale' \in [Conn -> SUBSET Obj]
         /\ used' \in SUBSET Obj
         /\ work'[c].tab[t] # Nil /\ Root \in dirty'[c]
         /\ \A d \in Conn \ {c} : work'[d] = work[d] /\ dirty'[d] = dirty[d]
<1>1. PICK tr \in ({"tree"} \X {t} \X Gen) \ used :
        /\ Change(c, [work[c] EXCEPT !.tab[t] = tr], {Root, tr})
        /\ used' = used \cup {tr}
  BY DEF BindTree
<1>2. tr \in Tree /\ tr # Nil
  BY Constants DEF Tree
<1>3. [work[c] EXCEPT !.tab[t] = tr] \in View
  BY <1>2 DEF TypeOK, View
<1>4. {Root, tr} \subseteq Obj
  BY <1>2 DEF Obj
<1>5. /\ work'[c].tab[t] = tr /\ Root \in dirty'[c]
      /\ \A d \in Conn \ {c} : work'[d] = work[d] /\ dirty'[d] = dirty[d]
  BY <1>1 DEF Change, TypeOK, View
<1>6. QED BY <1>1, <1>2, <1>3, <1>4, <1>5, ChangeType DEF TypeOK

(* One row of an INSERT, whichever way it got its key, and what follows. *)
InsertRowOf(c, t) ==
  \E r \in Row \ used, x \in Val :
    \/ \E ct \in SeqOf(c, t) : InsertAuto(c, t, r, x, ct)
    \/ \E ct \in SeqOf(c, t), k \in IntPk : InsertInt(c, t, k, r, x, ct)
    \/ \E k \in OtherPk : InsertOther(c, t, k, r, x)

FinishRow(c, last) == IF last THEN StatementEnds(c) ELSE UNCHANGED <<pc, then, todo>>

LEMMA InsertRowType ==
  ASSUME TypeOK, NEW c \in Conn, NEW t \in Table, work[c].tab[t] # Nil, InsertRowOf(c, t)
  PROVE  /\ db' \in View /\ snap' \in [Conn -> View] /\ work' \in [Conn -> View]
         /\ dirty' \in [Conn -> SUBSET Obj] /\ stale' \in [Conn -> SUBSET Obj]
         /\ used' \in SUBSET Obj
         /\ work'[c].tab = work[c].tab
         /\ \A d \in Conn \ {c} : work'[d] = work[d] /\ dirty'[d] = dirty[d]
<1> DEFINE tr == work[c].tab[t]
<1>1. tr \in Tree /\ work[c] \in View
  BY DEF TypeOK, View
<1>2. ASSUME NEW v \in View, NEW k \in Pk, NEW r \in Row, NEW x \in Val
      PROVE  PutRow(v, t, k, r, x).tab = v.tab
  BY DEF PutRow, View
<1>3. ASSUME NEW v \in View, v.tab = work[c].tab, NEW objs \in SUBSET Obj, Change(c, v, objs)
      PROVE  /\ work'[c].tab = work[c].tab
             /\ \A d \in Conn \ {c} : work'[d] = work[d] /\ dirty'[d] = dirty[d]
  BY <1>3 DEF Change, TypeOK
<1>4. PICK r \in Row \ used, x \in Val :
        \/ \E ct \in SeqOf(c, t) : InsertAuto(c, t, r, x, ct)
        \/ \E ct \in SeqOf(c, t), k \in IntPk : InsertInt(c, t, k, r, x, ct)
        \/ \E k \in OtherPk : InsertOther(c, t, k, r, x)
  BY DEF InsertRowOf
<1>5. IntPk \subseteq Int /\ IntPk \subseteq Pk /\ OtherPk \subseteq Pk
  BY Constants DEF Pk
<1>6. RootIfNew(c, t) \subseteq Obj
  BY DEF RootIfNew, Obj
<1>7. ASSUME NEW ct \in SeqOf(c, t), InsertAuto(c, t, r, x, ct)
      PROVE  \E v \in View, objs \in SUBSET Obj :
               v.tab = work[c].tab /\ Change(c, v, objs) /\ used' \in SUBSET Obj
  <2> DEFINE k == AutoPk(c, t, ct)
             w == PutSeq(work[c], t, ct, k)
             v == PutRow(w, t, k, r, x)
             objs == RootIfNew(c, t) \cup {ct, tr, r}
  <2>1. ct \in Ctr /\ k \in IntPk
    BY <1>7, SeqOfType DEF InsertAuto
  <2>2. w \in View /\ w.tab = work[c].tab
    BY <1>1, <1>5, <2>1, PutSeqType
  <2>3. v \in View /\ v.tab = work[c].tab
    BY <1>2, <1>5, <2>1, <2>2, PutRowType
  <2>4. objs \in SUBSET Obj /\ used \cup {ct, r} \in SUBSET Obj
    BY <1>1, <1>6, <2>1 DEF Obj, TypeOK
  <2>5. Change(c, v, objs) /\ used' = used \cup {ct, r}
    BY <1>7 DEF InsertAuto
  <2>6. QED BY <2>3, <2>4, <2>5
<1>8. ASSUME NEW ct \in SeqOf(c, t), NEW k \in IntPk, InsertInt(c, t, k, r, x, ct)
      PROVE  \E v \in View, objs \in SUBSET Obj :
               v.tab = work[c].tab /\ Change(c, v, objs) /\ used' \in SUBSET Obj
  <2> DEFINE behind == work[c].seq[t] = Nil \/ work[c].len[ct] <= k
             w == IF behind THEN PutSeq(work[c], t, ct, k) ELSE work[c]
             v == PutRow(w, t, k, r, x)
             objs == {tr, r} \cup (IF behind THEN {ct} \cup RootIfNew(c, t) ELSE {})
  <2>1. ct \in Ctr
    BY SeqOfType
  <2>2. w \in View /\ w.tab = work[c].tab
    BY <1>1, <1>5, <2>1, PutSeqType
  <2>3. v \in View /\ v.tab = work[c].tab
    BY <1>2, <1>5, <2>2, PutRowType
  <2>4. objs \in SUBSET Obj /\ used \cup {ct, r} \in SUBSET Obj
    BY <1>1, <1>6, <2>1 DEF Obj, TypeOK
  <2>5. Change(c, v, objs) /\ used' = used \cup {ct, r}
    BY <1>8 DEF InsertInt
  <2>6. QED BY <2>3, <2>4, <2>5
<1>9. ASSUME NEW k \in OtherPk, InsertOther(c, t, k, r, x)
      PROVE  \E v \in View, objs \in SUBSET Obj :
               v.tab = work[c].tab /\ Change(c, v, objs) /\ used' \in SUBSET Obj
  <2> DEFINE v == PutRow(work[c], t, k, r, x)
  <2>1. v \in View /\ v.tab = work[c].tab
    BY <1>1, <1>2, <1>5, PutRowType
  <2>2. {tr, r} \in SUBSET Obj /\ used \cup {r} \in SUBSET Obj
    BY <1>1 DEF Obj, TypeOK
  <2>3. Change(c, v, {tr, r}) /\ used' = used \cup {r}
    BY <1>9 DEF InsertOther
  <2>4. QED BY <2>1, <2>2, <2>3
<1>10. QED BY <1>3, <1>4, <1>7, <1>8, <1>9, ChangeType

LEMMA TypeInit == Init => TypeInv
BY EmptyViewType DEF Init, TypeInv, TypeOK, TodoBound, Places, Continuations

LEMMA TypeNext == TypeInv /\ [Next]_vars => TypeInv'
<1> SUFFICES ASSUME TypeInv, [Next]_vars PROVE TypeInv'
  OBVIOUS
<1> USE DEF TypeInv
<1>1. CASE UNCHANGED vars
  BY <1>1 DEF vars, store, TypeOK, TodoBound
<1>2. ASSUME NEW c \in Conn, TransactionEnds(c) PROVE TypeInv'
  <2>1. CASE CommitSucceeds(c)
    <3>1. db' \in View
      BY <2>1, CommittedType DEF CommitSucceeds
    <3>2. TypeOK'
      BY <2>1, <3>1, RefreshType
         DEF CommitSucceeds, LeaveAtomic, TypeOK, Places, Continuations
    <3>3. TodoBound'
      <4> SUFFICES ASSUME NEW d \in Conn PROVE TodoBound!(d)'
        BY DEF TodoBound
      <4>1. CASE d = c
        BY <2>1, <4>1 DEF CommitSucceeds, Refresh, Committed, TypeOK, TodoBound
      <4>2. CASE d # c
        BY <2>1, <4>2 DEF CommitSucceeds, Refresh, TypeOK, TodoBound
      <4>3. QED BY <4>1, <4>2
    <3>4. QED BY <3>2, <3>3
  <2>2. CASE CommitConflicts(c)
    <3>1. TypeOK'
      BY <2>2, RefreshType
         DEF CommitConflicts, StatementRaises, LeaveAtomic, TypeOK, Places, Continuations
    <3>2. TodoBound'
      BY <2>2 DEF CommitConflicts, StatementRaises, Refresh, TypeOK, TodoBound
    <3>3. QED BY <3>1, <3>2
  <2>3. CASE CommitRefused(c)
    BY <2>3 DEF CommitRefused, StatementRaises, LeaveAtomic, store, TypeOK, TodoBound,
                Places, Continuations
  <2>4. QED BY <1>2, <2>1, <2>2, <2>3 DEF TransactionEnds
<1>3. ASSUME NEW c \in Conn, Lifecycle(c) PROVE TypeInv'
  <2>1. CASE Connect(c)
    <3>1. TypeOK'
      BY <2>1, RefreshType DEF Connect, TypeOK, Places, Continuations
    <3>2. TodoBound'
      BY <2>1 DEF Connect, Refresh, TypeOK, TodoBound
    <3>3. QED BY <3>1, <3>2
  <2>2. CASE Close(c)
    BY <2>2, EmptyViewType DEF Close, TypeOK, TodoBound, Places, Continuations
  <2>3. CASE BeginAtomic(c)
    BY <2>3 DEF BeginAtomic, store, TypeOK, TodoBound
  <2>4. CASE EndAtomic(c)
    BY <2>4 DEF EndAtomic, store, TypeOK, TodoBound, Places, Continuations
  <2>5. CASE RollbackAtomic(c)
    <3>1. TypeOK'
      BY <2>5, RefreshType DEF RollbackAtomic, Abort, TypeOK
    <3>2. TodoBound'
      BY <2>5 DEF RollbackAtomic, Abort, Refresh, TypeOK, TodoBound
    <3>3. QED BY <3>1, <3>2
  <2>6. QED BY <1>3, <2>1, <2>2, <2>3, <2>4, <2>5 DEF Lifecycle
<1>4. ASSUME NEW c \in Conn, TableOps(c) PROVE TypeInv'
  <2>1. ASSUME NEW t \in Table, EnsureBtree(c, t) PROVE TypeInv'
    <3>1. TypeOK'
      BY <2>1, BindTreeType DEF EnsureBtree, StatementEnds, TypeOK, Places, Continuations
    <3>2. TodoBound'
      BY <2>1 DEF EnsureBtree, BindTree, Change, StatementEnds, TypeOK, TodoBound
    <3>3. QED BY <3>1, <3>2
  <2>2. ASSUME NEW t \in Table, DropBtree(c, t) PROVE TypeInv'
    <3>1. [work[c] EXCEPT !.tab[t] = Nil, !.seq[t] = Nil] \in View
      BY DEF TypeOK, View
    <3>2. TypeOK'
      BY <2>2, <3>1, ChangeType
         DEF DropBtree, StatementEnds, TypeOK, Places, Continuations, Obj
    <3>3. TodoBound'
      BY <2>2 DEF DropBtree, Change, StatementEnds, TypeOK, TodoBound
    <3>4. QED BY <3>2, <3>3
  <2>3. ASSUME NEW T \in SUBSET Table, FlushStarts(c, T) PROVE TypeInv'
    BY <2>3 DEF FlushStarts, store, TypeOK, TodoBound, Places
  <2>4. ASSUME NEW t \in Table, FlushSkips(c, t) PROVE TypeInv'
    BY <2>4 DEF FlushSkips, store, TypeOK, TodoBound, Places
  <2>5. ASSUME NEW t \in Table, FlushTable(c, t) PROVE TypeInv'
    <3> DEFINE tr == work[c].tab[t]
               f == [k \in Pk |-> Nil]
               v == PutKeys(work[c], tr, f)
    <3>1. tr \in Tree /\ v \in View
      <4>1. f \in [Pk -> Row \cup {Nil}] /\ tr \in Tree /\ work[c] \in View
        BY <2>5 DEF FlushTable, TypeOK, View
      <4>2. QED BY <4>1, PutKeysType
    <3>2. TypeOK'
      BY <2>5, <3>1, ChangeType DEF FlushTable, TypeOK, Places, Continuations, Obj
    <3>3. TodoBound'
      BY <2>5 DEF FlushTable, Change, TypeOK, TodoBound
    <3>4. QED BY <3>2, <3>3
  <2>6. CASE FlushRaises(c)
    BY <2>6 DEF FlushRaises, StatementRaises, store, TypeOK, TodoBound, Places, Continuations
  <2>7. QED BY <1>4, <2>1, <2>2, <2>3, <2>4, <2>5, <2>6 DEF TableOps
<1>5. ASSUME NEW c \in Conn, Inserts(c) PROVE TypeInv'
  <2>1. ASSUME NEW t \in Table, InsertStarts(c, t) PROVE TypeInv'
    <3>1. CASE work[c].tab[t] # Nil
      BY <2>1, <3>1 DEF InsertStarts, store, TypeOK, TodoBound, Places
    <3>2. CASE work[c].tab[t] = Nil
      <4>1. TypeOK'
        BY <2>1, <3>2, BindTreeType DEF InsertStarts, TypeOK, Places, Continuations
      <4>2. TodoBound'
        BY <2>1, <3>2, BindTreeType DEF InsertStarts, TypeOK, TodoBound
      <4>3. QED BY <4>1, <4>2
    <3>3. QED BY <3>1, <3>2
  <2>2. ASSUME NEW t \in todo[c], pc[c] = "inserting",
               InsertRowOf(c, t),
               NEW last \in BOOLEAN, FinishRow(c, last),
               UNCHANGED <<autocommit, failed>>
        PROVE  TypeInv'
    <3> t \in Table /\ work[c].tab[t] # Nil
      BY <2>2 DEF TypeOK, TodoBound
    <3>1. TypeOK'
      BY <2>2, InsertRowType DEF FinishRow, StatementEnds, TypeOK, Places, Continuations
    <3>2. TodoBound'
      BY <2>2, InsertRowType DEF FinishRow, StatementEnds, TypeOK, TodoBound
    <3>3. QED BY <3>1, <3>2
  <2>3. CASE InsertRaises(c)
    BY <2>3 DEF InsertRaises, StatementRaises, store, TypeOK, TodoBound, Places, Continuations
  <2>4. QED BY <1>5, <2>1, <2>2, <2>3
            DEF Inserts, InsertAutoRow, InsertGivenRow, InsertRowOf, FinishRow
<1>6. ASSUME NEW c \in Conn, Updates(c) \/ Deletes(c) PROVE TypeInv'
  <2>1. ASSUME NEW S \in SUBSET Row, NEW x \in Val, SetRows(c, S, x),
               StatementEnds(c) \/ StatementRaises(c)
        PROVE  TypeInv'
    <3> DEFINE g == [r \in Row |-> IF r \in S THEN x ELSE work[c].val[r]]
    <3>1. PutVals(work[c], g) \in View
      <4>1. g \in [Row -> Val \cup {Nil}] /\ work[c] \in View
        BY DEF TypeOK, View
      <4>2. QED BY <4>1, PutValsType
    <3>2. TypeOK'
      BY <2>1, <3>1, ChangeType
         DEF SetRows, StatementEnds, StatementRaises, TypeOK, Places, Continuations, Obj
    <3>3. TodoBound'
      BY <2>1 DEF SetRows, Change, StatementEnds, StatementRaises, TypeOK, TodoBound
    <3>4. QED BY <3>2, <3>3
  <2>2. ASSUME NEW t \in Table, NEW S \in SUBSET RowsIn(work[c], t), NEW x \in Val,
               Update(c, t, S, x) \/ UpdateRaises(c, t, S, x)
        PROVE  TypeInv'
    <3>1. RowsIn(work[c], t) \subseteq Row
      BY DEF RowsIn, TypeOK, View
    <3>2. QED BY <2>1, <2>2, <3>1 DEF Update, UpdateRaises
  <2>3. ASSUME NEW t \in Table, NEW K \in SUBSET Pk, Delete(c, t, K) PROVE TypeInv'
    <3> DEFINE tr == work[c].tab[t]
               f == [k \in Pk |-> IF k \in K THEN Nil ELSE work[c].rows[tr][k]]
               v == PutKeys(work[c], tr, f)
    <3>1. tr \in Tree /\ v \in View
      <4>1. tr \in Tree /\ work[c] \in View
        BY <2>3 DEF Delete, TypeOK, View
      <4>2. f \in [Pk -> Row \cup {Nil}]
        BY <4>1 DEF View
      <4>3. QED BY <4>1, <4>2, PutKeysType
    <3>2. TypeOK'
      BY <2>3, <3>1, ChangeType
         DEF Delete, StatementEnds, TypeOK, Places, Continuations, Obj
    <3>3. TodoBound'
      BY <2>3 DEF Delete, Change, StatementEnds, TypeOK, TodoBound
    <3>4. QED BY <3>2, <3>3
  <2>4. QED BY <1>6, <2>2, <2>3 DEF Updates, Deletes
<1>7. QED BY <1>1, <1>2, <1>3, <1>4, <1>5, <1>6 DEF Next

(* Every variable keeps its type: every object the code binds or changes   *)
(* is one that exists, in every view of every thread.                      *)
THEOREM TypeCorrect == Spec => []TypeOK
<1>1. Spec => []TypeInv
  BY TypeInit, TypeNext, PTL DEF Spec
<1>2. TypeInv => TypeOK
  BY DEF TypeInv
<1>3. QED BY <1>1, <1>2, PTL

-----------------------------------------------------------------------------
(* The inductive invariant. *)

TreesOf(t) == {"tree"} \X {t} \X Gen
CtrsOf(t)  == {"seq"} \X {t} \X Gen

(* A table is bound to objects made for it. *)
Owned(v) ==
  \A t \in Table : v.tab[t] \in (TreesOf(t) \cap used) \cup {Nil}
                /\ v.seq[t] \in (CtrsOf(t) \cap used) \cup {Nil}

(* What is bound or changed has been given an id; an id not given out yet  *)
(* is nobody's object.                                                     *)
Known ==
  /\ Owned(db)
  /\ \A c \in Conn : Owned(snap[c]) /\ Owned(work[c]) /\ dirty[c] \ Row \subseteq used \cup {Root}
  /\ \A tr \in Tree \ used, k \in Pk :
       db.rows[tr][k] = Nil /\ \A c \in Conn : work[c].rows[tr][k] = Nil
  /\ \A ct \in Ctr \ used : db.len[ct] = 0 /\ \A c \in Conn : snap[c].len[ct] = 0

(* A thread that left the root alone has the bindings it began with, and   *)
(* has those others have unless they changed the root.                     *)
RootKept(c) ==
  /\ Root \notin dirty[c] => work[c].tab = snap[c].tab /\ work[c].seq = snap[c].seq
  /\ (pc[c] # "closed" /\ Root \notin stale[c]) => snap[c].tab = db.tab /\ snap[c].seq = db.seq

(* A thread has its tables from its snapshot or made them itself; what it  *)
(* made, nobody else knows.                                                *)
TreesKept(c) ==
  \A t \in Table :
    /\ work[c].tab[t] \in {Nil, snap[c].tab[t]} \cup dirty[c]
    /\ \A tr \in TreesOf(t) :
         /\ tr \in dirty[c] => Root \in dirty[c] \/ tr = work[c].tab[t]
         /\ (tr \in dirty[c] /\ tr # snap[c].tab[t]) =>
              /\ db.tab[t] # tr
              /\ \A k \in Pk : db.rows[tr][k] = Nil
              /\ \A d \in Conn \ {c} :
                   tr \notin dirty[d] /\ work[d].tab[t] # tr /\ snap[d].tab[t] # tr

CtrsKept(c) ==
  \A t \in Table :
    /\ work[c].seq[t] \in {Nil, snap[c].seq[t]} \cup dirty[c]
    /\ \A ct \in CtrsOf(t) :
         /\ ct \in dirty[c] => Root \in dirty[c] \/ ct = work[c].seq[t]
         /\ (ct \in dirty[c] /\ ct # snap[c].seq[t]) =>
              /\ db.seq[t] # ct
              /\ db.len[ct] = snap[c].len[ct]
              /\ \A d \in Conn \ {c} :
                   ct \notin dirty[d] /\ work[d].seq[t] # ct /\ snap[d].seq[t] # ct

(* A table keeps the sequence it has, and sequences grow. *)
SeqsKept(c) ==
  /\ \A t \in Table : snap[c].seq[t] # Nil =>
       /\ work[c].tab[t] # Nil /\ work[c].tab[t] = snap[c].tab[t] => work[c].seq[t] = snap[c].seq[t]
       /\ db.tab[t] # Nil /\ db.tab[t] = snap[c].tab[t] => db.seq[t] = snap[c].seq[t]
       /\ snap[c].len[snap[c].seq[t]] <= work[c].len[snap[c].seq[t]]
       /\ snap[c].len[snap[c].seq[t]] <= db.len[snap[c].seq[t]]
  /\ \A ct \in Ctr \ dirty[c] : work[c].len[ct] = snap[c].len[ct]

Kept(c) == RootKept(c) /\ TreesKept(c) /\ CtrsKept(c) /\ SeqsKept(c)

Inv == SeqAhead /\ Known /\ \A c \in Conn : Kept(c)

(* Ids of different kinds, and of different tables, differ. *)
LEMMA Ids ==
  /\ \A t \in Table : TreesOf(t) \subseteq Tree /\ CtrsOf(t) \subseteq Ctr
  /\ Tree \cap Ctr = {} /\ Row \cap Tree = {} /\ Row \cap Ctr = {}
  /\ Root \notin Tree /\ Root \notin Ctr /\ Root \notin Row
  /\ Nil \notin Tree /\ Nil \notin Ctr /\ Nil \notin Row
  /\ \A t, u \in Table : t # u => TreesOf(t) \cap TreesOf(u) = {} /\ CtrsOf(t) \cap CtrsOf(u) = {}
BY Constants DEF TreesOf, CtrsOf, Tree, Ctr

LEMMA EmptyViewHas ==
  /\ \A t \in Table : EmptyView.tab[t] = Nil /\ EmptyView.seq[t] = Nil
  /\ \A tr \in Tree, k \in Pk : EmptyView.rows[tr][k] = Nil
  /\ \A ct \in Ctr : EmptyView.len[ct] = 0
  /\ Ahead(EmptyView) /\ Owned(EmptyView)
<1>1. /\ \A t \in Table : EmptyView.tab[t] = Nil /\ EmptyView.seq[t] = Nil
      /\ \A tr \in Tree, k \in Pk : EmptyView.rows[tr][k] = Nil
      /\ \A ct \in Ctr : EmptyView.len[ct] = 0
  BY DEF EmptyView
<1>2. QED BY <1>1, Constants DEF Ahead, Owned

LEMMA InvInit == Init => Inv
<1> SUFFICES ASSUME Init PROVE Inv
  OBVIOUS
<1>1. /\ db = EmptyView /\ used = {}
      /\ \A c \in Conn : /\ snap[c] = EmptyView /\ work[c] = EmptyView /\ dirty[c] = {}
                         /\ stale[c] = {} /\ pc[c] = "closed"
  BY DEF Init
<1>2. SeqAhead /\ Known
  BY <1>1, EmptyViewHas DEF SeqAhead, Known
<1>3. ASSUME NEW c \in Conn PROVE Kept(c)
  BY <1>1, EmptyViewHas DEF Kept, RootKept, TreesKept, CtrsKept, SeqsKept
<1>4. QED BY <1>2, <1>3 DEF Inv

(* A step of the thread alone: no object changes. *)
LEMMA StoreKept ==
  ASSUME Inv, UNCHANGED store, \A c \in Conn : pc'[c] # "closed" => pc[c] # "closed"
  PROVE  Inv'
BY DEF store, Inv, SeqAhead, Ahead, Known, Owned, Kept, RootKept, TreesKept, CtrsKept, SeqsKept

(* A thread's view is replaced, by the committed state or by none. *)
LEMMA RefreshKeeps ==
  ASSUME TypeInv, Inv, NEW c \in Conn, NEW w \in {db, EmptyView},
         w = db \/ pc'[c] = "closed",
         \A d \in Conn \ {c} : pc'[d] = pc[d],
         UNCHANGED <<db, used>>,
         snap' = [snap EXCEPT ![c] = w], work' = [work EXCEPT ![c] = w],
         dirty' = [dirty EXCEPT ![c] = {}], stale' = [stale EXCEPT ![c] = {}]
  PROVE  Inv'
<1>1. /\ snap'[c] = w /\ work'[c] = w /\ dirty'[c] = {} /\ stale'[c] = {}
      /\ \A d \in Conn \ {c} : /\ snap'[d] = snap[d] /\ work'[d] = work[d]
                              /\ dirty'[d] = dirty[d] /\ stale'[d] = stale[d]
  BY DEF TypeInv, TypeOK
<1>2. Ahead(w) /\ Owned(w) /\ w \in View
  BY EmptyViewType, EmptyViewHas DEF Inv, SeqAhead, Known, TypeInv, TypeOK
<1>3. SeqAhead'
  BY <1>1, <1>2 DEF Inv, SeqAhead, Ahead
<1>4. Known'
  <2>1. /\ \A tr \in Tree \ used, k \in Pk : w.rows[tr][k] = Nil
        /\ \A ct \in Ctr \ used : w.len[ct] = 0
    BY EmptyViewHas DEF Inv, Known
  <2>2. Owned(db)' /\ \A d \in Conn : Owned(snap[d])' /\ Owned(work[d])'
    BY <1>1, <1>2 DEF Inv, Known, Owned
  <2>3. \A d \in Conn : dirty'[d] \ Row \subseteq used' \cup {Root}
    BY <1>1 DEF Inv, Known
  <2>4. QED BY <1>1, <2>1, <2>2, <2>3 DEF Inv, Known
<1>5. ASSUME NEW d \in Conn PROVE Kept(d)'
  <2>1. CASE d = c
    <3>1. RootKept(c)'
      BY <1>1 DEF RootKept
    <3>2. TreesKept(c)' /\ CtrsKept(c)'
      BY <1>1 DEF TreesKept, CtrsKept
    <3>3. SeqsKept(c)'
      <4>1. \A t \in Table : w.seq[t] # Nil => w = db
        BY EmptyViewHas
      <4>2. \A t \in Table : w.seq[t] # Nil => w.seq[t] \in Ctr /\ w.len[w.seq[t]] \in Int
        BY <1>2 DEF View
      <4>3. QED BY <1>1, <4>1, <4>2 DEF SeqsKept
    <3>4. QED BY <2>1, <3>1, <3>2, <3>3 DEF Kept
  <2>2. CASE d # c
    <3>1. Kept(d)
      BY DEF Inv
    <3>2. RootKept(d)' /\ SeqsKept(d)'
      BY <1>1, <2>2, <3>1 DEF Kept, RootKept, SeqsKept
    <3>3. TreesKept(d)'
      BY <1>1, <2>2, <3>1, Ids, EmptyViewHas DEF Kept, TreesKept
    <3>4. CtrsKept(d)'
      BY <1>1, <2>2, <3>1, Ids, EmptyViewHas DEF Kept, CtrsKept
    <3>5. QED BY <3>2, <3>3, <3>4 DEF Kept
  <2>3. QED BY <2>1, <2>2
<1>6. QED BY <1>3, <1>4, <1>5 DEF Inv

(* A write statement replaces one thread's view work[c] by v, and registers *)
(* objs.  What v binds is what work[c] binds or something new, what is new  *)
(* is registered, and sequences keep to their tables and grow.              *)
WriteOK(c, v, objs) ==
  /\ v \in View /\ Ahead(v)
  /\ \A t \in Table :
       /\ v.tab[t] \in {Nil, work[c].tab[t]} \cup ((TreesOf(t) \cap objs) \ used)
       /\ v.seq[t] \in {Nil, work[c].seq[t]} \cup ((CtrsOf(t) \cap objs) \ used)
       /\ \A tr \in TreesOf(t) \cap objs : tr = v.tab[t]
       /\ \A ct \in CtrsOf(t) \cap objs : ct = v.seq[t]
       /\ (v.tab[t] # Nil /\ v.tab[t] = work[c].tab[t] /\ work[c].seq[t] # Nil)
            => v.seq[t] = work[c].seq[t]
  /\ Root \notin objs => v.tab = work[c].tab /\ v.seq = work[c].seq
  /\ \A ct \in Ctr \ objs : v.len[ct] = work[c].len[ct]
  /\ \A ct \in Ctr \cap used : work[c].len[ct] <= v.len[ct]
  /\ \A tr \in Tree \ (used \cup objs), k \in Pk : v.rows[tr][k] = Nil

LEMMA ChangeKeeps ==
  ASSUME TypeInv, Inv, NEW c \in Conn, NEW v, NEW objs,
         WriteOK(c, v, objs), Change(c, v, objs),
         used \subseteq used', used' \in SUBSET Obj, objs \ Row \subseteq used' \cup {Root},
         \A d \in Conn : pc'[d] # "closed" => pc[d] # "closed"
  PROVE  Inv'
<1>1. /\ work'[c] = v /\ dirty'[c] = dirty[c] \cup objs
      /\ \A d \in Conn \ {c} : work'[d] = work[d] /\ dirty'[d] = dirty[d]
      /\ db' = db /\ snap' = snap /\ stale' = stale
  BY DEF Change, TypeInv, TypeOK
<1>2. SeqAhead'
  BY <1>1 DEF WriteOK, Inv, SeqAhead, Ahead
<1>3. Known'
  <2>1. Owned(v)'
    <3>1. Owned(work[c])
      BY DEF Inv, Known
    <3>2. QED BY <3>1, Ids DEF Owned, WriteOK
  <2>2. Owned(db)' /\ \A d \in Conn : Owned(snap[d])' /\ Owned(work[d])'
    BY <1>1, <2>1 DEF Inv, Known, Owned
  <2>3. \A d \in Conn : dirty'[d] \ Row \subseteq used' \cup {Root}
    BY <1>1 DEF Inv, Known
  <2>4. \A tr \in Tree \ used', k \in Pk :
           db'.rows[tr][k] = Nil /\ \A d \in Conn : work'[d].rows[tr][k] = Nil
    BY <1>1, Ids DEF Inv, Known, WriteOK
  <2>5. \A ct \in Ctr \ used' : db'.len[ct] = 0 /\ \A d \in Conn : snap'[d].len[ct] = 0
    BY <1>1 DEF Inv, Known
  <2>6. QED BY <2>2, <2>3, <2>4, <2>5 DEF Known
<1>4. Kept(c)'
  <2>1. Kept(c) /\ Known
    BY DEF Inv
  <2>2. RootKept(c)'
    BY <1>1, <2>1 DEF Kept, RootKept, WriteOK
  <2>3. TreesKept(c)'
    <3> SUFFICES ASSUME NEW t \in Table PROVE TreesKept(c)!(t)'
      BY DEF TreesKept
    <3>1. work'[c].tab[t] \in {Nil, snap'[c].tab[t]} \cup dirty'[c]
      BY <1>1, <2>1 DEF Kept, TreesKept, WriteOK
    <3>2. ASSUME NEW tr \in TreesOf(t), tr \in dirty'[c]
          PROVE  Root \in dirty'[c] \/ tr = work'[c].tab[t]
      BY <1>1, <2>1, <3>2 DEF Kept, TreesKept, WriteOK
    <3>3. ASSUME NEW tr \in TreesOf(t), tr \in dirty'[c], tr # snap'[c].tab[t]
          PROVE  /\ db'.tab[t] # tr
                 /\ \A k \in Pk : db'.rows[tr][k] = Nil
                 /\ \A d \in Conn \ {c} :
                      tr \notin dirty'[d] /\ work'[d].tab[t] # tr /\ snap'[d].tab[t] # tr
      <4>1. CASE tr \in dirty[c]
        BY <1>1, <2>1, <3>3, <4>1 DEF Kept, TreesKept
      <4>2. CASE tr \notin used
        BY <1>1, <2>1, <3>3, <4>2, Ids DEF Known, Owned
      <4>3. tr \in dirty[c] \/ tr \notin used
        BY <1>1, <2>1, <3>3, Ids DEF Kept, TreesKept, WriteOK
      <4>4. QED BY <4>1, <4>2, <4>3
    <3>4. QED BY <3>1, <3>2, <3>3
  <2>4. CtrsKept(c)'
    <3> SUFFICES ASSUME NEW t \in Table PROVE CtrsKept(c)!(t)'
      BY DEF CtrsKept
    <3>1. work'[c].seq[t] \in {Nil, snap'[c].seq[t]} \cup dirty'[c]
      BY <1>1, <2>1 DEF Kept, CtrsKept, WriteOK
    <3>2. ASSUME NEW ct \in CtrsOf(t), ct \in dirty'[c]
          PROVE  Root \in dirty'[c] \/ ct = work'[c].seq[t]
      BY <1>1, <2>1, <3>2 DEF Kept, CtrsKept, WriteOK
    <3>3. ASSUME NEW ct \in CtrsOf(t), ct \in dirty'[c], ct # snap'[c].seq[t]
          PROVE  /\ db'.seq[t] # ct
                 /\ db'.len[ct] = snap'[c].len[ct]
                 /\ \A d \in Conn \ {c} :
                      ct \notin dirty'[d] /\ work'[d].seq[t] # ct /\ snap'[d].seq[t] # ct
      <4>1. CASE ct \in dirty[c]
        BY <1>1, <2>1, <3>3, <4>1 DEF Kept, CtrsKept
      <4>2. CASE ct \notin used
        BY <1>1, <2>1, <3>3, <4>2, Ids DEF Known, Owned
      <4>3. ct \in dirty[c] \/ ct \notin used
        BY <1>1, <2>1, <3>3, Ids DEF Kept, CtrsKept, WriteOK
      <4>4. QED BY <4>1, <4>2, <4>3
    <3>4. QED BY <3>1, <3>2, <3>3
  <2>5. SeqsKept(c)'
    <3>1. ASSUME NEW t \in Table, snap[c].seq[t] # Nil
          PROVE  /\ (v.tab[t] # Nil /\ v.tab[t] = snap[c].tab[t]) => v.seq[t] = snap[c].seq[t]
                 /\ snap[c].len[snap[c].seq[t]] <= v.len[snap[c].seq[t]]
      <4>1. snap[c].tab[t] \in used \cup {Nil} /\ snap[c].seq[t] \in Ctr \cap used
        BY <2>1, <3>1, Ids DEF Known, Owned
      <4>2. v.tab[t] # Nil /\ v.tab[t] = snap[c].tab[t] => v.tab[t] = work[c].tab[t]
        BY <4>1 DEF WriteOK
      <4>3. v.tab[t] # Nil /\ v.tab[t] = snap[c].tab[t] => v.seq[t] = snap[c].seq[t]
        BY <2>1, <3>1, <4>2 DEF WriteOK, Kept, SeqsKept
      <4>4. snap[c] \in View /\ work[c] \in View /\ v \in View
        BY DEF TypeInv, TypeOK, WriteOK
      <4>5. snap[c].len[snap[c].seq[t]] <= work[c].len[snap[c].seq[t]]
        BY <2>1, <3>1 DEF Kept, SeqsKept
      <4>6. work[c].len[snap[c].seq[t]] <= v.len[snap[c].seq[t]]
        BY <4>1 DEF WriteOK
      <4>7. snap[c].len[snap[c].seq[t]] <= v.len[snap[c].seq[t]]
        BY <4>1, <4>4, <4>5, <4>6 DEF View
      <4>8. QED BY <4>3, <4>7
    <3>2. \A ct \in Ctr \ dirty'[c] : work'[c].len[ct] = snap'[c].len[ct]
      BY <1>1, <2>1 DEF WriteOK, Kept, SeqsKept
    <3>3. QED BY <1>1, <2>1, <3>1, <3>2 DEF Kept, SeqsKept
  <2>6. QED BY <2>2, <2>3, <2>4, <2>5 DEF Kept
<1>5. ASSUME NEW d \in Conn \ {c} PROVE Kept(d)'
  <2>1. Kept(d) /\ Known
    BY DEF Inv
  <2>2. RootKept(d)' /\ SeqsKept(d)'
    BY <1>1, <2>1 DEF Kept, RootKept, SeqsKept
  <2>3. TreesKept(d)'
    <3> SUFFICES ASSUME NEW t \in Table,
                        NEW tr \in TreesOf(t), tr \in dirty[d], tr # snap[d].tab[t]
                 PROVE  tr \notin dirty'[c] /\ v.tab[t] # tr
      BY <1>1, <2>1 DEF Kept, TreesKept
    <3>1. tr \notin dirty[c] /\ work[c].tab[t] # tr /\ tr \in used /\ tr # Nil
      BY <2>1, Ids DEF Kept, TreesKept, Known
    <3>2. QED BY <1>1, <3>1 DEF WriteOK
  <2>4. CtrsKept(d)'
    <3> SUFFICES ASSUME NEW t \in Table,
                        NEW ct \in CtrsOf(t), ct \in dirty[d], ct # snap[d].seq[t]
                 PROVE  ct \notin dirty'[c] /\ v.seq[t] # ct
      BY <1>1, <2>1 DEF Kept, CtrsKept
    <3>1. ct \notin dirty[c] /\ work[c].seq[t] # ct /\ ct \in used /\ ct # Nil
      BY <2>1, Ids DEF Kept, CtrsKept, Known
    <3>2. QED BY <1>1, <3>1 DEF WriteOK
  <2>5. QED BY <2>2, <2>3, <2>4 DEF Kept
<1>6. QED BY <1>2, <1>3, <1>4, <1>5 DEF Inv

(* What a commit stores under a key is what was there or what the thread   *)
(* put there; what it stores in a sequence adds the thread's increments.   *)
LEMMA CommittedHas ==
  ASSUME NEW c \in Conn
  PROVE  /\ Root \in dirty[c] => Committed(c).tab = work[c].tab /\ Committed(c).seq = work[c].seq
         /\ Root \notin dirty[c] => Committed(c).tab = db.tab /\ Committed(c).seq = db.seq
         /\ \A tr \in Tree, k \in Pk :
              /\ Committed(c).rows[tr][k] # db.rows[tr][k] =>
                   tr \in dirty[c] /\ Committed(c).rows[tr][k] = work[c].rows[tr][k]
         /\ \A ct \in Ctr :
              /\ ct \notin dirty[c] => Committed(c).len[ct] = db.len[ct]
              /\ ct \in dirty[c] =>
                   Committed(c).len[ct] = db.len[ct] + (work[c].len[ct] - snap[c].len[ct])
BY DEF Committed, MergedRows

(* A commit leaves a sequence that anyone else may know at or past where   *)
(* it was, and one of the thread's own at or past where the thread has it. *)
LEMMA CommittedSeq ==
  ASSUME TypeInv, Inv, NEW c \in Conn, NEW t \in Table, NEW ct \in CtrsOf(t)
  PROVE  /\ (ct \in dirty[c] => ct = snap[c].seq[t]) => db.len[ct] <= Committed(c).len[ct]
         /\ ct = work[c].seq[t] => work[c].len[ct] <= Committed(c).len[ct]
<1>1. /\ ct \in Ctr /\ ct # Nil /\ db.len[ct] \in Int
      /\ work[c].len[ct] \in Int /\ snap[c].len[ct] \in Int
  BY Ids DEF TypeInv, TypeOK, View
<1>2. ct = snap[c].seq[t] => snap[c].len[ct] <= work[c].len[ct] /\ snap[c].len[ct] <= db.len[ct]
  BY <1>1 DEF Inv, Kept, SeqsKept
<1>3. ct \notin dirty[c] => work[c].len[ct] = snap[c].len[ct]
  BY <1>1 DEF Inv, Kept, SeqsKept
<1>4. (ct \in dirty[c] /\ ct # snap[c].seq[t]) => db.len[ct] = snap[c].len[ct]
  BY DEF Inv, Kept, CtrsKept
<1>5. ct = work[c].seq[t] => ct = snap[c].seq[t] \/ ct \in dirty[c]
  BY <1>1 DEF Inv, Kept, CtrsKept
<1>6. QED BY <1>1, <1>2, <1>3, <1>4, <1>5, CommittedHas

(* The thread whose commit changes the root has not missed a change to it. *)
LEMMA RootNotStale ==
  ASSUME Inv, NEW c \in Conn, CommitSucceeds(c), Root \in dirty[c]
  PROVE  Root \notin stale[c] /\ snap[c].tab = db.tab /\ snap[c].seq = db.seq
<1>1. Root \notin stale[c]
  BY Ids DEF CommitSucceeds, Conflicting, Mergeable
<1>2. pc[c] # "closed"
  BY DEF CommitSucceeds
<1>3. QED BY <1>1, <1>2 DEF Inv, Kept, RootKept

(* Only the thread's own sequences may start anew: one that is bound in    *)
(* the committed root does not go back.                                    *)
LEMMA BoundSeqGrows ==
  ASSUME TypeInv, Inv, NEW c \in Conn, CommitSucceeds(c),
         NEW t \in Table, db.seq[t] # Nil
  PROVE  db.len[db.seq[t]] <= Committed(c).len[db.seq[t]]
<1>1. db.seq[t] \in CtrsOf(t)
  BY DEF Inv, Known, Owned
<1>2. db.seq[t] \in dirty[c] => db.seq[t] = snap[c].seq[t]
  BY <1>1 DEF Inv, Kept, CtrsKept
<1>3. QED BY <1>1, <1>2, CommittedSeq

LEMMA CommittedAhead ==
  ASSUME TypeInv, Inv, NEW c \in Conn, CommitSucceeds(c)
  PROVE  Ahead(Committed(c))
<1> DEFINE new == Committed(c)
<1> SUFFICES ASSUME NEW t \in IntTable, new.tab[t] # Nil,
                    NEW k \in IntPk, new.rows[new.tab[t]][k] # Nil
             PROVE  new.seq[t] # Nil /\ k <= new.len[new.seq[t]]
  BY DEF Ahead
<1> DEFINE tr == new.tab[t]
<1>1. /\ t \in Table /\ k \in Pk /\ k \in Int
      /\ db \in View /\ work[c] \in View /\ snap[c] \in View /\ new \in View
  BY Constants, CommittedType DEF Pk, TypeInv, TypeOK
<1>2. /\ Known /\ RootKept(c) /\ TreesKept(c) /\ CtrsKept(c) /\ SeqsKept(c)
      /\ Ahead(db) /\ Ahead(work[c])
  BY DEF Inv, Kept, SeqAhead
<1>3. tr \in TreesOf(t) /\ tr \in Tree
  <2>1. db.tab[t] \in TreesOf(t) \cup {Nil} /\ work[c].tab[t] \in TreesOf(t) \cup {Nil}
    BY <1>1, <1>2 DEF Known, Owned
  <2>2. QED BY <1>1, <2>1, CommittedHas, Ids
<1>4. /\ db.seq[t] \in CtrsOf(t) \cup {Nil} /\ work[c].seq[t] \in CtrsOf(t) \cup {Nil}
  BY <1>1, <1>2 DEF Known, Owned
(* The key was there before: its sequence is still bound, and has grown. *)
<1>5. CASE tr = db.tab[t] /\ db.rows[tr][k] # Nil
  <2>1. db.seq[t] # Nil /\ k <= db.len[db.seq[t]]
    BY <1>2, <1>5 DEF Ahead
  <2>2. new.seq[t] = db.seq[t]
    <3>1. CASE Root \in dirty[c]
      <4>1. snap[c].tab = db.tab /\ snap[c].seq = db.seq /\ new.tab = work[c].tab /\ new.seq = work[c].seq
        BY <3>1, RootNotStale, CommittedHas
      <4>2. QED BY <1>1, <1>2, <1>5, <2>1, <4>1 DEF SeqsKept
    <3>2. CASE Root \notin dirty[c]
      BY <3>2, CommittedHas
    <3>3. QED BY <3>1, <3>2
  <2>3. db.seq[t] \in Ctr
    BY <1>4, <2>1, Ids, <1>1
  <2>4. db.len[db.seq[t]] \in Int /\ new.len[db.seq[t]] \in Int
    BY <1>1, <2>3 DEF View
  <2>5. db.len[db.seq[t]] <= new.len[db.seq[t]]
    BY <1>1, <2>1, BoundSeqGrows
  <2>6. QED BY <1>1, <2>1, <2>2, <2>4, <2>5
(* The thread put the key there: what it knew of the sequence is stored. *)
<1>6. CASE tr = work[c].tab[t] /\ work[c].rows[tr][k] # Nil /\ tr \in dirty[c]
  <2>1. work[c].seq[t] # Nil /\ k <= work[c].len[work[c].seq[t]]
    BY <1>2, <1>6 DEF Ahead
  <2>2. new.seq[t] = work[c].seq[t]
    <3>1. CASE Root \in dirty[c]
      BY <3>1, CommittedHas
    <3>2. CASE Root \notin dirty[c]
      <4>1. work[c].tab = snap[c].tab /\ work[c].seq = snap[c].seq /\ new.tab = db.tab /\ new.seq = db.seq
        BY <1>2, <3>2, CommittedHas DEF RootKept
      <4>2. QED BY <1>1, <1>2, <1>6, <2>1, <4>1 DEF SeqsKept
    <3>3. QED BY <3>1, <3>2
  <2>3. work[c].seq[t] \in Ctr /\ work[c].seq[t] \in CtrsOf(t)
    BY <1>1, <1>4, <2>1, Ids
  <2>4. work[c].len[work[c].seq[t]] <= new.len[work[c].seq[t]]
    BY <1>1, <2>3, CommittedSeq
  <2>5. work[c].len[work[c].seq[t]] \in Int /\ new.len[work[c].seq[t]] \in Int
    BY <1>1, <2>3 DEF View
  <2>6. QED BY <1>1, <2>1, <2>2, <2>4, <2>5
<1>7. \/ (tr = db.tab[t] /\ db.rows[tr][k] # Nil)
      \/ (tr = work[c].tab[t] /\ work[c].rows[tr][k] # Nil /\ tr \in dirty[c])
  <2>1. CASE new.rows[tr][k] # db.rows[tr][k]
    <3>1. tr \in dirty[c] /\ work[c].rows[tr][k] # Nil
      BY <1>1, <1>3, <2>1, CommittedHas
    <3>2. tr = work[c].tab[t]
      <4>1. CASE Root \in dirty[c]
        BY <4>1, CommittedHas
      <4>2. CASE Root \notin dirty[c]
        BY <1>1, <1>2, <1>3, <3>1, <4>2 DEF TreesKept
      <4>3. QED BY <4>1, <4>2
    <3>3. QED BY <3>1, <3>2
  <2>2. CASE new.rows[tr][k] = db.rows[tr][k]
    <3>1. CASE Root \in dirty[c]
      <4>1. tr = work[c].tab[t] /\ snap[c].tab = db.tab
        BY <3>1, CommittedHas, RootNotStale
      <4>2. tr = db.tab[t] \/ (tr \in dirty[c] /\ tr # snap[c].tab[t])
        BY <1>1, <1>2, <1>3, <4>1, Ids DEF TreesKept
      <4>3. QED BY <1>1, <1>2, <1>3, <2>2, <4>2 DEF TreesKept
    <3>2. CASE Root \notin dirty[c]
      BY <2>2, <3>2, CommittedHas
    <3>3. QED BY <3>1, <3>2
  <2>3. QED BY <2>1, <2>2
<1>8. QED BY <1>5, <1>6, <1>7

LEMMA CommitKeeps ==
  ASSUME TypeInv, Inv, NEW c \in Conn, CommitSucceeds(c)
  PROVE  Inv'
<1> DEFINE new == Committed(c)
<1>1. /\ db' = new /\ snap'[c] = new /\ work'[c] = new /\ dirty'[c] = {} /\ stale'[c] = {}
      /\ used' = used
      /\ \A d \in Conn \ {c} :
           /\ snap'[d] = snap[d] /\ work'[d] = work[d] /\ dirty'[d] = dirty[d]
           /\ pc'[d] = pc[d]
           /\ pc[d] # "closed" => stale'[d] = stale[d] \cup dirty[c]
  BY DEF CommitSucceeds, Refresh, TypeInv, TypeOK
<1>2. new \in View /\ Ahead(new)
  BY CommittedType, CommittedAhead DEF TypeInv
<1>3. SeqAhead'
  BY <1>1, <1>2 DEF Inv, SeqAhead, Ahead
<1>4. Owned(new)
  BY CommittedHas DEF Inv, Known, Owned
<1>5. Known'
  <2>1. Owned(db)' /\ \A d \in Conn : Owned(snap[d])' /\ Owned(work[d])'
    BY <1>1, <1>4 DEF Inv, Known, Owned
  <2>2. \A d \in Conn : dirty'[d] \ Row \subseteq used' \cup {Root}
    BY <1>1 DEF Inv, Known
  <2>3. \A tr \in Tree \ used, k \in Pk : new.rows[tr][k] = Nil
    BY CommittedHas DEF Inv, Known
  <2>4. \A ct \in Ctr \ used : new.len[ct] = 0
    BY CommittedHas, Ids DEF Inv, Known
  <2>5. QED BY <1>1, <2>1, <2>2, <2>3, <2>4 DEF Inv, Known
<1>6. Kept(c)'
  <2>1. RootKept(c)' /\ TreesKept(c)' /\ CtrsKept(c)'
    BY <1>1 DEF RootKept, TreesKept, CtrsKept
  <2>2. \A t \in Table : new.seq[t] # Nil => new.seq[t] \in Ctr /\ new.len[new.seq[t]] \in Int
    BY <1>2 DEF View
  <2>3. SeqsKept(c)'
    BY <1>1, <2>2 DEF SeqsKept
  <2>4. QED BY <2>1, <2>3 DEF Kept
<1>7. ASSUME NEW d \in Conn \ {c} PROVE Kept(d)'
  <2>1. Kept(d) /\ Kept(c) /\ Known
    BY DEF Inv
  <2>2. RootKept(d)'
    BY <1>1, <2>1, CommittedHas DEF Kept, RootKept
  <2>3. TreesKept(d)'
    <3> SUFFICES ASSUME NEW t \in Table,
                        NEW tr \in TreesOf(t), tr \in dirty[d], tr # snap[d].tab[t]
                 PROVE  new.tab[t] # tr /\ \A k \in Pk : new.rows[tr][k] = Nil
      BY <1>1, <2>1 DEF Kept, TreesKept
    <3>1. /\ db.tab[t] # tr /\ work[c].tab[t] # tr /\ tr \notin dirty[c] /\ tr \in Tree
          /\ \A k \in Pk : db.rows[tr][k] = Nil
      BY <2>1, Ids DEF Kept, TreesKept
    <3>2. QED BY <3>1, CommittedHas
  <2>4. CtrsKept(d)'
    <3> SUFFICES ASSUME NEW t \in Table,
                        NEW ct \in CtrsOf(t), ct \in dirty[d], ct # snap[d].seq[t]
                 PROVE  new.seq[t] # ct /\ new.len[ct] = db.len[ct]
      BY <1>1, <2>1, CommittedHas DEF Kept, CtrsKept
    <3>1. /\ db.seq[t] # ct /\ work[c].seq[t] # ct /\ ct \notin dirty[c] /\ ct \in Ctr
      BY <2>1, Ids DEF Kept, CtrsKept
    <3>2. QED BY <3>1, CommittedHas
  <2>5. SeqsKept(d)'
    <3> SUFFICES ASSUME NEW t \in Table, snap[d].seq[t] # Nil
                 PROVE  /\ (new.tab[t] # Nil /\ new.tab[t] = snap[d].tab[t])
                             => new.seq[t] = snap[d].seq[t]
                        /\ snap[d].len[snap[d].seq[t]] <= new.len[snap[d].seq[t]]
      BY <1>1, <2>1 DEF Kept, SeqsKept
    <3> DEFINE ct == snap[d].seq[t]
    <3>1. ct \in CtrsOf(t) /\ ct \in Ctr
      BY <2>1, Ids DEF Known, Owned
    <3>2. snap[d] \in View /\ db \in View
      BY DEF TypeInv, TypeOK
    <3>3. ct \in dirty[c] => ct = snap[c].seq[t]
      BY <2>1, <3>1 DEF Kept, CtrsKept
    <3>4. snap[d].len[ct] <= db.len[ct] /\ db.len[ct] <= new.len[ct]
      BY <2>1, <3>1, <3>3, CommittedSeq DEF Kept, SeqsKept
    <3>5. snap[d].len[ct] <= new.len[ct]
      BY <1>2, <3>1, <3>2, <3>4 DEF View
    <3>6. ASSUME new.tab[t] # Nil, new.tab[t] = snap[d].tab[t] PROVE new.seq[t] = ct
      <4>1. CASE Root \notin dirty[c]
        BY <2>1, <3>6, <4>1, CommittedHas DEF Kept, SeqsKept
      <4>2. CASE Root \in dirty[c]
        <5>1. new.tab = work[c].tab /\ new.seq = work[c].seq /\ snap[c].tab = db.tab /\ snap[c].seq = db.seq
          BY <4>2, RootNotStale, CommittedHas
        <5>2. work[c].tab[t] = snap[c].tab[t]
          <6>1. snap[d].tab[t] \in TreesOf(t)
            BY <2>1, <3>6 DEF Known, Owned
          <6>2. QED BY <2>1, <3>6, <5>1, <6>1 DEF Kept, TreesKept
        <5>3. db.seq[t] = ct
          BY <2>1, <3>6, <5>1, <5>2 DEF Kept, SeqsKept
        <5>4. QED BY <2>1, <3>1, <3>6, <5>1, <5>2, <5>3, Ids DEF Kept, SeqsKept
      <4>3. QED BY <4>1, <4>2
    <3>7. QED BY <3>5, <3>6
  <2>6. QED BY <2>2, <2>3, <2>4, <2>5 DEF Kept
<1>8. QED BY <1>3, <1>5, <1>6, <1>7 DEF Inv

-----------------------------------------------------------------------------
(* Every write statement is one of the changes ChangeKeeps is about. *)

LEMMA BindTreeKeeps ==
  ASSUME TypeInv, Inv, NEW c \in Conn, NEW t \in Table, BindTree(c, t),
         \A d \in Conn : pc'[d] # "closed" => pc[d] # "closed"
  PROVE  Inv'
<1>1. PICK tr \in TreesOf(t) \ used :
        /\ Change(c, [work[c] EXCEPT !.tab[t] = tr], {Root, tr})
        /\ used' = used \cup {tr}
  BY DEF BindTree, TreesOf
<1> DEFINE v == [work[c] EXCEPT !.tab[t] = tr]
<1>2. tr \in Tree /\ work[c] \in View /\ Known /\ Ahead(work[c])
  BY Ids DEF TypeInv, TypeOK, Inv, SeqAhead
<1>3. /\ v \in View /\ v.tab[t] = tr
      /\ \A u \in Table \ {t} : v.tab[u] = work[c].tab[u]
      /\ v.seq = work[c].seq /\ v.len = work[c].len /\ v.rows = work[c].rows
  BY <1>2 DEF View
<1>4. Ahead(v)
  BY <1>1, <1>2, <1>3, Constants DEF Ahead, Known, Pk
<1>5. WriteOK(c, v, {Root, tr})
  <2>1. \A ct \in Ctr : v.len[ct] \in Int
    BY <1>3 DEF View
  <2>2. ASSUME NEW u \in Table
        PROVE  /\ v.tab[u] \in {Nil, work[c].tab[u]} \cup ((TreesOf(u) \cap {Root, tr}) \ used)
               /\ v.seq[u] \in {Nil, work[c].seq[u]} \cup ((CtrsOf(u) \cap {Root, tr}) \ used)
               /\ \A x \in TreesOf(u) \cap {Root, tr} : x = v.tab[u]
               /\ \A x \in CtrsOf(u) \cap {Root, tr} : x = v.seq[u]
    BY <1>1, <1>2, <1>3, Ids
  <2>3. QED BY <1>2, <1>3, <1>4, <2>1, <2>2 DEF WriteOK, Known
<1>6. used' \in SUBSET Obj
  BY <1>1, <1>2 DEF TypeInv, TypeOK, Obj
<1>7. QED BY <1>1, <1>5, <1>6, ChangeKeeps

LEMMA DropKeeps ==
  ASSUME TypeInv, Inv, NEW c \in Conn, NEW t \in Table, DropBtree(c, t)
  PROVE  Inv'
<1> DEFINE v == [work[c] EXCEPT !.tab[t] = Nil, !.seq[t] = Nil]
           objs == IF work[c].tab[t] = Nil /\ work[c].seq[t] = Nil THEN {} ELSE {Root}
<1>1. work[c] \in View /\ Known /\ Ahead(work[c])
  BY DEF TypeInv, TypeOK, Inv, SeqAhead
<1>2. /\ v \in View /\ v.tab[t] = Nil /\ v.seq[t] = Nil
      /\ \A u \in Table \ {t} : v.tab[u] = work[c].tab[u] /\ v.seq[u] = work[c].seq[u]
      /\ v.len = work[c].len /\ v.rows = work[c].rows
  BY <1>1 DEF View
<1>3. Ahead(v)
  BY <1>1, <1>2, Constants DEF Ahead
<1>4. Root \notin objs => v.tab = work[c].tab /\ v.seq = work[c].seq
  BY <1>1, <1>2 DEF View
<1>5. WriteOK(c, v, objs)
  <2>1. \A ct \in Ctr : v.len[ct] \in Int
    BY <1>2 DEF View
  <2>2. objs \subseteq {Root}
    OBVIOUS
  <2>3. QED BY <1>1, <1>2, <1>3, <1>4, <2>1, <2>2, Ids DEF WriteOK, Known
<1>6. Change(c, v, objs) /\ used' = used /\ \A d \in Conn : pc'[d] # "closed" => pc[d] # "closed"
  BY DEF DropBtree, StatementEnds, TypeInv, TypeOK
<1>7. used' \in SUBSET Obj
  BY <1>6 DEF TypeInv, TypeOK
<1>8. QED BY <1>5, <1>6, <1>7, ChangeKeeps

LEMMA PutKeysHas ==
  ASSUME NEW v \in View, NEW tr \in Tree, NEW f
  PROVE  /\ PutKeys(v, tr, f).tab = v.tab /\ PutKeys(v, tr, f).seq = v.seq
         /\ PutKeys(v, tr, f).len = v.len
         /\ PutKeys(v, tr, f).rows = [v.rows EXCEPT ![tr] = f]
BY DEF PutKeys, View

(* A statement that removes keys from a table. *)
LEMMA RemoveKeysKeeps ==
  ASSUME TypeInv, Inv, NEW c \in Conn, NEW t \in Table, work[c].tab[t] # Nil,
         NEW f \in [Pk -> Row \cup {Nil}],
         \A k \in Pk : f[k] # Nil => work[c].rows[work[c].tab[t]][k] # Nil,
         NEW objs \in SUBSET {work[c].tab[t]},
         Change(c, PutKeys(work[c], work[c].tab[t], f), objs), used' = used,
         \A d \in Conn : pc'[d] # "closed" => pc[d] # "closed"
  PROVE  Inv'
<1> DEFINE tr == work[c].tab[t]
           v == PutKeys(work[c], tr, f)
<1>1. work[c] \in View /\ Known /\ Ahead(work[c])
  BY DEF TypeInv, TypeOK, Inv, SeqAhead
<1>2. tr \in TreesOf(t) /\ tr \in used /\ tr \in Tree
  BY <1>1, Ids DEF Known, Owned
<1>3. /\ v \in View /\ v.tab = work[c].tab /\ v.seq = work[c].seq /\ v.len = work[c].len
      /\ v.rows[tr] = f /\ \A u \in Tree \ {tr} : v.rows[u] = work[c].rows[u]
  <2>1. v \in View
    BY <1>1, <1>2, PutKeysType
  <2>2. /\ v.tab = work[c].tab /\ v.seq = work[c].seq /\ v.len = work[c].len
        /\ v.rows = [work[c].rows EXCEPT ![tr] = f]
    BY <1>1, <1>2, PutKeysHas
  <2>3. work[c].rows \in [Tree -> [Pk -> Row \cup {Nil}]]
    BY <1>1 DEF View
  <2>4. QED BY <1>2, <2>1, <2>2, <2>3
<1>4. Ahead(v)
  <2>1. \A u \in IntTable : work[c].tab[u] # Nil => work[c].tab[u] \in Tree
    BY <1>1, Constants DEF View
  <2>2. QED BY <1>1, <1>3, <2>1, Constants DEF Ahead, Pk
<1>5. WriteOK(c, v, objs)
  <2>1. \A ct \in Ctr : v.len[ct] \in Int
    BY <1>3 DEF View
  <2>2. QED BY <1>1, <1>2, <1>3, <1>4, <2>1, Ids DEF WriteOK, Known
<1>6. used' \in SUBSET Obj /\ objs \ Row \subseteq used' \cup {Root}
  BY <1>2 DEF TypeInv, TypeOK
<1>7. QED BY <1>5, <1>6, ChangeKeeps

(* An UPDATE changes values of rows only. *)
LEMMA SetRowsKeeps ==
  ASSUME TypeInv, Inv, NEW c \in Conn, NEW S \in SUBSET Row, NEW x \in Val,
         SetRows(c, S, x), \A d \in Conn : pc'[d] # "closed" => pc[d] # "closed"
  PROVE  Inv'
<1> DEFINE g == [r \in Row |-> IF r \in S THEN x ELSE work[c].val[r]]
           v == PutVals(work[c], g)
<1>1. work[c] \in View /\ Known /\ Ahead(work[c])
  BY DEF TypeInv, TypeOK, Inv, SeqAhead
<1>2. g \in [Row -> Val \cup {Nil}]
  BY <1>1 DEF View
<1>3. /\ v \in View /\ v.tab = work[c].tab /\ v.seq = work[c].seq /\ v.len = work[c].len
      /\ v.rows = work[c].rows
  BY <1>1, <1>2, PutValsType DEF PutVals, View
<1>4. WriteOK(c, v, S)
  <2>1. \A ct \in Ctr : v.len[ct] \in Int
    BY <1>3 DEF View
  <2>2. Ahead(v)
    BY <1>1, <1>3 DEF Ahead
  <2>3. S \cap Tree = {} /\ S \cap Ctr = {} /\ Root \notin S
    BY Ids
  <2>4. \A t \in Table : TreesOf(t) \cap S = {} /\ CtrsOf(t) \cap S = {}
    BY <2>3, Ids
  <2>5. QED BY <1>1, <1>3, <2>1, <2>2, <2>3, <2>4 DEF WriteOK, Known
<1>5. used' = used /\ used' \in SUBSET Obj /\ Change(c, v, S)
  BY DEF SetRows, TypeInv, TypeOK
<1>6. QED BY <1>4, <1>5, ChangeKeeps

LEMMA PutRowHas ==
  ASSUME NEW v \in View, NEW t \in Table, v.tab[t] \in Tree, NEW k \in Pk, NEW r, NEW x
  PROVE  LET w == PutRow(v, t, k, r, x) IN
         /\ w.tab = v.tab /\ w.seq = v.seq /\ w.len = v.len
         /\ w.rows[v.tab[t]][k] = r
         /\ \A tr \in Tree, j \in Pk : (tr # v.tab[t] \/ j # k) => w.rows[tr][j] = v.rows[tr][j]
BY DEF PutRow, View

LEMMA PutSeqHas ==
  ASSUME NEW v \in View, NEW t \in Table, NEW ct \in Ctr, NEW n \in Int
  PROVE  LET w == PutSeq(v, t, ct, n) IN
         /\ w.tab = v.tab /\ w.rows = v.rows
         /\ w.seq[t] = ct /\ \A u \in Table \ {t} : w.seq[u] = v.seq[u]
         /\ w.len[ct] = n /\ \A d \in Ctr \ {ct} : w.len[d] = v.len[d]
         /\ (v.seq[t] = ct => w.seq = v.seq)
BY DEF PutSeq, View

(* A row goes under the key k, and the sequence of its table, bound or      *)
(* new, takes a value that is not behind k and does not go back.            *)
LEMMA InsertIntKeeps ==
  ASSUME TypeInv, Inv, NEW c \in Conn, NEW t \in IntTable, work[c].tab[t] # Nil,
         NEW ct \in SeqOf(c, t), NEW k \in IntPk, NEW n \in Int, k <= n,
         work[c].seq[t] # Nil => work[c].len[ct] <= n,
         NEW r \in Row, NEW x \in Val, NEW objs,
         \/ objs = RootIfNew(c, t) \cup {ct, work[c].tab[t], r}
         \/ /\ objs = {work[c].tab[t], r}
            /\ work[c].seq[t] # Nil /\ work[c].len[ct] = n,
         Change(c, PutRow(PutSeq(work[c], t, ct, n), t, k, r, x), objs),
         used' = used \cup {ct, r},
         \A d \in Conn : pc'[d] # "closed" => pc[d] # "closed"
  PROVE  Inv'
<1> DEFINE tr == work[c].tab[t]
           w == PutSeq(work[c], t, ct, n)
           v == PutRow(w, t, k, r, x)
<1>1. /\ work[c] \in View /\ Known /\ Ahead(work[c]) /\ t \in Table /\ k \in Pk /\ k \in Int
  BY Constants DEF TypeInv, TypeOK, Inv, SeqAhead, Pk
<1>2. tr \in TreesOf(t) /\ tr \in used /\ tr \in Tree
  BY <1>1, Ids DEF Known, Owned
<1>3. /\ ct \in CtrsOf(t) /\ ct \in Ctr
      /\ work[c].seq[t] # Nil => ct = work[c].seq[t] /\ ct \in used
      /\ work[c].seq[t] = Nil => ct \notin used
  <2>1. work[c].seq[t] \in (CtrsOf(t) \cap used) \cup {Nil}
    BY <1>1 DEF Known, Owned
  <2>2. CASE work[c].seq[t] # Nil
    BY <1>1, <2>1, <2>2, Ids DEF SeqOf
  <2>3. CASE work[c].seq[t] = Nil
    BY <1>1, <2>3, Ids DEF SeqOf, CtrsOf
  <2>4. QED BY <2>2, <2>3
<1>4. w \in View /\ w.tab = work[c].tab
  BY <1>1, <1>3, PutSeqType
<1>5. /\ v \in View /\ v.tab = work[c].tab
      /\ v.seq[t] = ct /\ \A u \in Table \ {t} : v.seq[u] = work[c].seq[u]
      /\ v.len[ct] = n /\ \A d \in Ctr \ {ct} : v.len[d] = work[c].len[d]
      /\ work[c].seq[t] # Nil => v.seq = work[c].seq
      /\ \A u \in Tree, j \in Pk : (u # tr \/ j # k) => v.rows[u][j] = work[c].rows[u][j]
  <2>1. v \in View
    BY <1>1, <1>4, PutRowType
  <2>2. /\ v.tab = w.tab /\ v.seq = w.seq /\ v.len = w.len
        /\ \A u \in Tree, j \in Pk : (u # tr \/ j # k) => v.rows[u][j] = w.rows[u][j]
    BY <1>1, <1>2, <1>4, PutRowHas
  <2>3. QED BY <1>1, <1>3, <2>1, <2>2, PutSeqHas
<1>6. Ahead(v)
  <2> SUFFICES ASSUME NEW u \in IntTable, v.tab[u] # Nil,
                      NEW j \in IntPk, v.rows[v.tab[u]][j] # Nil
               PROVE  v.seq[u] # Nil /\ j <= v.len[v.seq[u]]
    BY DEF Ahead
  <2>1. u \in Table /\ j \in Pk /\ j \in Int /\ v.tab[u] = work[c].tab[u]
    BY <1>5, Constants DEF Pk
  <2>2. work[c].tab[u] \in TreesOf(u) /\ work[c].tab[u] \in Tree
    BY <1>1, <1>5, <2>1, Ids DEF Known, Owned
  <2>3. work[c].rows[work[c].tab[u]][j] # Nil =>
          work[c].seq[u] # Nil /\ j <= work[c].len[work[c].seq[u]]
    BY <1>1, <1>5, <2>1 DEF Ahead
  <2>4. CASE u # t
    <3>1. work[c].tab[u] # tr
      BY <1>1, <1>2, <2>1, <2>2, <2>4, Ids
    <3>2. work[c].rows[work[c].tab[u]][j] # Nil
      BY <1>5, <2>1, <2>2, <3>1
    <3>3. work[c].seq[u] \in CtrsOf(u) /\ work[c].seq[u] \in Ctr
      BY <1>1, <2>1, <2>3, <3>2, Ids DEF Known, Owned
    <3>4. work[c].seq[u] # ct
      BY <1>1, <1>3, <2>1, <2>4, <3>3, Ids
    <3>5. QED BY <1>5, <2>1, <2>3, <2>4, <3>2, <3>3, <3>4
  <2>5. CASE u = t /\ j # k
    <3>1. work[c].seq[t] # Nil /\ j <= work[c].len[ct]
      BY <1>3, <1>5, <2>1, <2>2, <2>3, <2>5
    <3>2. work[c].len[ct] \in Int
      BY <1>1, <1>3 DEF View
    <3>3. QED BY <1>3, <1>5, <2>1, <2>5, <3>1, <3>2, Ids
  <2>6. CASE u = t /\ j = k
    BY <1>3, <1>5, <2>6, Ids
  <2>7. QED BY <2>4, <2>5, <2>6
<1>7. WriteOK(c, v, objs)
  <2>1. Root \notin objs => work[c].seq[t] # Nil
    BY DEF RootIfNew
  <2>2. objs \in SUBSET ({Root, ct, tr} \cup Row) /\ tr \in objs
    BY DEF RootIfNew
  <2>3. \A d \in Ctr \ objs : v.len[d] = work[c].len[d]
    BY <1>1, <1>3, <1>5, <2>2 DEF View
  <2>4. \A d \in Ctr \cap used : work[c].len[d] <= v.len[d]
    <3>1. \A d \in Ctr : work[c].len[d] \in Int
      BY <1>1 DEF View
    <3>2. QED BY <1>3, <1>5, <3>1
  <2>5. ASSUME NEW u \in Table
        PROVE  /\ v.tab[u] \in {Nil, work[c].tab[u]} \cup ((TreesOf(u) \cap objs) \ used)
               /\ v.seq[u] \in {Nil, work[c].seq[u]} \cup ((CtrsOf(u) \cap objs) \ used)
               /\ \A y \in TreesOf(u) \cap objs : y = v.tab[u]
               /\ \A y \in CtrsOf(u) \cap objs : y = v.seq[u]
    <3>1. CASE u = t
      <4>1. v.seq[u] \in {Nil, work[c].seq[u]} \cup ((CtrsOf(u) \cap objs) \ used)
        BY <1>1, <1>3, <1>5, <3>1
      <4>2. \A y \in TreesOf(u) \cap objs : y = tr
        BY <1>1, <1>2, <1>3, <2>2, <3>1, Ids
      <4>3. \A y \in CtrsOf(u) \cap objs : y = ct
        BY <1>1, <1>2, <1>3, <2>2, <3>1, Ids
      <4>4. QED BY <1>5, <3>1, <4>1, <4>2, <4>3
    <3>2. CASE u # t
      <4>1. TreesOf(u) \cap objs = {} /\ CtrsOf(u) \cap objs = {}
        BY <1>1, <1>2, <1>3, <2>2, <3>2, Ids
      <4>2. QED BY <1>5, <3>2, <4>1
    <3>3. QED BY <3>1, <3>2
  <2>6. \A u \in Table : (v.tab[u] # Nil /\ v.tab[u] = work[c].tab[u] /\ work[c].seq[u] # Nil)
                            => v.seq[u] = work[c].seq[u]
    BY <1>3, <1>5
  <2>7. \A y \in Tree \ (used \cup objs), j \in Pk : v.rows[y][j] = Nil
    BY <1>1, <1>5, <2>2 DEF Known
  <2>8. Root \notin objs => v.tab = work[c].tab /\ v.seq = work[c].seq
    BY <1>5, <2>1
  <2>9. QED BY <1>5, <1>6, <2>3, <2>4, <2>5, <2>6, <2>7, <2>8 DEF WriteOK
<1>8. used' \in SUBSET Obj /\ objs \ Row \subseteq used' \cup {Root} /\ used \subseteq used'
  BY <1>2, <1>3 DEF TypeInv, TypeOK, Obj, RootIfNew
<1>9. QED BY <1>7, <1>8, ChangeKeeps

LEMMA InsertOtherKeeps ==
  ASSUME TypeInv, Inv, NEW c \in Conn, NEW t \in Table, work[c].tab[t] # Nil,
         NEW k \in OtherPk, NEW r \in Row, NEW x \in Val, InsertOther(c, t, k, r, x),
         \A d \in Conn : pc'[d] # "closed" => pc[d] # "closed"
  PROVE  Inv'
<1> DEFINE tr == work[c].tab[t]
           v == PutRow(work[c], t, k, r, x)
           objs == {tr, r}
<1>1. work[c] \in View /\ Known /\ Ahead(work[c]) /\ k \in Pk /\ k \notin IntPk
  BY Constants DEF TypeInv, TypeOK, Inv, SeqAhead, Pk
<1>2. tr \in TreesOf(t) /\ tr \in used /\ tr \in Tree
  BY <1>1, Ids DEF Known, Owned
<1>3. /\ v \in View /\ v.tab = work[c].tab /\ v.seq = work[c].seq /\ v.len = work[c].len
      /\ \A u \in Tree, j \in Pk : (u # tr \/ j # k) => v.rows[u][j] = work[c].rows[u][j]
  BY <1>1, <1>2, PutRowType, PutRowHas
<1>4. Ahead(v)
  <2>1. \A u \in IntTable : work[c].tab[u] # Nil => work[c].tab[u] \in Tree
    BY <1>1, Constants DEF View
  <2>2. QED BY <1>1, <1>3, <2>1, Constants DEF Ahead, Pk
<1>5. WriteOK(c, v, objs)
  <2>1. \A ct \in Ctr : v.len[ct] \in Int
    BY <1>3 DEF View
  <2>2. ASSUME NEW u \in Table
        PROVE  (\A y \in TreesOf(u) \cap objs : y = v.tab[u]) /\ CtrsOf(u) \cap objs = {}
    BY <1>2, <1>3, Ids
  <2>3. \A y \in Tree \ (used \cup objs), j \in Pk : v.rows[y][j] = Nil
    BY <1>1, <1>3 DEF Known
  <2>4. QED BY <1>3, <1>4, <2>1, <2>2, <2>3 DEF WriteOK
<1>6. /\ used' \in SUBSET Obj /\ used \subseteq used' /\ objs \ Row \subseteq used' \cup {Root}
      /\ Change(c, v, objs)
  BY <1>2 DEF InsertOther, TypeInv, TypeOK, Obj
<1>7. QED BY <1>5, <1>6, ChangeKeeps

LEMMA InsertRowKeeps ==
  ASSUME TypeInv, Inv, NEW c \in Conn, NEW t \in Table, work[c].tab[t] # Nil, InsertRowOf(c, t),
         \A d \in Conn : pc'[d] # "closed" => pc[d] # "closed"
  PROVE  Inv'
<1>1. ASSUME NEW r \in Row, NEW x \in Val, NEW ct \in SeqOf(c, t), InsertAuto(c, t, r, x, ct)
      PROVE  Inv'
  <2> DEFINE k == AutoPk(c, t, ct)
  <2>1. t \in IntTable /\ k \in IntPk /\ k \in Int
    BY <1>1, Constants DEF InsertAuto
  <2>2. ct \in Ctr /\ (work[c].seq[t] # Nil => work[c].len[ct] <= k)
    <3>1. ct \in Ctr /\ work[c].len[ct] \in Int
      BY <1>1, SeqOfType DEF TypeInv, TypeOK, View
    <3>2. QED BY <3>1 DEF AutoPk
  <2>3. /\ Change(c, PutRow(PutSeq(work[c], t, ct, k), t, k, r, x),
                 RootIfNew(c, t) \cup {ct, work[c].tab[t], r})
        /\ used' = used \cup {ct, r}
    BY <1>1 DEF InsertAuto
  <2>4. k <= k
    BY <2>1
  <2> HIDE DEF k
  <2>5. QED BY <1>1, <2>1, <2>2, <2>3, <2>4, InsertIntKeeps
<1>2. ASSUME NEW r \in Row, NEW x \in Val, NEW ct \in SeqOf(c, t), NEW k \in IntPk,
             InsertInt(c, t, k, r, x, ct)
      PROVE  Inv'
  <2>1. t \in IntTable /\ k \in Int
    BY <1>2, Constants DEF InsertInt
  <2>2. ct \in Ctr /\ work[c].len[ct] \in Int /\ work[c] \in View
    BY <1>2, SeqOfType DEF TypeInv, TypeOK, View
  <2>3. used' = used \cup {ct, r}
    BY <1>2 DEF InsertInt
  <2>4. CASE work[c].seq[t] = Nil \/ work[c].len[ct] <= k
    <3>1. Change(c, PutRow(PutSeq(work[c], t, ct, k), t, k, r, x),
                RootIfNew(c, t) \cup {ct, work[c].tab[t], r})
      <4>1. {work[c].tab[t], r} \cup ({ct} \cup RootIfNew(c, t))
              = RootIfNew(c, t) \cup {ct, work[c].tab[t], r}
        OBVIOUS
      <4>2. QED BY <1>2, <2>4, <4>1 DEF InsertInt
    <3>2. k <= k
      BY <2>1
    <3>3. QED BY <1>2, <2>1, <2>2, <2>3, <2>4, <3>1, <3>2, InsertIntKeeps
  <2>5. CASE ~(work[c].seq[t] = Nil \/ work[c].len[ct] <= k)
    <3> DEFINE n == work[c].len[ct]
    <3>1. PutSeq(work[c], t, ct, n) = work[c]
      <4>1. ct = work[c].seq[t]
        BY <1>2, <2>5 DEF SeqOf
      <4>2. QED BY <2>2, <4>1 DEF PutSeq, View
    <3>2. Change(c, PutRow(PutSeq(work[c], t, ct, n), t, k, r, x), {work[c].tab[t], r})
      <4>1. Change(c, PutRow(work[c], t, k, r, x), {work[c].tab[t], r} \cup {})
        BY <1>2, <2>5 DEF InsertInt
      <4>2. {work[c].tab[t], r} \cup {} = {work[c].tab[t], r}
        OBVIOUS
      <4>3. QED BY <3>1, <4>1, <4>2
    <3>3. k <= n /\ n <= n /\ n \in Int
      BY <2>1, <2>2, <2>5
    <3> HIDE DEF n
    <3>4. work[c].len[ct] = n /\ work[c].seq[t] # Nil
      BY <2>5 DEF n
    <3>5. QED BY <1>2, <2>1, <2>3, <3>2, <3>3, <3>4, InsertIntKeeps
  <2>6. QED BY <2>4, <2>5
<1>3. ASSUME NEW r \in Row, NEW x \in Val, NEW k \in OtherPk, InsertOther(c, t, k, r, x)
      PROVE  Inv'
  BY <1>3, InsertOtherKeeps
<1>4. QED BY <1>1, <1>2, <1>3 DEF InsertRowOf

LEMMA InvNext == TypeInv /\ Inv /\ [Next]_vars => Inv'
<1> SUFFICES ASSUME TypeInv, Inv, [Next]_vars PROVE Inv'
  OBVIOUS
<1> DEFINE StaysOpen == \A d \in Conn : pc'[d] # "closed" => pc[d] # "closed"
<1>0. pc \in [Conn -> Places]
  BY DEF TypeInv, TypeOK
<1>1. CASE UNCHANGED vars
  BY <1>1, StoreKept DEF vars
<1>2. ASSUME NEW c \in Conn, TransactionEnds(c) PROVE Inv'
  <2>1. CASE CommitSucceeds(c)
    BY <2>1, CommitKeeps
  <2>2. CASE CommitConflicts(c)
    <3>1. \A d \in Conn \ {c} : pc'[d] = pc[d]
      BY <1>0, <2>2 DEF CommitConflicts, StatementRaises
    <3>2. /\ UNCHANGED <<db, used>> /\ snap' = [snap EXCEPT ![c] = db]
          /\ work' = [work EXCEPT ![c] = db] /\ dirty' = [dirty EXCEPT ![c] = {}]
          /\ stale' = [stale EXCEPT ![c] = {}]
      BY <2>2 DEF CommitConflicts, Refresh
    <3>3. QED BY <3>1, <3>2, RefreshKeeps
  <2>3. CASE CommitRefused(c)
    BY <1>0, <2>3, StoreKept DEF CommitRefused, StatementRaises
  <2>4. QED BY <1>2, <2>1, <2>2, <2>3 DEF TransactionEnds
<1>3. ASSUME NEW c \in Conn, Lifecycle(c) PROVE Inv'
  <2>1. CASE Connect(c)
    <3>1. \A d \in Conn \ {c} : pc'[d] = pc[d]
      BY <1>0, <2>1 DEF Connect
    <3>2. /\ UNCHANGED <<db, used>> /\ snap' = [snap EXCEPT ![c] = db]
          /\ work' = [work EXCEPT ![c] = db] /\ dirty' = [dirty EXCEPT ![c] = {}]
          /\ stale' = [stale EXCEPT ![c] = {}]
      BY <2>1 DEF Connect, Refresh
    <3>3. QED BY <3>1, <3>2, RefreshKeeps
  <2>2. CASE Close(c)
    <3>1. pc'[c] = "closed" /\ \A d \in Conn \ {c} : pc'[d] = pc[d]
      BY <1>0, <2>2 DEF Close
    <3>2. QED BY <2>2, <3>1, RefreshKeeps DEF Close
  <2>3. CASE BeginAtomic(c) \/ EndAtomic(c)
    BY <1>0, <2>3, StoreKept DEF BeginAtomic, EndAtomic
  <2>4. CASE RollbackAtomic(c)
    <3>1. \A d \in Conn \ {c} : pc'[d] = pc[d]
      BY <2>4 DEF RollbackAtomic
    <3>2. /\ UNCHANGED <<db, used>> /\ snap' = [snap EXCEPT ![c] = db]
          /\ work' = [work EXCEPT ![c] = db] /\ dirty' = [dirty EXCEPT ![c] = {}]
          /\ stale' = [stale EXCEPT ![c] = {}]
      BY <2>4 DEF RollbackAtomic, Abort, Refresh
    <3>3. QED BY <3>1, <3>2, RefreshKeeps
  <2>5. QED BY <1>3, <2>1, <2>2, <2>3, <2>4 DEF Lifecycle
<1>4. ASSUME NEW c \in Conn, TableOps(c) PROVE Inv'
  <2>1. ASSUME NEW t \in Table, EnsureBtree(c, t) PROVE Inv'
    <3>1. StaysOpen
      BY <1>0, <2>1 DEF EnsureBtree, StatementEnds
    <3>2. QED BY <2>1, <3>1, BindTreeKeeps DEF EnsureBtree
  <2>2. ASSUME NEW t \in Table, DropBtree(c, t) PROVE Inv'
    BY <2>2, DropKeeps
  <2>3. ASSUME NEW T \in SUBSET Table, FlushStarts(c, T) PROVE Inv'
    BY <1>0, <2>3, StoreKept DEF FlushStarts
  <2>4. ASSUME NEW t \in Table, FlushSkips(c, t) PROVE Inv'
    BY <1>0, <2>4, StoreKept DEF FlushSkips
  <2>5. ASSUME NEW t \in Table, FlushTable(c, t) PROVE Inv'
    <3> DEFINE tr == work[c].tab[t]
               f == [k \in Pk |-> Nil]
               objs == IF \E k \in Pk : work[c].rows[tr][k] # Nil THEN {tr} ELSE {}
    <3>1. StaysOpen
      BY <1>0, <2>5 DEF FlushTable
    <3>2. f \in [Pk -> Row \cup {Nil}] /\ \A k \in Pk : f[k] = Nil
      OBVIOUS
    <3>3. tr # Nil /\ Change(c, PutKeys(work[c], tr, f), objs) /\ used' = used
      BY <2>5 DEF FlushTable
    <3>4. objs \in SUBSET {tr}
      OBVIOUS
    <3> HIDE DEF f, objs
    <3>5. QED BY <3>1, <3>2, <3>3, <3>4, RemoveKeysKeeps
  <2>6. CASE FlushRaises(c)
    BY <1>0, <2>6, StoreKept DEF FlushRaises, StatementRaises
  <2>7. QED BY <1>4, <2>1, <2>2, <2>3, <2>4, <2>5, <2>6 DEF TableOps
<1>5. ASSUME NEW c \in Conn, Inserts(c) PROVE Inv'
  <2>1. ASSUME NEW t \in Table, InsertStarts(c, t) PROVE Inv'
    <3>1. StaysOpen
      BY <1>0, <2>1 DEF InsertStarts
    <3>2. QED BY <2>1, <3>1, BindTreeKeeps, StoreKept DEF InsertStarts
  <2>2. ASSUME NEW t \in todo[c], pc[c] = "inserting", InsertRowOf(c, t),
               NEW last \in BOOLEAN, FinishRow(c, last)
        PROVE  Inv'
    <3>1. t \in Table /\ work[c].tab[t] # Nil
      BY <2>2 DEF TypeInv, TypeOK, TodoBound
    <3>2. StaysOpen
      BY <1>0, <2>2 DEF FinishRow, StatementEnds
    <3>3. QED BY <2>2, <3>1, <3>2, InsertRowKeeps
  <2>3. CASE InsertRaises(c)
    BY <1>0, <2>3, StoreKept DEF InsertRaises, StatementRaises
  <2>4. QED BY <1>5, <2>1, <2>2, <2>3
            DEF Inserts, InsertAutoRow, InsertGivenRow, InsertRowOf, FinishRow
<1>6. ASSUME NEW c \in Conn, Updates(c) \/ Deletes(c) PROVE Inv'
  <2>1. ASSUME NEW t \in Table, NEW S \in SUBSET RowsIn(work[c], t), NEW x \in Val,
               Update(c, t, S, x) \/ UpdateRaises(c, t, S, x)
        PROVE  Inv'
    <3>1. S \in SUBSET Row
      BY DEF RowsIn, TypeInv, TypeOK, View
    <3>2. StaysOpen
      BY <1>0, <2>1 DEF Update, UpdateRaises, StatementEnds, StatementRaises
    <3>3. QED BY <2>1, <3>1, <3>2, SetRowsKeeps DEF Update, UpdateRaises
  <2>2. ASSUME NEW t \in Table, NEW K \in SUBSET Pk, Delete(c, t, K) PROVE Inv'
    <3> DEFINE tr == work[c].tab[t]
               f == [k \in Pk |-> IF k \in K THEN Nil ELSE work[c].rows[tr][k]]
               objs == IF K = {} THEN {} ELSE {tr}
    <3>1. StaysOpen
      BY <1>0, <2>2 DEF Delete, StatementEnds
    <3>2. tr # Nil /\ Change(c, PutKeys(work[c], tr, f), objs) /\ used' = used
      BY <2>2 DEF Delete
    <3>3. f \in [Pk -> Row \cup {Nil}] /\ \A k \in Pk : f[k] # Nil => work[c].rows[tr][k] # Nil
      <4>1. tr \in Tree /\ work[c].rows \in [Tree -> [Pk -> Row \cup {Nil}]]
        BY <3>2 DEF TypeInv, TypeOK, View
      <4>2. QED BY <4>1
    <3>4. objs \in SUBSET {tr}
      OBVIOUS
    <3> HIDE DEF f, objs
    <3>5. QED BY <3>1, <3>2, <3>3, <3>4, RemoveKeysKeeps
  <2>3. QED BY <1>6, <2>1, <2>2 DEF Updates, Deletes
<1>7. QED BY <1>1, <1>2, <1>3, <1>4, <1>5, <1>6 DEF Next

LEMMA InvAlways == Spec => [](TypeInv /\ Inv)
<1>1. Init => TypeInv /\ Inv
  BY TypeInit, InvInit
<1>2. TypeInv /\ Inv /\ [Next]_vars => TypeInv' /\ Inv'
  BY TypeNext, InvNext
<1>3. QED BY <1>1, <1>2, PTL DEF Spec

(* get_next_pk never hands out an integer key that is taken: whatever      *)
(* commits are merged, retried or refused, and whoever gives keys of his   *)
(* own, the sequence of a table is at or past every key in it.             *)
THEOREM SequenceIsAhead == Spec => []SeqAhead
<1>1. Inv => SeqAhead
  BY DEF Inv
<1>2. QED BY <1>1, InvAlways, PTL

LEMMA OnlyCommitsStore ==
  ASSUME Next
  PROVE  UNCHANGED db \/ \E c \in Conn : CommitSucceeds(c)
<1>1. PICK c \in Conn : \/ TransactionEnds(c) \/ Lifecycle(c)
                       \/ TableOps(c) \/ Inserts(c) \/ Updates(c) \/ Deletes(c)
  BY DEF Next
<1>2. CASE TransactionEnds(c)
  BY <1>2 DEF TransactionEnds, CommitConflicts, CommitRefused, store
<1>3. CASE Lifecycle(c)
  BY <1>3 DEF Lifecycle, Connect, Close, BeginAtomic, EndAtomic, RollbackAtomic, Abort, store
<1>4. ASSUME NEW v, NEW objs, Change(c, v, objs) PROVE UNCHANGED db
  BY <1>4 DEF Change
<1>5. CASE TableOps(c)
  <2>1. ASSUME NEW t \in Table, EnsureBtree(c, t) PROVE UNCHANGED db
    BY <2>1, <1>4 DEF EnsureBtree, BindTree
  <2>2. ASSUME NEW t \in Table, DropBtree(c, t) PROVE UNCHANGED db
    BY <2>2, <1>4 DEF DropBtree
  <2>3. ASSUME NEW t \in Table, FlushTable(c, t) PROVE UNCHANGED db
    BY <2>3, <1>4 DEF FlushTable
  <2>4. QED BY <1>5, <2>1, <2>2, <2>3 DEF TableOps, FlushStarts, FlushSkips, FlushRaises, store
<1>6. CASE Inserts(c)
  <2>1. ASSUME NEW t \in Table, InsertStarts(c, t) PROVE UNCHANGED db
    BY <2>1, <1>4 DEF InsertStarts, BindTree, store
  <2>2. ASSUME NEW last \in BOOLEAN, InsertAutoRow(c, last) PROVE UNCHANGED db
    BY <2>2, <1>4 DEF InsertAutoRow, InsertAuto
  <2>3. ASSUME NEW last \in BOOLEAN, InsertGivenRow(c, last) PROVE UNCHANGED db
    <3>1. ASSUME NEW t, NEW k, NEW r, NEW x, NEW ct, InsertInt(c, t, k, r, x, ct)
          PROVE  UNCHANGED db
      BY <3>1, <1>4 DEF InsertInt
    <3>2. ASSUME NEW t, NEW k, NEW r, NEW x, InsertOther(c, t, k, r, x)
          PROVE  UNCHANGED db
      BY <3>2, <1>4 DEF InsertOther
    <3>3. QED
      <4>1. PICK t \in todo[c], r \in Row \ used, x \in Val :
              \/ \E ct \in SeqOf(c, t), k \in IntPk : InsertInt(c, t, k, r, x, ct)
              \/ \E k \in OtherPk : InsertOther(c, t, k, r, x)
        BY <2>3, Zenon DEF InsertGivenRow
      <4>2. QED BY <4>1, <3>1, <3>2, Zenon
  <2>4. QED BY <1>6, <2>1, <2>2, <2>3 DEF Inserts, InsertRaises, store
<1>7. CASE Updates(c) \/ Deletes(c)
  BY <1>4, <1>7 DEF Updates, Update, UpdateRaises, SetRows, Deletes, Delete
<1>8. QED BY <1>1, <1>2, <1>3, <1>5, <1>6, <1>7

(* A committed sequence that stays bound never goes back. *)
THEOREM SequenceNeverRewinds == Spec => SeqNeverRewinds
<1> DEFINE Step == \A t \in Table : db.seq[t] # Nil /\ db'.seq[t] = db.seq[t]
                     => db.len[db.seq[t]] <= db'.len[db.seq[t]]
<1>1. TypeInv /\ Inv /\ [Next]_vars => [Step]_vars
  <2> SUFFICES ASSUME TypeInv, Inv, Next,
                      NEW t \in Table, db.seq[t] # Nil, db'.seq[t] = db.seq[t]
               PROVE  db.len[db.seq[t]] <= db'.len[db.seq[t]]
    OBVIOUS
  <2>1. db.len[db.seq[t]] <= db.len[db.seq[t]]
    <3>1. db.seq[t] \in Ctr /\ db \in View
      BY Ids DEF Inv, Known, Owned, TypeInv, TypeOK
    <3>2. db.len[db.seq[t]] \in Int
      BY <3>1 DEF View
    <3>3. QED BY <3>2
  <2>2. CASE UNCHANGED db
    BY <2>1, <2>2
  <2>3. ASSUME NEW c \in Conn, CommitSucceeds(c)
        PROVE  db.len[db.seq[t]] <= db'.len[db.seq[t]]
    BY <2>3, BoundSeqGrows DEF CommitSucceeds
  <2>4. QED BY <2>2, <2>3, OnlyCommitsStore
<1>2. [][Next]_vars /\ [](TypeInv /\ Inv) => [][Step]_vars
  BY <1>1, PTL
<1>3. Spec => [][Step]_vars
  BY <1>2, InvAlways, PTL DEF Spec
<1>4. QED BY <1>3 DEF SeqNeverRewinds

(* The next key of a table is one no row of it has. *)
LEMMA AutoPkIsNew ==
  ASSUME TypeInv, Inv, NEW c \in Conn, NEW t \in IntTable, NEW ct \in SeqOf(c, t),
         AutoPk(c, t, ct) \in IntPk, work[c].tab[t] # Nil
  PROVE  work[c].rows[work[c].tab[t]][AutoPk(c, t, ct)] = Nil
<1>1. Ahead(work[c]) /\ t \in Table
  BY Constants DEF Inv, SeqAhead
<1>2. CASE work[c].seq[t] = Nil
  BY <1>1, <1>2 DEF Ahead
<1>3. CASE work[c].seq[t] # Nil
  <2>1. ct = work[c].seq[t] /\ ct \in Ctr
    BY <1>3, SeqOfType, <1>1 DEF SeqOf, TypeInv
  <2>2. work[c].len[ct] \in Int
    BY <2>1 DEF TypeInv, TypeOK, View
  <2>3. ~(AutoPk(c, t, ct) <= work[c].len[ct])
    BY <1>3, <2>2 DEF AutoPk
  <2>4. QED BY <1>1, <1>3, <2>1, <2>3 DEF Ahead
<1>4. QED BY <1>2, <1>3

(* An INSERT that leaves the key to the backend replaces no row the thread *)
(* sees, whatever keys were given or deleted before and whatever others    *)
(* have committed.                                                         *)
THEOREM GeneratedKeysNeverReplace == Spec => GeneratedKeysAreNew
<1> DEFINE Step == \A c \in Conn, last \in BOOLEAN : InsertAutoRow(c, last) =>
                     \A tr \in Tree, k \in Pk :
                       work[c].rows[tr][k] # Nil => work'[c].rows[tr][k] = work[c].rows[tr][k]
<1>1. TypeInv /\ Inv => Step
  <2> SUFFICES ASSUME TypeInv, Inv, NEW c \in Conn, NEW last \in BOOLEAN, InsertAutoRow(c, last),
                      NEW tr \in Tree, NEW k \in Pk, work[c].rows[tr][k] # Nil
               PROVE  work'[c].rows[tr][k] = work[c].rows[tr][k]
    OBVIOUS
  <2>1. PICK t \in todo[c], r \in Row \ used, x \in Val :
               \E ct \in SeqOf(c, t) : InsertAuto(c, t, r, x, ct)
    BY DEF InsertAutoRow
  <2>2. PICK ct \in SeqOf(c, t) : InsertAuto(c, t, r, x, ct)
    BY <2>1
  <2> DEFINE n == AutoPk(c, t, ct)
             w == PutSeq(work[c], t, ct, n)
  <2>3. t \in IntTable /\ n \in IntPk /\ work'[c] = PutRow(w, t, n, r, x)
    BY <2>2 DEF InsertAuto, Change, TypeInv, TypeOK
  <2>4. work[c] \in View /\ t \in Table /\ t \in todo[c] /\ n \in Int /\ ct \in Ctr
    BY <2>1, <2>3, SeqOfType, Constants DEF TypeInv, TypeOK
  <2>5. work[c].tab[t] # Nil /\ work[c].tab[t] \in Tree
    BY <2>4 DEF InsertAutoRow, TypeInv, TodoBound, View
  <2>6. work[c].rows[work[c].tab[t]][n] = Nil
    BY <2>3, <2>5, AutoPkIsNew
  <2>7. w.rows = work[c].rows /\ w.tab = work[c].tab /\ w \in View
    BY <2>4, PutSeqType DEF PutSeq, View
  <2> HIDE DEF n, w
  <2>8. ~(tr = work[c].tab[t] /\ k = n)
    BY <2>6
  <2>9. PutRow(w, t, n, r, x).rows[tr][k] = w.rows[tr][k]
    BY <2>4, <2>5, <2>7, <2>8 DEF PutRow, View
  <2>10. QED BY <2>3, <2>7, <2>9
<1>2. [](TypeInv /\ Inv) => [][Step]_vars
  BY <1>1, PTL
<1>3. Spec => [][Step]_vars
  BY <1>2, InvAlways, PTL
<1>4. QED BY <1>3 DEF GeneratedKeysAreNew
=============================================================================
