------------------------------ MODULE TableStore ------------------------------
(***************************************************************************)
(* Tables, rows and key sequences of django-zodb-backend, as the threads   *)
(* of an application read and write them through the compilers and the     *)
(* DatabaseWrapper of one database alias.                                  *)
(*                                                                         *)
(* A table is a name in the root PersistentMapping bound to an OOBTree     *)
(* from primary keys to rows; "__seq_<table>" is bound to a Length.  Each  *)
(* thread has a connection of its own, which sees the database as it was   *)
(* when the thread's transaction began (MVCC) and commits optimistically.  *)
(* A statement runs on the thread's own copies of the objects, so other    *)
(* threads are visible to it only where a transaction ends: one step is    *)
(* one statement, or one part of a statement between two commits.          *)
(*                                                                         *)
(* A write statement of a connection whose last commit failed raises       *)
(* TransactionFailedError before it changes anything (see "failed"), and a *)
(* SELECT changes nothing: both are stuttering steps.                      *)
(***************************************************************************)
EXTENDS Integers, FiniteSets

CONSTANTS
  Conn,       \* threads, each with its own connection to the alias
  Table,      \* db_table names
  IntTable,   \* the tables whose primary key is an integer
  Gen,        \* how often a table may be created again (bound on object ids)
  Row,        \* ids of row objects (bound on the number of INSERTed rows)
  IntPk,      \* integer primary keys (bound on what a sequence hands out)
  OtherPk,    \* primary keys of the other tables (UUIDs, session keys)
  Val,        \* what a row holds
  Root,       \* the id of the root PersistentMapping
  Nil,        \* no object
  Resolves    \* the storage resolves conflicts (FileStorage, ZEO) or never
              \* does (MappingStorage)

Tree == {"tree"} \X Table \X Gen      \* ids of OOBTree objects
Ctr  == {"seq"}  \X Table \X Gen      \* ids of Length objects
Obj  == {Root} \cup Tree \cup Ctr \cup Row
Pk   == IntPk \cup OtherPk

ASSUME Constants ==
  /\ IntTable \subseteq Table
  /\ IntPk \subseteq Int
  /\ IntPk \cap OtherPk = {}
  /\ Root \notin Tree \cup Ctr \cup Row
  /\ Row \cap (Tree \cup Ctr) = {}
  /\ Nil \notin Tree \cup Ctr \cup Row
  /\ Resolves \in BOOLEAN

(* The state of every persistent object, as one reader sees it. *)
View == [tab  : [Table -> Tree \cup {Nil}],
         seq  : [Table -> Ctr \cup {Nil}],
         rows : [Tree -> [Pk -> Row \cup {Nil}]],
         len  : [Ctr -> Int],
         val  : [Row -> Val \cup {Nil}]]

VARIABLES
  db,          \* the committed state
  snap,        \* snap[c]: the committed state c's transaction began with
  work,        \* work[c]: snap[c] with c's uncommitted changes
  dirty,       \* dirty[c]: the objects c changed (registered with its txn)
  stale,       \* stale[c]: the objects others committed since snap[c]
  used,        \* the object ids handed out so far
  autocommit,  \* connection.autocommit; FALSE inside atomic()
  failed,      \* failed[c]: the thread's transaction is COMMITFAILED
  pc,          \* where the thread is
  then,        \* where it goes after the commit it is about to make
  todo         \* the tables the current statement still works on

store == <<db, snap, work, dirty, stale, used>>
vars  == <<store, autocommit, failed, pc, then, todo>>

Places == {"closed", "ready", "inserting", "flushing", "commit"}
Continuations == {"ready", "inserting", "flushing", "exit"}

TypeOK ==
  /\ db \in View
  /\ snap \in [Conn -> View]
  /\ work \in [Conn -> View]
  /\ dirty \in [Conn -> SUBSET Obj]
  /\ stale \in [Conn -> SUBSET Obj]
  /\ used \subseteq Obj
  /\ autocommit \in [Conn -> BOOLEAN]
  /\ failed \in [Conn -> BOOLEAN]
  /\ pc \in [Conn -> Places]
  /\ then \in [Conn -> Continuations]
  /\ todo \in [Conn -> SUBSET Table]

(* A new ZODB.DB: an empty root. *)
EmptyView ==
  [tab  |-> [t \in Table |-> Nil],
   seq  |-> [t \in Table |-> Nil],
   rows |-> [tr \in Tree |-> [k \in Pk |-> Nil]],
   len  |-> [ct \in Ctr |-> 0],
   val  |-> [r \in Row |-> Nil]]

Init ==
  /\ db = EmptyView
  /\ snap = [c \in Conn |-> EmptyView]
  /\ work = [c \in Conn |-> EmptyView]
  /\ dirty = [c \in Conn |-> {}]
  /\ stale = [c \in Conn |-> {}]
  /\ used = {}
  /\ autocommit = [c \in Conn |-> TRUE]
  /\ failed = [c \in Conn |-> FALSE]
  /\ pc = [c \in Conn |-> "closed"]
  /\ then = [c \in Conn |-> "ready"]
  /\ todo = [c \in Conn |-> {}]

-----------------------------------------------------------------------------
(* Transactions of the transaction package and of ZODB.Connection. *)

(* c's connection drops its changes and sees the newest committed state. *)
Refresh(c) ==
  /\ snap' = [snap EXCEPT ![c] = db']
  /\ work' = [work EXCEPT ![c] = db']
  /\ dirty' = [dirty EXCEPT ![c] = {}]

(* c's objects take the state v; objs are registered as changed. *)
Change(c, v, objs) ==
  /\ work' = [work EXCEPT ![c] = v]
  /\ dirty' = [dirty EXCEPT ![c] = @ \cup objs]
  /\ UNCHANGED <<db, snap, stale>>

(* The OOBTree tr with the keys f, and the rows with the values g. *)
PutKeys(v, tr, f) == [v EXCEPT !.rows[tr] = f]
PutVals(v, g) == [v EXCEPT !.val = g]

(* The three-way merge of an OOBTree bucket: c's changes by key over the   *)
(* committed ones.                                                         *)
MergedRows(c, tr) ==
  [k \in Pk |-> IF work[c].rows[tr][k] = snap[c].rows[tr][k]
                THEN db.rows[tr][k] ELSE work[c].rows[tr][k]]

(* It is refused where both sides touched a key, and where a side or the   *)
(* result is an empty bucket.                                              *)
TreeMerges(c, tr) ==
  LET base == snap[c].rows[tr]
      com  == db.rows[tr]
      mine == work[c].rows[tr]
  IN /\ \A k \in Pk : com[k] = base[k] \/ mine[k] = base[k]
     /\ \E k \in Pk : com[k] # Nil
     /\ \E k \in Pk : mine[k] # Nil
     /\ \E k \in Pk : MergedRows(c, tr)[k] # Nil

(* Length always resolves; PersistentMapping (the root, a row) never does. *)
Mergeable(c, o) ==
  /\ Resolves
  /\ o \in Ctr \/ (o \in Tree /\ TreeMerges(c, o))

Conflicting(c) == \E o \in dirty[c] \cap stale[c] : ~Mergeable(c, o)

(* The state c's commit stores: a Length adds what c added to it. *)
Committed(c) ==
  [tab  |-> IF Root \in dirty[c] THEN work[c].tab ELSE db.tab,
   seq  |-> IF Root \in dirty[c] THEN work[c].seq ELSE db.seq,
   rows |-> [tr \in Tree |-> IF tr \in dirty[c] THEN MergedRows(c, tr) ELSE db.rows[tr]],
   len  |-> [ct \in Ctr |-> IF ct \in dirty[c]
                            THEN db.len[ct] + (work[c].len[ct] - snap[c].len[ct])
                            ELSE db.len[ct]],
   val  |-> [r \in Row |-> IF r \in dirty[c] THEN work[c].val[r] ELSE db.val[r]]]

(* An exception ends the statement; what it changed stays registered. *)
StatementRaises(c) ==
  /\ pc' = [pc EXCEPT ![c] = "ready"]
  /\ then' = [then EXCEPT ![c] = "ready"]
  /\ todo' = [todo EXCEPT ![c] = {}]

(* The statement returns, or in autocommit mode goes on to its commit. *)
StatementEnds(c) ==
  /\ pc' = [pc EXCEPT ![c] = IF autocommit[c] THEN "commit" ELSE "ready"]
  /\ then' = [then EXCEPT ![c] = "ready"]
  /\ todo' = [todo EXCEPT ![c] = {}]

(* The end of atomic() sets autocommit again whatever became of the commit. *)
LeaveAtomic(c) == autocommit' = [autocommit EXCEPT ![c] = @ \/ then[c] = "exit"]

(* Mutant of CommitSucceeds: the end of atomic() is not told from the end  *)
(* of a statement.                                                         *)
CommitStays(c) ==
  /\ pc[c] = "commit" /\ ~failed[c] /\ ~Conflicting(c)
  /\ db' = Committed(c)
  /\ Refresh(c)
  /\ stale' = [d \in Conn |-> IF d = c \/ pc[d] = "closed"
                              THEN {} ELSE stale[d] \cup dirty[c]]
  /\ pc' = [pc EXCEPT ![c] = then[c]]
  /\ then' = [then EXCEPT ![c] = "ready"]
  /\ LeaveAtomic(c)
  /\ UNCHANGED <<used, failed, todo>>

CommitSucceeds(c) ==
  /\ pc[c] = "commit" /\ ~failed[c] /\ ~Conflicting(c)
  /\ db' = Committed(c)
  /\ Refresh(c)
  /\ stale' = [d \in Conn |-> IF d = c \/ pc[d] = "closed"
                              THEN {} ELSE stale[d] \cup dirty[c]]
  /\ pc' = [pc EXCEPT ![c] = IF then[c] = "exit" THEN "ready" ELSE then[c]]
  /\ then' = [then EXCEPT ![c] = "ready"]
  /\ LeaveAtomic(c)
  /\ UNCHANGED <<used, failed, todo>>

(* ConflictError: the connection's changes are gone, and the transaction   *)
(* stays in the thread's manager as COMMITFAILED.                          *)
CommitConflicts(c) ==
  /\ pc[c] = "commit" /\ ~failed[c] /\ Conflicting(c)
  /\ UNCHANGED db
  /\ Refresh(c)
  /\ stale' = [stale EXCEPT ![c] = {}]
  /\ failed' = [failed EXCEPT ![c] = TRUE]
  /\ StatementRaises(c)
  /\ LeaveAtomic(c)
  /\ UNCHANGED used

(* TransactionFailedError: a commit of a COMMITFAILED transaction. *)
CommitRefused(c) ==
  /\ pc[c] = "commit" /\ failed[c]
  /\ StatementRaises(c)
  /\ LeaveAtomic(c)
  /\ UNCHANGED <<store, failed>>

(* transaction.abort() *)
Abort(c) ==
  /\ UNCHANGED <<db, used>>
  /\ Refresh(c)
  /\ stale' = [stale EXCEPT ![c] = {}]
  /\ failed' = [failed EXCEPT ![c] = FALSE]

-----------------------------------------------------------------------------
(* DatabaseWrapper: connections and atomic() blocks. *)

(* connect() opens a ZODB connection, whose view is the newest state. *)
Connect(c) ==
  /\ pc[c] = "closed"
  /\ pc' = [pc EXCEPT ![c] = "ready"]
  /\ autocommit' = [autocommit EXCEPT ![c] = TRUE]
  /\ UNCHANGED <<db, used, failed, then, todo>>
  /\ Refresh(c)
  /\ stale' = [stale EXCEPT ![c] = {}]

(* _close aborts; a closed wrapper has no ZODB connection and no view. *)
Close(c) ==
  /\ pc[c] = "ready"
  /\ snap' = [snap EXCEPT ![c] = EmptyView]
  /\ work' = [work EXCEPT ![c] = EmptyView]
  /\ dirty' = [dirty EXCEPT ![c] = {}]
  /\ stale' = [stale EXCEPT ![c] = {}]
  /\ failed' = [failed EXCEPT ![c] = FALSE]
  /\ UNCHANGED <<db, used>>
  /\ pc' = [pc EXCEPT ![c] = "closed"]
  /\ UNCHANGED <<autocommit, then, todo>>

(* No transaction begins here: the block keeps the view the thread has. *)
BeginAtomic(c) ==
  /\ pc[c] = "ready" /\ autocommit[c]
  /\ autocommit' = [autocommit EXCEPT ![c] = FALSE]
  /\ UNCHANGED <<store, failed, pc, then, todo>>

EndAtomic(c) ==
  /\ pc[c] = "ready" /\ ~autocommit[c]
  /\ pc' = [pc EXCEPT ![c] = "commit"]
  /\ then' = [then EXCEPT ![c] = "exit"]
  /\ UNCHANGED <<store, autocommit, failed, todo>>

RollbackAtomic(c) ==
  /\ pc[c] = "ready" /\ ~autocommit[c]
  /\ Abort(c)
  /\ autocommit' = [autocommit EXCEPT ![c] = TRUE]
  /\ UNCHANGED <<pc, then, todo>>

-----------------------------------------------------------------------------
(* Tables. *)

(* root[t] = OOBTree() *)
BindTree(c, t) ==
  \E tr \in ({"tree"} \X {t} \X Gen) \ used :
    /\ Change(c, [work[c] EXCEPT !.tab[t] = tr], {Root, tr})
    /\ used' = used \cup {tr}

(* ensure_btree: create_model, and anything else that needs the table. *)
EnsureBtree(c, t) ==
  /\ pc[c] = "ready" /\ ~failed[c]
  /\ work[c].tab[t] = Nil
  /\ BindTree(c, t)
  /\ StatementEnds(c)
  /\ UNCHANGED <<autocommit, failed>>

(* drop_btree: the table and its sequence go; it ends in a commit even if  *)
(* it found neither.                                                       *)
DropBtree(c, t) ==
  /\ pc[c] = "ready" /\ ~failed[c]
  /\ Change(c, [work[c] EXCEPT !.tab[t] = Nil, !.seq[t] = Nil],
            IF work[c].tab[t] = Nil /\ work[c].seq[t] = Nil THEN {} ELSE {Root})
  /\ StatementEnds(c)
  /\ UNCHANGED <<used, autocommit, failed>>

(* execute_sql_flush empties the tables one by one, and commits after each *)
(* of them whatever the mode.                                              *)
FlushStarts(c, T) ==
  /\ pc[c] = "ready"
  /\ pc' = [pc EXCEPT ![c] = "flushing"]
  /\ todo' = [todo EXCEPT ![c] = T]
  /\ UNCHANGED <<store, autocommit, failed, then>>

FlushSkips(c, t) ==
  /\ pc[c] = "flushing" /\ t \in todo[c]
  /\ work[c].tab[t] = Nil
  /\ todo' = [todo EXCEPT ![c] = @ \ {t}]
  /\ pc' = [pc EXCEPT ![c] = IF todo[c] = {t} THEN "ready" ELSE "flushing"]
  /\ UNCHANGED <<store, autocommit, failed, then>>

FlushTable(c, t) ==
  /\ pc[c] = "flushing" /\ t \in todo[c] /\ ~failed[c]
  /\ work[c].tab[t] # Nil
  /\ LET tr == work[c].tab[t] IN
       Change(c, PutKeys(work[c], tr, [k \in Pk |-> Nil]),
              IF \E k \in Pk : work[c].rows[tr][k] # Nil THEN {tr} ELSE {})
  /\ todo' = [todo EXCEPT ![c] = @ \ {t}]
  /\ pc' = [pc EXCEPT ![c] = "commit"]
  /\ then' = [then EXCEPT ![c] = IF todo[c] = {t} THEN "ready" ELSE "flushing"]
  /\ UNCHANGED <<used, autocommit, failed>>

FlushRaises(c) ==
  /\ pc[c] = "flushing" /\ failed[c]
  /\ \E t \in todo[c] : work[c].tab[t] # Nil
  /\ StatementRaises(c)
  /\ UNCHANGED <<store, autocommit, failed>>

-----------------------------------------------------------------------------
(* SQLInsertCompiler.execute_sql: ensure_btree, which in autocommit mode   *)
(* commits a table it creates; then one row after the other; then the      *)
(* commit of the statement.                                                *)

InsertStarts(c, t) ==
  /\ pc[c] = "ready" /\ ~failed[c]
  /\ todo' = [todo EXCEPT ![c] = {t}]
  /\ \/ /\ work[c].tab[t] # Nil
        /\ pc' = [pc EXCEPT ![c] = "inserting"]
        /\ UNCHANGED <<store, then>>
     \/ /\ work[c].tab[t] = Nil
        /\ BindTree(c, t)
        /\ pc' = [pc EXCEPT ![c] = IF autocommit[c] THEN "commit" ELSE "inserting"]
        /\ then' = [then EXCEPT ![c] = IF autocommit[c] THEN "inserting" ELSE "ready"]
  /\ UNCHANGED <<autocommit, failed>>

(* coll[k] = PersistentMapping(...): a row under k is replaced. *)
PutRow(v, t, k, r, x) ==
  [v EXCEPT !.rows[v.tab[t]][k] = r, !.val[r] = x]

(* root["__seq_t"] is the Length ct with value n. *)
PutSeq(v, t, ct, n) == [v EXCEPT !.seq[t] = ct, !.len[ct] = n]

(* The Length of t, or a new one that changes the root. *)
SeqOf(c, t) ==
  IF work[c].seq[t] = Nil THEN ({"seq"} \X {t} \X Gen) \ used ELSE {work[c].seq[t]}

RootIfNew(c, t) == IF work[c].seq[t] = Nil THEN {Root} ELSE {}

(* Mutant of AutoPk: the Length is read before it is changed. *)
AutoPkRead(c, t, ct) == IF work[c].seq[t] = Nil THEN 1 ELSE work[c].len[ct]

(* No primary key is given: get_next_pk. *)
AutoPk(c, t, ct) == IF work[c].seq[t] = Nil THEN 1 ELSE work[c].len[ct] + 1

InsertAuto(c, t, r, x, ct) ==
  LET k == AutoPk(c, t, ct) IN
  /\ t \in IntTable /\ k \in IntPk
  /\ ct \in SeqOf(c, t)
  /\ Change(c, PutRow(PutSeq(work[c], t, ct, k), t, k, r, x),
            RootIfNew(c, t) \cup {ct, work[c].tab[t], r})
  /\ used' = used \cup {ct, r}

(* Mutants of InsertInt: the sequence is made but never moved; and it is   *)
(* set to every key, greater or not.                                       *)
InsertIntBehind(c, t, k, r, x, ct) ==
  LET behind == work[c].seq[t] = Nil IN
  /\ t \in IntTable /\ k \in IntPk
  /\ ct \in SeqOf(c, t)
  /\ Change(c, PutRow(IF behind THEN PutSeq(work[c], t, ct, k) ELSE work[c], t, k, r, x),
            {work[c].tab[t], r} \cup (IF behind THEN {ct} \cup RootIfNew(c, t) ELSE {}))
  /\ used' = used \cup {ct, r}

InsertIntRewinds(c, t, k, r, x, ct) ==
  /\ t \in IntTable /\ k \in IntPk
  /\ ct \in SeqOf(c, t)
  /\ Change(c, PutRow(PutSeq(work[c], t, ct, k), t, k, r, x),
            {work[c].tab[t], r, ct} \cup RootIfNew(c, t))
  /\ used' = used \cup {ct, r}

(* An integer key is given: the sequence follows it. *)
InsertInt(c, t, k, r, x, ct) ==
  LET behind == work[c].seq[t] = Nil \/ work[c].len[ct] <= k IN
  /\ t \in IntTable /\ k \in IntPk
  /\ ct \in SeqOf(c, t)
  /\ Change(c, PutRow(IF behind THEN PutSeq(work[c], t, ct, k) ELSE work[c], t, k, r, x),
            {work[c].tab[t], r} \cup (IF behind THEN {ct} \cup RootIfNew(c, t) ELSE {}))
  /\ used' = used \cup {ct, r}

(* A key of another kind is given: the sequence is left alone. *)
InsertOther(c, t, k, r, x) ==
  /\ t \notin IntTable /\ k \in OtherPk
  /\ Change(c, PutRow(work[c], t, k, r, x), {work[c].tab[t], r})
  /\ used' = used \cup {r}

(* One object of query.objs without a key; "last" when no other follows. *)
InsertAutoRow(c, last) ==
  /\ pc[c] = "inserting" /\ ~failed[c]
  /\ \E t \in todo[c], r \in Row \ used, x \in Val :
       \E ct \in SeqOf(c, t) : InsertAuto(c, t, r, x, ct)
  /\ IF last THEN StatementEnds(c) ELSE UNCHANGED <<pc, then, todo>>
  /\ UNCHANGED <<autocommit, failed>>

(* One object of query.objs that has a key. *)
InsertGivenRow(c, last) ==
  /\ pc[c] = "inserting" /\ ~failed[c]
  /\ \E t \in todo[c], r \in Row \ used, x \in Val :
       \/ \E ct \in SeqOf(c, t), k \in IntPk : InsertInt(c, t, k, r, x, ct)
       \/ \E k \in OtherPk : InsertOther(c, t, k, r, x)
  /\ IF last THEN StatementEnds(c) ELSE UNCHANGED <<pc, then, todo>>
  /\ UNCHANGED <<autocommit, failed>>

(* pre_save or get_db_prep_save of one of the objects raises. *)
InsertRaises(c) ==
  /\ pc[c] = "inserting"
  /\ StatementRaises(c)
  /\ UNCHANGED <<store, autocommit, failed>>

-----------------------------------------------------------------------------
(* SQLUpdateCompiler and SQLDeleteCompiler: the statement works on the     *)
(* rows its WHERE selects, here any of them.                               *)

RowsIn(v, t) ==
  IF v.tab[t] = Nil THEN {} ELSE {v.rows[v.tab[t]][k] : k \in Pk} \ {Nil}

(* Mutant of SetRows: only the last row that changed is registered.        *)
SetRowsLast(c, S, x) ==
  /\ \E last \in SUBSET S :
       /\ Cardinality(last) <= 1 /\ (S # {} => last # {})
       /\ Change(c, PutVals(work[c], [r \in Row |-> IF r \in S THEN x ELSE work[c].val[r]]), last)
  /\ UNCHANGED <<used, autocommit, failed>>

SetRows(c, S, x) ==
  /\ Change(c, PutVals(work[c], [r \in Row |-> IF r \in S THEN x ELSE work[c].val[r]]), S)
  /\ UNCHANGED <<used, autocommit, failed>>

Update(c, t, S, x) ==
  /\ pc[c] = "ready" /\ ~failed[c]
  /\ work[c].tab[t] # Nil /\ S \subseteq RowsIn(work[c], t)
  /\ SetRows(c, S, x)
  /\ StatementEnds(c)

(* The WHERE of a later row, or the value, raises: the rows before it keep *)
(* what they were given, and nothing is committed.                         *)
UpdateRaises(c, t, S, x) ==
  /\ pc[c] = "ready" /\ ~failed[c]
  /\ work[c].tab[t] # Nil /\ S \subseteq RowsIn(work[c], t)
  /\ SetRows(c, S, x)
  /\ StatementRaises(c)

Delete(c, t, K) ==
  /\ pc[c] = "ready" /\ ~failed[c]
  /\ work[c].tab[t] # Nil
  /\ LET tr == work[c].tab[t] IN
       /\ \A k \in K : work[c].rows[tr][k] # Nil
       /\ Change(c, PutKeys(work[c], tr,
                            [k \in Pk |-> IF k \in K THEN Nil ELSE work[c].rows[tr][k]]),
                 IF K = {} THEN {} ELSE {tr})
  /\ StatementEnds(c)
  /\ UNCHANGED <<used, autocommit, failed>>

-----------------------------------------------------------------------------
TransactionEnds(c) == CommitSucceeds(c) \/ CommitConflicts(c) \/ CommitRefused(c)

Lifecycle(c) ==
  Connect(c) \/ Close(c) \/ BeginAtomic(c) \/ EndAtomic(c) \/ RollbackAtomic(c)

TableOps(c) ==
  \/ \E t \in Table : EnsureBtree(c, t) \/ DropBtree(c, t)
  \/ \E T \in SUBSET Table \ {{}} : FlushStarts(c, T)
  \/ \E t \in Table : FlushSkips(c, t) \/ FlushTable(c, t)
  \/ FlushRaises(c)

Inserts(c) ==
  \/ \E t \in Table : InsertStarts(c, t)
  \/ \E last \in BOOLEAN : InsertAutoRow(c, last) \/ InsertGivenRow(c, last)
  \/ InsertRaises(c)

Updates(c) ==
  \E t \in Table : \E S \in SUBSET RowsIn(work[c], t), x \in Val :
    Update(c, t, S, x) \/ UpdateRaises(c, t, S, x)

Deletes(c) == \E t \in Table, K \in SUBSET Pk : Delete(c, t, K)

Next ==
  \E c \in Conn : \/ TransactionEnds(c) \/ Lifecycle(c)
                 \/ TableOps(c) \/ Inserts(c) \/ Updates(c) \/ Deletes(c)

Spec == Init /\ [][Next]_vars

-----------------------------------------------------------------------------
(* A table with integer keys has its sequence at or past every key in it,  *)
(* in the committed state and in every thread's view: get_next_pk cannot   *)
(* hand out a key that is taken.                                           *)
Ahead(v) ==
  \A t \in IntTable : v.tab[t] # Nil =>
    \A k \in IntPk : v.rows[v.tab[t]][k] # Nil =>
      v.seq[t] # Nil /\ k <= v.len[v.seq[t]]

SeqAhead == Ahead(db) /\ \A c \in Conn : Ahead(snap[c]) /\ Ahead(work[c])

(* A row given the next key of its table replaces none: coll[pk] = pm says *)
(* nothing of a row it finds there.                                        *)
GeneratedKeysAreNew ==
  [][\A c \in Conn, last \in BOOLEAN : InsertAutoRow(c, last) =>
       \A tr \in Tree, k \in Pk :
         work[c].rows[tr][k] # Nil => work'[c].rows[tr][k] = work[c].rows[tr][k]]_vars

(* A sequence only grows, however commits are merged: no commit takes it   *)
(* back to where keys, even of rows deleted since, were already given out. *)
SeqNeverRewinds ==
  [][\A t \in Table : db.seq[t] # Nil /\ db'.seq[t] = db.seq[t]
       => db.len[db.seq[t]] <= db'.len[db.seq[t]]]_vars

-----------------------------------------------------------------------------
(* The data as SnapshotStore has it: names in the root, keys in a table    *)
(* and values of rows are slots.  The values of sequences, which commits   *)
(* add up, are not.                                                        *)
DataSlot ==
  ({"tab", "seq"} \X Table) \cup ({"key"} \X Tree \X Pk) \cup ({"val"} \X Row)

Data(v) ==
  [s \in DataSlot |-> CASE s[1] = "tab" -> v.tab[s[2]]
                       [] s[1] = "seq" -> v.seq[s[2]]
                       [] s[1] = "key" -> v.rows[s[2]][s[3]]
                       [] s[1] = "val" -> v.val[s[2]]]

Isolation ==
  INSTANCE SnapshotStore WITH
    Thread <- Conn, Slot <- DataSlot, Blank <- Data(EmptyView),
    contents <- Data(db),
    seen <- [c \in Conn |-> Data(snap[c])],
    draft <- [c \in Conn |-> Data(work[c])]

(* Every commit the code lets through is one snapshot isolation allows: no *)
(* INSERT under a key another transaction took, no UPDATE of a row another *)
(* one changed, no commit that only half happens, no change of what a      *)
(* thread sees while its transaction lasts.                                *)
SnapshotIsolation == Isolation!SSpec
=============================================================================
