------------------------- MODULE IndexCatalog_proofs --------------------------
(***************************************************************************)
(* Proofs about IndexCatalog, for any connections and any index names.     *)
(***************************************************************************)
EXTENDS IndexCatalog, TLAPS

-----------------------------------------------------------------------------
(* A mapping that is bound and not new is stored; what a connection does   *)
(* not know to be stale is what is committed.                              *)
Inv ==
  /\ TypeOK /\ DictHasMapping
  /\ db.idx # {} => meta # Nil
  /\ \A c \in Conn : /\ root[c].idx # {} => hasMeta[c]
                     /\ hasMeta[c] /\ ~isNew[c] => meta # Nil
                     /\ ~stale[c] => seen[c] = db

LEMMA InvListsSomething == Inv => ContainerHasMapping
<1> SUFFICES ASSUME Inv, NEW c \in Conn
             PROVE  GetConstraints(c) # Nil
  BY DEF Inv, ContainerHasMapping
<1>1. hasMeta[c] => Loaded(c) # Nil
  BY DEF Inv, TypeOK, Loaded
<1>2. {} # Nil
  BY NilIsNoDict
<1>3. QED
  BY <1>1, <1>2 DEF GetConstraints

LEMMA InitInv == Init => Inv
BY NilIsNoDict DEF Init, Inv, TypeOK, DictHasMapping, RootState, Dict, Empty

(* The types of Loaded and of a dict that an operation made. *)
LEMMA LoadedType ==
  ASSUME Inv, NEW c \in Conn
  PROVE  /\ dict[c] \in Dict /\ meta \in Dict
         /\ hasMeta[c] => Loaded(c) \in SUBSET Index
         /\ \A D \in SUBSET Index : D \in Dict /\ D # Nil
BY NilIsNoDict DEF Inv, TypeOK, Dict, Loaded

(* What the connection c is told when its next transaction begins keeps    *)
(* the invariant, where db and meta do.                                    *)
LEMMA RenewedInv ==
  ASSUME Inv, NEW c \in Conn, NEW keep \in BOOLEAN, NextView(c, keep),
         keep = FALSE \/ ~isNew[c] \/ meta' # Nil,
         db' \in RootState, meta' \in Dict,
         meta # Nil => meta' # Nil,
         db'.idx # {} => meta' # Nil,
         stale' \in [Conn -> BOOLEAN],
         \A d \in Conn \ {c} : ~stale'[d] => ~stale[d] /\ db' = db,
         commits' \in [Conn -> BOOLEAN], autocommit' \in [Conn -> BOOLEAN]
  PROVE  Inv'
<1>1. /\ seen' \in [Conn -> RootState] /\ root' \in [Conn -> RootState]
      /\ hasMeta' \in [Conn -> BOOLEAN] /\ isNew' \in [Conn -> BOOLEAN]
      /\ dict' \in [Conn -> Dict]
  BY DEF NextView, Inv, TypeOK, Dict
<1>2. /\ seen'[c] = db' /\ root'[c] = db' /\ hasMeta'[c] = (meta' # Nil)
      /\ dict'[c] = (IF keep THEN dict[c] ELSE Nil) /\ isNew'[c] = FALSE
  BY DEF NextView, Inv, TypeOK
<1>3. ASSUME NEW d \in Conn, d # c
      PROVE  /\ seen'[d] = seen[d] /\ root'[d] = root[d] /\ hasMeta'[d] = hasMeta[d]
             /\ dict'[d] = dict[d] /\ isNew'[d] = isNew[d]
  BY <1>3 DEF NextView, Inv, TypeOK
<1>4. dict'[c] # Nil => hasMeta'[c]
  BY <1>2 DEF Inv, DictHasMapping
<1>5. TypeOK' /\ DictHasMapping'
  <2>1. \A d \in Conn : isNew'[d] => hasMeta'[d] /\ dict'[d] # Nil
    BY <1>2, <1>3 DEF Inv, TypeOK
  <2>2. \A d \in Conn : dict'[d] # Nil => hasMeta'[d]
    BY <1>3, <1>4 DEF Inv, DictHasMapping
  <2>3. QED
    BY <1>1, <2>1, <2>2 DEF TypeOK, DictHasMapping
<1>6. \A d \in Conn : /\ root'[d].idx # {} => hasMeta'[d]
                      /\ hasMeta'[d] /\ ~isNew'[d] => meta' # Nil
  BY <1>2, <1>3 DEF Inv
<1>7. \A d \in Conn : ~stale'[d] => seen'[d] = db'
  BY <1>2, <1>3 DEF Inv
<1>8. QED
  BY <1>5, <1>6, <1>7 DEF Inv

LEMMA CommitInv ==
  ASSUME Inv, NEW c \in Conn, CommitSucceeds(c)
  PROVE  Inv'
<1>1. /\ NextView(c, TRUE) /\ isNew[c] => meta' # Nil
      /\ db' \in RootState /\ meta' \in Dict /\ (meta # Nil => meta' # Nil)
  BY DEF CommitSucceeds, Inv, TypeOK
<1>2. db'.idx # {} => meta' # Nil
  BY DEF CommitSucceeds, Inv, TypeOK
<1>3. stale' \in [Conn -> BOOLEAN]
  BY DEF CommitSucceeds, Inv, TypeOK, RootChanged
<1>4. \A d \in Conn \ {c} : ~stale'[d] => ~stale[d] /\ db' = db
  BY DEF CommitSucceeds
<1>5. commits' \in [Conn -> BOOLEAN] /\ autocommit' \in [Conn -> BOOLEAN]
  BY DEF CommitSucceeds, Inv, TypeOK
<1>6. NextView(c, TRUE)
  BY DEF CommitSucceeds
<1>7. QED
  BY <1>1, <1>2, <1>3, <1>4, <1>5, <1>6, RenewedInv

LEMMA UndoInv ==
  ASSUME Inv, NEW c \in Conn, Undo(c)
  PROVE  Inv'
<1>1. /\ (~isNew[c]) \in BOOLEAN /\ NextView(c, ~isNew[c])
      /\ db' = db /\ meta' = meta /\ db' \in RootState /\ meta' \in Dict
      /\ stale' = [stale EXCEPT ![c] = FALSE]
      /\ commits' \in [Conn -> BOOLEAN] /\ autocommit' \in [Conn -> BOOLEAN]
  BY DEF Undo, Inv, TypeOK
<1>2. /\ stale' \in [Conn -> BOOLEAN]
      /\ \A d \in Conn \ {c} : ~stale'[d] => ~stale[d]
  BY <1>1 DEF Inv, TypeOK
<1>3. db'.idx # {} => meta' # Nil
  BY <1>1 DEF Inv
<1>4. QED
  BY <1>1, <1>2, <1>3, RenewedInv

(* An operation of c that stays in its transaction. *)
LEMMA OperationInv ==
  ASSUME Inv, NEW c \in Conn, NEW R \in RootState, NEW h \in BOOLEAN, NEW n \in BOOLEAN,
         NEW D \in Dict,
         UNCHANGED <<db, meta, seen, stale>>,
         root' = [root EXCEPT ![c] = R], hasMeta' = [hasMeta EXCEPT ![c] = h],
         isNew' = [isNew EXCEPT ![c] = n], dict' = [dict EXCEPT ![c] = D],
         commits' \in [Conn -> BOOLEAN], autocommit' \in [Conn -> BOOLEAN],
         n => h /\ D # Nil, D # Nil => h, R.idx # {} => h, h /\ ~n => meta # Nil
  PROVE  Inv'
<1>1. /\ root'[c] = R /\ hasMeta'[c] = h /\ isNew'[c] = n /\ dict'[c] = D
      /\ root' \in [Conn -> RootState] /\ hasMeta' \in [Conn -> BOOLEAN]
      /\ isNew' \in [Conn -> BOOLEAN] /\ dict' \in [Conn -> Dict]
  BY DEF Inv, TypeOK
<1>2. ASSUME NEW d \in Conn, d # c
      PROVE  /\ root'[d] = root[d] /\ hasMeta'[d] = hasMeta[d]
             /\ isNew'[d] = isNew[d] /\ dict'[d] = dict[d]
  BY <1>2 DEF Inv, TypeOK
<1>3. TypeOK'
  <2>1. \A d \in Conn : isNew'[d] => hasMeta'[d] /\ dict'[d] # Nil
    BY <1>1, <1>2 DEF Inv, TypeOK
  <2>2. QED
    BY <1>1, <2>1 DEF Inv, TypeOK
<1>4. DictHasMapping'
  BY <1>1, <1>2 DEF Inv, DictHasMapping
<1>5. \A d \in Conn : /\ root'[d].idx # {} => hasMeta'[d]
                      /\ hasMeta'[d] /\ ~isNew'[d] => meta' # Nil
                      /\ ~stale'[d] => seen'[d] = db'
  BY <1>1, <1>2 DEF Inv
<1>6. QED
  BY <1>3, <1>4, <1>5 DEF Inv

LEMMA Operations ==
  ASSUME Inv, NEW c \in Conn,
         \/ EnsureTable(c) \/ DropTable(c) \/ EnsureIndexRaises(c) \/ Evict(c)
         \/ BeginAtomic(c) \/ EndAtomic(c) \/ ExitEditor(c)
         \/ \E i \in Index : EnsureIndex(c, i) \/ DropIndex(c, i)
  PROVE  Inv'
<1>1. /\ root[c] \in RootState /\ hasMeta[c] \in BOOLEAN /\ isNew[c] \in BOOLEAN /\ dict[c] \in Dict
      /\ isNew[c] => hasMeta[c] /\ dict[c] # Nil
      /\ dict[c] # Nil => hasMeta[c]
      /\ root[c].idx # {} => hasMeta[c]
      /\ hasMeta[c] /\ ~isNew[c] => meta # Nil
  BY DEF Inv, TypeOK, DictHasMapping
<1>2. /\ root = [root EXCEPT ![c] = root[c]] /\ hasMeta = [hasMeta EXCEPT ![c] = hasMeta[c]]
      /\ isNew = [isNew EXCEPT ![c] = isNew[c]] /\ dict = [dict EXCEPT ![c] = dict[c]]
  BY DEF Inv, TypeOK
<1>3. commits' \in [Conn -> BOOLEAN] /\ autocommit' \in [Conn -> BOOLEAN]
  BY DEF EnsureTable, DropTable, EnsureIndexRaises, Evict, BeginAtomic, EndAtomic, ExitEditor,
         EnsureIndex, DropIndex, Operation, Inv, TypeOK
<1>4. UNCHANGED <<db, meta, seen, stale>>
  BY DEF EnsureTable, DropTable, EnsureIndexRaises, Evict, BeginAtomic, EndAtomic, ExitEditor,
         EnsureIndex, DropIndex, Operation
<1>5. ASSUME NEW t \in BOOLEAN, Operation(c, [root[c] EXCEPT !.tab = t]),
             UNCHANGED <<hasMeta, dict, isNew>>
      PROVE  Inv'
  <2> DEFINE R == [root[c] EXCEPT !.tab = t]
  <2>1. R \in RootState /\ R.idx = root[c].idx
    BY <1>1 DEF RootState
  <2>2. root' = [root EXCEPT ![c] = R]
    BY <1>5 DEF Operation
  <2>3. /\ hasMeta' = [hasMeta EXCEPT ![c] = hasMeta[c]]
        /\ isNew' = [isNew EXCEPT ![c] = isNew[c]] /\ dict' = [dict EXCEPT ![c] = dict[c]]
    BY <1>2, <1>5
  <2> HIDE DEF R
  <2>4. QED
    BY <1>1, <1>3, <1>4, <2>1, <2>2, <2>3, OperationInv
<1>6. CASE EnsureTable(c)
  BY <1>5, <1>6 DEF EnsureTable
<1>7. CASE DropTable(c)
  BY <1>5, <1>7 DEF DropTable
<1>8. CASE EnsureIndexRaises(c)
  <2>1. /\ root' = root /\ hasMeta' = [hasMeta EXCEPT ![c] = TRUE]
        /\ isNew' = [isNew EXCEPT ![c] = TRUE] /\ dict' = [dict EXCEPT ![c] = {}]
    BY <1>8 DEF EnsureIndexRaises
  <2>2. {} \in Dict /\ {} # Nil
    BY NilIsNoDict DEF Dict
  <2>3. QED
    BY <1>1, <1>2, <1>3, <1>4, <2>1, <2>2, OperationInv
<1>9. CASE Evict(c)
  <2>1. /\ UNCHANGED <<root, hasMeta, isNew>> /\ dict' = [dict EXCEPT ![c] = Nil] /\ ~isNew[c]
    BY <1>9 DEF Evict
  <2>2. Nil \in Dict
    BY DEF Dict
  <2>3. QED
    BY <1>1, <1>2, <1>3, <1>4, <2>1, <2>2, OperationInv
<1>10. CASE BeginAtomic(c) \/ EndAtomic(c) \/ ExitEditor(c)
  <2>1. UNCHANGED <<root, hasMeta, isNew, dict>>
    BY <1>10 DEF BeginAtomic, EndAtomic, ExitEditor
  <2>2. QED
    BY <1>1, <1>2, <1>3, <1>4, <2>1, OperationInv
<1>11. ASSUME NEW i \in Index, EnsureIndex(c, i)
       PROVE  Inv'
  <2> DEFINE R == [root[c] EXCEPT !.idx = @ \cup {i}]
             D == (IF hasMeta[c] THEN Loaded(c) ELSE {}) \cup {i}
             n == isNew[c] \/ ~hasMeta[c]
  <2>1. R \in RootState /\ D \in SUBSET Index /\ n \in BOOLEAN
    BY <1>1, LoadedType DEF RootState
  <2>2. D \in Dict /\ D # Nil
    BY <2>1, LoadedType
  <2>3. /\ root' = [root EXCEPT ![c] = R] /\ hasMeta' = [hasMeta EXCEPT ![c] = TRUE]
        /\ isNew' = [isNew EXCEPT ![c] = n] /\ dict' = [dict EXCEPT ![c] = D]
    BY <1>11 DEF EnsureIndex, Operation
  <2>4. ~n => meta # Nil
    BY <1>1
  <2> HIDE DEF R, D, n
  <2>5. QED
    BY <1>3, <1>4, <2>1, <2>2, <2>3, <2>4, OperationInv
<1>12. ASSUME NEW i \in Index, DropIndex(c, i)
       PROVE  Inv'
  <2> DEFINE R == [root[c] EXCEPT !.idx = @ \ {i}]
             D == IF hasMeta[c] THEN Loaded(c) \ {i} ELSE dict[c]
  <2>1. R \in RootState /\ (R.idx # {} => root[c].idx # {})
    BY <1>1 DEF RootState
  <2>2. D \in Dict /\ (hasMeta[c] => D # Nil) /\ (D # Nil => hasMeta[c])
    <3>1. hasMeta[c] => Loaded(c) \ {i} \in SUBSET Index
      BY LoadedType
    <3>2. hasMeta[c] => Loaded(c) \ {i} \in Dict /\ Loaded(c) \ {i} # Nil
      BY <3>1, LoadedType
    <3>3. QED
      BY <1>1, <3>2
  <2>3. /\ root' = [root EXCEPT ![c] = R] /\ UNCHANGED <<hasMeta, isNew>>
        /\ dict' = [dict EXCEPT ![c] = D]
    BY <1>12 DEF DropIndex, Operation
  <2> HIDE DEF R, D
  <2>4. QED
    BY <1>1, <1>2, <1>3, <1>4, <2>1, <2>2, <2>3, OperationInv
<1>13. QED
  BY <1>6, <1>7, <1>8, <1>9, <1>10, <1>11, <1>12

LEMMA NextInv == Inv /\ [Next]_vars => Inv'
<1> SUFFICES ASSUME Inv, [Next]_vars
             PROVE  Inv'
  OBVIOUS
<1>1. CASE UNCHANGED vars
  BY <1>1 DEF vars, Inv, TypeOK, DictHasMapping
<1>2. ASSUME NEW c \in Conn,
             CommitConflicts(c) \/ RollbackAtomic(c) \/ ExitEditorAborts(c)
      PROVE  Inv'
  BY <1>2, UndoInv DEF CommitConflicts, RollbackAtomic, ExitEditorAborts
<1>3. QED
  BY <1>1, <1>2, CommitInv, Operations DEF Next

(* The state stays well formed. *)
THEOREM CatalogTypeOK == Spec => []TypeOK
<1>1. Inv => TypeOK
  BY DEF Inv
<1>2. QED
  BY <1>1, InitInv, NextInv, PTL DEF Spec

(* No connection keeps the dict of a mapping that its root does not bind,  *)
(* whatever is refused, rolled back or dropped from its cache.             *)
THEOREM NoDictOfAnUndoneMapping == Spec => []DictHasMapping
<1>1. Inv => DictHasMapping
  BY DEF Inv
<1>2. QED
  BY <1>1, InitInv, NextInv, PTL DEF Spec

(* No container without its mapping: it is bound before the container, by  *)
(* the same transaction or an earlier one, and nothing takes it away.      *)
THEOREM EveryContainerHasMapping == Spec => []ContainerHasMapping
BY InitInv, NextInv, InvListsSomething, PTL DEF Spec

-----------------------------------------------------------------------------
(* IndexCatalog implements SnapshotStore: a commit installs the draft, a   *)
(* refused commit and a rollback discard it, everything else writes to it. *)

SlotSet == Index \cup {"tab"}

LEMMA SlotsApply ==
  ASSUME NEW r
  PROVE  /\ Slots(r) = [s \in SlotSet |-> Slots(r)[s]]
         /\ DOMAIN Slots(r) = SlotSet
BY DEF Slots, SlotSet

(* The transaction of c ends, and the next begins with what is committed.  *)
LEMMA Renews ==
  ASSUME Inv, NEW c \in Conn, NEW keep \in BOOLEAN, NextView(c, keep)
  PROVE  RootIsolation!Renew(c, Slots(db'))
<1>1. seen' = [seen EXCEPT ![c] = db'] /\ root' = [root EXCEPT ![c] = db']
  BY DEF NextView
<1>2. \A d \in Conn : /\ seen'[d] = IF d = c THEN db' ELSE seen[d]
                      /\ root'[d] = IF d = c THEN db' ELSE root[d]
  BY <1>1 DEF Inv, TypeOK
<1>3. [d \in Conn |-> Slots(seen'[d])] = [[d \in Conn |-> Slots(seen[d])] EXCEPT ![c] = Slots(db')]
  BY <1>2
<1>4. [d \in Conn |-> Slots(root'[d])] = [[d \in Conn |-> Slots(root[d])] EXCEPT ![c] = Slots(db')]
  BY <1>2
<1>5. QED
  BY <1>3, <1>4 DEF RootIsolation!Renew, Slots

LEMMA CommitInstalls ==
  ASSUME Inv, NEW c \in Conn, CommitSucceeds(c)
  PROVE  RootIsolation!Install(c)
<1> DEFINE W == RootIsolation!Written(c)
<1>1. W = {s \in SlotSet : Slots(root[c])[s] # Slots(seen[c])[s]}
  BY DEF RootIsolation!Written, SlotSet, Slots
<1>2. CASE RootChanged(c)
  <2>1. seen[c] = db /\ db' = root[c]
    BY <1>2 DEF CommitSucceeds, Conflicts, Inv
  <2>2. \A s \in W : Slots(db)[s] = Slots(seen[c])[s]
    BY <2>1
  <2>3. Slots(db') = [s \in SlotSet |-> IF s \in W THEN Slots(root[c])[s] ELSE Slots(db)[s]]
    BY <1>1, <2>1, SlotsApply
  <2>4. RootIsolation!Renew(c, Slots(db'))
    BY Renews DEF CommitSucceeds
  <2>5. QED
    BY <2>2, <2>3, <2>4 DEF RootIsolation!Install, SlotSet, Slots
<1>3. CASE ~RootChanged(c)
  <2>1. root[c] = seen[c] /\ db' = db
    BY <1>3 DEF CommitSucceeds, RootChanged
  <2>2. W = {}
    BY <1>1, <2>1
  <2>3. Slots(db') = [s \in SlotSet |-> IF s \in W THEN Slots(root[c])[s] ELSE Slots(db)[s]]
    BY <2>1, <2>2, SlotsApply
  <2>4. RootIsolation!Renew(c, Slots(db'))
    BY Renews DEF CommitSucceeds
  <2>5. QED
    BY <2>2, <2>3, <2>4 DEF RootIsolation!Install, SlotSet, Slots
<1>4. QED
  BY <1>2, <1>3

LEMMA UndoDiscards ==
  ASSUME Inv, NEW c \in Conn, Undo(c)
  PROVE  RootIsolation!Discard(c)
<1>1. db' = db /\ NextView(c, ~isNew[c]) /\ (~isNew[c]) \in BOOLEAN
  BY DEF Undo, Inv, TypeOK
<1>2. RootIsolation!Renew(c, Slots(db'))
  BY <1>1, Renews
<1>3. QED
  BY <1>1, <1>2 DEF RootIsolation!Discard, RootIsolation!Renew, Slots

(* What else c does, it does to its own draft. *)
LEMMA OthersWrite ==
  ASSUME Inv, NEW c \in Conn, UNCHANGED <<db, seen>>,
         root' = root \/ \E R : root' = [root EXCEPT ![c] = R]
  PROVE  RootIsolation!Write(c)
<1>1. \A d \in Conn \ {c} : root'[d] = root[d]
  BY DEF Inv, TypeOK
<1>2. QED
  BY <1>1 DEF RootIsolation!Write, Slots

(* Tables and index containers come and go as snapshot isolation allows,   *)
(* whatever the connections are and however their operations interleave.   *)
THEOREM CatalogIsIsolated == Spec => ContainersIsolated
<1>1. Init => RootIsolation!SInit
  BY DEF Init, RootIsolation!SInit
<1>2. Inv /\ [Next]_vars => [RootIsolation!SNext]_RootIsolation!svars
  <2> SUFFICES ASSUME Inv, [Next]_vars
               PROVE  [RootIsolation!SNext]_RootIsolation!svars
    OBVIOUS
  <2>1. CASE UNCHANGED vars
    BY <2>1 DEF vars, RootIsolation!svars, Slots
  <2>2. ASSUME NEW c \in Conn, CommitSucceeds(c)
        PROVE  RootIsolation!SNext
    BY <2>2, CommitInstalls DEF RootIsolation!SNext
  <2>3. ASSUME NEW c \in Conn, CommitConflicts(c) \/ RollbackAtomic(c) \/ ExitEditorAborts(c)
        PROVE  RootIsolation!SNext
    BY <2>3, UndoDiscards
    DEF RootIsolation!SNext, CommitConflicts, RollbackAtomic, ExitEditorAborts
  <2>4. ASSUME NEW c \in Conn,
               \/ EnsureTable(c) \/ DropTable(c) \/ EnsureIndexRaises(c) \/ Evict(c)
               \/ BeginAtomic(c) \/ EndAtomic(c) \/ ExitEditor(c)
               \/ \E i \in Index : EnsureIndex(c, i) \/ DropIndex(c, i)
        PROVE  RootIsolation!SNext
    <3>1. UNCHANGED <<db, seen>> /\ (root' = root \/ \E R : root' = [root EXCEPT ![c] = R])
      BY <2>4 DEF EnsureTable, DropTable, EnsureIndexRaises, Evict, BeginAtomic, EndAtomic,
         ExitEditor, EnsureIndex, DropIndex, Operation
    <3>2. QED
      BY <3>1, OthersWrite DEF RootIsolation!SNext
  <2>5. QED
    BY <2>1, <2>2, <2>3, <2>4 DEF Next
<1>3. QED
  BY <1>1, <1>2, InitInv, NextInv, PTL DEF Spec, ContainersIsolated, RootIsolation!SSpec
===============================================================================
