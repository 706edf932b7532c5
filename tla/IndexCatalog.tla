----------------------------- MODULE IndexCatalog -----------------------------
(***************************************************************************)
(* One table and its secondary indexes: "__meta_<table>", a                *)
(* PersistentMapping that holds a plain dict of index descriptions, and    *)
(* one "__idx_<table>_<name>" container per index in the root.             *)
(*                                                                         *)
(* ensure_index and drop_index change the dict in place.  ZODB notices     *)
(* nothing of that: the dict is stored only with the mapping, that is, by  *)
(* the transaction that creates it, and otherwise lives in the memory of   *)
(* the connection that changed it until its cache lets go of the mapping.  *)
(***************************************************************************)
EXTENDS FiniteSets

CONSTANTS
  Conn,       \* threads, each with its own connection
  Index,      \* names of the table's indexes
  Nil         \* the mapping is not there, or not in memory

ASSUME NilIsNoDict == \A indexes \in SUBSET Index : indexes # Nil

(* What the root binds: the table, the containers. *)
RootState == [tab : BOOLEAN, idx : SUBSET Index]
Dict      == (SUBSET Index) \cup {Nil}

VARIABLES
  db,          \* the committed root
  meta,        \* the dict as stored with the mapping
  seen,        \* seen[c]: the root c's transaction began with
  root,        \* root[c]: that root with c's uncommitted changes
  hasMeta,     \* hasMeta[c]: c's view of the root binds the mapping
  dict,        \* dict[c]: the dict as c's connection has it in memory
  isNew,       \* isNew[c]: c's transaction creates the mapping
  stale,       \* stale[c]: others have committed the root since
  autocommit,  \* connection.autocommit
  commits      \* commits[c]: the operation, or the block, is about to commit

vars == <<db, meta, seen, root, hasMeta, dict, isNew, stale, autocommit, commits>>

TypeOK ==
  /\ db \in RootState /\ meta \in Dict
  /\ seen \in [Conn -> RootState] /\ root \in [Conn -> RootState]
  /\ hasMeta \in [Conn -> BOOLEAN] /\ dict \in [Conn -> Dict]
  /\ isNew \in [Conn -> BOOLEAN] /\ stale \in [Conn -> BOOLEAN]
  /\ autocommit \in [Conn -> BOOLEAN] /\ commits \in [Conn -> BOOLEAN]
  /\ \A c \in Conn : isNew[c] => hasMeta[c] /\ dict[c] # Nil

Empty == [tab |-> FALSE, idx |-> {}]

Init ==
  /\ db = Empty /\ meta = Nil
  /\ seen = [c \in Conn |-> Empty]
  /\ root = [c \in Conn |-> Empty]
  /\ hasMeta = [c \in Conn |-> FALSE]
  /\ dict = [c \in Conn |-> Nil]
  /\ isNew = [c \in Conn |-> FALSE]
  /\ stale = [c \in Conn |-> FALSE]
  /\ autocommit = [c \in Conn |-> TRUE]
  /\ commits = [c \in Conn |-> FALSE]

-----------------------------------------------------------------------------
(* root[meta_key]["indexes"], loaded from the store if need be. *)
Loaded(c) == IF dict[c] = Nil THEN meta ELSE dict[c]

(* c's next transaction begins; the dict in memory stays, unless its       *)
(* mapping was never stored.                                               *)
NextView(c, keep) ==
  /\ seen' = [seen EXCEPT ![c] = db']
  /\ root' = [root EXCEPT ![c] = db']
  /\ hasMeta' = [hasMeta EXCEPT ![c] = meta' # Nil]
  /\ dict' = [dict EXCEPT ![c] = IF keep THEN @ ELSE Nil]
  /\ isNew' = [isNew EXCEPT ![c] = FALSE]

RootChanged(c) == isNew[c] \/ root[c] # seen[c]

(* The root never merges. *)
Conflicts(c) == stale[c] /\ RootChanged(c)

(* Mutant of CommitSucceeds: containers are stored only with the mapping.  *)
CommitsMapping(c) ==
  /\ commits[c] /\ ~Conflicts(c)
  /\ db' = IF isNew[c] THEN root[c] ELSE [db EXCEPT !.tab = root[c].tab]
  /\ meta' = IF isNew[c] THEN dict[c] ELSE meta
  /\ stale' = [d \in Conn |-> d # c /\ (stale[d] \/ RootChanged(c))]
  /\ NextView(c, TRUE)
  /\ commits' = [commits EXCEPT ![c] = FALSE]
  /\ autocommit' = [autocommit EXCEPT ![c] = TRUE]

CommitSucceeds(c) ==
  /\ commits[c] /\ ~Conflicts(c)
  /\ db' = IF RootChanged(c) THEN root[c] ELSE db
  /\ meta' = IF isNew[c] THEN dict[c] ELSE meta
  /\ stale' = [d \in Conn |-> d # c /\ (stale[d] \/ RootChanged(c))]
  /\ NextView(c, TRUE)
  /\ commits' = [commits EXCEPT ![c] = FALSE]
  /\ autocommit' = [autocommit EXCEPT ![c] = TRUE]

(* Mutant of Undo: the mapping that is gone stays in memory. *)
UndoKeeps(c) ==
  /\ UNCHANGED <<db, meta>>
  /\ NextView(c, TRUE)
  /\ stale' = [stale EXCEPT ![c] = FALSE]
  /\ commits' = [commits EXCEPT ![c] = FALSE]
  /\ autocommit' = [autocommit EXCEPT ![c] = TRUE]

Undo(c) ==
  /\ UNCHANGED <<db, meta>>
  /\ NextView(c, ~isNew[c])
  /\ stale' = [stale EXCEPT ![c] = FALSE]
  /\ commits' = [commits EXCEPT ![c] = FALSE]
  /\ autocommit' = [autocommit EXCEPT ![c] = TRUE]

(* A refused commit, or a rollback. *)
CommitConflicts(c) == commits[c] /\ Conflicts(c) /\ Undo(c)
RollbackAtomic(c) == ~commits[c] /\ ~autocommit[c] /\ Undo(c)

BeginAtomic(c) ==
  /\ ~commits[c] /\ autocommit[c]
  /\ autocommit' = [autocommit EXCEPT ![c] = FALSE]
  /\ UNCHANGED <<db, meta, seen, root, hasMeta, dict, isNew, stale, commits>>

EndAtomic(c) ==
  /\ ~commits[c] /\ ~autocommit[c]
  /\ commits' = [commits EXCEPT ![c] = TRUE]
  /\ UNCHANGED <<db, meta, seen, root, hasMeta, dict, isNew, stale, autocommit>>

-----------------------------------------------------------------------------
(* An operation gives c the root R and goes on to _maybe_commit. *)
Operation(c, R) ==
  /\ ~commits[c]
  /\ root' = [root EXCEPT ![c] = R]
  /\ commits' = [commits EXCEPT ![c] = autocommit[c]]
  /\ UNCHANGED <<db, meta, seen, stale, autocommit>>

(* create_model, delete_model: ensure_btree and drop_btree know nothing of *)
(* the table's indexes.                                                    *)
EnsureTable(c) ==
  /\ ~root[c].tab
  /\ Operation(c, [root[c] EXCEPT !.tab = TRUE])
  /\ UNCHANGED <<hasMeta, dict, isNew>>

DropTable(c) ==
  /\ Operation(c, [root[c] EXCEPT !.tab = FALSE])
  /\ UNCHANGED <<hasMeta, dict, isNew>>

(* Mutant of EnsureIndex: the new mapping is not put into the root. *)
EnsureIndexUnbound(c, i) ==
  /\ Operation(c, [root[c] EXCEPT !.idx = @ \cup {i}])
  /\ isNew' = [isNew EXCEPT ![c] = @ \/ ~hasMeta[c]]
  /\ dict' = [dict EXCEPT ![c] = (IF hasMeta[c] THEN Loaded(c) ELSE {}) \cup {i}]
  /\ UNCHANGED hasMeta

(* add_index: ensure_index *)
EnsureIndex(c, i) ==
  /\ Operation(c, [root[c] EXCEPT !.idx = @ \cup {i}])
  /\ hasMeta' = [hasMeta EXCEPT ![c] = TRUE]
  /\ isNew' = [isNew EXCEPT ![c] = @ \/ ~hasMeta[c]]
  /\ dict' = [dict EXCEPT ![c] = (IF hasMeta[c] THEN Loaded(c) ELSE {}) \cup {i}]

(* ensure_index of an index whose fields have no column, as those of       *)
(* Django's models.Index, which are names: AttributeError.  A new mapping  *)
(* stays in the root, and nothing is committed.                            *)
EnsureIndexRaises(c) ==
  /\ ~commits[c] /\ ~hasMeta[c]
  /\ hasMeta' = [hasMeta EXCEPT ![c] = TRUE]
  /\ isNew' = [isNew EXCEPT ![c] = TRUE]
  /\ dict' = [dict EXCEPT ![c] = {}]
  /\ UNCHANGED <<db, meta, seen, root, stale, autocommit, commits>>

(* The schema editor's __exit__, outside a block: it commits, or aborts    *)
(* what the statement that raised has left.                                *)
ExitEditor(c) ==
  /\ ~commits[c] /\ autocommit[c]
  /\ commits' = [commits EXCEPT ![c] = TRUE]
  /\ UNCHANGED <<db, meta, seen, root, hasMeta, dict, isNew, stale, autocommit>>

ExitEditorAborts(c) == ~commits[c] /\ autocommit[c] /\ Undo(c)

(* remove_index: drop_index *)
DropIndex(c, i) ==
  /\ Operation(c, [root[c] EXCEPT !.idx = @ \ {i}])
  /\ dict' = [dict EXCEPT ![c] = IF hasMeta[c] THEN Loaded(c) \ {i} ELSE @]
  /\ UNCHANGED <<hasMeta, isNew>>

(* The connection's cache lets go of the mapping. *)
Evict(c) ==
  /\ dict[c] # Nil /\ ~isNew[c]
  /\ dict' = [dict EXCEPT ![c] = Nil]
  /\ UNCHANGED <<db, meta, seen, root, hasMeta, isNew, stale, autocommit, commits>>

Next ==
  \E c \in Conn :
    \/ CommitSucceeds(c) \/ CommitConflicts(c)
    \/ BeginAtomic(c) \/ EndAtomic(c) \/ RollbackAtomic(c)
    \/ EnsureTable(c) \/ DropTable(c) \/ Evict(c)
    \/ EnsureIndexRaises(c) \/ ExitEditor(c) \/ ExitEditorAborts(c)
    \/ \E i \in Index : EnsureIndex(c, i) \/ DropIndex(c, i)

Spec == Init /\ [][Next]_vars

-----------------------------------------------------------------------------
(* The table and its containers as slots of a SnapshotStore. *)
Slots(r) == [s \in Index \cup {"tab"} |-> IF s = "tab" THEN r.tab ELSE s \in r.idx]

RootIsolation ==
  INSTANCE SnapshotStore WITH
    Thread <- Conn, Slot <- Index \cup {"tab"}, Blank <- Slots(Empty),
    contents <- Slots(db),
    seen <- [c \in Conn |-> Slots(seen[c])],
    draft <- [c \in Conn |-> Slots(root[c])]

(* Index containers and tables come and go as snapshot isolation allows:   *)
(* an index one thread adds is not lost to a migration of another.         *)
ContainersIsolated == RootIsolation!SSpec

(* The dict in memory is that of a mapping the root binds: no connection   *)
(* lists indexes of a mapping that was rolled back.                        *)
DictHasMapping == \A c \in Conn : dict[c] # Nil => hasMeta[c]

(* get_constraints: the indexes c lists. *)
GetConstraints(c) == IF hasMeta[c] THEN Loaded(c) ELSE {}

(* Where there is an index container there is the mapping that describes   *)
(* it, for every connection and in what is committed, also after an        *)
(* ensure_index that raised halfway: remove_index finds it to take the     *)
(* name out, and get_constraints has something to read.                    *)
ContainerHasMapping ==
  /\ db.idx # {} => meta # Nil
  /\ \A c \in Conn : /\ root[c].idx # {} => hasMeta[c]
                     /\ GetConstraints(c) # Nil

(* "Store index metadata under __meta_<table> and maintain index BTrees    *)
(* under __idx_<table>_<index_name>": what is committed of the two agrees. *)
CatalogAgrees == (IF meta = Nil THEN {} ELSE meta) = db.idx

(* delete_model "removes the table OOBTree, sequence counter, and all      *)
(* sidecar index containers from the root": a transaction that drops the   *)
(* table drops its containers.                                             *)
DropTakesIndexes == [][db.tab /\ ~db'.tab => db'.idx = {}]_vars
===============================================================================
