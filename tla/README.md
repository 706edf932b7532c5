# django-zodb-backend in TLA+

`django_zodb_backend` runs Django's ORM on ZODB: tables are `OOBTree`s in the
root object, rows are `PersistentMapping`s, key sequences are `BTrees.Length`
counters, the compilers evaluate Django's query trees in Python, and the
`DatabaseWrapper` maps Django's connections, `atomic()` blocks and savepoints
onto the `transaction` package. These modules say what that code does, TLC
checks them on small instances, and TLAPS proves some of it for every instance.

## Inventory

| Part | State it keeps | Operations | What makes it correct |
|---|---|---|---|
| Tables, rows, sequences (`base.py`, `compiler.py`, `operations.py`) | root bindings, trees, rows, counters; one MVCC snapshot per thread | INSERT, UPDATE, DELETE, flush, `ensure_btree`, `drop_btree`, commit, abort | commits are snapshot isolation; a generated key is never one that is taken |
| Atomic blocks (`base.py`, Django's `Atomic`) | `autocommit`, `in_atomic_block`, `needs_rollback`, savepoint stack, `_zodb_savepoints`; the thread's one transaction | enter and exit of blocks, statements, savepoints, `close()` | nothing is stored early, nothing that was undone is stored, a rollback restores what was there |
| Schema editor (`schema.py`) | the root | create, delete and rename tables, `__exit__` | a table has one name; its sequence follows it |
| Secondary indexes (`base.py`, `introspection.py`) | a dict inside `__meta_<table>`, containers `__idx_<table>_<name>` | `ensure_index`, `drop_index` | description and containers agree |
| Connection pool (`base.py`, `creation.py`) | `_db_pool`, `_pool_lock`, `connection`, `_zodb_conn` | connect, close, switch and remove test storage | one open DB per alias; nobody gets one that was closed before it asked |
| SELECT (`compiler.py`) | none: a query reads one snapshot | scan, WHERE, joins, EXISTS, date functions, ORDER BY, slice, DISTINCT, aggregates | the rows SQL selects, in the order asked; a right-hand side that cannot be evaluated loses no row |
| Introspection, value adaptation, features, stubs, scripts | none | pure | `get_constraints` reads what is stored; the rest is not modelled |

The parts meet in the ZODB connection of the thread: compilers and schema
editor change its objects, `_maybe_commit` (or the end of a block) commits
them, and threads see each other only where a transaction ends. The hard
behaviours are the interleavings of transactions, refused commits and what the
thread's transaction is like afterwards, one transaction shared by all aliases
of a thread, calls that commit whatever the mode, statements that raise
half-way, and a lock that is released before the pool is read again. The
hazards in `PROJECT.json` name the lines.

## Modules

| Module | Models | How it corresponds to the code |
|---|---|---|
| `SnapshotStore` | what the transactions promise | abstract: slots, drafts, first committer wins |
| `TableStore` | the store and every write statement | one action per statement, or per part of one between two commits; `work[c]` is the thread's connection, `dirty[c]` what it registered, `stale[c]` what others committed since |
| `TableStore_proofs` | types, sequences and generated keys, proved | |
| `TableIsolation_proofs` | the refinement of `SnapshotStore` and the names of tables, proved for statements and migrations | |
| `SchemaEditor` | migrations, EXTENDS `TableStore` | `create_model` is `EnsureBtree`, `delete_model` is `DropBtree` |
| `AtomicBlocks` | one thread's `with atomic():` blocks over one or more wrappers | `wrap[a]` are the wrapper's flags, `frames` the open blocks; one action per way `__enter__` and `__exit__` can go |
| `AtomicBlocks_proofs` | flags, savepoints and commits of open blocks, proved | |
| `AtomicRollback_proofs` | what rollbacks undo and restore, proved | |
| `IndexCatalog` | the indexes of one table, the schema editor's exit, `get_constraints` | `dict[c]` is the plain dict in a connection's memory, `meta` what is stored of it |
| `IndexCatalog_proofs` | theorems about it | |
| `DbPool` | the pool and its lock, one alias | the lock is taken with the first change of the pool or a DB; each further one, the release, and the read after it are steps of their own |
| `DbPool_proofs` | theorems about it | |
| `SelectExpr` | `_eval_select_expr` on date functions, `_parse_order_by`, `_apply_ordering`, the slice, and SQL's reading of them | operators on values and lists of rows |
| `JoinRows` | `_resolve_joined_rows`, `_resolve_joined_col`, `_eval_select_expr` on a column | operators on a row and the tables |
| `WhereEval` | `_row_matches_where` and what it calls, SQL's reading of the same query, and which queries read alike (`ReadsAsSql`) | a WHERE tree is the list of its nodes, children first, and the recursion of the code a recursive function over their places; subqueries are numbered, each after those it is about |
| `WhereEval_proofs` | theorems about dates, the comparator and the WHERE | |
| `SelectPlan` | `execute_sql`, `_fetch_matching_rows`, `has_results`, the aggregate compiler | one action per phase of a query; `RowMatches` is the predicate on rows |
| `SelectPlan_proofs` | the rows selected, order, DISTINCT, dates() and aggregates, proved | |
| `MC...` | constants, symmetry and restricted next-state relations for TLC; `MCTableBounds` is what two of them share | |

External behaviour (ZODB, `transaction`, Django) is modelled from how the code
uses it and marked external in the map:

- a thread has one transaction (`transaction.manager` is thread-local), shared
  by all aliases; a connection's snapshot is renewed when it is opened, and
  when a commit or abort ends the transaction, a refused commit included;
- the root and rows never merge, a `Length` adds both changes, an `OOBTree`
  bucket merges changes to different keys unless a side or the result is
  empty; `MappingStorage` never merges (`Resolves = FALSE`);
- a refused commit leaves the transaction COMMITFAILED until abort or close;
- `Atomic` catches `DatabaseError` only, which a `ConflictError` is not.

`TableStore` refines `SnapshotStore` (`SnapshotIsolation`): bindings of names,
keys of trees and values of rows are the slots. Counter values are no slots,
since commits add them up; `SeqAhead` and `SeqNeverRewinds` speak of them.
`IndexCatalog` refines the same specification with its root keys as slots
(`ContainersIsolated`).

Abstractions worth knowing: a write in a COMMITFAILED transaction is refused as
a whole (the code changes objects in memory before `join` raises, and the next
abort drops that); the commit of a thread and the renewal of its snapshot are
one step; SELECT is a stutter of `TableStore`; a thread creates each object id
once. `SelectExpr` has numbers for values, NULL, and dates as numbers of days in
a calendar small enough to enumerate: years of 16 days, quarters of 8, months of
4, and weeks of 3, which do not begin with the years. `WhereEval` has a text
lookup as the set of values it accepts. A query that is in another is a number:
it is evaluated for every row of the query around it as for the one at hand
(`Found`). It is marked `sub`, since Django gives its main table an alias U0 of
its own, by which the code takes its columns for joined ones (`IsJoined`). What
makes it raise a TypeError is a predicate of the tables (`Raises`), which turns
an EXISTS into a match and an IN into a condition that matches. The SQL reading
in `WhereEval` uses two truth values, as Django adds `IS NOT NULL` to the
negations that need it. In `AtomicBlocks` the application rolls back to any
savepoint it made inside the blocks it is in, alive or not, and to no older one
(`InsideBlocks`): what Django documents.

## Runs

Properties that hold:

| Run | Instance | Shows |
|---|---|---|
| `tables` | 2 threads, 1 table, in three scenes. One thread runs every statement and the other inserts and deletes: 2 rows, keys 1..2. "merge": 3 rows, keys 1..3, INSERT and DELETE. "reuse": the table made twice, 2 rows, 2 values, INSERT, UPDATE, DELETE, flush and drop | types; `SeqAhead`, `SeqNeverRewinds`, `GeneratedKeysAreNew` and snapshot isolation, where commits merge, tables come again and both update one row |
| `migrate` | 2 threads, 2 tables with UUID keys, 3 trees, rename, drop and create again, editor exit, no conflict resolution | `TablesHaveOneName`, isolation on `MappingStorage` |
| `blocks` | 1 alias, 3 writes, depth 3, 3 savepoints, `close()` and the application's own savepoints, statements that mark the block for rollback or do not | `NothingEarly`, `VoidNeverStored`, `ExitRestores`, `StackHandles`, `FlagsAgree` |
| `retry` | 1 alias, weak fairness | a COMMITFAILED transaction ends |
| `indexes` | 2 connections, 2 indexes, editor exit, an `ensure_index` that raises | `DictHasMapping`, `ContainerHasMapping`, container isolation |
| `pool` | 3 threads, 3 DBs, fairness, a storage that cannot be opened | at most one open DB, the pool's outside the lock; no retired one returned, connect() ends, what a failed open leaves |
| `select` (`MCSelectQuery`) | three related tables with 13 queries, of which "a" and the joined table vary (144 or 1152 databases); every table of 3 rows with 162 queries (18 without ORDER BY for the methods that ignore it); every table of 3 dates with 15 | the rows SQL selects, none lost; order, DISTINCT, dates(), aggregates; every method agrees; SUM and AVG |

Two threads are enough for a conflict, and a third adds only a second winner.
A merge needs a committed row and one of each thread, since a bucket that is
empty on a side does not merge: the scene "merge" has three rows and three keys,
and blocks of one thread at a time beside the statements of the other. "reuse" has
two ids for each tree and counter, so that a table dropped by one thread is made
again while the other still has the old one, and two values, so that an UPDATE of
one row by both is seen. All statements of both threads on so much room are more
than TLC can visit in minutes, which is why there are scenes (`MCTableStore`); the
proofs have any number of everything.
`migrate` caps the trees at three (`MaxTrees`) and drops no table inside a block.
Three threads let one connect while one switches and one removes the storage,
and three DBs are what they can make meanwhile. Depth 3 lets a block without a
savepoint sit between two that have one.
Two rows on the far side of a join are what two conditions can be split over.
The bounds (`Row`, `Gen`, `IntPk`, `MaxTrees`, `MaxDepth`, `MaxSid`, `DB`) cap what is
created, by guards that are no code; deadlock is not checked because a run
stops when ids are used up.

Where the code and what it says of itself differ, a run has the
counterexample (`expect: violation`, details under "findings" in
`PROJECT.json`):

| Run | What it shows |
|---|---|
| `rename_keys` | a renamed table starts again at key 1 and overwrites a row |
| `two_aliases` | an autocommit statement commits the open block of another alias |
| `index_agree` | index descriptions are not stored with what they describe |
| `index_drop` | dropping a table leaves its index containers |
| `select_two_hops` | two conditions of one filter() hold of different joined rows |

The models have more such behaviour, without a run of its own:

- `close()` inside a block: the next statement connects in autocommit mode and
  commits while the block is open. `NothingEarly` and `ExitRestores` are about
  blocks whose wrapper still says that it is in them (`InStep`);
- the second `savepoint_rollback` to one sid does nothing (`base.py:434`); one to a
  savepoint that is gone, with its transaction or by a rollback to an earlier one,
  raises what is no `DatabaseError`;
- two transactions may draw the same generated key; if the first one's row is
  deleted in between, the second commits under it, below the merged sequence;
- a thread in autocommit mode that only reads keeps its snapshot
  (`base.py:324`); a flush commits in the middle of a block
  (`operations.py:103`);
- `create_model` makes no sequence, which docs/architecture.rst:161-162 says it
  does: the first INSERT without a key makes it;
- `ensure_index` raises half-way for a Django `Index` (whose `fields` are names,
  not fields with a `column`), after it has bound the table's `__meta_`
  mapping (`EnsureIndexRaises`);
- `get_new_connection` raises KeyError where `close_test_storage` comes between
  the lock and the second look at the pool (`GetRaises`), and `db.open` refuses
  what that look found where `switch_to_test_storage` has closed it, replaced or
  not yet (`OpenRaises`);
- the scan: a subquery takes its own columns for joined ones (`compiler.py:696`),
  without transforms and year lookups, so that one that asks for a month of its own
  rows finds none; `~Exists(...)`, which Django (6.0, as
  pyproject.toml asks for) builds as a NegatedExpression around the Exists, `Case`,
  and `F(...) + n` on the left are None, and refuse the row (`:605`; the
  `negated` of `:128` is an attribute Django's Exists no longer has, so
  that `exclude(Exists(...))` works and `filter(~Exists(...))` does not); an EXISTS
  or an IN subquery that raises matches (`:129`, `:169`); an ORDER BY of which one
  item raises is dropped (`:1103`); an exact subquery is a list that equals nothing
  (`:168`), a text lookup that accepts the empty string accepts NULL
  (`:810`), a year lookup through a join never holds (`:758`) and no
  other transform is applied there, `iso_year` is looked up as the calendar year
  (`:773`), an expression on the right matches and is then negated (`:737`), a node
  that is negated or in an XOR has virtual rows of its own (`:335`), NULL
  equals NULL in joins and IN lists (`:236`, `:795`), ORDER BY an Extract or a
  joined column sorts by a column of the main row (`:978`), functions the code
  does not know give the value of their first source (`:581`), `has_results`
  ignores the slice, DISTINCT runs after it, a count of distinct values counts
  rows (`:1424`), and a join to several rows answers the main row once. The
  queries of `select` stay clear of these (`QueriesReadAsSql` of `MCSelectQuery`,
  which TLC evaluates, says so of each query and each database it meets);
  `RowsSelected` and `AnswersAgree` are claimed of no others.

Fairness. `RetrySpec` assumes weak fairness of the thread's own steps: the
code has no way to wait, a thread that is scheduled goes on. `FairSpec` of
`DbPool` assumes strong fairness of a thread inside a call, since it competes
for `_pool_lock`; Python's lock does not promise this, but a holder releases it
without waiting for anyone, so starving needs others that call connect()
without end and always win. Calls themselves begin or do not: no fairness.

## Proofs

All theorems are for any sets of threads, tables, keys, rows, ids, aliases,
indexes and depths that satisfy the assumptions the modules name
(`Constants`, `BlockConstants`, `NilIsNoDict`, `NobodyIsNone`, `NullIsNoNumber`,
`SubqueriesNest`, `PlanConstants`).

`TableStore_proofs`: `TypeCorrect`, `SequenceIsAhead`, `SequenceNeverRewinds`,
`GeneratedKeysNeverReplace`. `SeqAhead` is not inductive: a merged commit
combines one thread's tree with another's counter, so the proof must know that
both sides started from the same objects. The invariant `IInv` adds to the types
that every object a view binds was handed out; that a root nobody committed
since is the committed one, and that trees and counters not in `stale` are as
they were seen; that a view's tree differs from the committed one only in objects
the thread has in `dirty`; and that a counter is never below what the thread saw.
From these, a merged counter is at least each side's, and each key of a merged
tree comes from a side whose counter covered it. A generated key is the counter
plus one, so it is past every key of the tree it goes into.

`TableIsolation_proofs`: `CommitsAreIsolated` and `MigrationsAreIsolated`, the
refinement of `SnapshotStore` by `TableStore` and by the schema editor over it.
Each step is one of four kinds (it changes one thread's draft, commits it,
discards it, or nothing the slots see), and each kind maps to a step of
`SnapshotStore` or a stutter. For the commit the invariant `Tracked` says that
what a thread registered covers where its view differs from what it saw, and
that `stale` covers where the store has moved on since: a commit that neither
conflicts nor merges finds every slot it writes as it was seen, and one that
merges finds the two sides' slots apart. `OneNamePerTable` follows the bindings
of a root through renames and re-creations: a tree that is made is bound
nowhere, and a rename unbinds the old name in the same step.

`AtomicBlocks_proofs`: `BlocksTypeOK`, `FlagsAlwaysAgree`, `SavepointsAreKept`
and, for one alias, `NothingIsEarly`. The first three come from the wrappers'
bookkeeping: every step gives a wrapper fresh flags or changes them together, a
sid is pushed where its savepoint is made and forgotten where it is popped.
`NothingIsEarly` needs that the outermost block is at the bottom of `frames` and
that a wrapper in step with its frames has autocommit off, so that no statement
commits. With two aliases it is false (`two_aliases`).

`AtomicRollback_proofs`: `WhatIsVoidIsNeverStored` and `RollbackRestores`, for one
alias (with two, a commit takes the other one's changes). Neither is inductive: a
rollback restores what a block found only if the savepoint its sid stands for still
has that image, through inner blocks, releases, the application's own savepoints
and `close()`. The invariant `Held` ties the three stacks together. `Chain`:
savepoints made later have more of the writes, all of them lie between the
committed state and the work, and a failed transaction or a closed connection has
no changes. `Nested`: each sid on the wrapper's stack stands for a savepoint with
what its block found, and a block that can be rolled back by itself found no more
than the blocks inside it. `Clean`: what is void was written, is not committed, and
is in the work only while the wrapper is marked for rollback; a block with a
rollback of its own found nothing void, so that what it restores is clean, too.

`IndexCatalog_proofs`: `CatalogTypeOK`, `NoDictOfAnUndoneMapping`,
`EveryContainerHasMapping`, and the refinement of `SnapshotStore` by the root
keys, `CatalogIsIsolated`. That a view without a change of its own is the store
it saw, and that a store nobody else changed is still that one, carries both.

`DbPool_proofs`: `TypeCorrect`, `OneOpen`, `StuckWrappersHoldClosed`,
`NeverRetired`. The invariant adds that a call that has yet to get its DB holds
none (`Unconnected`, without which a wrapper could end with a connection of
another DB than its own), which DB is open at each place under the lock
(`PoolOpen`), and that what was closed when a call began stays closed
(`RetiredStayClosed`, since a new DB is an object never made before). `OneOpenDB`
is `PoolOpen` without the DBs' names. `NoRetiredDB` needs more, since what
connect() reads the second time may be closed: the DB it found under the lock was
open, so it was not retired, and only a new DB ever takes its place.

`WhereEval_proofs` has two parts. About values: `TruncAsSql` (for every day
number, the code's Trunc is the
first day of the period that the components of Extract tell apart),
`DatesStaySorted` (a later day is never in an earlier period, so that ORDER BY
may drop the Trunc) and `ColumnOrderIsConsistent` (the comparator of
`_apply_ordering` is antisymmetric and transitive). The first two are about the
model's calendar.

About the WHERE: `RowMatchesAsSql`, for any tables, any tree and any subqueries that
read as SQL. The code and SQL differ in known ways (above), so the theorem has the
hypothesis `ReadsAsSql`, which is about the query and the tables it meets, and
whose parts each exclude one of them:

| Part | What it asks | What it excludes |
|---|---|---|
| `JoinsAreNear` | each join starts at the main table, and one of its two columns has no NULL | aliases expanded independently along a chain (`select_two_hops`), NULL joining NULL |
| `LookupIsPlain` | a column that the rows have, no NULL on the right of a lookup but by `isnull`, no empty string among what a text lookup accepts, transforms that the code computes as SQL does on the values there are, none on a joined column or in a subquery, an OuterRef by `<` or `>` to a column without NULLs | left-hand sides without a column (`Case`, `~Exists`, `F() + n`), IN lists with NULL, NULL read as `''`, Trunc of a quarter and unknown functions, transforms and year lookups through a join or in a subquery, `iso_year`, exact subqueries, OuterRef to or from NULLs and subqueries that raise |
| `ListIsPlain`, `ExistsIsPlain` | an IN subquery has no OuterRef, an ORDER BY that compiles, and lists a column of its table without NULLs; it is not sliced, or sliced in an order of columns without joins and DISTINCT; an EXISTS is of no slice | NULLs in a list, pages cut before DISTINCT, an order the code drops, `has_results` on a slice |
| `AndsAreOnTop` | from the root, through ORs without negation, down to nodes that have no joined columns, to lookups that are no `isnull`, and to ANDs without negation | conditions on joins under a negation or in an XOR, where the code chooses rows for each node and SQL one for all |
| `Evaluable` (or `Positive`) | no lookup against an expression on the right (or no negation, for one direction) | an unknown right-hand side that is negated |

Nothing in it is about the number of rows, joins, nodes or subqueries. The proof
goes from the leaves to the root and then along the subqueries. A leaf that names no
alias but pinned ones holds on a virtual row exactly if it holds in SQL on every
way to join that has these rows (`LeafAgrees`, with `ListsAgree` and `SlicesAgree`
for what a sorted and sliced subquery lists). Then so does a node that names only
pinned aliases (`PinsAgree`). Virtual rows and ways to join are the same choices,
since no join depends on another (`WaysMeet`, `WaysExist`), so that an AND's virtual
rows are SQL's single joined row (`TopTruth`). Above the ANDs
an OR holds of some way to join exactly if one of its children does. Last, the
subqueries are numbered so that each names only earlier ones: in that order,
what the code finds for each is the list, in key order, of what SQL finds
(`SubqueriesFindAlike`). Where a proof goes up a tree or along the subqueries
it takes the least place where the claim fails (`FromTheLeaves`, `LeastOf`), as
the library's induction theorems cannot be instantiated.

`SelectPlan_proofs`: `PlanTypeOK`, `ScanKeepsWhatMatches`, `RowsAreSelected`,
`NothingIsLost`, `DistinctIsOnce`, `AnswersAlwaysAgree`, `SumsAreOfTheRows`,
`RowsAreOrdered` and `DatesAreListed`, for any tables and any set of queries.
`PlanConstants` says that a table is a list of rows of numbers and NULLs with rising
keys, that WHERE is a tree, that ORDER BY and SELECT are lists, and that `none()` is a
condition of an AND at the root. `RowsAreSelected` and `NothingIsLost` are
`ScanKeepsWhatMatches` with `RowMatchesAsSql`, and have its hypothesis; the others hold of
any query, whatever its WHERE. The invariant `IInv` says what the list of rows is in each
phase: after some rows of the scan, those of them that match, in key order
(`Scanning`); after the whole scan, all that match (`ScanIsWhole`); after the sort
and the slice, rows with different keys, and all of them if there is no slice
(`EachRowOnce`); and while DISTINCT runs, that it kept the first of each tuple it
looked at (`Deduplicating`). So exists(), count() and COUNT answer for the same
set, and a count of keys is a count of rows.

The sort is given by places: a row's place is one more than the number of rows
before it. That this loses no row and takes none twice (`SortedIsRenumbered`) is
where the comparator has to be right: `NotAfterIsTransitive` and `CompareMeans` lift
`ColumnOrderIsConsistent` from a column to a list of columns, `BeforeIsTotal` makes
a strict total order of it with the position as the last resort, and then a counting
argument shows that places are a permutation. `RowsAreOrdered` and `DatesAreListed`
are about the ORDER BY lists that are `Sortable`: columns, or one Trunc of a column
of dates. (If an item raises, the list of columns is dropped and the order is that of
the keys.) Of others, as F() + 1, the theorems say nothing, since the code sorts them
by a column and SQL does not. Where a proof
searches a list, `LeastOf` (a set of naturals has a least one) stands in for
induction.

SUM and AVG add values at places of the list; `SumsAgree` adds the values of the
selected rows. `MapThenSumSet` is a CHOOSE over recursive functions, so the proof
first shows that one exists (`FoldExists`), that it does not depend on the set it was
chosen for (`FoldsAgree`) nor on the order it adds in (`SumWithout`), and then that
sets whose elements stand for each other one to one have one sum (`SumsMatch`).

Model-checked only: liveness (`FailureEnds`, `ConnectEnds`), which is out of the
prover's reach. Every other property of the passing runs is a theorem, of which
`NothingIsEarly`, `WhatIsVoidIsNeverStored` and `RollbackRestores` are about one alias,
`RowsAreOrdered` and `DatesAreListed` about the lists that are `Sortable`, and
`RowsAreSelected` and `NothingIsLost` about the queries that `ReadsAsSql` describes: what
SQL and the code make of other queries differs, or is checked on no instance.

## Not modelled

- ZODB's storages, caches and conflict resolution beyond what the list of
  external behaviour says: they are libraries. With them the objects that a
  write in a COMMITFAILED transaction leaves changed in memory.
- `transaction.on_commit`: `set_autocommit` is overridden without the call that
  runs the hooks (`base.py:456`); nothing in the repository promises them.
- `_last_insert_ids`: written, and read by an operation nobody calls.
- Value adaptation, field converters, `klass_info`, the string functions and
  regular expressions of lookups, Cast, times of day: conversions of one value,
  without state.
- `features.py` (flags and lists of skipped tests; its 219-224 still skip date
  ordering with None as unsupported, which `OrderedAsAsked` and `DatesListed` find
  right), the client, dbapi and validation stubs, the cursor that ignores SQL, the
  scripts of CI and of the documentation, running `migrate` for the test database.

## Plan

1. Done: the modules above and their proofs; the refinements of
   `SnapshotStore` are checked and proved.
2. What could follow: SQL's duplicates of joined rows, three truth values and NULLs
   in IN lists, in `WhereEval`; a condition on joined rows under a negation, where
   the code and SQL agree for some trees that `AndsAreOnTop` leaves out.
