-------------------------------- MODULE DbPool --------------------------------
(***************************************************************************)
(* _db_pool, the ZODB.DB objects that threads share, for one alias: how a  *)
(* thread's wrapper gets the DB and opens its connection, and how the test *)
(* runner switches the alias to another storage and closes it under the    *)
(* other threads.                                                          *)
(*                                                                         *)
(* A thread takes the lock with its first change of the pool or of a DB,   *)
(* and each further one is a step of its own, since connect() reads the    *)
(* pool a second time without the lock; the release is a step too, and     *)
(* threads stop between any two steps.                                     *)
(***************************************************************************)
EXTENDS Naturals, FiniteSets

CONSTANTS
  Thread,
  DB,         \* ids of ZODB.DB objects (bound on how many are made)
  NoDB,       \* None, and no such key in the pool
  Free        \* nobody holds _pool_lock

ASSUME NobodyIsNone == NoDB \notin DB /\ Free \notin Thread

VARIABLES
  pool,       \* _db_pool[alias], NoDB where the key is missing
  popped,     \* the DB that close_test_storage took out and has not closed
  lock,       \* the thread that holds _pool_lock
  open,       \* the DB objects that are open
  made,       \* the DB objects made so far
  pc,         \* where a thread is
  conn,       \* conn[p]: self.connection, a DB object
  zodb,       \* zodb[p]: the DB self._zodb_conn was opened from
  retired     \* retired[p]: the DBs that were closed when p's call began, for
              \* the properties only

vars == <<pool, popped, lock, open, made, pc, conn, zodb, retired>>

Places == {"idle",          \* no call is running
           "get",           \* connect(): get_new_connection is called
           "got",           \* it has looked in the pool and holds the lock
           "unmade",        \* _make_db raised, and it holds the lock
           "return",        \* it has released the lock and reads the pool again
           "open",          \* init_connection_state: db.open(manager)
           "switch",        \* switch_to_test_storage has closed its own
           "switching",     \* it has closed the DB and holds the lock
           "switched",      \* it has replaced the DB and holds the lock
           "remove",        \* close_test_storage has closed its own
           "removing",      \* it has taken the DB out and holds the lock
           "removed",       \* it has closed the DB and holds the lock
           "NoStorage",     \* the exception of _make_db
           "KeyError",      \* _db_pool[alias] raised
           "Closed"}        \* db.open of a closed DB raised

(* Where a thread is inside with _pool_lock. *)
Locked == {"got", "unmade", "switching", "switched", "removing", "removed"}

TypeOK ==
  /\ pool \in DB \cup {NoDB} /\ popped \in DB \cup {NoDB}
  /\ lock \in Thread \cup {Free}
  /\ open \subseteq made /\ made \subseteq DB
  /\ pc \in [Thread -> Places]
  /\ conn \in [Thread -> DB \cup {NoDB}]
  /\ zodb \in [Thread -> DB \cup {NoDB}]
  /\ retired \in [Thread -> SUBSET DB]
  /\ \A p \in Thread :
       /\ lock = p <=> pc[p] \in Locked
       /\ pc[p] = "open" => conn[p] # NoDB
       /\ zodb[p] \in {NoDB, conn[p]}

Init ==
  /\ pool = NoDB /\ popped = NoDB /\ lock = Free
  /\ open = {} /\ made = {}
  /\ pc = [p \in Thread |-> "idle"]
  /\ conn = [p \in Thread |-> NoDB]
  /\ zodb = [p \in Thread |-> NoDB]
  /\ retired = [p \in Thread |-> {}]

-----------------------------------------------------------------------------
Go(p, from, to) == pc[p] = from /\ pc' = [pc EXCEPT ![p] = to]

(* with _pool_lock: *)
Acquire(p) == lock = Free /\ lock' = p

Release(p) ==
  /\ lock = p /\ lock' = Free
  /\ \/ Go(p, "got", "return") \/ Go(p, "unmade", "NoStorage")
     \/ Go(p, "switched", "get") \/ Go(p, "removed", "idle")
  /\ UNCHANGED <<pool, popped, open, made, conn, zodb, retired>>

In(places) == Cardinality({p \in Thread : pc[p] \in places})

(* Bound: a call begins only where there are ids for the DBs that it and   *)
(* the calls under way may make.                                           *)
IdsLeft(n) ==
  Cardinality(DB \ made) >= n + In({"get", "switched"}) + 2 * In({"switch", "switching"})

(* ensure_connection: a wrapper that has a DB does nothing. *)
Ensure(p) ==
  /\ conn[p] = NoDB /\ Go(p, "idle", "get") /\ IdsLeft(1)
  /\ retired' = [retired EXCEPT ![p] = made \ open]
  /\ UNCHANGED <<pool, popped, lock, open, made, conn, zodb>>

(* _db_pool[alias] = a DB that was never made before; which of the ids it  *)
(* gets is of no matter.                                                   *)
PutNewDB ==
  /\ DB \ made # {}
  /\ pool' = CHOOSE d \in DB : d \notin made
  /\ made' = made \cup {pool'} /\ open' = open \cup {pool'}

(* Mutant of GetLocked: every connect() makes a DB. *)
GetAlwaysMakes(p) ==
  /\ Acquire(p) /\ Go(p, "get", "got")
  /\ PutNewDB
  /\ UNCHANGED <<popped, conn, zodb, retired>>

(* get_new_connection: _make_db if the alias has none. *)
GetLocked(p) ==
  /\ Acquire(p) /\ Go(p, "get", "got")
  /\ \/ pool # NoDB /\ UNCHANGED <<pool, made, open>>
     \/ pool = NoDB /\ PutNewDB
  /\ UNCHANGED <<popped, conn, zodb, retired>>

(* _make_db raises: the ZEO package is missing or its server does not      *)
(* answer in time, another process has locked the file.                    *)
MakeRaises(p) ==
  /\ pool = NoDB /\ Acquire(p) /\ Go(p, "get", "unmade")
  /\ UNCHANGED <<pool, popped, open, made, conn, zodb, retired>>

(* Mutant of GetReturns: _db_pool.get(alias). *)
GetReturnsNone(p) ==
  /\ Go(p, "return", "open")
  /\ conn' = [conn EXCEPT ![p] = pool]
  /\ UNCHANGED <<pool, popped, lock, open, made, zodb, retired>>

(* return _db_pool[alias], outside it. *)
GetReturns(p) ==
  /\ pool # NoDB /\ Go(p, "return", "open")
  /\ conn' = [conn EXCEPT ![p] = pool]
  /\ UNCHANGED <<pool, popped, lock, open, made, zodb, retired>>

GetRaises(p) ==
  /\ pool = NoDB /\ Go(p, "return", "KeyError")
  /\ UNCHANGED <<pool, popped, lock, open, made, conn, zodb, retired>>

(* init_connection_state *)
OpenConnection(p) ==
  /\ conn[p] \in open /\ Go(p, "open", "idle")
  /\ zodb' = [zodb EXCEPT ![p] = conn[p]]
  /\ UNCHANGED <<pool, popped, lock, open, made, conn, retired>>

OpenRaises(p) ==
  /\ conn[p] \notin open /\ Go(p, "open", "Closed")
  /\ UNCHANGED <<pool, popped, lock, open, made, conn, zodb, retired>>

(* The caller sees the exception; the wrapper keeps what it has. *)
CallerCatches(p) ==
  /\ pc[p] \in {"NoStorage", "KeyError", "Closed"}
  /\ pc' = [pc EXCEPT ![p] = "idle"]
  /\ UNCHANGED <<pool, popped, lock, open, made, conn, zodb, retired>>

(* Mutant of Forget: the wrapper keeps the DB. *)
ForgetsConnection(p) ==
  /\ zodb' = [zodb EXCEPT ![p] = NoDB]
  /\ UNCHANGED conn

Forget(p) ==
  /\ conn' = [conn EXCEPT ![p] = NoDB]
  /\ zodb' = [zodb EXCEPT ![p] = NoDB]

(* close() *)
Close(p) ==
  /\ pc[p] = "idle" /\ conn[p] # NoDB
  /\ Forget(p)
  /\ UNCHANGED <<pool, popped, lock, open, made, pc, retired>>

(* switch_to_test_storage: close(), then, under the lock, the old DB is    *)
(* closed, and then a new one takes its place; then ensure_connection().   *)
SwitchCloses(p) ==
  /\ Go(p, "idle", "switch") /\ IdsLeft(2) /\ Forget(p)
  /\ UNCHANGED <<pool, popped, lock, open, made, retired>>

(* The closed DB is still the one in the pool. *)
SwitchLocked(p) ==
  /\ Acquire(p) /\ Go(p, "switch", "switching")
  /\ open' = open \ {pool}
  /\ UNCHANGED <<pool, popped, made, conn, zodb, retired>>

(* Mutants of SwitchReplaces: it connects while it still holds the lock;   *)
(* the closed DB stays in the pool.                                        *)
SwitchHolds(p) ==
  /\ lock = p /\ Go(p, "switching", "get")
  /\ PutNewDB
  /\ retired' = [retired EXCEPT ![p] = made' \ open']
  /\ UNCHANGED <<popped, lock, conn, zodb>>

SwitchKeeps(p) ==
  /\ lock = p /\ Go(p, "switching", "switched")
  /\ pool # NoDB
  /\ retired' = [retired EXCEPT ![p] = made \ open]
  /\ UNCHANGED <<pool, popped, lock, open, made, conn, zodb>>

SwitchReplaces(p) ==
  /\ lock = p /\ Go(p, "switching", "switched")
  /\ PutNewDB
  /\ retired' = [retired EXCEPT ![p] = made' \ open']
  /\ UNCHANGED <<popped, lock, conn, zodb>>

(* close_test_storage: close(), then, under the lock, the DB is taken out, *)
(* and then closed.                                                        *)
RemoveCloses(p) ==
  /\ Go(p, "idle", "remove") /\ Forget(p)
  /\ UNCHANGED <<pool, popped, lock, open, made, retired>>

RemoveLocked(p) ==
  /\ Acquire(p) /\ Go(p, "remove", "removing")
  /\ pool' = NoDB /\ popped' = pool
  /\ UNCHANGED <<open, made, conn, zodb, retired>>

RemoveEnds(p) ==
  /\ lock = p /\ Go(p, "removing", "removed")
  /\ popped' = NoDB /\ open' = open \ {popped}
  /\ UNCHANGED <<pool, lock, made, conn, zodb, retired>>

Connecting(p) ==
  Release(p) \/ Ensure(p) \/ GetLocked(p) \/ MakeRaises(p) \/ GetReturns(p) \/ GetRaises(p)
    \/ OpenConnection(p) \/ OpenRaises(p) \/ CallerCatches(p) \/ Close(p)
Switching(p) ==
  SwitchCloses(p) \/ SwitchLocked(p) \/ SwitchReplaces(p)
    \/ RemoveCloses(p) \/ RemoveLocked(p) \/ RemoveEnds(p)

Next == \E p \in Thread : Connecting(p) \/ Switching(p)

(* Inside a call a thread goes on; _pool_lock is a fair lock as far as     *)
(* nobody waits for it for ever while others take and release it.          *)
Working(p) ==
  Release(p) \/ GetLocked(p) \/ MakeRaises(p) \/ GetReturns(p) \/ GetRaises(p)
    \/ OpenConnection(p) \/ OpenRaises(p)
    \/ SwitchLocked(p) \/ SwitchReplaces(p) \/ RemoveLocked(p) \/ RemoveEnds(p)

Spec == Init /\ [][Next]_vars
FairSpec == Spec /\ \A p \in Thread : SF_vars(Working(p))

-----------------------------------------------------------------------------
(* Two open DBs of one alias would fight for the lock file of a            *)
(* FileStorage, and split an in-memory database in two: there is never     *)
(* more than one, whoever connects, switches or closes.  It is the one in  *)
(* the pool, but for two moments that connect(), which reads the pool      *)
(* without the lock, may see: switch_to_test_storage has closed the DB     *)
(* that is still in the pool, or close_test_storage has taken out the DB   *)
(* that is still open.                                                     *)
OneOpenDB ==
  /\ \A d, e \in open : d = e
  /\ lock = Free => open = {pool} \ {NoDB}
  /\ \A p \in Thread : /\ pc[p] = "switching" => open = {}
                       /\ pc[p] = "removing" => pool = NoDB /\ open = {popped} \ {NoDB}

(* switch_to_test_storage: "all subsequent connections to this alias will  *)
(* use the new in-memory storage": a DB that was closed before connect()   *)
(* was called is never the one it gets.                                    *)
NoRetiredDB ==
  [][\A p \in Thread : pc[p] = "return" /\ pc'[p] = "open" => conn'[p] \notin retired[p]]_vars

(* A wrapper that has a DB but no connection to it stays that way: where   *)
(* db.open raises, ensure_connection finds the DB and does nothing until   *)
(* close().  That never happens to a DB that is open, so that a close()    *)
(* and a new connect() are all that a thread needs.                        *)
StuckOnClosed ==
  \A p \in Thread :
    pc[p] = "idle" /\ conn[p] # NoDB /\ zodb[p] = NoDB => conn[p] \notin open

(* connect() returns or raises, whatever the other threads do. *)
ConnectEnds == \A p \in Thread : pc[p] = "get" ~> pc[p] \in {"idle", "NoStorage", "KeyError", "Closed"}
===============================================================================
