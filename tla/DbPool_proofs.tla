---------------------------- MODULE DbPool_proofs ----------------------------
(***************************************************************************)
(* Proofs about DbPool, for any number of threads and of DB objects.       *)
(***************************************************************************)
EXTENDS DbPool, TLAPS

-----------------------------------------------------------------------------
(* A call that is yet to get its DB has dropped the one the wrapper had.    *)
Unconnected ==
  \A p \in Thread :
    pc[p] \in {"get", "got", "unmade", "NoStorage", "return", "KeyError", "switch", "switching",
              "switched", "remove", "removing", "removed"} => conn[p] = NoDB

TypeInv == TypeOK /\ Unconnected

(* Which DB is open, at every place under the lock and outside it.          *)
PoolOpen ==
  /\ \A p \in Thread : pc[p] = "switching" => popped = NoDB /\ open = {}
  /\ \A p \in Thread : pc[p] = "removing" => pool = NoDB /\ open = {popped} \ {NoDB}
  /\ (\A p \in Thread : pc[p] \notin {"switching", "removing"}) =>
       popped = NoDB /\ open = {pool} \ {NoDB}
  /\ pool \in made \cup {NoDB}

(* connect() cannot get a retired DB because the one it found under the    *)
(* lock was open, and what replaces it is new: new DBs are objects that    *)
(* were never made before, and what was closed never opens again.          *)
RetiredStayClosed ==
  \A p \in Thread :
    /\ retired[p] \subseteq made \ open
    /\ pc[p] \in {"got", "return"} => pool \notin retired[p]

(* The same for a DB that a wrapper holds and could not connect to. *)
StuckStayClosed ==
  \A p \in Thread :
    /\ conn[p] \in made \cup {NoDB}
    /\ pc[p] \in {"idle", "Closed"} /\ conn[p] # NoDB /\ zodb[p] = NoDB => conn[p] \notin open

Inv == TypeInv /\ PoolOpen /\ RetiredStayClosed /\ StuckStayClosed

LEMMA InitInv == Init => Inv
BY NobodyIsNone
   DEF Init, Inv, TypeInv, Unconnected, TypeOK, Places, Locked, PoolOpen, RetiredStayClosed, StuckStayClosed

(* The DB that PutNewDB makes is one that was never made before. *)
LEMMA NewDB ==
  ASSUME PutNewDB
  PROVE  /\ pool' \in DB \ made
         /\ made' = made \cup {pool'} /\ open' = open \cup {pool'}
BY DEF PutNewDB

(* Going from one place to another under the lock, into it or out of it. *)
LEMMA GoType ==
  ASSUME TypeOK, NEW p \in Thread, NEW from, NEW to \in Places, Go(p, from, to)
  PROVE  /\ pc' \in [Thread -> Places]
         /\ pc[p] = from /\ pc'[p] = to
         /\ \A q \in Thread \ {p} : pc'[q] = pc[q]
BY DEF TypeOK, Go

LEMMA ConnectingType ==
  ASSUME TypeInv, NEW p \in Thread, Connecting(p)
  PROVE  TypeInv'
<1> USE NobodyIsNone
<1>1. CASE Release(p) \/ MakeRaises(p)
  BY <1>1, GoType DEF TypeInv, Release, MakeRaises, Acquire, TypeOK, TypeInv, Unconnected, Go, Places, Locked
<1>2. CASE Ensure(p)
  <2>1. /\ pc' \in [Thread -> Places] /\ pc[p] = "idle" /\ pc'[p] = "get"
        /\ \A q \in Thread \ {p} : pc'[q] = pc[q]
    BY <1>2, GoType DEF TypeInv, Ensure, Places
  <2>2. retired' \in [Thread -> SUBSET DB]
    BY <1>2 DEF Ensure, TypeOK, TypeInv, Unconnected
  <2>3. QED
    BY <1>2, <2>1, <2>2 DEF Ensure, TypeOK, TypeInv, Unconnected, Locked
<1>3. CASE GetLocked(p)
  <2>1. /\ pc' \in [Thread -> Places] /\ pc[p] = "get" /\ pc'[p] = "got"
        /\ \A q \in Thread \ {p} : pc'[q] = pc[q]
    BY <1>3, GoType DEF TypeInv, GetLocked, Places
  <2>2. pool' \in DB \cup {NoDB} /\ open' \subseteq made' /\ made' \subseteq DB
    BY <1>3, NewDB DEF GetLocked, TypeOK, TypeInv, Unconnected
  <2>3. QED
    BY <1>3, <2>1, <2>2 DEF GetLocked, Acquire, TypeOK, TypeInv, Unconnected, Locked
<1>4. CASE GetReturns(p)
  <2>1. /\ pc' \in [Thread -> Places] /\ pc[p] = "return" /\ pc'[p] = "open"
        /\ \A q \in Thread \ {p} : pc'[q] = pc[q]
    BY <1>4, GoType DEF TypeInv, GetReturns, Places
  <2>2. QED
    BY <1>4, <2>1 DEF GetReturns, TypeOK, TypeInv, Unconnected, Locked
<1>5. CASE GetRaises(p)
  BY <1>5 DEF GetRaises, TypeOK, TypeInv, Unconnected, Go, Places, Locked
<1>6. CASE OpenConnection(p)
  BY <1>6 DEF OpenConnection, TypeOK, TypeInv, Unconnected, Go, Places, Locked
<1>7. CASE OpenRaises(p)
  BY <1>7 DEF OpenRaises, TypeOK, TypeInv, Unconnected, Go, Places, Locked
<1>8. CASE CallerCatches(p)
  BY <1>8 DEF CallerCatches, TypeOK, TypeInv, Unconnected, Places, Locked
<1>9. CASE Close(p)
  BY <1>9 DEF Close, Forget, TypeOK, TypeInv, Unconnected
<1>10. QED
  BY <1>1, <1>2, <1>3, <1>4, <1>5, <1>6, <1>7, <1>8, <1>9 DEF Connecting

LEMMA SwitchingType ==
  ASSUME TypeInv, NEW p \in Thread, Switching(p)
  PROVE  TypeInv'
<1> USE NobodyIsNone
<1>1. CASE SwitchCloses(p)
  BY <1>1 DEF SwitchCloses, Forget, TypeOK, TypeInv, Unconnected, Go, Places, Locked
<1>2. CASE SwitchLocked(p)
  BY <1>2 DEF SwitchLocked, Acquire, TypeOK, TypeInv, Unconnected, Go, Places, Locked
<1>3. CASE SwitchReplaces(p)
  <2>1. /\ pc' \in [Thread -> Places] /\ pc[p] = "switching" /\ pc'[p] = "switched"
        /\ \A q \in Thread \ {p} : pc'[q] = pc[q]
    BY <1>3, GoType DEF TypeInv, SwitchReplaces, Places
  <2>2. pool' \in DB /\ open' \subseteq made' /\ made' \subseteq DB
    BY <1>3, NewDB DEF SwitchReplaces, TypeOK, TypeInv
  <2>3. retired' \in [Thread -> SUBSET DB]
    BY <1>3, <2>2 DEF SwitchReplaces, TypeOK, TypeInv
  <2>4. QED
    BY <1>3, <2>1, <2>2, <2>3 DEF SwitchReplaces, TypeOK, TypeInv, Unconnected, Locked
<1>4. CASE RemoveCloses(p)
  BY <1>4 DEF RemoveCloses, Forget, TypeOK, TypeInv, Unconnected, Go, Places, Locked
<1>5. CASE RemoveLocked(p)
  BY <1>5 DEF RemoveLocked, Acquire, TypeOK, TypeInv, Unconnected, Go, Places, Locked
<1>6. CASE RemoveEnds(p)
  BY <1>6 DEF RemoveEnds, TypeOK, TypeInv, Unconnected, Go, Places, Locked
<1>7. QED
  BY <1>1, <1>2, <1>3, <1>4, <1>5, <1>6 DEF Switching

(* Who takes the lock finds that nobody is in the middle of a switch or a   *)
(* removal, and who is in the middle of one is so alone.                    *)
LEMMA Alone ==
  ASSUME TypeOK, NEW p \in Thread
  PROVE  /\ lock = Free => \A q \in Thread : pc[q] \notin {"switching", "removing"}
         /\ lock = p => \A q \in Thread \ {p} : pc[q] \notin {"switching", "removing"}
BY NobodyIsNone DEF TypeOK, Locked

(* A step that changes no DB, nor the pool, nor who is in the middle of a   *)
(* switch or a removal.                                                     *)
LEMMA PoolOpenStays ==
  ASSUME PoolOpen, UNCHANGED <<pool, popped, open, made>>,
         \A q \in Thread : \A place \in {"switching", "removing"} : pc'[q] = place <=> pc[q] = place
  PROVE  PoolOpen'
BY DEF PoolOpen

LEMMA NextPoolOpen ==
  ASSUME Inv, NEW p \in Thread, Connecting(p) \/ Switching(p)
  PROVE  PoolOpen'
<1> USE NobodyIsNone
<1>1. CASE GetLocked(p)
  <2>1. /\ \A q \in Thread : pc[q] \notin {"switching", "removing"}
        /\ \A q \in Thread : pc'[q] \notin {"switching", "removing"}
    BY <1>1, Alone DEF Inv, TypeInv, TypeOK, GetLocked, Acquire, Go
  <2>2. QED
    BY <1>1, <2>1, NewDB DEF Inv, PoolOpen, GetLocked
<1>2. CASE SwitchLocked(p)
  <2>1. \A q \in Thread : pc[q] \notin {"switching", "removing"}
    BY <1>2, Alone DEF Inv, TypeInv, SwitchLocked, Acquire
  <2>2. pc'[p] = "switching" /\ \A q \in Thread \ {p} : pc'[q] = pc[q]
    BY <1>2 DEF Inv, TypeInv, TypeOK, SwitchLocked, Go
  <2>3. popped' = NoDB /\ open' = {} /\ pool' = pool /\ made' = made
    BY <1>2, <2>1 DEF Inv, PoolOpen, SwitchLocked
  <2>4. QED
    BY <2>1, <2>2, <2>3 DEF Inv, PoolOpen
<1>3. CASE SwitchReplaces(p)
  <2>1. \A q \in Thread : pc'[q] \notin {"switching", "removing"}
    BY <1>3, Alone DEF Inv, TypeInv, TypeOK, SwitchReplaces, Go
  <2>2. pc[p] = "switching"
    BY <1>3 DEF SwitchReplaces, Go
  <2>3. QED
    BY <1>3, <2>1, <2>2, NewDB DEF Inv, TypeInv, TypeOK, PoolOpen, SwitchReplaces
<1>4. CASE RemoveLocked(p)
  <2>1. \A q \in Thread : pc[q] \notin {"switching", "removing"}
    BY <1>4, Alone DEF Inv, TypeInv, RemoveLocked, Acquire
  <2>2. pc'[p] = "removing" /\ \A q \in Thread \ {p} : pc'[q] = pc[q]
    BY <1>4 DEF Inv, TypeInv, TypeOK, RemoveLocked, Go
  <2>3. pool' = NoDB /\ open' = {popped'} \ {NoDB}
    BY <1>4, <2>1 DEF Inv, PoolOpen, RemoveLocked
  <2>4. QED
    BY <2>1, <2>2, <2>3 DEF PoolOpen
<1>5. CASE RemoveEnds(p)
  <2>1. \A q \in Thread : pc'[q] \notin {"switching", "removing"}
    BY <1>5, Alone DEF Inv, TypeInv, TypeOK, RemoveEnds, Go
  <2>2. pc[p] = "removing"
    BY <1>5 DEF RemoveEnds, Go
  <2>3. pool' = NoDB /\ popped' = NoDB /\ open' = {}
    BY <1>5, <2>2 DEF Inv, PoolOpen, RemoveEnds
  <2>4. QED
    BY <2>1, <2>3 DEF PoolOpen
<1>6. CASE \/ Release(p) \/ Ensure(p) \/ MakeRaises(p) \/ GetReturns(p) \/ GetRaises(p)
           \/ OpenConnection(p) \/ OpenRaises(p) \/ CallerCatches(p) \/ Close(p)
           \/ SwitchCloses(p) \/ RemoveCloses(p)
  <2>1. UNCHANGED <<pool, popped, open, made>>
    BY <1>6 DEF Release, Ensure, MakeRaises, GetReturns, GetRaises, OpenConnection, OpenRaises,
       CallerCatches, Close, SwitchCloses, RemoveCloses
  <2>2. \A q \in Thread : \A place \in {"switching", "removing"} : pc'[q] = place <=> pc[q] = place
    BY <1>6 DEF Inv, TypeInv, TypeOK, Go, Release, Ensure, MakeRaises, GetReturns, GetRaises,
       OpenConnection, OpenRaises, CallerCatches, Close, SwitchCloses, RemoveCloses
  <2>3. QED
    BY <2>1, <2>2, PoolOpenStays DEF Inv
<1>7. QED
  BY <1>1, <1>2, <1>3, <1>4, <1>5, <1>6 DEF Connecting, Switching

LEMMA NextRetired ==
  ASSUME Inv, NEW p \in Thread, Connecting(p) \/ Switching(p)
  PROVE  RetiredStayClosed'
<1> USE NobodyIsNone
<1>1. CASE Ensure(p)
  BY <1>1 DEF Inv, TypeInv, TypeOK, RetiredStayClosed, Ensure, Go
<1>2. CASE GetLocked(p)
  <2>1. open = {pool} \ {NoDB}
    BY <1>2, Alone DEF Inv, TypeInv, PoolOpen, GetLocked, Acquire
  <2>2. /\ pc'[p] = "got" /\ \A q \in Thread \ {p} : pc'[q] = pc[q]
        /\ retired' = retired
    BY <1>2 DEF Inv, TypeInv, TypeOK, GetLocked, Go
  <2>3. CASE pool # NoDB /\ UNCHANGED <<pool, made, open>>
    BY <2>1, <2>2, <2>3 DEF Inv, RetiredStayClosed
  <2>4. CASE pool = NoDB /\ PutNewDB
    <3>1. \A q \in Thread : retired'[q] \subseteq made' \ open' /\ pool' \notin retired'[q]
      BY <2>2, <2>4, NewDB DEF Inv, RetiredStayClosed
    <3>2. QED
      BY <3>1 DEF RetiredStayClosed
  <2>5. QED
    BY <1>2, <2>3, <2>4 DEF GetLocked
<1>3. CASE SwitchReplaces(p)
  <2>1. /\ pool' \in DB \ made
        /\ made' = made \cup {pool'} /\ open' = open \cup {pool'}
    BY <1>3, NewDB DEF SwitchReplaces
  <2>2. ASSUME NEW q \in Thread
        PROVE  retired'[q] \subseteq made' \ open' /\ pool' \notin retired'[q]
    <3>1. CASE q = p
      BY <1>3, <2>1, <3>1 DEF Inv, TypeInv, TypeOK, SwitchReplaces
    <3>2. CASE q # p
      BY <1>3, <2>1, <3>2 DEF Inv, TypeInv, TypeOK, RetiredStayClosed, SwitchReplaces
    <3>3. QED
      BY <3>1, <3>2
  <2>3. QED
    BY <2>2 DEF RetiredStayClosed
<1>4. CASE RemoveLocked(p)
  <2>1. UNCHANGED <<open, made, retired>> /\ pool' = NoDB
    BY <1>4 DEF RemoveLocked
  <2>2. QED
    BY <2>1 DEF Inv, TypeInv, TypeOK, RetiredStayClosed
<1>5. CASE \/ Release(p) \/ MakeRaises(p) \/ GetReturns(p) \/ GetRaises(p)
           \/ OpenConnection(p) \/ OpenRaises(p) \/ CallerCatches(p) \/ Close(p)
           \/ SwitchCloses(p) \/ SwitchLocked(p) \/ RemoveCloses(p) \/ RemoveEnds(p)
  <2>1. UNCHANGED <<pool, made, retired>> /\ open' \subseteq open
    BY <1>5 DEF Release, MakeRaises, GetReturns, GetRaises, OpenConnection, OpenRaises,
       CallerCatches, Close, SwitchCloses, SwitchLocked, RemoveCloses, RemoveEnds
  <2>2. \A q \in Thread : pc'[q] \in {"got", "return"} => pc[q] \in {"got", "return"}
    BY <1>5 DEF Inv, TypeInv, TypeOK, Go, Release, MakeRaises, GetReturns, GetRaises,
       OpenConnection, OpenRaises, CallerCatches, Close, SwitchCloses, SwitchLocked,
       RemoveCloses, RemoveEnds
  <2>3. QED
    BY <2>1, <2>2 DEF Inv, RetiredStayClosed
<1>6. QED
  BY <1>1, <1>2, <1>3, <1>4, <1>5 DEF Connecting, Switching

LEMMA NextStuck ==
  ASSUME Inv, NEW p \in Thread, Connecting(p) \/ Switching(p)
  PROVE  StuckStayClosed'
<1> USE NobodyIsNone
<1>1. ASSUME PutNewDB, UNCHANGED <<conn, zodb>>,
             \A q \in Thread : pc'[q] \in {"idle", "Closed"} => pc[q] = pc'[q]
      PROVE  StuckStayClosed'
  BY <1>1, NewDB DEF Inv, StuckStayClosed
<1>2. ASSUME UNCHANGED <<made, conn, zodb>>, open' \subseteq open,
             \A q \in Thread : pc'[q] \in {"idle", "Closed"} =>
               \/ pc[q] \in {"idle", "Closed"}
               \/ conn[q] = NoDB \/ conn[q] \notin open
      PROVE  StuckStayClosed'
  BY <1>2 DEF Inv, StuckStayClosed
<1>3. CASE GetLocked(p)
  <2>1. \A q \in Thread : pc'[q] \in {"idle", "Closed"} => pc[q] = pc'[q]
    BY <1>3 DEF GetLocked, Go, Inv, TypeInv, TypeOK
  <2>2. CASE UNCHANGED <<made, open>>
    BY <1>2, <1>3, <2>1, <2>2 DEF GetLocked
  <2>3. CASE PutNewDB
    BY <1>1, <1>3, <2>1, <2>3 DEF GetLocked
  <2>4. QED
    BY <1>3, <2>2, <2>3 DEF GetLocked
<1>4. CASE SwitchReplaces(p)
  <2>1. \A q \in Thread : pc'[q] \in {"idle", "Closed"} => pc[q] = pc'[q]
    BY <1>4 DEF SwitchReplaces, Go, Inv, TypeInv, TypeOK
  <2>2. QED
    BY <1>1, <1>4, <2>1 DEF SwitchReplaces
<1>5. CASE GetReturns(p)
  <2>1. pool \in made
    BY <1>5 DEF GetReturns, Inv, PoolOpen
  <2>2. \A q \in Thread : /\ pc'[q] = IF q = p THEN "open" ELSE pc[q]
                          /\ conn'[q] = IF q = p THEN pool ELSE conn[q]
    BY <1>5 DEF GetReturns, Go, Inv, TypeInv, TypeOK
  <2>3. QED
    BY <1>5, <2>1, <2>2 DEF GetReturns, Inv, StuckStayClosed
<1>6. CASE OpenConnection(p)
  <2>1. \A q \in Thread : /\ pc'[q] = IF q = p THEN "idle" ELSE pc[q]
                          /\ zodb'[q] = IF q = p THEN conn[p] ELSE zodb[q]
    BY <1>6 DEF OpenConnection, Go, Inv, TypeInv, TypeOK
  <2>2. QED
    BY <1>6, <2>1 DEF OpenConnection, Inv, StuckStayClosed
<1>7. CASE Close(p) \/ SwitchCloses(p) \/ RemoveCloses(p)
  <2>1. \A q \in Thread : /\ conn'[q] = IF q = p THEN NoDB ELSE conn[q]
                          /\ zodb'[q] = IF q = p THEN NoDB ELSE zodb[q]
                          /\ q # p => pc'[q] = pc[q]
    BY <1>7 DEF Close, SwitchCloses, RemoveCloses, Forget, Go, Inv, TypeInv, TypeOK
  <2>2. UNCHANGED <<made, open>>
    BY <1>7 DEF Close, SwitchCloses, RemoveCloses
  <2>3. QED
    BY <2>1, <2>2 DEF Inv, StuckStayClosed
<1>8. CASE Release(p) \/ Ensure(p) \/ MakeRaises(p) \/ GetRaises(p) \/ OpenRaises(p)
           \/ CallerCatches(p) \/ SwitchLocked(p) \/ RemoveLocked(p) \/ RemoveEnds(p)
  <2>1. UNCHANGED <<made, conn, zodb>> /\ open' \subseteq open
    BY <1>8 DEF Release, Ensure, MakeRaises, GetRaises, OpenRaises, CallerCatches, SwitchLocked,
       RemoveLocked, RemoveEnds
  <2>2. \A q \in Thread : q # p => pc'[q] = pc[q]
    BY <1>8 DEF Release, Ensure, MakeRaises, GetRaises, OpenRaises, CallerCatches, SwitchLocked,
       RemoveLocked, RemoveEnds, Go, Inv, TypeInv, TypeOK
  <2>3. pc'[p] \in {"idle", "Closed"} =>
           pc[p] \in {"idle", "Closed"} \/ conn[p] = NoDB \/ conn[p] \notin open
    BY <1>8 DEF Release, Ensure, MakeRaises, GetRaises, OpenRaises, CallerCatches, SwitchLocked,
       RemoveLocked, RemoveEnds, Go, Inv, TypeInv, TypeOK, Unconnected
  <2>4. QED
    BY <1>2, <2>1, <2>2, <2>3
<1>9. QED
  BY <1>3, <1>4, <1>5, <1>6, <1>7, <1>8 DEF Connecting, Switching

LEMMA NextInv == Inv /\ [Next]_vars => Inv'
<1> SUFFICES ASSUME Inv, [Next]_vars
             PROVE  Inv'
  OBVIOUS
<1>1. CASE Next
  <2>1. PICK p \in Thread : Connecting(p) \/ Switching(p)
    BY <1>1 DEF Next
  <2>2. TypeInv'
    BY <2>1, ConnectingType, SwitchingType DEF Inv
  <2>3. QED
    BY <2>1, <2>2, NextPoolOpen, NextRetired, NextStuck DEF Inv
<1>2. CASE UNCHANGED vars
  BY <1>2 DEF vars, Inv, TypeInv, TypeOK, Unconnected, PoolOpen, RetiredStayClosed,
     StuckStayClosed
<1>3. QED
  BY <1>1, <1>2

LEMMA AlwaysInv == Spec => []Inv
BY InitInv, NextInv, PTL DEF Spec

-----------------------------------------------------------------------------
(* Every variable keeps its type, the lock is held by the thread that is   *)
(* inside it and by no other, and a wrapper has a connection of its own DB *)
(* only.                                                                   *)
THEOREM TypeCorrect == Spec => []TypeOK
<1>1. Inv => TypeOK
  BY DEF Inv, TypeInv
<1>2. QED
  BY <1>1, AlwaysInv, PTL

(* Whatever threads connect, switch and close at once, no two DBs of the   *)
(* alias are open; outside the lock the open one is the one in the pool,   *)
(* and inside it these are known at each point of a switch or a removal.   *)
THEOREM OneOpen == Spec => []OneOpenDB
<1>1. ASSUME Inv
      PROVE  OneOpenDB
  <2>1. lock = Free => open = {pool} \ {NoDB}
    BY <1>1, NobodyIsNone DEF Inv, TypeInv, TypeOK, Locked, PoolOpen
  <2>2. open \in {{}, {pool} \ {NoDB}, {popped} \ {NoDB}}
    BY <1>1 DEF Inv, PoolOpen
  <2>3. \A d, e \in open : d = e
    BY <2>2
  <2>4. QED
    BY <1>1, <2>1, <2>3 DEF Inv, PoolOpen, OneOpenDB
<1>2. QED
  BY <1>1, AlwaysInv, PTL

(* A wrapper that holds a DB it could not connect to holds a closed one:   *)
(* what init_connection_state refused once never opens again.              *)
THEOREM StuckWrappersHoldClosed == Spec => []StuckOnClosed
<1>1. Inv => StuckOnClosed
  BY DEF Inv, StuckStayClosed, StuckOnClosed
<1>2. QED
  BY <1>1, AlwaysInv, PTL

(* connect() reads the pool a second time, outside the lock: it may get a  *)
(* DB that was closed under it, but none that was closed when it began.    *)
THEOREM NeverRetired == Spec => NoRetiredDB
<1>1. ASSUME Inv, [Next]_vars
      PROVE  [\A p \in Thread :
                pc[p] = "return" /\ pc'[p] = "open" => conn'[p] \notin retired[p]]_vars
  <2>1. SUFFICES ASSUME NEW p \in Thread, Next, pc[p] = "return", pc'[p] = "open"
                 PROVE  conn'[p] \notin retired[p]
    BY <1>1
  <2>2. PICK q \in Thread : Connecting(q) \/ Switching(q)
    BY <2>1 DEF Next
  <2>3. GetReturns(p)
    BY <1>1, <2>1, <2>2
       DEF Inv, TypeInv, TypeOK, Connecting, Switching, Release, Ensure, GetLocked, MakeRaises, GetReturns,
           GetRaises, OpenConnection, OpenRaises, CallerCatches, Close, SwitchCloses,
           SwitchLocked, SwitchReplaces, RemoveCloses, RemoveLocked, RemoveEnds, Go
  <2>4. conn'[p] = pool
    BY <1>1, <2>3 DEF Inv, TypeInv, TypeOK, GetReturns
  <2>5. QED
    BY <1>1, <2>1, <2>4 DEF Inv, RetiredStayClosed
<1>2. QED
  BY <1>1, AlwaysInv, PTL DEF Spec, NoRetiredDB
==============================================================================
