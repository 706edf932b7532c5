------------------------ MODULE AtomicRollback_proofs -------------------------
(***************************************************************************)
(* What rolling back gives, for a thread that uses one alias: any writes,  *)
(* any depth of blocks, any number of savepoints.  (With two aliases a     *)
(* statement of the other one commits what a block holds.)                 *)
(***************************************************************************)
EXTENDS AtomicBlocks_proofs

(* The savepoints of the transaction: later ones hold more, all hold what  *)
(* is committed and none more than the connection shows.  A transaction    *)
(* that failed, and a connection that is closed, have no changes.          *)
Points(o) ==
  /\ \A i \in 1..Len(points) :
       /\ points[i].sid <= lastSid
       /\ db[o] \subseteq points[i].image[o]
       /\ points[i].image[o] \subseteq work[o]
  /\ \A i, j \in 1..Len(points) : i < j =>
       points[i].sid < points[j].sid /\ points[i].image[o] \subseteq points[j].image[o]

Chain(o) ==
  /\ Points(o)
  /\ db[o] \subseteq work[o]
  /\ failed \/ ~wrap[o].open => points = <<>> /\ work = db

(* The blocks of which the i-th can be rolled back by itself. *)
Keeps(o, i) == i = 1 \/ wrap[o].sids[i - 1] # NoSid

(* Each savepoint on the stack is one of the transaction, and holds what   *)
(* its block found.                                                        *)
PointedAt(o) ==
  \A i \in 1..Len(wrap[o].sids) : wrap[o].sids[i] # NoSid =>
    /\ \E j \in 1..Len(points) : /\ points[j].sid = wrap[o].sids[i]
                                 /\ points[j].image[o] = frames[i + 1].before
    /\ \A j \in 1..Len(wrap[o].sids) :
         i < j /\ wrap[o].sids[j] # NoSid => wrap[o].sids[i] < wrap[o].sids[j]

(* The blocks, while the wrapper knows all of them.  Inside one that was   *)
(* closed, what a block with a savepoint found is gone already.            *)
Nested(o) ==
  InBlock(o) =>
    /\ \A i \in 1..Len(frames) : frames[i].outer <=> i = 1
    /\ wrap[o].open => PointedAt(o)
    /\ \A i, j \in 1..Len(frames) :
         i < j /\ (i = 1 \/ (wrap[o].open /\ Keeps(o, i))) =>
           frames[i].before \subseteq frames[j].before

(* What is void is nowhere but in the connection, and there only while a   *)
(* block is marked to be rolled back.                                      *)
Marked(o) == InBlock(o) /\ wrap[o].needsRollback

Clean(o) ==
  /\ void \subseteq written /\ work[o] \subseteq written
  /\ db[o] \cap void = {}
  /\ ~Marked(o) => work[o] \cap void = {}
  /\ InBlock(o) => \A i \in 1..Len(frames) : Keeps(o, i) => frames[i].before \cap void = {}

Held(o) == Typed /\ Handles /\ Uncommitted(o) /\ Chain(o) /\ Nested(o) /\ Clean(o)

-----------------------------------------------------------------------------
(* What the steps do to the transaction.                                   *)

LEMMA OneAlias ==
  ASSUME NEW o, Alias = {o}, Typed
  PROVE  /\ o \in Alias /\ wrap[o] \in Wrapper /\ wrap \in [Alias -> Wrapper]
         /\ Len(wrap[o].sids) \in Nat /\ wrap[o].sids \in Seq(Sid \cup {NoSid})
         /\ frames \in Seq(Frame) /\ Len(frames) \in Nat
         /\ points \in Seq(Point) /\ Len(points) \in Nat
         /\ \A i \in 1..Len(points) : points[i] \in Point /\ points[i].sid \in Nat
         /\ lastSid \in Nat /\ db[o] \subseteq Write /\ work[o] \subseteq Write
<1>1. points \in Seq(Point) /\ \A i \in 1..Len(points) : points[i] \in Point
  BY DEF Typed, Data
<1>2. \A p \in Point : p.sid \in Nat
  BY BlockConstants DEF Point, Sid
<1>3. lastSid \in Nat
  BY BlockConstants DEF Typed, Inv
<1>4. QED
  BY <1>1, <1>2, <1>3 DEF Typed, Inv, Data, Depth, Wrapper, Image

LEMMA ChainFresh ==
  ASSUME NEW o, points' = <<>>, work' = db'
  PROVE  Chain(o)'
BY DEF Chain, Points

LEMMA ChainSame ==
  ASSUME NEW o, Chain(o), UNCHANGED <<db, work, failed, points, lastSid>>,
         wrap[o].open => wrap'[o].open
  PROVE  Chain(o)'
BY DEF Chain, Points

LEMMA ChainGrows ==
  ASSUME NEW o, Chain(o), UNCHANGED <<db, failed, points, lastSid>>, ~failed,
         work[o] \subseteq work'[o], wrap'[o].open
  PROVE  Chain(o)'
BY DEF Chain, Points

(* A savepoint is made. *)
LEMMA NewPoint ==
  ASSUME NEW o, Alias = {o}, Typed, MakeSavepoint(o)
  PROVE  /\ Len(points') = Len(points) + 1 /\ lastSid' = lastSid + 1
         /\ \A i \in 1..Len(points) : points'[i] = points[i]
         /\ points'[Len(points) + 1].sid = lastSid'
         /\ points'[Len(points) + 1].image = work
         /\ \A i \in 1..Len(points') : i \in 1..Len(points) \/ i = Len(points) + 1
<1> DEFINE p == [alias |-> o, sid |-> lastSid', image |-> work]
<1>1. points' = Append(points, p) /\ lastSid' = lastSid + 1
  BY DEF MakeSavepoint
<1>2. points \in Seq(Point) /\ Len(points) \in Nat
  BY OneAlias
<1>3. p.sid = lastSid' /\ p.image = work
  OBVIOUS
<1> HIDE DEF p
<1>4. /\ Len(points') = Len(points) + 1 /\ points'[Len(points) + 1] = p
      /\ \A i \in 1..Len(points) : points'[i] = points[i]
  BY <1>1, <1>2
<1>5. QED
  BY <1>1, <1>2, <1>3, <1>4

LEMMA ChainPoint ==
  ASSUME NEW o, Alias = {o}, Typed, Chain(o), MakeSavepoint(o),
         UNCHANGED <<db, work, failed>>, wrap'[o].open
  PROVE  Chain(o)'
<1> DEFINE n == Len(points)
<1>1. n \in Nat /\ lastSid \in Nat /\ \A i \in 1..n : points[i].sid \in Nat
  BY OneAlias
<1>2. /\ Len(points') = n + 1 /\ lastSid' = lastSid + 1
      /\ \A i \in 1..n : points'[i] = points[i]
      /\ points'[n + 1].sid = lastSid' /\ points'[n + 1].image = work
      /\ \A i \in 1..Len(points') : i \in 1..n \/ i = n + 1
  BY NewPoint
<1>3. ASSUME NEW i \in 1..Len(points')
      PROVE  /\ points'[i].sid <= lastSid'
             /\ db[o] \subseteq points'[i].image[o]
             /\ points'[i].image[o] \subseteq work[o]
  <2>1. CASE i \in 1..n
    <3>1. points[i].sid <= lastSid /\ points[i].sid \in Nat
      BY <1>1, <2>1 DEF Chain, Points
    <3>2. QED
      BY <1>1, <1>2, <2>1, <3>1 DEF Chain, Points
  <2>2. CASE i = n + 1
    BY <1>1, <1>2, <2>2 DEF Chain
  <2>3. QED
    BY <1>2, <2>1, <2>2
<1>4. ASSUME NEW i \in 1..Len(points'), NEW j \in 1..Len(points'), i < j
      PROVE  points'[i].sid < points'[j].sid /\ points'[i].image[o] \subseteq points'[j].image[o]
  <2>1. i \in 1..n
    BY <1>1, <1>2, <1>4
  <2>2. CASE j \in 1..n
    BY <1>2, <1>4, <2>1, <2>2 DEF Chain, Points
  <2>3. CASE j = n + 1
    <3>1. points[i].sid <= lastSid /\ points[i].sid \in Nat /\ points[i].image[o] \subseteq work[o]
      BY <1>1, <2>1 DEF Chain, Points
    <3>2. QED
      BY <1>1, <1>2, <2>1, <2>3, <3>1
  <2>4. QED
    BY <1>2, <2>2, <2>3
<1>5. ~failed
  BY DEF MakeSavepoint
<1>6. Points(o)'
  BY <1>3, <1>4 DEF Points
<1>7. QED
  BY <1>5, <1>6 DEF Chain

(* One is rolled back to: it is still there, and those before it. *)
LEMMA BackTo ==
  ASSUME NEW o, Alias = {o}, Typed, Chain(o), NEW sid, Alive(sid), RollBackTo(sid)
  PROVE  /\ PointOf(sid) \in 1..Len(points) /\ points[PointOf(sid)].sid = sid
         /\ \A i \in 1..Len(points) : points[i].sid = sid => i = PointOf(sid)
         /\ Len(points') = PointOf(sid)
         /\ \A i \in 1..PointOf(sid) : points'[i] = points[i]
         /\ work' = points[PointOf(sid)].image
         /\ ~failed
<1> DEFINE n == PointOf(sid)
<1>1. n \in 1..Len(points) /\ points[n].sid = sid
  BY DEF Alive, PointOf
<1>2. Len(points) \in Nat /\ \A i \in 1..Len(points) : points[i] \in Point /\ points[i].sid \in Nat
  BY OneAlias
<1>3. ASSUME NEW i \in 1..Len(points), points[i].sid = sid
      PROVE  i = n
  <2>1. ~(i < n) /\ ~(n < i)
    <3>1. \A x \in Nat : ~(x < x)
      OBVIOUS
    <3>2. QED
      BY <1>1, <1>2, <1>3, <3>1 DEF Chain, Points
  <2>2. QED
    BY <1>1, <1>2, <2>1
<1> HIDE DEF n
<1>4. Len(points') = n /\ \A i \in 1..n : points'[i] = points[i]
  <2>1. points' = SubSeq(points, 1, n)
    BY DEF RollBackTo, n
  <2>2. 1 \in Int /\ n \in Int /\ n >= 1 /\ \A i \in 1..n : points[i] \in Point
    BY <1>1, <1>2
  <2>3. /\ Len(points') = IF 1 <= n THEN n - 1 + 1 ELSE 0
        /\ \A i \in 1..(n - 1 + 1) : points'[i] = points[1 + i - 1]
    BY <2>1, <2>2, SubSeqProperties
  <2>4. n - 1 + 1 = n /\ \A i \in 1..n : 1 + i - 1 = i
    BY <2>2
  <2>5. QED
    BY <2>2, <2>3, <2>4
<1>5. ~failed
  BY <1>1, <1>2 DEF Chain
<1>6. QED
  BY <1>1, <1>3, <1>4, <1>5 DEF RollBackTo, n

LEMMA ChainBack ==
  ASSUME NEW o, Alias = {o}, Typed, Chain(o), NEW sid, Alive(sid), RollBackTo(sid),
         lastSid' = lastSid, wrap'[o].open
  PROVE  Chain(o)' /\ work'[o] \subseteq work[o]
<1> DEFINE n == PointOf(sid)
<1>1. /\ n \in 1..Len(points) /\ Len(points') = n /\ work' = points[n].image
      /\ \A i \in 1..n : points'[i] = points[i]
      /\ ~failed /\ failed' = failed /\ db' = db
  BY BackTo DEF RollBackTo
<1> HIDE DEF n
<1>2. \A i \in 1..n : i \in 1..Len(points) /\ (i < n \/ i = n)
  BY <1>1, OneAlias
<1>3. \A i \in 1..n : points[i].image[o] \subseteq points[n].image[o]
  BY <1>1, <1>2 DEF Chain, Points
<1>4. Points(o)'
  BY <1>1, <1>2, <1>3 DEF Chain, Points
<1>5. QED
  BY <1>1, <1>4 DEF Chain, Points

(* How an exit leaves the wrapper.  A block that is still counted after it *)
(* was counted before, and only its top is gone.                           *)
LEMMA Exited ==
  ASSUME NEW o, Alias = {o}, Typed, Uncommitted(o), Exiting
  PROVE  /\ frames # <<>> /\ Top.alias = o /\ Top = frames[Len(frames)]
         /\ Len(frames) \in Nat \ {0} /\ Len(frames') = Len(frames) - 1
         /\ \A i \in 1..(Len(frames) - 1) : frames'[i] = frames[i]
         /\ wrap[o].open => wrap'[o].open
         /\ UNCHANGED <<written, lastSid>>
         /\ void' = IF exc /\ InBlock(o) THEN void \cup (work[o] \ Top.before) ELSE void
         /\ InBlock(o)' =>
              /\ InBlock(o) /\ Len(wrap[o].sids) # 0
              /\ Len(wrap'[o].sids) = Len(wrap[o].sids) - 1
              /\ \A i \in 1..(Len(wrap[o].sids) - 1) : wrap'[o].sids[i] = wrap[o].sids[i]
              /\ wrap'[o].open = wrap[o].open
<1> DEFINE n == Len(frames)
           k == Len(wrap[o].sids)
           p == Popped(wrap[o])
<1>1. frames # <<>> /\ Top.alias = o /\ frames' = SubSeq(frames, 1, n - 1)
      /\ frames \in Seq(Frame)
  BY ExitedWrapper, PoppedFrames DEF Typed, Depth, Frame
<1>2. n \in Nat \ {0} /\ Len(frames') = n - 1 /\ \A i \in 1..(n - 1) : frames'[i] = frames[i]
  BY <1>1, PoppedSeq
<1>3. wrap[o] \in Wrapper /\ wrap \in [Alias -> Wrapper] /\ o \in Alias /\ k \in Nat
      /\ wrap[o].sids \in Seq(Sid \cup {NoSid}) /\ (wrap[o].sids = <<>> <=> k = 0)
  BY OneAlias
<1>4. PICK s \in {p, Connected} \cup {[p EXCEPT !.needsRollback = f] : f \in BOOLEAN} :
         wrap' = [wrap EXCEPT ![o] = Left(s)]
  BY <1>1, ExitedWrapper DEF Typed
<1>5. wrap'[o] = Left(s)
  BY <1>3, <1>4
<1>6. /\ p \in Wrapper /\ p.open = wrap[o].open
      /\ k = 0 => ~p.inAtomic
      /\ k # 0 => p.inAtomic = wrap[o].inAtomic
  <2>1. p.sids \in Seq(Sid \cup {NoSid})
    BY <1>3, PoppedSids
  <2>2. QED
    BY <1>3, <2>1 DEF Popped, Wrapper
<1>7. /\ Left(s).inAtomic => /\ p.inAtomic /\ Left(s).sids = p.sids
                             /\ Left(s).open = p.open
      /\ p.open => Left(s).open
  <2>1. CASE s = Connected
    BY <2>1 DEF Left, Connected
  <2>2. CASE s # Connected
    BY <1>4, <1>6, <2>2 DEF Left, Wrapper
  <2>3. QED
    BY <2>1, <2>2
<1>8. wrap[o].sids # <<>> => /\ Len(p.sids) = k - 1
                             /\ \A i \in 1..(k - 1) : p.sids[i] = wrap[o].sids[i]
  BY <1>3, PoppedSids
<1>9. ASSUME InBlock(o)'
      PROVE  /\ InBlock(o) /\ k # 0
             /\ Len(wrap'[o].sids) = k - 1
             /\ \A i \in 1..(k - 1) : wrap'[o].sids[i] = wrap[o].sids[i]
             /\ wrap'[o].open = wrap[o].open
  <2>1. Left(s).inAtomic /\ n - 1 = Len(Left(s).sids) + 1
    BY <1>2, <1>5, <1>9 DEF InBlock
  <2>2. p.inAtomic /\ k # 0 /\ wrap[o].inAtomic /\ Len(p.sids) = k - 1
    BY <1>3, <1>6, <1>7, <1>8, <2>1
  <2>3. n = k + 1
    BY <1>2, <1>3, <1>7, <2>1, <2>2
  <2>4. QED
    BY <1>3, <1>5, <1>6, <1>7, <1>8, <2>1, <2>2, <2>3 DEF InBlock
<1>10. UNCHANGED <<written, lastSid>>
  BY DEF Exiting, ExitCommits, ExitReleases, ExitRollsBack, ExitToSavepoint, ExitMarks, Leave
<1>11. void' = IF exc /\ InStep(o) THEN void \cup (work[o] \ Top.before) ELSE void
  BY <1>1 DEF Exiting, ExitCommits, ExitReleases, ExitRollsBack, ExitToSavepoint, ExitMarks, Leave
<1>12. InStep(o) <=> InBlock(o)
  BY <1>1, AllFrames DEF InStep, InBlock
<1>13. Top = frames[Len(frames)]
  BY DEF Top
<1>14. wrap[o].open => wrap'[o].open
  BY <1>5, <1>6, <1>7
<1>15. QED
  BY <1>1, <1>2, <1>9, <1>10, <1>11, <1>12, <1>13, <1>14

(* What an exit does to the transaction. *)
LEMMA ExitEffect ==
  ASSUME NEW o, Alias = {o}, Typed, Uncommitted(o), Exiting
  PROVE  \/ points' = <<>> /\ work' = db' /\ db' \in {db, work}
         \/ UNCHANGED <<db, work, failed, points>>
         \/ /\ wrap[o].open /\ wrap[o].sids # <<>>
            /\ \E sid : sid = LastSid(wrap[o]) /\ sid # NoSid /\ Alive(sid) /\ RollBackTo(sid)
            /\ db' = db
<1>1. Top.alias = o /\ wrap[o] \in Wrapper
  BY Exited, OneAlias
<1>2. CASE ExitCommits
  BY <1>2 DEF ExitCommits, CommitGoesThrough, CommitConflicts
<1>3. CASE ExitReleases
  BY <1>3 DEF ExitReleases
<1>4. CASE ExitRollsBack
  BY <1>4 DEF ExitRollsBack, Abort
<1>5. CASE ExitToSavepoint
  <2>1. Popped(wrap[o]).open = wrap[o].open
    BY <1>1 DEF Popped, Wrapper
  <2>2. LastSid(wrap[o]) # NoSid => wrap[o].sids # <<>>
    BY DEF LastSid
  <2>3. QED
    BY <1>1, <1>5, <2>1, <2>2 DEF ExitToSavepoint, RollBackTo
<1>6. CASE ExitMarks
  BY <1>6 DEF ExitMarks
<1>7. QED
  BY <1>2, <1>3, <1>4, <1>5, <1>6 DEF Exiting

LEMMA ExitingChain ==
  ASSUME NEW o, Alias = {o}, Typed, Uncommitted(o), Chain(o), Exiting
  PROVE  Chain(o)'
<1>1. (wrap[o].open => wrap'[o].open) /\ lastSid' = lastSid
  BY Exited
<1>2. CASE points' = <<>> /\ work' = db'
  BY <1>2, ChainFresh
<1>3. CASE UNCHANGED <<db, work, failed, points>>
  BY <1>1, <1>3, ChainSame
<1>4. CASE wrap[o].open /\ \E sid : Alive(sid) /\ RollBackTo(sid)
  BY <1>1, <1>4, ChainBack
<1>5. QED
  BY <1>2, <1>3, <1>4, ExitEffect

LEMMA EnteringChain ==
  ASSUME NEW o, Alias = {o}, Typed, Chain(o), Entering(o) \/ EnterClosed(o)
  PROVE  Chain(o)'
<1>1. wrap[o] \in Wrapper /\ wrap \in [Alias -> Wrapper] /\ o \in Alias
  BY OneAlias
<1>2. CASE EnterSavepoint(o)
  <2>1. wrap'[o].open
    BY <1>1, <1>2 DEF EnterSavepoint, Allowed, Wrapper
  <2>2. QED
    BY <1>2, <2>1, ChainPoint DEF EnterSavepoint
<1>3. CASE EnterOutermost(o)
  <2>1. Ensured(wrap[o]) \in Wrapper /\ Ensured(wrap[o]).open
    BY <1>1, ConnectedSound DEF Ensured, Sound, Connected
  <2>2. wrap'[o].open
    BY <1>1, <1>3, <2>1 DEF EnterOutermost, Wrapper
  <2>3. QED
    BY <1>3, <2>2, ChainSame DEF EnterOutermost
<1>4. CASE EnterRaises(o)
  BY <1>4, ChainSame DEF EnterRaises
<1>5. CASE EnterPlain(o)
  <2>1. wrap[o].open => wrap'[o].open
    BY <1>1, <1>5 DEF EnterPlain, Wrapper
  <2>2. QED
    BY <1>5, <2>1, ChainSame DEF EnterPlain
<1>6. CASE EnterClosed(o)
  BY <1>6, ChainSame DEF EnterClosed
<1>7. QED
  BY <1>2, <1>3, <1>4, <1>5, <1>6 DEF Entering

(* A statement writes one thing that was not written before; where it      *)
(* commits, the wrapper was closed or in no block.                         *)
LEMMA StatementEffect ==
  ASSUME NEW o, Alias = {o}, Typed, Statements(o)
  PROVE  /\ wrap'[o].open /\ UNCHANGED <<frames, lastSid, void>>
         /\ wrap[o].open => /\ wrap'[o].sids = wrap[o].sids
                            /\ wrap'[o].inAtomic = wrap[o].inAtomic
                            /\ wrap[o].needsRollback => wrap'[o].needsRollback
         /\ ~wrap[o].open => ~wrap'[o].inAtomic
         /\ \/ /\ UNCHANGED <<db, work, failed, points, written>>
            \/ \E w \in Write \ written :
                 /\ written' = written \cup {w} /\ ~failed
                 /\ \/ UNCHANGED <<db, failed, points>> /\ work'[o] = work[o] \cup {w}
                    \/ /\ points' = <<>> /\ work' = db'
                       /\ db' = db \/ db'[o] = work[o] \cup {w}
                       /\ ~wrap[o].open \/ ~wrap[o].inAtomic
<1> DEFINE e == Ensured(wrap[o])
<1>1. /\ wrap[o] \in Wrapper /\ wrap \in [Alias -> Wrapper] /\ o \in Alias
      /\ Sound(wrap[o]) /\ e \in Wrapper /\ e.open
  BY OneAlias, SoundWrappers, EnsuredSound DEF Typed, Sound, Ensured, Connected
<1>2. /\ wrap[o].open => e = wrap[o]
      /\ ~wrap[o].open => ~e.inAtomic
  BY DEF Ensured, Connected
<1>3. e.autocommit => ~wrap[o].open \/ ~wrap[o].inAtomic
  BY <1>1, <1>2 DEF Sound, Agrees
<1>4. \A w : With(o, w)[o] = work[o] \cup {w}
  BY <1>1 DEF With, Typed, Data, Image
<1>5. UNCHANGED <<frames, lastSid, void>>
  BY DEF Statements, Statement, StatementBreaks, StatementRefused
<1>6. ASSUME NEW w \in Write, Statement(o, w)
      PROVE  /\ wrap' = [wrap EXCEPT ![o] = e]
             /\ w \notin written /\ written' = written \cup {w} /\ ~failed
             /\ \/ UNCHANGED <<db, failed, points>> /\ work'[o] = work[o] \cup {w}
                \/ /\ points' = <<>> /\ work' = db'
                   /\ db' = db \/ db'[o] = work[o] \cup {w}
                   /\ e.autocommit
  BY <1>4, <1>6 DEF Statement, CommitGoesThrough, CommitConflicts
<1>7. ASSUME NEW w \in Write, NEW mark \in BOOLEAN, StatementBreaks(o, w, mark)
      PROVE  /\ wrap' = [wrap EXCEPT ![o] = Marking(e, mark)]
             /\ w \notin written /\ written' = written \cup {w} /\ ~failed
             /\ UNCHANGED <<db, failed, points>> /\ work'[o] = work[o] \cup {w}
  BY <1>4, <1>7 DEF StatementBreaks
<1>8. \/ wrap' = [wrap EXCEPT ![o] = e]
      \/ \E mark \in BOOLEAN : wrap' = [wrap EXCEPT ![o] = Marking(e, mark)]
  BY <1>6, <1>7 DEF Statements, StatementRefused
<1>9. /\ wrap'[o].open /\ wrap'[o].sids = e.sids /\ wrap'[o].inAtomic = e.inAtomic
      /\ e.needsRollback => wrap'[o].needsRollback
  <2>1. ASSUME NEW mark \in BOOLEAN
        PROVE  /\ Marking(e, mark).open /\ Marking(e, mark).sids = e.sids
               /\ Marking(e, mark).inAtomic = e.inAtomic
               /\ e.needsRollback => Marking(e, mark).needsRollback
    BY <1>1 DEF Marking, Wrapper
  <2>2. QED
    BY <1>1, <1>8, <2>1
<1>10. \/ UNCHANGED <<db, work, failed, points, written>>
       \/ \E w \in Write \ written :
            /\ written' = written \cup {w} /\ ~failed
            /\ \/ UNCHANGED <<db, failed, points>> /\ work'[o] = work[o] \cup {w}
               \/ /\ points' = <<>> /\ work' = db'
                  /\ db' = db \/ db'[o] = work[o] \cup {w}
                  /\ ~wrap[o].open \/ ~wrap[o].inAtomic
  BY <1>3, <1>6, <1>7 DEF Statements, StatementRefused
<1>11. QED
  BY <1>2, <1>5, <1>9, <1>10

(* What the application's own savepoints do: the stack's savepoints stay.  *)
LEMMA UserEffect ==
  ASSUME NEW o, Alias = {o}, Typed, Chain(o), UserSavepoints(o)
  PROVE  /\ wrap[o].open /\ UNCHANGED <<db, wrap, frames, written, void>>
         /\ \/ MakeSavepoint(o) /\ work' = work /\ failed' = failed
            \/ lastSid' = lastSid /\ UNCHANGED <<work, failed, points>>
            \/ /\ lastSid' = lastSid
               /\ \E sid \in Sid : InsideBlocks(sid) /\ Alive(sid) /\ RollBackTo(sid)
<1>1. CASE UserSavepoint(o)
  BY <1>1 DEF UserSavepoint, Allowed
<1>2. ASSUME NEW sid \in Sid, UserRollback(o, sid)
      PROVE  /\ wrap[o].open /\ UNCHANGED <<db, wrap, frames, written, void>>
             /\ lastSid' = lastSid
             /\ \/ UNCHANGED <<work, failed, points>>
                \/ InsideBlocks(sid) /\ Alive(sid) /\ RollBackTo(sid)
  BY <1>2 DEF UserRollback, Allowed, RollBackTo
<1>3. QED
  BY <1>1, <1>2 DEF UserSavepoints

LEMMA ChainNext ==
  ASSUME NEW o, Alias = {o}, Typed, Uncommitted(o), Chain(o), [Next]_vars
  PROVE  Chain(o)'
<1>1. CASE Exiting
  BY <1>1, ExitingChain
<1>2. CASE Entering(o) \/ EnterClosed(o)
  BY <1>2, EnteringChain
<1>3. CASE Statements(o)
  <2>1. wrap'[o].open /\ lastSid' = lastSid
    BY <1>3, StatementEffect
  <2>2. CASE UNCHANGED <<db, work, failed, points>>
    BY <2>1, <2>2, ChainSame
  <2>3. CASE points' = <<>> /\ work' = db'
    BY <2>3, ChainFresh
  <2>4. CASE UNCHANGED <<db, failed, points>> /\ work[o] \subseteq work'[o] /\ ~failed
    BY <2>1, <2>4, ChainGrows
  <2>5. QED
    BY <1>3, <2>2, <2>3, <2>4, StatementEffect
<1>4. CASE Close(o)
  BY <1>4, ChainFresh DEF Close, Abort
<1>5. CASE Catch \/ UNCHANGED vars
  BY <1>5, ChainSame DEF Catch, vars
<1>6. CASE UserSavepoints(o)
  BY <1>6, UserEffect, ChainPoint, ChainSame, ChainBack
<1>7. QED
  BY <1>1, <1>2, <1>3, <1>4, <1>5, <1>6 DEF Next, BlockNext, Closing

-----------------------------------------------------------------------------
(* The blocks and their savepoints.                                        *)

(* A savepoint that the stack names is found again after a step that keeps *)
(* it, at whatever place.                                                  *)
Persist(o) ==
  \A i \in 1..Len(wrap[o].sids), j \in 1..Len(points) :
    points[j].sid = wrap[o].sids[i] =>
      \E l \in 1..Len(points') : points'[l] = points[j]

(* A rollback to a savepoint that is younger than those of the blocks      *)
(* keeps these.                                                            *)
LEMMA BackPersists ==
  ASSUME NEW o, Alias = {o}, Typed, Chain(o), NEW sid \in Sid,
         InsideBlocks(sid), Alive(sid), RollBackTo(sid)
  PROVE  Persist(o)
<1> DEFINE m == PointOf(sid)
<1>1. /\ m \in 1..Len(points) /\ points[m].sid = sid /\ Len(points') = m
      /\ \A l \in 1..m : points'[l] = points[l]
  BY BackTo
<1> HIDE DEF m
<1>2. ASSUME NEW i \in 1..Len(wrap[o].sids), NEW j \in 1..Len(points),
             points[j].sid = wrap[o].sids[i]
      PROVE  j \in 1..m
  <2>1. Len(points) \in Nat /\ points[j].sid \in Nat /\ points[m].sid \in Nat
    BY <1>1, OneAlias
  <2>2. points[j].sid < points[m].sid
    <3>1. wrap[o].sids[i] # NoSid
      BY <1>2, <2>1, BlockConstants
    <3>2. o \in Alias
      BY OneAlias
    <3>3. QED
      BY <1>1, <1>2, <3>1, <3>2 DEF InsideBlocks
  <2>3. m < j => points[m].sid < points[j].sid
    BY <1>1 DEF Chain, Points
  <2>4. QED
    BY <1>1, <2>1, <2>2, <2>3
<1>3. QED
  BY <1>1, <1>2 DEF Persist

(* A block that can be rolled back by itself found no more than what the   *)
(* connection shows.                                                       *)
LEMMA KeptBelow ==
  ASSUME NEW o, Alias = {o}, Typed, Uncommitted(o), Chain(o), Nested(o), InBlock(o), wrap[o].open,
         NEW i \in 1..Len(frames), Keeps(o, i)
  PROVE  frames[i].before \subseteq work[o]
<1>1. CASE i = 1
  BY <1>1 DEF Nested, Uncommitted, Chain
<1>2. CASE i # 1
  <2>1. i - 1 \in 1..Len(wrap[o].sids) /\ wrap[o].sids[i - 1] # NoSid /\ (i - 1) + 1 = i
    BY <1>2, OneAlias DEF InBlock, Keeps
  <2>2. \E j \in 1..Len(points) : points[j].image[o] = frames[(i - 1) + 1].before
    BY <2>1 DEF Nested, PointedAt
  <2>3. QED
    BY <2>1, <2>2 DEF Chain, Points
<1>3. QED
  BY <1>1, <1>2

(* The first block of all holds what is committed, and so do the others. *)
LEMMA CommittedBelow ==
  ASSUME NEW o, Alias = {o}, Typed, Uncommitted(o), Nested(o), InBlock(o),
         NEW i \in 1..Len(frames)
  PROVE  db[o] \subseteq frames[i].before /\ (i = 1 => frames[i].before = db[o])
<1>1. 1 \in 1..Len(frames) /\ (1 < i \/ i = 1)
  BY OneAlias
<1>2. frames[1].before = db[o]
  BY <1>1 DEF Nested, Uncommitted
<1>3. 1 < i => frames[1].before \subseteq frames[i].before
  BY <1>1 DEF Nested, Keeps
<1>4. QED
  BY <1>1, <1>2, <1>3

LEMMA StayNested ==
  ASSUME NEW o, Nested(o), frames' = frames, Persist(o),
         InBlock(o)' => /\ wrap'[o].sids = wrap[o].sids /\ wrap'[o].inAtomic = wrap[o].inAtomic
                        /\ wrap'[o].open => wrap[o].open
  PROVE  Nested(o)'
<1> SUFFICES ASSUME InBlock(o)'
             PROVE  Nested(o)'
  BY DEF Nested
<1>1. InBlock(o) /\ wrap'[o].sids = wrap[o].sids
  BY DEF InBlock
<1>2. ASSUME wrap'[o].open
      PROVE  PointedAt(o)'
  <2>1. PointedAt(o)
    BY <1>1, <1>2 DEF Nested
  <2>2. ASSUME NEW i \in 1..Len(wrap[o].sids), wrap[o].sids[i] # NoSid
        PROVE  \E l \in 1..Len(points') : /\ points'[l].sid = wrap[o].sids[i]
                                          /\ points'[l].image[o] = frames'[i + 1].before
    <3>1. PICK j \in 1..Len(points) : /\ points[j].sid = wrap[o].sids[i]
                                      /\ points[j].image[o] = frames[i + 1].before
      BY <2>1, <2>2 DEF PointedAt
    <3>2. PICK l \in 1..Len(points') : points'[l] = points[j]
      BY <3>1 DEF Persist
    <3>3. QED
      BY <3>1, <3>2
  <2>3. QED
    BY <1>1, <2>1, <2>2 DEF PointedAt
<1>3. QED
  BY <1>1, <1>2 DEF Nested, Keeps

(* The outermost block is entered. *)
LEMMA FirstNested ==
  ASSUME NEW o, Alias = {o}, Typed, Uncommitted(o), EnterOutermost(o)
  PROVE  Nested(o)'
<1>1. /\ wrap[o] \in Wrapper /\ wrap \in [Alias -> Wrapper] /\ o \in Alias
      /\ frames \in Seq(Frame) /\ Len(frames) \in Nat /\ Len(wrap[o].sids) \in Nat
  BY OneAlias
<1> DEFINE f == [alias |-> o, outer |-> TRUE, before |-> db[o]]
<1>2. frames' = Append(frames, f)
  BY DEF EnterOutermost, Push
<1>3. Len(frames') = Len(frames) + 1
  BY <1>1, <1>2
<1>4. wrap'[o].sids = Ensured(wrap[o]).sids
  <2>1. Ensured(wrap[o]) \in Wrapper
    BY <1>1, ConnectedSound DEF Ensured, Sound
  <2>2. QED
    BY <1>1, <2>1 DEF EnterOutermost, Wrapper
<1>5. Len(wrap'[o].sids) = Len(wrap[o].sids) \/ Len(wrap'[o].sids) = 0
  BY <1>4 DEF Ensured, Connected
<1>6. ASSUME InBlock(o)'
      PROVE  Len(frames) = 0 /\ Len(wrap'[o].sids) = 0
  <2>1. Len(frames) + 1 = Len(wrap'[o].sids) + 1
    BY <1>3, <1>6 DEF InBlock
  <2>2. frames # <<>> => Len(wrap[o].sids) + 1 <= Len(frames)
    BY DEF Uncommitted
  <2>3. frames = <<>> => Len(frames) = 0 /\ Len(wrap[o].sids) = 0
    BY DEF Uncommitted
  <2>4. frames # <<>> => Len(frames) # 0
    BY <1>1
  <2>5. QED
    BY <1>1, <1>5, <2>1, <2>2, <2>3, <2>4
<1>7. ASSUME InBlock(o)'
      PROVE  /\ Len(frames') = 1 /\ frames'[1].outer
             /\ \A i \in 1..Len(wrap'[o].sids) : FALSE
  <2>1. frames = <<>>
    BY <1>1, <1>6, <1>7
  <2>2. frames'[1] = f
    BY <1>2, <2>1
  <2>3. QED
    BY <1>3, <1>6, <1>7, <2>2
<1>8. ASSUME InBlock(o)'
      PROVE  \A i \in 1..Len(frames') : i = 1
  BY <1>7, <1>8
<1>9. QED
  BY <1>7, <1>8 DEF Nested, PointedAt

(* A block is entered without a savepoint where the wrapper was closed.    *)
LEMMA ClosedNested ==
  ASSUME NEW o, Alias = {o}, Typed, Uncommitted(o), Chain(o), Nested(o), ~wrap[o].open,
         Push(o, FALSE), wrap' = [wrap EXCEPT ![o].sids = Append(@, NoSid)]
  PROVE  Nested(o)'
<1> DEFINE n == Len(frames)
           f == [alias |-> o, outer |-> FALSE, before |-> work[o]]
<1>1. /\ wrap[o] \in Wrapper /\ wrap \in [Alias -> Wrapper] /\ o \in Alias
      /\ frames \in Seq(Frame) /\ n \in Nat /\ Len(wrap[o].sids) \in Nat
      /\ wrap[o].sids \in Seq(Sid \cup {NoSid})
  BY OneAlias
<1>2. frames' = Append(frames, f)
  BY DEF Push
<1>3. /\ Len(frames') = n + 1 /\ frames'[n + 1].before = work[o] /\ ~frames'[n + 1].outer
      /\ \A i \in 1..n : frames'[i] = frames[i]
      /\ \A i \in 1..(n + 1) : i \in 1..n \/ i = n + 1
  BY <1>1, <1>2
<1>4. /\ wrap'[o].sids = Append(wrap[o].sids, NoSid) /\ ~wrap'[o].open
      /\ wrap'[o].inAtomic = wrap[o].inAtomic
  BY <1>1 DEF Wrapper
<1> SUFFICES ASSUME InBlock(o)'
             PROVE  Nested(o)'
  BY DEF Nested
<1>5. InBlock(o) /\ n # 0
  <2>1. Len(wrap'[o].sids) = Len(wrap[o].sids) + 1
    BY <1>1, <1>4
  <2>2. QED
    BY <1>1, <1>3, <1>4, <2>1 DEF InBlock
<1>6. 1 \in 1..n /\ n + 1 # 1
  BY <1>1, <1>5
<1>7. /\ \A i \in 1..n : frames[i].outer <=> i = 1
      /\ \A j \in 1..n : 1 < j => frames[1].before \subseteq frames[j].before
  BY <1>5, <1>6 DEF Nested
<1>8. frames[1].before \subseteq work[o]
  BY <1>5, <1>6, CommittedBelow DEF Chain
<1>9. \A i \in 1..(n + 1) : frames'[i].outer <=> i = 1
  BY <1>3, <1>6, <1>7
<1>10. \A j \in 1..(n + 1) : 1 < j => frames'[1].before \subseteq frames'[j].before
  BY <1>3, <1>6, <1>7, <1>8
<1>11. QED
  BY <1>3, <1>4, <1>9, <1>10 DEF Nested

(* A block is entered inside others, with a savepoint or without.          *)
LEMMA PushNested ==
  ASSUME NEW o, Alias = {o}, Typed, Uncommitted(o), Chain(o), Nested(o),
         NEW t, wrap[o].inAtomic, wrap[o].open, Push(o, FALSE),
         wrap' = [wrap EXCEPT ![o].sids = Append(@, t)],
         \/ t = NoSid /\ UNCHANGED points
         \/ t = lastSid' /\ MakeSavepoint(o)
  PROVE  Nested(o)'
<1> DEFINE n == Len(frames)
           k == Len(wrap[o].sids)
           f == [alias |-> o, outer |-> FALSE, before |-> work[o]]
<1>1. /\ wrap[o] \in Wrapper /\ wrap \in [Alias -> Wrapper] /\ o \in Alias
      /\ frames \in Seq(Frame) /\ n \in Nat /\ k \in Nat /\ lastSid \in Nat
      /\ wrap[o].sids \in Seq(Sid \cup {NoSid})
      /\ \A i \in 1..Len(points) : points[i].sid \in Nat
      /\ Len(points) \in Nat
  BY OneAlias
<1>2. frames' = Append(frames, f)
  BY DEF Push
<1>3. /\ Len(frames') = n + 1 /\ frames'[n + 1].before = work[o] /\ ~frames'[n + 1].outer
      /\ \A i \in 1..n : frames'[i] = frames[i]
      /\ \A i \in 1..(n + 1) : i \in 1..n \/ i = n + 1
  BY <1>1, <1>2
<1>4. wrap'[o].sids = Append(wrap[o].sids, t) /\ wrap'[o].inAtomic
  BY <1>1 DEF Wrapper
<1>5. /\ Len(wrap'[o].sids) = k + 1 /\ wrap'[o].sids[k + 1] = t
      /\ \A i \in 1..k : wrap'[o].sids[i] = wrap[o].sids[i]
      /\ \A i \in 1..(k + 1) : i \in 1..k \/ i = k + 1
  BY <1>1, <1>4
<1> SUFFICES ASSUME InBlock(o)'
             PROVE  Nested(o)'
  BY DEF Nested
<1>6. n = k + 1 /\ InBlock(o)
  BY <1>1, <1>3, <1>5 DEF InBlock
<1>7. /\ \A i \in 1..n : frames[i].outer <=> i = 1
      /\ PointedAt(o)
      /\ \A i, j \in 1..n : i < j /\ Keeps(o, i) => frames[i].before \subseteq frames[j].before
  BY <1>6 DEF Nested
<1>8. \A i \in 1..(n + 1) : frames'[i].outer <=> i = 1
  BY <1>1, <1>3, <1>6, <1>7
<1>9. t # NoSid =>
        \E l \in 1..Len(points') : points'[l].sid = t /\ points'[l].image[o] = work[o]
  <2>1. CASE t = lastSid' /\ MakeSavepoint(o)
    <3>1. Len(points) + 1 \in 1..Len(points')
      BY <1>1, <2>1, NewPoint
    <3>2. QED
      BY <2>1, <3>1, NewPoint
  <2>2. QED
    BY <2>1
<1>10. Persist(o)
  <2>1. CASE MakeSavepoint(o)
    <3>1. \A j \in 1..Len(points) : j \in 1..Len(points') /\ points'[j] = points[j]
      BY <1>1, <2>1, NewPoint
    <3>2. QED
      BY <3>1 DEF Persist
  <2>2. CASE UNCHANGED points
    BY <2>2 DEF Persist
  <2>3. QED
    BY <2>1, <2>2
<1>11. \A i \in 1..k : wrap[o].sids[i] # NoSid /\ t # NoSid => wrap[o].sids[i] < t
  <2>1. ASSUME NEW i \in 1..k, wrap[o].sids[i] # NoSid, t # NoSid
        PROVE  wrap[o].sids[i] < t
    <3>1. PICK j \in 1..Len(points) : points[j].sid = wrap[o].sids[i]
      BY <1>7, <2>1 DEF PointedAt
    <3>2. points[j].sid <= lastSid /\ points[j].sid \in Nat
      BY <1>1 DEF Chain, Points
    <3>3. t = lastSid + 1
      BY <2>1, NewPoint
    <3>4. QED
      BY <1>1, <3>1, <3>2, <3>3
  <2>2. QED
    BY <2>1
<1>12. ASSUME NEW i \in 1..(k + 1), wrap'[o].sids[i] # NoSid
       PROVE  \E l \in 1..Len(points') : /\ points'[l].sid = wrap'[o].sids[i]
                                         /\ points'[l].image[o] = frames'[i + 1].before
  <2>1. CASE i = k + 1
    BY <1>3, <1>5, <1>6, <1>9, <1>12, <2>1
  <2>2. CASE i \in 1..k
    <3>1. wrap[o].sids[i] # NoSid /\ frames'[i + 1] = frames[i + 1]
      <4>1. i + 1 \in 1..n
        BY <1>1, <1>6, <2>2
      <4>2. frames'[i + 1] = frames[i + 1]
        BY <1>3, <4>1
      <4>3. wrap[o].sids[i] # NoSid
        BY <1>5, <1>12, <2>2
      <4>4. QED
        BY <4>2, <4>3
    <3>2. PICK j \in 1..Len(points) : /\ points[j].sid = wrap[o].sids[i]
                                      /\ points[j].image[o] = frames[i + 1].before
      BY <1>7, <2>2, <3>1 DEF PointedAt
    <3>3. PICK l \in 1..Len(points') : points'[l] = points[j]
      BY <1>10, <2>2, <3>2 DEF Persist
    <3>4. QED
      BY <1>5, <2>2, <3>1, <3>2, <3>3
  <2>3. QED
    BY <1>5, <2>1, <2>2
<1>13. ASSUME NEW i \in 1..(k + 1), NEW j \in 1..(k + 1), i < j,
              wrap'[o].sids[i] # NoSid, wrap'[o].sids[j] # NoSid
       PROVE  wrap'[o].sids[i] < wrap'[o].sids[j]
  <2>1. i \in 1..k
    BY <1>1, <1>13
  <2>2. CASE j \in 1..k
    BY <1>5, <1>7, <1>13, <2>1, <2>2 DEF PointedAt
  <2>3. CASE j = k + 1
    BY <1>5, <1>11, <1>13, <2>1, <2>3
  <2>4. QED
    BY <1>5, <2>2, <2>3
<1>14. PointedAt(o)'
  BY <1>5, <1>12, <1>13 DEF PointedAt
<1>15. \A i \in 1..n : Keeps(o, i)' => Keeps(o, i)
  <2>1. ASSUME NEW i \in 1..n, i # 1
        PROVE  wrap'[o].sids[i - 1] = wrap[o].sids[i - 1]
    <3>1. i - 1 \in 1..k
      BY <1>1, <1>6, <2>1
    <3>2. QED
      BY <1>5, <3>1
  <2>2. QED
    BY <2>1 DEF Keeps
<1>16. ASSUME NEW i \in 1..(n + 1), NEW j \in 1..(n + 1), i < j, Keeps(o, i)'
       PROVE  frames'[i].before \subseteq frames'[j].before
  <2>1. i \in 1..n /\ Keeps(o, i)
    <3>1. i \in 1..n
      BY <1>1, <1>16
    <3>2. QED
      BY <1>15, <1>16, <3>1
  <2>2. CASE j \in 1..n
    BY <1>3, <1>7, <1>16, <2>1, <2>2
  <2>3. CASE j = n + 1
    BY <1>3, <1>6, <2>1, <2>3, KeptBelow
  <2>4. QED
    BY <1>3, <2>2, <2>3
<1>17. \A i, j \in 1..(n + 1) :
         i < j /\ (i = 1 \/ Keeps(o, i)') => frames'[i].before \subseteq frames'[j].before
  BY <1>16 DEF Keeps
<1>18. QED
  BY <1>3, <1>8, <1>14, <1>17 DEF Nested

(* The savepoints under the one that an exit rolls back to stay. *)
LEMMA ExitPersists ==
  ASSUME NEW o, Alias = {o}, Typed, Uncommitted(o), Chain(o), Nested(o), Exiting,
         InBlock(o)', wrap[o].open,
         NEW i \in 1..(Len(wrap[o].sids) - 1), NEW j \in 1..Len(points),
         wrap[o].sids[i] # NoSid, points[j].sid = wrap[o].sids[i]
  PROVE  \E l \in 1..Len(points') : points'[l] = points[j]
<1> DEFINE k == Len(wrap[o].sids)
<1>1. /\ InBlock(o) /\ k # 0 /\ Exiting
  BY Exited
<1>2. /\ k \in Nat /\ Len(points) \in Nat /\ \A m \in 1..Len(points) : points[m].sid \in Nat
  BY OneAlias
<1>3. CASE UNCHANGED <<db, work, failed, points>>
  BY <1>3
<1>4. CASE \E sid : sid = LastSid(wrap[o]) /\ sid # NoSid /\ Alive(sid) /\ RollBackTo(sid)
  <2>1. PICK sid : sid = LastSid(wrap[o]) /\ sid # NoSid /\ Alive(sid) /\ RollBackTo(sid)
    BY <1>4
  <2>2. sid = wrap[o].sids[k]
    BY <2>1 DEF LastSid
  <2>3. i \in 1..k /\ k \in 1..k /\ i < k
    BY <1>1, <1>2
  <2>4. PointedAt(o)
    BY <1>1 DEF Nested
  <2>5. wrap[o].sids[i] < wrap[o].sids[k]
    BY <2>1, <2>2, <2>3, <2>4 DEF PointedAt
  <2> DEFINE m == PointOf(sid)
  <2>6. /\ m \in 1..Len(points) /\ points[m].sid = sid /\ Len(points') = m
        /\ \A l \in 1..m : points'[l] = points[l]
    BY <2>1, BackTo
  <2> HIDE DEF m
  <2>7. points[j].sid < points[m].sid
    BY <2>2, <2>5, <2>6
  <2>8. ~(m < j) /\ m # j
    <3>1. m < j => points[m].sid < points[j].sid
      BY <2>6 DEF Chain, Points
    <3>2. points[m].sid \in Nat /\ points[j].sid \in Nat
      BY <1>2, <2>6
    <3>3. QED
      BY <2>7, <3>1, <3>2
  <2>9. j \in 1..m
    BY <1>2, <2>6, <2>8
  <2>10. QED
    BY <2>6, <2>9
<1>5. CASE points' = <<>> /\ work' = db' /\ db' \in {db, work}
  <2>1. ~Popped(wrap[o]).inAtomic
    <3>1. PointedAt(o)
      BY <1>1 DEF Nested
    <3>2. points # <<>>
      BY <1>2
    <3>3. \/ ~ExitReleases /\ ~ExitMarks /\ ~ExitToSavepoint
          \/ points' = points
          \/ \E sid : Alive(sid) /\ RollBackTo(sid)
      BY DEF ExitReleases, ExitMarks, ExitToSavepoint
    <3>4. ~(points' = points)
      BY <1>5, <3>2
    <3>5. ~(\E sid : Alive(sid) /\ RollBackTo(sid))
      <4>1. ASSUME NEW sid, Alive(sid), RollBackTo(sid)
            PROVE  FALSE
        <5>1. Len(points') = PointOf(sid) /\ PointOf(sid) \in 1..Len(points)
          BY <4>1, BackTo
        <5>2. Len(points') = 0
          BY <1>5
        <5>3. QED
          BY <5>1, <5>2
      <4>2. QED
        BY <4>1
    <3>6. ExitCommits \/ ExitRollsBack
      BY <3>3, <3>4, <3>5 DEF Exiting
    <3>7. Top.alias = o
      BY Exited
    <3>8. QED
      BY <3>6, <3>7 DEF ExitCommits, ExitRollsBack
  <2>2. wrap[o].sids # <<>> /\ wrap[o].inAtomic /\ wrap[o] \in Wrapper
    BY <1>1, OneAlias DEF InBlock
  <2>3. QED
    BY <2>1, <2>2 DEF Popped, Wrapper
<1>6. QED
  BY <1>3, <1>4, <1>5, ExitEffect

LEMMA PopNested ==
  ASSUME NEW o, Alias = {o}, Typed, Uncommitted(o), Chain(o), Nested(o), Exiting
  PROVE  Nested(o)'
<1> DEFINE n == Len(frames)
           k == Len(wrap[o].sids)
<1> SUFFICES ASSUME InBlock(o)'
             PROVE  Nested(o)'
  BY DEF Nested
<1>1. /\ n \in Nat \ {0} /\ Len(frames') = n - 1 /\ k \in Nat \ {0}
      /\ \A i \in 1..(n - 1) : frames'[i] = frames[i]
      /\ InBlock(o) /\ n = k + 1
      /\ Len(wrap'[o].sids) = k - 1
      /\ \A i \in 1..(k - 1) : wrap'[o].sids[i] = wrap[o].sids[i]
      /\ wrap'[o].open = wrap[o].open
  BY Exited, OneAlias DEF InBlock
<1>2. /\ \A i \in 1..n : frames[i].outer <=> i = 1
      /\ wrap[o].open => PointedAt(o)
      /\ \A i, j \in 1..n : i < j /\ (i = 1 \/ (wrap[o].open /\ Keeps(o, i))) =>
           frames[i].before \subseteq frames[j].before
  BY <1>1 DEF Nested
<1>3. \A i \in 1..(n - 1) : i \in 1..n
  BY <1>1
<1>4. \A i \in 1..(n - 1) : frames'[i].outer <=> i = 1
  BY <1>1, <1>2, <1>3
<1>5. ASSUME wrap[o].open
      PROVE  PointedAt(o)'
  <2>1. ASSUME NEW i \in 1..(k - 1), wrap'[o].sids[i] # NoSid
        PROVE  \E l \in 1..Len(points') : /\ points'[l].sid = wrap'[o].sids[i]
                                          /\ points'[l].image[o] = frames'[i + 1].before
    <3>1. i \in 1..k /\ i + 1 \in 1..(n - 1)
      BY <1>1
    <3>2. wrap[o].sids[i] # NoSid /\ wrap'[o].sids[i] = wrap[o].sids[i]
      BY <1>1, <2>1
    <3>3. frames'[i + 1] = frames[i + 1]
      BY <1>1, <3>1
    <3>4. PICK j \in 1..Len(points) : /\ points[j].sid = wrap[o].sids[i]
                                      /\ points[j].image[o] = frames[i + 1].before
      BY <1>2, <1>5, <3>1, <3>2 DEF PointedAt
    <3>5. PICK l \in 1..Len(points') : points'[l] = points[j]
      BY <1>5, <3>2, <3>4, ExitPersists
    <3>6. QED
      BY <3>2, <3>3, <3>4, <3>5
  <2>2. ASSUME NEW i \in 1..(k - 1), NEW j \in 1..(k - 1), i < j,
               wrap'[o].sids[i] # NoSid, wrap'[o].sids[j] # NoSid
        PROVE  wrap'[o].sids[i] < wrap'[o].sids[j]
    <3>1. i \in 1..k /\ j \in 1..k
      BY <1>1
    <3>2. QED
      BY <1>1, <1>2, <1>5, <2>2, <3>1 DEF PointedAt
  <2>3. QED
    BY <1>1, <2>1, <2>2 DEF PointedAt
<1>6. \A i \in 1..(n - 1) : Keeps(o, i)' => Keeps(o, i)
  <2>1. ASSUME NEW i \in 1..(n - 1), i # 1
        PROVE  wrap'[o].sids[i - 1] = wrap[o].sids[i - 1]
    <3>1. i - 1 \in 1..(k - 1)
      BY <1>1, <2>1
    <3>2. QED
      BY <1>1, <3>1
  <2>2. QED
    BY <2>1 DEF Keeps
<1>7. \A i, j \in 1..(n - 1) :
        i < j /\ (i = 1 \/ (wrap'[o].open /\ Keeps(o, i)')) =>
          frames'[i].before \subseteq frames'[j].before
  BY <1>1, <1>2, <1>3, <1>6
<1>8. QED
  BY <1>1, <1>4, <1>5, <1>7 DEF Nested

LEMMA NestedNext ==
  ASSUME NEW o, Alias = {o}, Typed, Uncommitted(o), Chain(o), Nested(o), [Next]_vars
  PROVE  Nested(o)'
<1>1. /\ wrap[o] \in Wrapper /\ wrap \in [Alias -> Wrapper] /\ o \in Alias
      /\ Len(points) \in Nat
  BY OneAlias
<1>2. UNCHANGED points => Persist(o)
  BY DEF Persist
<1>3. CASE Exiting
  BY <1>3, PopNested
<1>4. CASE Entering(o)
  <2>1. CASE EnterOutermost(o)
    BY <2>1, FirstNested
  <2>2. CASE EnterSavepoint(o)
    BY <2>2, PushNested DEF EnterSavepoint, Allowed
  <2>3. CASE EnterRaises(o)
    BY <1>2, <2>3, StayNested DEF EnterRaises
  <2>4. CASE EnterPlain(o)
    BY <2>4, PushNested, ClosedNested DEF EnterPlain
  <2>5. QED
    BY <1>4, <2>1, <2>2, <2>3, <2>4 DEF Entering
<1>5. CASE EnterClosed(o)
  <2>1. ~wrap'[o].inAtomic
    BY <1>1, <1>5 DEF EnterClosed, Connected
  <2>2. QED
    BY <2>1 DEF Nested, InBlock
<1>6. CASE Statements(o)
  <2>1. InBlock(o)' => /\ wrap[o].open /\ wrap'[o].sids = wrap[o].sids
                       /\ wrap'[o].inAtomic = wrap[o].inAtomic
    BY <1>6, StatementEffect DEF InBlock
  <2>2. InBlock(o)' => UNCHANGED points
    BY <1>6, <2>1, StatementEffect DEF InBlock
  <2>3. frames' = frames
    BY <1>6, StatementEffect
  <2>4. InBlock(o)' => Nested(o)'
    BY <1>2, <2>1, <2>2, <2>3, StayNested
  <2>5. QED
    BY <2>4 DEF Nested
<1>7. CASE Close(o)
  <2>1. wrap'[o] = [wrap[o] EXCEPT !.open = FALSE] /\ frames' = frames
    BY <1>1, <1>7 DEF Close
  <2>2. ~wrap'[o].open /\ wrap'[o].sids = wrap[o].sids /\ wrap'[o].inAtomic = wrap[o].inAtomic
    BY <1>1, <2>1 DEF Wrapper
  <2>3. QED
    BY <2>1, <2>2 DEF Nested, InBlock, Keeps
<1>8. CASE Catch \/ UNCHANGED vars
  BY <1>2, <1>8, StayNested DEF Catch, vars
<1>9. CASE UserSavepoints(o)
  <2>1. UNCHANGED <<wrap, frames>>
    BY <1>9, UserEffect
  <2>2. Persist(o)
    <3>1. CASE MakeSavepoint(o)
      <4>1. \A j \in 1..Len(points) : j \in 1..Len(points') /\ points'[j] = points[j]
        BY <1>1, <3>1, NewPoint
      <4>2. QED
        BY <4>1 DEF Persist
    <3>2. QED
      BY <1>2, <1>9, <3>1, UserEffect, BackPersists
  <2>3. QED
    BY <2>1, <2>2, StayNested
<1>10. QED
  BY <1>3, <1>4, <1>5, <1>6, <1>7, <1>8, <1>9 DEF Next, BlockNext, Closing

-----------------------------------------------------------------------------
(* What is void.                                                           *)

(* A block with a savepoint of its own that is rolled back is undone as a  *)
(* whole, and nothing else is: the sid is known, its savepoint alive, and  *)
(* what it holds is what the block found.                                  *)
LEMMA RestoresTop ==
  ASSUME NEW o, Alias = {o}, Held(o), Exiting, InBlock(o), wrap[o].open,
         LastSid(wrap[o]) # NoSid, exc \/ wrap[o].needsRollback
  PROVE  work'[o] = Top.before /\ Keeps(o, Len(frames)) /\ db' = db
<1> DEFINE k == Len(wrap[o].sids)
           sid == LastSid(wrap[o])
<1>1. /\ wrap[o] \in Wrapper /\ o \in Alias /\ k \in Nat /\ Len(points) \in Nat
      /\ wrap[o].sids \in Seq(Sid \cup {NoSid})
      /\ Top.alias = o /\ Top = frames[Len(frames)]
  BY OneAlias, Exited DEF Held
<1>2. wrap[o].sids # <<>> /\ k # 0 /\ sid = wrap[o].sids[k] /\ k \in 1..k
  <2>1. wrap[o].sids # <<>> /\ sid = wrap[o].sids[k]
    BY DEF LastSid
  <2>2. QED
    BY <1>1, <2>1
<1>3. PointedAt(o) /\ Stacked(wrap[o], saved[o])
  BY <1>1 DEF Held, Nested, Handles
<1>4. PICK j \in 1..Len(points) : /\ points[j].sid = sid
                                  /\ points[j].image[o] = frames[k + 1].before
  BY <1>2, <1>3 DEF PointedAt
<1>5. Alive(sid) /\ sid \in saved[o]
  BY <1>2, <1>3, <1>4 DEF Alive, Stacked
<1>6. Popped(wrap[o]).inAtomic /\ Popped(wrap[o]).open
      /\ Popped(wrap[o]).needsRollback = wrap[o].needsRollback
  BY <1>1, <1>2 DEF Popped, Wrapper, InBlock
<1>7. ExitToSavepoint
  BY <1>1, <1>6 DEF Exiting, ExitCommits, ExitReleases, ExitRollsBack, ExitMarks
<1>8. RollBackTo(sid) /\ db' = db
  BY <1>1, <1>5, <1>7 DEF ExitToSavepoint, RollBackTo
<1>9. j = PointOf(sid) /\ work' = points[PointOf(sid)].image
  BY <1>4, <1>5, <1>8, BackTo DEF Held
<1>10. work'[o] = frames[k + 1].before
  BY <1>4, <1>9
<1>11. Len(frames) = k + 1 /\ Len(frames) - 1 = k
  BY <1>1 DEF InBlock
<1>12. QED
  BY <1>1, <1>2, <1>8, <1>10, <1>11 DEF Keeps

(* The blocks around the one that is left found less than it. *)
LEMMA PopKeepsClean ==
  ASSUME NEW o, Alias = {o}, Held(o), Exiting, InBlock(o)',
         NEW i \in 1..Len(frames'), Keeps(o, i)'
  PROVE  frames'[i].before \cap void' = {}
<1> DEFINE n == Len(frames)
           k == Len(wrap[o].sids)
<1>1. /\ n \in Nat \ {0} /\ Len(frames') = n - 1 /\ k \in Nat \ {0}
      /\ \A l \in 1..(n - 1) : frames'[l] = frames[l]
      /\ InBlock(o) /\ n = k + 1 /\ Top = frames[n]
      /\ \A l \in 1..(k - 1) : wrap'[o].sids[l] = wrap[o].sids[l]
      /\ void' \subseteq void \cup (work[o] \ Top.before)
  BY Exited, OneAlias DEF InBlock, Held
<1>2. i \in 1..n /\ n \in 1..n /\ i < n /\ frames'[i] = frames[i]
  BY <1>1
<1>3. Keeps(o, i)
  <2>1. i # 1 => i - 1 \in 1..(k - 1)
    BY <1>1, <1>2
  <2>2. QED
    BY <1>1, <2>1 DEF Keeps
<1>4. frames[i].before \cap void = {}
  BY <1>1, <1>2, <1>3 DEF Held, Clean
<1>5. CASE wrap[o].open
  <2>1. frames[i].before \subseteq Top.before
    BY <1>1, <1>2, <1>3, <1>5 DEF Held, Nested
  <2>2. QED
    BY <1>1, <1>2, <1>4, <2>1
<1>6. CASE ~wrap[o].open
  <2>1. work = db /\ db[o] \subseteq Top.before
    BY <1>1, <1>2, <1>6, CommittedBelow DEF Held, Chain
  <2>2. QED
    BY <1>1, <1>2, <1>4, <2>1
<1>7. QED
  BY <1>5, <1>6

LEMMA ExitingClean ==
  ASSUME NEW o, Alias = {o}, Held(o), Exiting
  PROVE  Clean(o)'
<1> DEFINE k == Len(wrap[o].sids)
           p == Popped(wrap[o])
<1>1. /\ wrap[o] \in Wrapper /\ wrap \in [Alias -> Wrapper] /\ o \in Alias /\ k \in Nat
      /\ wrap[o].sids \in Seq(Sid \cup {NoSid})
      /\ Top.alias = o /\ Top = frames[Len(frames)] /\ Len(frames) \in 1..Len(frames)
      /\ Len(frames) \in Nat /\ Len(frames') = Len(frames) - 1 /\ written' = written
      /\ void' = IF exc /\ InBlock(o) THEN void \cup (work[o] \ Top.before) ELSE void
  <2>1. /\ wrap[o] \in Wrapper /\ wrap \in [Alias -> Wrapper] /\ o \in Alias /\ k \in Nat
        /\ wrap[o].sids \in Seq(Sid \cup {NoSid})
    BY OneAlias DEF Held
  <2>2. Len(frames) \in Nat \ {0}
    BY Exited DEF Held
  <2>3. Len(frames) \in Nat /\ Len(frames) \in 1..Len(frames)
    BY <2>2
  <2>4. QED
    BY <2>1, <2>3, Exited DEF Held
<1>2. /\ void \subseteq written /\ work[o] \subseteq written /\ db[o] \cap void = {}
      /\ ~Marked(o) => work[o] \cap void = {}
      /\ db[o] \subseteq work[o]
      /\ ~wrap[o].open => work = db
  BY DEF Held, Clean, Chain
<1>3. void' \subseteq written'
  BY <1>1, <1>2
<1>4. db[o] \cap void' = {}
  <2>1. InBlock(o) => db[o] \subseteq Top.before
    BY <1>1, CommittedBelow DEF Held
  <2>2. QED
    BY <1>1, <1>2, <2>1
<1>5. /\ work'[o] \subseteq work[o] /\ db'[o] \in {db[o], work[o]}
  <2>1. CASE \E sid : Alive(sid) /\ RollBackTo(sid) /\ wrap[o].open
    <3>1. wrap'[o].open /\ lastSid' = lastSid
      BY <2>1, Exited DEF Held
    <3>2. QED
      BY <2>1, <3>1, ChainBack DEF Held, RollBackTo
  <2>2. QED
    BY <1>2, <2>1, ExitEffect DEF Held
<1>6. CASE ~Marked(o) /\ (~exc \/ ~InBlock(o))
  <2>1. void' = void /\ work[o] \cap void = {}
    BY <1>1, <1>2, <1>6
  <2>2. db'[o] \cap void' = {} /\ work'[o] \cap void' = {} /\ work'[o] \subseteq written'
    BY <1>1, <1>2, <1>5, <2>1
  <2>3. QED
    BY <1>3, <2>2, PopKeepsClean DEF Clean
<1>7. ASSUME InBlock(o), exc \/ wrap[o].needsRollback
      PROVE  db' = db /\ (~Marked(o)' => work'[o] \cap void' = {})
  <2>1. p.needsRollback = wrap[o].needsRollback /\ p.open = wrap[o].open
    BY <1>1 DEF Popped, Wrapper
  <2>2. CASE ExitRollsBack
    BY <1>4, <2>2 DEF ExitRollsBack, Abort
  <2>3. CASE ExitToSavepoint
    <3>1. wrap[o].open /\ LastSid(wrap[o]) # NoSid
      BY <1>1, <2>1, <2>3 DEF ExitToSavepoint
    <3>2. work'[o] = Top.before /\ Keeps(o, Len(frames)) /\ db' = db
      BY <1>7, <3>1, RestoresTop
    <3>3. Top.before \cap void = {}
      BY <1>1, <1>7, <3>2 DEF Held, Clean
    <3>4. QED
      BY <1>1, <3>2, <3>3
  <2>4. CASE ExitMarks
    <3>1. UNCHANGED <<db, work>>
      BY <2>4 DEF ExitMarks
    <3>2. CASE ~wrap[o].open
      BY <1>2, <1>4, <3>1, <3>2
    <3>3. CASE wrap[o].open
      <4>1. p.inAtomic /\ wrap' = [wrap EXCEPT ![o] = Left([p EXCEPT !.needsRollback = TRUE])]
        BY <1>1, <2>1, <2>4, <3>3 DEF ExitMarks, Leave
      <4>2. wrap[o].sids # <<>> /\ k # 0
        <5>1. wrap[o].sids # <<>>
          BY <1>1, <4>1 DEF Popped, Wrapper
        <5>2. QED
          BY <1>1, <5>1
      <4>3. /\ p \in Wrapper /\ Len(p.sids) = k - 1
        <5>1. p.sids \in Seq(Sid \cup {NoSid}) /\ Len(p.sids) = k - 1
          BY <1>1, <4>2, PoppedSids
        <5>2. QED
          BY <1>1, <5>1 DEF Popped, Wrapper
      <4>4. wrap'[o].needsRollback /\ wrap'[o].inAtomic /\ wrap'[o].sids = p.sids
        BY <1>1, <4>1, <4>3 DEF Left, Wrapper
      <4>5. Len(frames') = Len(wrap'[o].sids) + 1
        BY <1>1, <1>7, <4>2, <4>3, <4>4 DEF InBlock
      <4>6. QED
        BY <3>1, <4>4, <4>5 DEF Marked, InBlock
    <3>4. QED
      BY <3>2, <3>3
  <2>5. ~ExitCommits /\ ~ExitReleases
    BY <1>1, <1>7, <2>1 DEF ExitCommits, ExitReleases
  <2>6. QED
    BY <2>2, <2>3, <2>4, <2>5 DEF Exiting
<1>8. CASE InBlock(o) /\ (exc \/ wrap[o].needsRollback)
  <2>1. db'[o] \cap void' = {} /\ work'[o] \subseteq written'
    BY <1>1, <1>2, <1>4, <1>5, <1>7, <1>8
  <2>2. QED
    BY <1>3, <1>7, <1>8, <2>1, PopKeepsClean DEF Clean
<1>9. QED
  BY <1>6, <1>8 DEF Marked

(* A block is entered: what it finds is void only if it has no savepoint.  *)
LEMMA PushClean ==
  ASSUME NEW o, Alias = {o}, Held(o), Nested(o)', NEW outer \in BOOLEAN, NEW t,
         Push(o, outer), UNCHANGED <<db, work, written, void>>,
         ~Marked(o)' => ~Marked(o) \/ ~wrap[o].open,
         InBlock(o)' /\ ~outer => /\ InBlock(o)
                                  /\ wrap'[o].sids = Append(wrap[o].sids, t),
         t # NoSid => ~wrap[o].needsRollback
  PROVE  Clean(o)'
<1> DEFINE n == Len(frames)
           k == Len(wrap[o].sids)
           f == [alias |-> o, outer |-> outer, before |-> IF outer THEN db[o] ELSE work[o]]
<1>1. /\ frames \in Seq(Frame) /\ n \in Nat /\ k \in Nat
      /\ wrap[o].sids \in Seq(Sid \cup {NoSid})
  BY OneAlias DEF Held
<1>2. frames' = Append(frames, f) /\ f.outer = outer
  BY DEF Push
<1>3. /\ Len(frames') = n + 1 /\ frames'[n + 1] = f
      /\ \A i \in 1..n : frames'[i] = frames[i]
      /\ \A i \in 1..(n + 1) : i \in 1..n \/ i = n + 1
  BY <1>1, <1>2
<1>4. /\ void \subseteq written /\ work[o] \subseteq written /\ db[o] \cap void = {}
      /\ ~Marked(o) => work[o] \cap void = {}
      /\ ~wrap[o].open => work = db
  BY DEF Held, Clean, Chain
<1>5. ~Marked(o)' => work[o] \cap void = {}
  BY <1>4
<1>6. ASSUME InBlock(o)', outer, NEW i \in 1..(n + 1)
      PROVE  frames'[i].before \cap void = {}
  <2>1. n + 1 \in 1..(n + 1)
    BY <1>1
  <2>2. n + 1 = 1
    BY <1>2, <1>3, <1>6, <2>1 DEF Nested
  <2>3. i = n + 1
    BY <1>1, <1>6, <2>2
  <2>4. QED
    BY <1>3, <1>4, <1>6, <2>3
<1>7. ASSUME InBlock(o)', ~outer, NEW i \in 1..(n + 1), Keeps(o, i)'
      PROVE  frames'[i].before \cap void = {}
  <2>1. InBlock(o) /\ wrap'[o].sids = Append(wrap[o].sids, t) /\ n = k + 1
    BY <1>7 DEF InBlock
  <2>2. wrap'[o].sids[k + 1] = t /\ \A j \in 1..k : wrap'[o].sids[j] = wrap[o].sids[j]
    BY <1>1, <2>1
  <2>3. CASE i \in 1..n
    <3>1. i # 1 => i - 1 \in 1..k
      BY <1>1, <2>1, <2>3
    <3>2. Keeps(o, i)
      BY <1>7, <2>2, <3>1 DEF Keeps
    <3>3. QED
      BY <1>3, <2>1, <2>3, <3>2 DEF Held, Clean
  <2>4. CASE i = n + 1
    <3>1. i # 1 /\ i - 1 = k + 1
      BY <1>1, <2>1, <2>4
    <3>2. t # NoSid
      BY <1>7, <2>2, <3>1 DEF Keeps
    <3>3. work[o] \cap void = {}
      BY <1>4, <3>2 DEF Marked
    <3>4. QED
      BY <1>3, <1>7, <2>4, <3>3
  <2>5. QED
    BY <1>3, <2>3, <2>4
<1>8. QED
  BY <1>3, <1>4, <1>5, <1>6, <1>7 DEF Clean

LEMMA EnteringClean ==
  ASSUME NEW o, Alias = {o}, Held(o), Nested(o)', Entering(o) \/ EnterClosed(o)
  PROVE  Clean(o)'
<1>1. /\ wrap[o] \in Wrapper /\ wrap \in [Alias -> Wrapper] /\ o \in Alias
      /\ wrap[o].sids \in Seq(Sid \cup {NoSid}) /\ Len(wrap[o].sids) \in Nat
      /\ frames \in Seq(Frame) /\ Len(frames) \in Nat
  BY OneAlias DEF Held
<1>2. ASSUME Push(o, FALSE)
      PROVE  Len(frames') = Len(frames) + 1
  BY <1>1, <1>2 DEF Push
<1>3. CASE EnterOutermost(o)
  <2>1. ~Marked(o)
    BY <1>3 DEF EnterOutermost, Marked, InBlock
  <2>2. QED
    BY <1>3, <2>1, PushClean DEF EnterOutermost
<1>4. ASSUME NEW t, wrap[o].inAtomic, Push(o, FALSE), UNCHANGED <<db, work, written, void>>,
             wrap' = [wrap EXCEPT ![o].sids = Append(@, t)], t # NoSid => ~wrap[o].needsRollback
      PROVE  Clean(o)'
  <2>1. /\ wrap'[o].sids = Append(wrap[o].sids, t) /\ wrap'[o].inAtomic
        /\ wrap'[o].needsRollback = wrap[o].needsRollback
    BY <1>1, <1>4 DEF Wrapper
  <2>2. Len(wrap'[o].sids) = Len(wrap[o].sids) + 1
    BY <1>1, <2>1
  <2>3. InBlock(o)' <=> InBlock(o)
    BY <1>1, <1>2, <1>4, <2>1, <2>2 DEF InBlock
  <2>4. Marked(o)' <=> Marked(o)
    BY <2>1, <2>3 DEF Marked
  <2>5. QED
    BY <1>4, <2>1, <2>3, <2>4, PushClean
<1>5. CASE EnterSavepoint(o)
  BY <1>4, <1>5 DEF EnterSavepoint
<1>6. CASE EnterRaises(o)
  BY <1>6 DEF EnterRaises, Held, Clean, Marked, InBlock, Keeps
<1>7. CASE EnterPlain(o)
  BY <1>4, <1>7 DEF EnterPlain
<1>8. CASE EnterClosed(o)
  <2>1. ~wrap'[o].inAtomic
    BY <1>1, <1>8 DEF EnterClosed, Connected
  <2>2. ~InBlock(o)' /\ ~wrap[o].open
    BY <1>8, <2>1 DEF InBlock, EnterClosed
  <2>3. QED
    BY <1>8, <2>2, PushClean DEF EnterClosed
<1>9. QED
  BY <1>3, <1>5, <1>6, <1>7, <1>8 DEF Entering

(* The blocks stay, nothing more is void, and what the connection shows is *)
(* free of it where it was or is again what is committed.                  *)
LEMMA StayClean ==
  ASSUME NEW o, Held(o), UNCHANGED <<frames, void>>, written \subseteq written',
         InBlock(o)' => InBlock(o) /\ wrap'[o].sids = wrap[o].sids,
         work'[o] \subseteq written', db'[o] \cap void = {},
         ~Marked(o)' => work'[o] \cap void = {}
  PROVE  Clean(o)'
BY DEF Held, Clean, Keeps

LEMMA OthersClean ==
  ASSUME NEW o, Alias = {o}, Held(o),
         Statements(o) \/ Catch \/ Close(o) \/ UserSavepoints(o) \/ UNCHANGED vars
  PROVE  Clean(o)'
<1>1. /\ wrap[o] \in Wrapper /\ wrap \in [Alias -> Wrapper] /\ o \in Alias
  BY OneAlias DEF Held
<1>2. /\ void \subseteq written /\ work[o] \subseteq written /\ db[o] \cap void = {}
      /\ ~Marked(o) => work[o] \cap void = {}
      /\ db[o] \subseteq work[o]
      /\ ~wrap[o].open => work = db
  BY DEF Held, Clean, Chain
<1>3. CASE Statements(o)
  <2>1. /\ UNCHANGED <<frames, void>>
        /\ InBlock(o)' => /\ wrap[o].open /\ InBlock(o) /\ wrap'[o].sids = wrap[o].sids
        /\ Marked(o) /\ wrap[o].open => Marked(o)'
    BY <1>3, StatementEffect DEF InBlock, Marked, Held
  <2>2. ~Marked(o)' => work[o] \cap void = {}
    BY <1>2, <2>1
  <2>3. CASE UNCHANGED <<db, work, failed, points, written>>
    BY <1>2, <2>1, <2>2, <2>3, StayClean
  <2>4. ASSUME NEW w \in Write \ written, written' = written \cup {w},
               \/ UNCHANGED <<db, failed, points>> /\ work'[o] = work[o] \cup {w}
               \/ /\ work' = db' /\ (db' = db \/ db'[o] = work[o] \cup {w})
                  /\ ~wrap[o].open \/ ~wrap[o].inAtomic
        PROVE  Clean(o)'
    <3>1. w \notin void
      BY <1>2, <2>4
    <3>2. CASE UNCHANGED <<db, failed, points>> /\ work'[o] = work[o] \cup {w}
      BY <1>2, <2>1, <2>2, <2>4, <3>1, <3>2, StayClean
    <3>3. CASE /\ work' = db' /\ (db' = db \/ db'[o] = work[o] \cup {w})
               /\ ~wrap[o].open \/ ~wrap[o].inAtomic
      <4>1. work[o] \cap void = {}
        BY <1>2, <3>3 DEF Marked, InBlock
      <4>2. work'[o] \subseteq written' /\ work'[o] \cap void = {} /\ db'[o] \cap void = {}
        BY <1>2, <2>4, <3>1, <3>3, <4>1
      <4>3. QED
        BY <2>1, <2>4, <4>2, StayClean
    <3>4. QED
      BY <2>4, <3>2, <3>3
  <2>5. QED
    BY <1>3, <2>3, <2>4, StatementEffect DEF Held
<1>4. CASE Close(o)
  <2>1. wrap'[o] = [wrap[o] EXCEPT !.open = FALSE]
    BY <1>1, <1>4 DEF Close
  <2>2. wrap'[o].sids = wrap[o].sids /\ wrap'[o].inAtomic = wrap[o].inAtomic
    BY <1>1, <2>1 DEF Wrapper
  <2>3. UNCHANGED <<frames, void, written, db>> /\ work' = db
    BY <1>4 DEF Close, Abort
  <2>4. InBlock(o)' => InBlock(o)
    BY <2>2, <2>3 DEF InBlock
  <2>5. work'[o] \subseteq written' /\ work'[o] \cap void = {} /\ db'[o] \cap void = {}
    BY <1>2, <2>3
  <2>6. QED
    BY <2>2, <2>3, <2>4, <2>5, StayClean
<1>5. CASE Catch \/ UNCHANGED vars
  BY <1>5 DEF Catch, vars, Held, Clean, Marked, InBlock, Keeps
<1>6. CASE UserSavepoints(o)
  <2>1. /\ wrap[o].open /\ UNCHANGED <<db, wrap, frames, written, void>>
        /\ work'[o] \subseteq work[o]
    BY <1>6, UserEffect, ChainBack DEF Held
  <2>2. Marked(o)' <=> Marked(o)
    BY <2>1 DEF Marked, InBlock
  <2>3. InBlock(o)' => InBlock(o) /\ wrap'[o].sids = wrap[o].sids
    BY <2>1 DEF InBlock
  <2>4. QED
    BY <1>2, <2>1, <2>2, <2>3, StayClean
<1>7. QED
  BY <1>3, <1>4, <1>5, <1>6

-----------------------------------------------------------------------------
LEMMA HandlesInit == Init => Handles
BY DEF Init, Handles, Stacked, Connected

LEMMA HandlesNext ==
  ASSUME Typed, Handles, [Next]_vars
  PROVE  Handles'
<1>1. CASE Exiting
  BY <1>1, ExitingHandles
<1>2. CASE \E a \in Alias : Entering(a) \/ Statements(a) \/ Closing(a) \/ UserSavepoints(a)
  BY <1>2, EnteringHandles, OthersHandles DEF Closing
<1>3. CASE Catch \/ UNCHANGED vars
  BY <1>3 DEF Catch, vars, Handles, Stacked
<1>4. QED
  BY <1>1, <1>2, <1>3 DEF Next, BlockNext

LEMMA UncommittedNext ==
  ASSUME NEW o, Alias = {o}, Typed, Uncommitted(o), [Next]_vars
  PROVE  Uncommitted(o)'
<1>1. CASE Exiting
  BY <1>1, ExitingUncommitted
<1>2. CASE \E a \in Alias : Entering(a) \/ Statements(a) \/ Closing(a) \/ UserSavepoints(a)
  BY <1>2, EnteringUncommitted, OthersUncommitted DEF Closing
<1>3. CASE Catch \/ UNCHANGED vars
  BY <1>3, OthersUncommitted
<1>4. QED
  BY <1>1, <1>2, <1>3 DEF Next, BlockNext

LEMMA HeldInit ==
  ASSUME NEW o, Alias = {o}, Init
  PROVE  Held(o)
<1>1. Typed /\ Handles
  BY TypedInit, HandlesInit
<1>2. ~wrap[o].inAtomic /\ wrap[o].sids = <<>>
  BY DEF Init, Connected
<1>3. db[o] = {} /\ work[o] = {} /\ work = db /\ void = {} /\ points = <<>> /\ frames = <<>>
  BY DEF Init
<1>4. Uncommitted(o) /\ Nested(o)
  BY <1>2, <1>3 DEF Uncommitted, Nested, InBlock
<1>5. Chain(o)
  BY <1>3 DEF Chain, Points
<1>6. Clean(o)
  BY <1>2, <1>3 DEF Clean, InBlock
<1>7. QED
  BY <1>1, <1>4, <1>5, <1>6 DEF Held

LEMMA HeldNext ==
  ASSUME NEW o, Alias = {o}, Held(o), [Next]_vars
  PROVE  Held(o)'
<1>1. Typed' /\ Handles' /\ Uncommitted(o)'
  BY TypedNext, HandlesNext, UncommittedNext DEF Held
<1>2. Chain(o)' /\ Nested(o)'
  BY ChainNext, NestedNext DEF Held
<1>3. Clean(o)'
  <2>1. CASE Exiting
    BY <2>1, ExitingClean
  <2>2. CASE Entering(o) \/ EnterClosed(o)
    BY <1>2, <2>2, EnteringClean
  <2>3. CASE Statements(o) \/ Catch \/ Close(o) \/ UserSavepoints(o) \/ UNCHANGED vars
    BY <2>3, OthersClean
  <2>4. QED
    BY <2>1, <2>2, <2>3 DEF Next, BlockNext, Closing
<1>4. QED
  BY <1>1, <1>2, <1>3 DEF Held

(* What was done in a block that an exception left is never committed, how *)
(* ever deep the blocks are nested, whichever of them have savepoints, and *)
(* whether the exception is caught inside or outside of the others: the    *)
(* flag that a block without a savepoint leaves behind reaches one that    *)
(* undoes it.                                                              *)
THEOREM WhatIsVoidIsNeverStored ==
  ASSUME NEW o, Alias = {o}
  PROVE  Spec => []VoidNeverStored
<1>1. Init => Held(o)
  BY HeldInit
<1>2. Held(o) /\ [Next]_vars => Held(o)'
  BY HeldNext
<1>3. Held(o) => VoidNeverStored
  BY DEF Held, Clean, VoidNeverStored
<1>4. QED
  BY <1>1, <1>2, <1>3, PTL DEF Spec

(* Only an exit makes frames shorter. *)
LEMMA ShorterIsExit ==
  ASSUME NEW o, Alias = {o}, Typed, [Next]_vars, Len(frames') < Len(frames)
  PROVE  Exiting
<1>1. frames \in Seq(Frame) /\ Len(frames) \in Nat
  BY OneAlias
<1>2. frames' # frames
  BY <1>1
<1>3. CASE \E outer \in BOOLEAN : Push(o, outer)
  BY <1>1, <1>3 DEF Push
<1>4. CASE Entering(o) \/ EnterClosed(o)
  BY <1>2, <1>3, <1>4 DEF Entering, EnterOutermost, EnterSavepoint, EnterRaises, EnterPlain,
     EnterClosed
<1>5. ~(Statements(o) \/ Catch \/ Close(o) \/ UserSavepoints(o) \/ UNCHANGED vars)
  BY <1>2 DEF Statements, Statement, StatementBreaks, StatementRefused, Catch, Close,
     UserSavepoints, UserSavepoint, UserRollback, vars
<1>6. QED
  BY <1>4, <1>5 DEF Next, BlockNext, Closing

LEMMA ExitGivesBack ==
  ASSUME NEW o, Alias = {o}, Held(o), Exiting, InStep(o), wrap[o].open,
         exc \/ wrap[o].needsRollback, Top.outer \/ LastSid(wrap[o]) # NoSid
  PROVE  work'[o] = Top.before
<1>1. /\ wrap[o] \in Wrapper /\ Len(wrap[o].sids) \in Nat
      /\ wrap[o].sids \in Seq(Sid \cup {NoSid}) /\ frames \in Seq(Frame)
      /\ Top.alias = o /\ Top = frames[Len(frames)]
  BY OneAlias, Exited DEF Held
<1>2. InBlock(o)
  BY <1>1, AllFrames DEF InStep, InBlock
<1>3. CASE LastSid(wrap[o]) # NoSid
  BY <1>2, <1>3, RestoresTop
<1>4. CASE Top.outer /\ LastSid(wrap[o]) = NoSid
  <2>1. Len(frames) \in 1..Len(frames)
    <3>1. Len(frames) \in Nat \ {0}
      BY Exited DEF Held
    <3>2. QED
      BY <3>1
  <2>2. Len(frames) = 1 /\ Top.before = db[o]
    BY <1>1, <1>2, <1>4, <2>1, CommittedBelow DEF Held, Nested
  <2>3. wrap[o].sids = <<>>
    <3>1. Len(wrap[o].sids) = 0
      <4>1. Len(frames) = Len(wrap[o].sids) + 1 /\ Len(frames) = 1
        BY <1>2, <2>2 DEF InBlock
      <4>2. Len(wrap[o].sids) \in Nat /\ \A m \in Nat : m + 1 = 1 => m = 0
        BY <1>1
      <4>3. QED
        BY <4>1, <4>2
    <3>2. \A q \in Seq(Sid \cup {NoSid}) : Len(q) = 0 => q = <<>>
      OBVIOUS
    <3>3. QED
      BY <1>1, <3>1, <3>2
  <2>4. ~Popped(wrap[o]).inAtomic /\ Popped(wrap[o]).needsRollback = wrap[o].needsRollback
    BY <1>1, <2>3 DEF Popped, Wrapper
  <2>5. ExitRollsBack
    BY <1>1, <2>4 DEF Exiting, ExitCommits, ExitReleases, ExitToSavepoint, ExitMarks
  <2>6. QED
    BY <2>2, <2>5 DEF ExitRollsBack, Abort
<1>5. QED
  BY <1>3, <1>4

(* A block that can be rolled back by itself and is leaves exactly what it *)
(* found: the savepoint its stack names is still alive, it is the right    *)
(* one, and no statement inside the block, no savepoint of the application *)
(* and no inner block has moved it.                                        *)
THEOREM RollbackRestores ==
  ASSUME NEW o, Alias = {o}
  PROVE  Spec => ExitRestores
<1> DEFINE Restores ==
      Len(frames') < Len(frames) =>
        LET a == Top.alias IN
        (/\ exc \/ wrap[a].needsRollback
         /\ wrap[a].open /\ InStep(a)
         /\ Top.outer \/ LastSid(wrap[a]) # NoSid)
          => work'[a] = Top.before
<1>1. Init => Held(o)
  BY HeldInit
<1>2. Held(o) /\ [Next]_vars => Held(o)'
  BY HeldNext
<1>3. Held(o) /\ [Next]_vars => [Restores]_vars
  <2> SUFFICES ASSUME Held(o), [Next]_vars, Len(frames') < Len(frames)
               PROVE  LET a == Top.alias IN
                      (/\ exc \/ wrap[a].needsRollback
                       /\ wrap[a].open /\ InStep(a)
                       /\ Top.outer \/ LastSid(wrap[a]) # NoSid)
                        => work'[a] = Top.before
    OBVIOUS
  <2>1. Exiting
    BY ShorterIsExit DEF Held
  <2>2. Top.alias = o
    BY <2>1, Exited DEF Held
  <2>3. QED
    BY <2>1, <2>2, ExitGivesBack
<1>4. QED
  BY <1>1, <1>2, <1>3, PTL DEF Spec, ExitRestores
==============================================================================
