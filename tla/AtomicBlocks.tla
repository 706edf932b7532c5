---------------------------- MODULE AtomicBlocks -----------------------------
(***************************************************************************)
(* atomic() blocks of one thread over the DatabaseWrappers of one or more  *)
(* database aliases.  Django's Atomic keeps its flags in the wrapper; the  *)
(* wrapper maps them onto the transaction package, whose one transaction   *)
(* per thread all aliases share.                                           *)
(*                                                                         *)
(* A write is a token.  Other threads are seen only through the commits    *)
(* they make conflict, and TableStore says when those do.                  *)
(***************************************************************************)
EXTENDS Naturals, Sequences, FiniteSets

CONSTANTS
  Alias,      \* database aliases the thread uses
  Write,      \* writes, each made at most once
  MaxDepth,   \* bound: how deep blocks nest
  MaxSid,     \* bound: how many savepoints are ever made
  NoSid       \* None on the savepoint stack

ASSUME BlockConstants ==
  /\ MaxDepth \in Nat /\ MaxSid \in Nat
  /\ NoSid \notin Nat

Sid   == 1..MaxSid
Image == [Alias -> SUBSET Write]    \* what the aliases hold

VARIABLES
  db,       \* db[a]: the writes committed to alias a
  work,     \* work[a]: the writes the thread's connection to a shows
  failed,   \* the thread's transaction is COMMITFAILED
  points,   \* the transaction's savepoints that can be rolled back to
  wrap,     \* wrap[a]: the DatabaseWrapper
  saved,    \* saved[a]: the keys of wrapper a's _zodb_savepoints
  frames,   \* the with-blocks the thread is in, of all aliases
  exc,      \* an exception is propagating
  written,  \* the writes made so far
  lastSid,  \* savepoint_state: how many savepoints were made
  void      \* for the properties only: what blocks left by an exception wrote

vars == <<db, work, failed, points, wrap, saved, frames, exc, written, lastSid, void>>

(* The fields of BaseDatabaseWrapper that atomic() lives in. *)
Wrapper == [open          : BOOLEAN,
            autocommit    : BOOLEAN,
            inAtomic      : BOOLEAN,
            needsRollback : BOOLEAN,
            sids          : Seq(Sid \cup {NoSid})]

(* An open with-block: its alias and, for the properties only, whether it  *)
(* is the outermost of the alias, and what there was when it was entered.  *)
Frame == [alias : Alias, outer : BOOLEAN, before : SUBSET Write]

FramesOf(a) == {i \in 1..Len(frames) : frames[i].alias = a}

(* The wrapper knows every block of its alias that the thread is in.  It   *)
(* does not where it was closed inside one and connected again.            *)
InStep(a) == wrap[a].inAtomic /\ Cardinality(FramesOf(a)) = Len(wrap[a].sids) + 1

TypeOK ==
  /\ db \in Image /\ work \in Image
  /\ failed \in BOOLEAN
  /\ points \in Seq([alias : Alias, sid : Sid, image : Image])
  /\ wrap \in [Alias -> Wrapper]
  /\ saved \in [Alias -> SUBSET Sid]
  /\ frames \in Seq(Frame) /\ Len(frames) <= MaxDepth
  /\ exc \in BOOLEAN
  /\ written \subseteq Write
  /\ lastSid \in 0..MaxSid
  /\ void \subseteq Write
  /\ \A a \in Alias : Len(wrap[a].sids) <= Cardinality(FramesOf(a))

(* connect(): a wrapper starts, or starts again, outside any block. *)
Connected == [open |-> TRUE, autocommit |-> TRUE, inAtomic |-> FALSE,
              needsRollback |-> FALSE, sids |-> <<>>]

Init ==
  /\ db = [a \in Alias |-> {}]
  /\ work = [a \in Alias |-> {}]
  /\ failed = FALSE
  /\ points = <<>>
  /\ wrap = [a \in Alias |-> [Connected EXCEPT !.open = FALSE]]
  /\ saved = [a \in Alias |-> {}]
  /\ frames = <<>>
  /\ exc = FALSE
  /\ written = {}
  /\ lastSid = 0
  /\ void = {}

-----------------------------------------------------------------------------
(* The thread's transaction.  Its commit takes every alias's changes.      *)

CommitGoesThrough(image) ==
  /\ ~failed
  /\ db' = image /\ work' = image
  /\ points' = <<>>
  /\ UNCHANGED failed

(* ConflictError: the connections drop their changes; the transaction      *)
(* stays with the thread.                                                  *)
CommitConflicts(image) ==
  /\ ~failed /\ image # db
  /\ work' = db
  /\ points' = <<>>
  /\ failed' = TRUE
  /\ UNCHANGED db

(* Mutant of Abort: an abort leaves a COMMITFAILED transaction in place. *)
AbortKeepsFailed ==
  /\ work' = IF failed THEN work ELSE db
  /\ points' = <<>>
  /\ UNCHANGED <<db, failed>>

Abort ==
  /\ work' = db
  /\ points' = <<>>
  /\ failed' = FALSE
  /\ UNCHANGED db

Alive(sid) == \E i \in 1..Len(points) : points[i].sid = sid
PointOf(sid) == CHOOSE i \in 1..Len(points) : points[i].sid = sid

(* sp.rollback(): later savepoints go with what was done since. *)
RollBackTo(sid) ==
  /\ work' = points[PointOf(sid)].image
  /\ points' = SubSeq(points, 1, PointOf(sid))
  /\ UNCHANGED <<db, failed>>

-----------------------------------------------------------------------------
(* DatabaseWrapper. *)

(* ensure_connection: connect() resets what atomic() keeps in the wrapper. *)
Ensured(s) == IF s.open THEN s ELSE Connected

(* BaseDatabaseWrapper._savepoint_allowed *)
Allowed(a) == wrap[a].open /\ ~wrap[a].autocommit

(* _savepoint: the transaction's savepoint is kept under a new sid. *)
MakeSavepoint(a) ==
  /\ ~failed /\ lastSid < MaxSid
  /\ lastSid' = lastSid + 1
  /\ points' = Append(points, [alias |-> a, sid |-> lastSid', image |-> work])
  /\ saved' = [saved EXCEPT ![a] = @ \cup {lastSid'}]

(* Mutant of ForgetSid: every savepoint of the wrapper is dropped. *)
ForgetSids(a, sid) == saved' = [saved EXCEPT ![a] = {}]

(* _savepoint_commit *)
ForgetSid(a, sid) == saved' = [saved EXCEPT ![a] = @ \ {sid}]

(* Mutant of Close: the wrapper is reset halfway. *)
CloseResets(a) ==
  /\ ~exc /\ wrap[a].open
  /\ Abort
  /\ wrap' = [wrap EXCEPT ![a].open = FALSE, ![a].autocommit = TRUE]
  /\ UNCHANGED <<saved, frames, exc, written, lastSid, void>>

(* _close and close(): nothing tells an enclosing block. *)
Close(a) ==
  /\ ~exc /\ wrap[a].open
  /\ Abort
  /\ wrap' = [wrap EXCEPT ![a].open = FALSE]
  /\ UNCHANGED <<saved, frames, exc, written, lastSid, void>>

-----------------------------------------------------------------------------
(* Atomic.__enter__ *)

Top == frames[Len(frames)]

Push(a, outer) ==
  frames' = Append(frames, [alias |-> a, outer |-> outer,
                            before |-> IF outer THEN db[a] ELSE work[a]])

(* The outermost block turns autocommit off; no transaction begins. *)
EnterOutermost(a) ==
  /\ ~exc /\ Len(frames) < MaxDepth
  /\ ~wrap[a].inAtomic
  /\ wrap' = [wrap EXCEPT ![a] = [Ensured(wrap[a]) EXCEPT !.autocommit = FALSE,
                                  !.inAtomic = TRUE, !.needsRollback = FALSE]]
  /\ Push(a, TRUE)
  /\ UNCHANGED <<db, work, failed, points, saved, exc, written, lastSid, void>>

(* A nested block makes a savepoint. *)
EnterSavepoint(a) ==
  /\ ~exc /\ Len(frames) < MaxDepth
  /\ wrap[a].inAtomic /\ Allowed(a) /\ ~wrap[a].needsRollback
  /\ MakeSavepoint(a)
  /\ wrap' = [wrap EXCEPT ![a].sids = Append(@, lastSid')]
  /\ Push(a, FALSE)
  /\ UNCHANGED <<db, work, failed, exc, written, void>>

(* transaction.savepoint() of a COMMITFAILED transaction raises. *)
EnterRaises(a) ==
  /\ ~exc /\ Len(frames) < MaxDepth
  /\ wrap[a].inAtomic /\ Allowed(a) /\ ~wrap[a].needsRollback
  /\ failed
  /\ exc' = TRUE
  /\ UNCHANGED <<db, work, failed, points, wrap, saved, frames, written, lastSid, void>>

(* A nested block without one: savepoint=False, or the block around it is  *)
(* to be rolled back.  Nothing asks whether the wrapper is open.           *)
EnterPlain(a) ==
  /\ ~exc /\ Len(frames) < MaxDepth
  /\ wrap[a].inAtomic
  /\ wrap' = [wrap EXCEPT ![a].sids = Append(@, NoSid)]
  /\ Push(a, FALSE)
  /\ UNCHANGED <<db, work, failed, points, saved, exc, written, lastSid, void>>

(* A nested block with savepoint=True, where the wrapper was closed inside *)
(* the block around it: asking for the savepoint connects again.           *)
EnterClosed(a) ==
  /\ ~exc /\ Len(frames) < MaxDepth
  /\ wrap[a].inAtomic /\ ~wrap[a].open /\ ~wrap[a].needsRollback
  /\ wrap' = [wrap EXCEPT ![a] = [Connected EXCEPT !.sids = <<NoSid>>]]
  /\ Push(a, FALSE)
  /\ UNCHANGED <<db, work, failed, points, saved, exc, written, lastSid, void>>

-----------------------------------------------------------------------------
(* Atomic.__exit__, of the innermost block.                                *)

LastSid(s) == IF s.sids = <<>> THEN NoSid ELSE s.sids[Len(s.sids)]

(* Mutant of Popped: the top of the stack is read and stays. *)
Peeked(s) == IF s.sids = <<>> THEN [s EXCEPT !.inAtomic = FALSE] ELSE s

(* The savepoint stack is popped; an empty one means the outermost block. *)
Popped(s) ==
  IF s.sids = <<>> THEN [s EXCEPT !.inAtomic = FALSE]
                   ELSE [s EXCEPT !.sids = SubSeq(@, 1, Len(@) - 1)]

(* The finally clause. *)
Left(s) == IF s.inAtomic THEN s ELSE [s EXCEPT !.autocommit = TRUE]

Leave(a, s) ==
  /\ frames' = SubSeq(frames, 1, Len(frames) - 1)
  /\ wrap' = [wrap EXCEPT ![a] = Left(s)]
  /\ void' = IF exc /\ InStep(a) THEN void \cup (work[a] \ Top.before) ELSE void
  /\ UNCHANGED <<written, lastSid>>

(* The outermost block ends well: commit().  Neither ConflictError nor     *)
(* TransactionFailedError is a DatabaseError, so nothing is rolled back.   *)
ExitCommits ==
  /\ frames # <<>> /\ ~exc
  /\ LET a == Top.alias  s == Popped(wrap[a]) IN
       /\ ~s.inAtomic /\ ~s.needsRollback
       /\ \/ CommitGoesThrough(work) /\ UNCHANGED exc
          \/ CommitConflicts(work) /\ exc' = TRUE
          \/ failed /\ exc' = TRUE /\ UNCHANGED <<db, work, failed, points>>
       /\ Leave(a, s)
  /\ UNCHANGED saved

(* A nested block ends well: its savepoint, if it has one, is released. *)
ExitReleases ==
  /\ frames # <<>> /\ ~exc
  /\ LET a == Top.alias  s == Popped(wrap[a]) IN
       /\ s.inAtomic /\ ~s.needsRollback
       /\ IF LastSid(wrap[a]) = NoSid
          THEN Leave(a, s) /\ UNCHANGED saved
          ELSE IF s.open
               THEN Leave(a, s) /\ ForgetSid(a, LastSid(wrap[a]))
               ELSE Leave(a, Connected) /\ UNCHANGED saved
  /\ UNCHANGED <<db, work, failed, points, exc>>

(* Mutant of ExitRollsBack: the flag of a failed inner block is ignored. *)
ExitIgnoresFlag ==
  /\ frames # <<>>
  /\ LET a == Top.alias  s == Popped(wrap[a]) IN
       /\ ~s.inAtomic /\ (exc \/ s.needsRollback)
       /\ IF exc THEN Abort ELSE CommitGoesThrough(work)
       /\ Leave(a, [s EXCEPT !.needsRollback = FALSE])
  /\ UNCHANGED <<saved, exc>>

(* The outermost block is left by an exception, or has to be rolled back   *)
(* for a nested one: rollback().                                           *)
ExitRollsBack ==
  /\ frames # <<>>
  /\ LET a == Top.alias  s == Popped(wrap[a]) IN
       /\ ~s.inAtomic /\ (exc \/ s.needsRollback)
       /\ Abort
       /\ Leave(a, [s EXCEPT !.needsRollback = FALSE])
  /\ UNCHANGED <<saved, exc>>

(* A nested block with a savepoint: _savepoint_rollback, which does        *)
(* nothing for a sid it does not know, and raises for one that is not      *)
(* alive any more.                                                         *)
ExitToSavepoint ==
  /\ frames # <<>>
  /\ LET a == Top.alias  s == Popped(wrap[a])  sid == LastSid(wrap[a]) IN
       /\ s.inAtomic /\ (exc \/ s.needsRollback)
       /\ sid # NoSid /\ s.open
       /\ IF sid \in saved[a] /\ Alive(sid)
          THEN RollBackTo(sid) /\ UNCHANGED exc
          ELSE /\ exc' = (exc \/ sid \in saved[a])
               /\ UNCHANGED <<db, work, failed, points>>
       /\ ForgetSid(a, sid)
       /\ Leave(a, [s EXCEPT !.needsRollback = FALSE])

(* A nested block without one leaves the rollback to the block around it;  *)
(* asking a closed wrapper for its savepoint connects it again.            *)
ExitMarks ==
  /\ frames # <<>>
  /\ LET a == Top.alias  s == Popped(wrap[a])  sid == LastSid(wrap[a]) IN
       /\ s.inAtomic /\ (exc \/ s.needsRollback)
       /\ \/ sid = NoSid /\ Leave(a, [s EXCEPT !.needsRollback = TRUE])
          \/ sid # NoSid /\ ~s.open /\ Leave(a, Connected)
  /\ UNCHANGED <<db, work, failed, points, saved, exc>>

(* The thread catches the exception. *)
Catch ==
  /\ exc
  /\ exc' = FALSE
  /\ UNCHANGED <<db, work, failed, points, wrap, saved, frames, written, lastSid, void>>

-----------------------------------------------------------------------------
(* Statements. *)

With(a, w) == [work EXCEPT ![a] = @ \cup {w}]

(* Mutant of Statement: it commits whatever the mode. *)
StatementCommits(a, w) ==
  /\ ~exc /\ w \notin written
  /\ wrap' = [wrap EXCEPT ![a] = Ensured(@)]
  /\ CommitGoesThrough(With(a, w))
  /\ written' = written \cup {w}
  /\ UNCHANGED <<exc, saved, frames, lastSid, void>>

(* A write; in autocommit mode _maybe_commit commits it. *)
Statement(a, w) ==
  /\ ~exc /\ w \notin written /\ ~failed
  /\ LET s == Ensured(wrap[a]) IN
       /\ wrap' = [wrap EXCEPT ![a] = s]
       /\ \/ /\ ~s.autocommit
             /\ work' = With(a, w)
             /\ UNCHANGED <<db, failed, points, exc>>
          \/ s.autocommit /\ CommitGoesThrough(With(a, w)) /\ UNCHANGED exc
          \/ s.autocommit /\ CommitConflicts(With(a, w)) /\ exc' = TRUE
  /\ written' = written \cup {w}
  /\ UNCHANGED <<saved, frames, lastSid, void>>

(* mark_for_rollback_on_error, which save() and update() use: the block    *)
(* around them is to be rolled back.                                       *)
Marking(s, mark) == [s EXCEPT !.needsRollback = @ \/ (mark /\ s.inAtomic)]

(* The statement raises after part of its work: no commit, no undo.        *)
StatementBreaks(a, w, mark) ==
  /\ ~exc /\ w \notin written /\ ~failed
  /\ wrap' = [wrap EXCEPT ![a] = Marking(Ensured(@), mark)]
  /\ work' = With(a, w)
  /\ exc' = TRUE
  /\ written' = written \cup {w}
  /\ UNCHANGED <<db, failed, points, saved, frames, lastSid, void>>

(* A write in a COMMITFAILED transaction: TransactionFailedError. *)
StatementRefused(a, mark) ==
  /\ ~exc /\ failed
  /\ wrap' = [wrap EXCEPT ![a] = Marking(Ensured(@), mark)]
  /\ exc' = TRUE
  /\ UNCHANGED <<db, work, failed, points, saved, frames, written, lastSid, void>>

(* transaction.savepoint(), called by the application. *)
UserSavepoint(a) ==
  /\ ~exc /\ frames # <<>> /\ Top.alias = a /\ Allowed(a)
  /\ MakeSavepoint(a)
  /\ UNCHANGED <<db, work, failed, wrap, frames, exc, written, void>>

(* The savepoints of the blocks are all older than sid. *)
InsideBlocks(sid) ==
  \A b \in Alias : \A i \in 1..Len(wrap[b].sids) :
    wrap[b].sids[i] # NoSid => wrap[b].sids[i] < sid

(* savepoint_rollback(sid) of any savepoint that the application made in   *)
(* the blocks it is in, and still has: it raises if the savepoint is gone, *)
(* with its transaction or by a rollback to an earlier one.                *)
UserRollback(a, sid) ==
  /\ ~exc /\ frames # <<>> /\ Top.alias = a /\ Allowed(a)
  /\ sid \in saved[a] /\ InsideBlocks(sid)
  /\ IF Alive(sid) THEN RollBackTo(sid) /\ UNCHANGED exc
                   ELSE exc' = TRUE /\ UNCHANGED <<db, work, failed, points>>
  /\ ForgetSid(a, sid)
  /\ UNCHANGED <<wrap, frames, written, lastSid, void>>

-----------------------------------------------------------------------------
Entering(a) ==
  \/ EnterOutermost(a) \/ EnterSavepoint(a) \/ EnterRaises(a)
  \/ EnterPlain(a)

Exiting ==
  ExitCommits \/ ExitReleases \/ ExitRollsBack \/ ExitToSavepoint \/ ExitMarks

Statements(a) ==
  \/ \E w \in Write : Statement(a, w) \/ \E mark \in BOOLEAN : StatementBreaks(a, w, mark)
  \/ \E mark \in BOOLEAN : StatementRefused(a, mark)

Closing(a) == Close(a) \/ EnterClosed(a)
UserSavepoints(a) == UserSavepoint(a) \/ \E sid \in Sid : UserRollback(a, sid)

(* What atomic() and the ORM do by themselves. *)
BlockNext == Exiting \/ Catch \/ \E a \in Alias : Entering(a) \/ Statements(a)
BlockSpec == Init /\ [][BlockNext]_vars

(* With close() and savepoints of the application's own. *)
Next == BlockNext \/ \E a \in Alias : Closing(a) \/ UserSavepoints(a)
Spec == Init /\ [][Next]_vars

(* A thread that retries: every block it enters writes, and an exception   *)
(* leaves all of them.  It goes on.                                        *)
RetryNext ==
  \/ (ExitCommits \/ ExitReleases) /\ work[Top.alias] # Top.before
  \/ ExitRollsBack \/ ExitToSavepoint \/ ExitMarks
  \/ Catch /\ frames = <<>>
  \/ \E a \in Alias : Entering(a)
  \/ \E a \in Alias : frames # <<>> /\ Statements(a)
RetrySpec == Init /\ [][RetryNext]_vars /\ WF_vars(RetryNext)

-----------------------------------------------------------------------------
(* While a block is open, nothing is committed to its alias: statements    *)
(* "commit only when not inside a Django atomic block".                    *)
NothingEarly ==
  \A i \in 1..Len(frames) :
    frames[i].outer /\ InStep(frames[i].alias) => db[frames[i].alias] = frames[i].before

(* What was done in a block that an exception left is never committed,     *)
(* however deep it was, and also where the block had no savepoint and      *)
(* leaves its rollback to a block around it that ends well.                *)
VoidNeverStored == \A a \in Alias : db[a] \cap void = {}

(* A block that can be rolled back and is leaves what it found: neither    *)
(* less than it did is undone, nor more, except where the wrapper was      *)
(* closed inside it.                                                       *)
ExitRestores ==
  [][Len(frames') < Len(frames) =>
       LET a == Top.alias IN
       (/\ exc \/ wrap[a].needsRollback
        /\ wrap[a].open /\ InStep(a)
        /\ Top.outer \/ LastSid(wrap[a]) # NoSid)
         => work'[a] = Top.before]_vars

(* The savepoint of every open block can be found by its sid, whatever     *)
(* the blocks, the application and other aliases did in the meantime.      *)
StackHandles ==
  \A a \in Alias : \A i \in 1..Len(wrap[a].sids) :
    wrap[a].sids[i] # NoSid => wrap[a].sids[i] \in saved[a]

(* autocommit, which _maybe_commit asks, and in_atomic_block, which Atomic *)
(* asks, never disagree, also when close() comes between.                  *)
FlagsAgree == \A a \in Alias : wrap[a].autocommit <=> ~wrap[a].inAtomic

(* A COMMITFAILED transaction does not stay: a thread that retries its     *)
(* blocks can commit again.                                                *)
FailureEnds == failed ~> ~failed
==============================================================================
