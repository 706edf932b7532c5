------------------------- MODULE AtomicBlocks_proofs --------------------------
(***************************************************************************)
(* Proofs about AtomicBlocks, for any aliases, any writes and any depth.   *)
(***************************************************************************)
EXTENDS AtomicBlocks, FiniteSetTheorems, SequenceTheorems, TLAPS

-----------------------------------------------------------------------------
(* Every step that touches a wrapper gives it either fresh flags, those of *)
(* connect(), or changes the two of them together.                         *)
Agrees(s) == s.autocommit <=> ~s.inAtomic
Sound(s) == s \in Wrapper /\ Agrees(s)

Inv ==
  /\ wrap \in [Alias -> Wrapper]
  /\ lastSid \in 0..MaxSid
  /\ FlagsAgree

LEMMA SoundWrappers ==
  ASSUME Inv
  PROVE  \A a \in Alias : Sound(wrap[a])
BY DEF Inv, FlagsAgree, Sound, Agrees

(* One wrapper changes, or none: the step keeps the invariant where what   *)
(* the wrapper becomes is sound.                                           *)
LEMMA OneWrapper ==
  ASSUME Inv, NEW a, NEW s, a \in Alias => Sound(s),
         wrap' = [wrap EXCEPT ![a] = s], lastSid' \in 0..MaxSid
  PROVE  Inv'
BY DEF Inv, FlagsAgree, Sound, Agrees

LEMMA NoWrapper ==
  ASSUME Inv, wrap' = wrap, lastSid' \in 0..MaxSid
  PROVE  Inv'
BY DEF Inv, FlagsAgree

LEMMA ConnectedSound == Sound(Connected)
<1>1. Connected.sids \in Seq(Sid \cup {NoSid})
  BY DEF Connected
<1>2. Connected \in Wrapper
  BY <1>1 DEF Connected, Wrapper
<1>3. Agrees(Connected)
  BY DEF Connected, Agrees
<1>4. QED
  BY <1>2, <1>3 DEF Sound

LEMMA EnsuredSound ==
  ASSUME NEW s, Sound(s)
  PROVE  Sound(Ensured(s))
BY ConnectedSound DEF Ensured

(* Popping a stack of savepoints, and leaving its block. *)
LEMMA LeftSound ==
  ASSUME NEW s, Sound(s), NEW flag \in BOOLEAN
  PROVE  /\ Sound(Left(Popped(s)))
         /\ Sound(Left([Popped(s) EXCEPT !.needsRollback = flag]))
<1> DEFINE p == Popped(s)
<1>1. p \in Wrapper /\ p.autocommit = s.autocommit
  <2>1. CASE s.sids = <<>>
    BY <2>1 DEF Popped, Sound, Wrapper
  <2>2. CASE s.sids # <<>>
    <3>1. s.sids \in Seq(Sid \cup {NoSid}) /\ Len(s.sids) \in Nat \ {0}
      BY <2>2 DEF Sound, Wrapper
    <3>2. SubSeq(s.sids, 1, Len(s.sids) - 1) \in Seq(Sid \cup {NoSid})
      BY <3>1
    <3>3. QED
      BY <2>2, <3>2 DEF Popped, Sound, Wrapper
  <2>3. QED
    BY <2>1, <2>2
<1>2. p.inAtomic => Agrees(p)
  BY DEF Popped, Sound, Agrees, Wrapper
<1>3. ASSUME NEW q \in Wrapper, q.inAtomic => Agrees(q)
      PROVE  Sound(Left(q))
  BY <1>3 DEF Left, Sound, Agrees, Wrapper
<1>4. [p EXCEPT !.needsRollback = flag] \in Wrapper
  BY <1>1 DEF Wrapper
<1>5. [p EXCEPT !.needsRollback = flag].inAtomic => Agrees([p EXCEPT !.needsRollback = flag])
  BY <1>1, <1>2 DEF Agrees, Wrapper
<1>6. QED
  BY <1>1, <1>2, <1>3, <1>4, <1>5

-----------------------------------------------------------------------------
(* Steps. *)

LEMMA EnteringInv ==
  ASSUME Inv, NEW a \in Alias, Entering(a) \/ EnterClosed(a)
  PROVE  Inv'
<1>1. Sound(wrap[a])
  BY SoundWrappers
<1>2. CASE EnterOutermost(a)
  <2> DEFINE s == [Ensured(wrap[a]) EXCEPT !.autocommit = FALSE, !.inAtomic = TRUE,
                                           !.needsRollback = FALSE]
  <2>1. Sound(Ensured(wrap[a]))
    BY <1>1, EnsuredSound
  <2>2. s \in Wrapper /\ ~s.autocommit /\ s.inAtomic
    BY <2>1 DEF Sound, Wrapper
  <2>3. Sound(s)
    BY <2>2 DEF Sound, Agrees
  <2>4. wrap' = [wrap EXCEPT ![a] = s] /\ lastSid' \in 0..MaxSid
    BY <1>2 DEF EnterOutermost, Inv
  <2>5. QED
    BY <2>3, <2>4, OneWrapper
<1>3. CASE EnterSavepoint(a)
  <2> DEFINE s == [wrap[a] EXCEPT !.sids = Append(@, lastSid')]
  <2>1. lastSid' \in Sid
    <3>1. lastSid < MaxSid /\ lastSid' = lastSid + 1
      BY <1>3 DEF EnterSavepoint, MakeSavepoint
    <3>2. QED
      BY <3>1, BlockConstants DEF Inv, Sid
  <2>2. s \in Wrapper /\ s.autocommit = wrap[a].autocommit /\ s.inAtomic = wrap[a].inAtomic
    BY <1>1, <2>1 DEF Sound, Wrapper
  <2>3. Sound(s)
    BY <1>1, <2>2 DEF Sound, Agrees
  <2>4. wrap' = [wrap EXCEPT ![a] = s]
    BY <1>3 DEF EnterSavepoint
  <2>5. lastSid' \in 0..MaxSid
    BY <2>1, BlockConstants DEF Sid
  <2>6. QED
    BY <2>3, <2>4, <2>5, OneWrapper
<1>4. CASE EnterRaises(a)
  BY <1>4, NoWrapper DEF EnterRaises, Inv
<1>5. CASE EnterPlain(a)
  <2> DEFINE s == [wrap[a] EXCEPT !.sids = Append(@, NoSid)]
  <2>1. s \in Wrapper /\ s.autocommit = wrap[a].autocommit /\ s.inAtomic = wrap[a].inAtomic
    BY <1>1 DEF Sound, Wrapper
  <2>2. Sound(s)
    BY <1>1, <2>1 DEF Sound, Agrees
  <2>3. wrap' = [wrap EXCEPT ![a] = s] /\ lastSid' \in 0..MaxSid
    BY <1>5 DEF EnterPlain, Inv
  <2>4. QED
    BY <2>2, <2>3, OneWrapper
<1>6. CASE EnterClosed(a)
  <2> DEFINE s == [Connected EXCEPT !.sids = <<NoSid>>]
  <2>1. <<NoSid>> \in Seq(Sid \cup {NoSid})
    OBVIOUS
  <2>2. s \in Wrapper /\ s.autocommit = Connected.autocommit /\ s.inAtomic = Connected.inAtomic
    BY <2>1, ConnectedSound DEF Sound, Wrapper
  <2>3. Sound(s)
    BY <2>2, ConnectedSound DEF Sound, Agrees
  <2>4. wrap' = [wrap EXCEPT ![a] = s] /\ lastSid' \in 0..MaxSid
    BY <1>6 DEF EnterClosed, Inv
  <2>5. QED
    BY <2>3, <2>4, OneWrapper
<1>7. QED
  BY <1>2, <1>3, <1>4, <1>5, <1>6 DEF Entering

(* Every exit leaves its block with the stack popped, or connects again. *)
LEMMA ExitingInv ==
  ASSUME Inv, Exiting
  PROVE  Inv'
<1> DEFINE a == Top.alias
           p == Popped(wrap[a])
<1>1. lastSid' \in 0..MaxSid
  BY DEF Inv, Exiting, ExitCommits, ExitReleases, ExitRollsBack, ExitToSavepoint,
         ExitMarks, Leave
<1>2. PICK s : /\ s \in {p, Connected} \cup {[p EXCEPT !.needsRollback = f] : f \in BOOLEAN}
               /\ wrap' = [wrap EXCEPT ![a] = Left(s)]
  <2>1. CASE ExitCommits
    BY <2>1 DEF ExitCommits, Leave
  <2>2. CASE ExitReleases
    BY <2>2 DEF ExitReleases, Leave
  <2>3. CASE ExitRollsBack
    BY <2>3 DEF ExitRollsBack, Leave
  <2>4. CASE ExitToSavepoint
    BY <2>4 DEF ExitToSavepoint, Leave
  <2>5. CASE ExitMarks
    BY <2>5 DEF ExitMarks, Leave
  <2>6. QED
    BY <2>1, <2>2, <2>3, <2>4, <2>5 DEF Exiting
<1>3. ASSUME a \in Alias
      PROVE  Sound(Left(s))
  <2>1. Sound(wrap[a])
    BY <1>3, SoundWrappers
  <2>2. Sound(Left(Connected))
    BY ConnectedSound DEF Left, Connected, Sound, Agrees
  <2>3. QED
    BY <1>2, <2>1, <2>2, LeftSound
<1>4. QED
  BY <1>1, <1>2, <1>3, OneWrapper

LEMMA StatementsInv ==
  ASSUME Inv, NEW a \in Alias, Statements(a)
  PROVE  Inv'
<1> DEFINE e == Ensured(wrap[a])
<1>1. Sound(e)
  BY SoundWrappers, EnsuredSound
<1>2. lastSid' \in 0..MaxSid
  BY DEF Inv, Statements, Statement, StatementBreaks, StatementRefused
<1>3. CASE wrap' = [wrap EXCEPT ![a] = e]
  BY <1>1, <1>2, <1>3, OneWrapper
<1>4. ASSUME NEW mark \in BOOLEAN, wrap' = [wrap EXCEPT ![a] = Marking(e, mark)]
      PROVE  Inv'
  <2> DEFINE s == Marking(e, mark)
  <2>1. s \in Wrapper /\ s.autocommit = e.autocommit /\ s.inAtomic = e.inAtomic
    BY <1>1 DEF Sound, Wrapper, Marking
  <2>2. Sound(s)
    BY <1>1, <2>1 DEF Sound, Agrees
  <2>3. QED
    BY <1>2, <1>4, <2>2, OneWrapper
<1>5. QED
  BY <1>3, <1>4 DEF Statements, Statement, StatementBreaks, StatementRefused

LEMMA OthersInv ==
  ASSUME Inv, NEW a \in Alias, Catch \/ Close(a) \/ UserSavepoints(a)
  PROVE  Inv'
<1>1. Sound(wrap[a])
  BY SoundWrappers
<1>2. CASE Catch
  BY <1>2, NoWrapper DEF Catch, Inv
<1>3. CASE Close(a)
  <2> DEFINE s == [wrap[a] EXCEPT !.open = FALSE]
  <2>1. s \in Wrapper /\ s.autocommit = wrap[a].autocommit /\ s.inAtomic = wrap[a].inAtomic
    BY <1>1 DEF Sound, Wrapper
  <2>2. Sound(s)
    BY <1>1, <2>1 DEF Sound, Agrees
  <2>3. wrap' = [wrap EXCEPT ![a] = s] /\ lastSid' \in 0..MaxSid
    BY <1>3 DEF Close, Inv
  <2>4. QED
    BY <2>2, <2>3, OneWrapper
<1>4. CASE UserSavepoint(a)
  BY <1>4, NoWrapper, BlockConstants DEF UserSavepoint, MakeSavepoint, Inv
<1>5. ASSUME NEW sid \in Sid, UserRollback(a, sid)
      PROVE  Inv'
  BY <1>5, NoWrapper DEF UserRollback, Inv
<1>6. QED
  BY <1>2, <1>3, <1>4, <1>5 DEF UserSavepoints

LEMMA NextInv == Inv /\ [Next]_vars => Inv'
<1> SUFFICES ASSUME Inv, [Next]_vars
             PROVE  Inv'
  OBVIOUS
<1>1. CASE Exiting
  BY <1>1, ExitingInv
<1>2. CASE Catch
  BY <1>2, NoWrapper DEF Catch, Inv
<1>3. CASE \E a \in Alias : Entering(a) \/ Statements(a) \/ Closing(a) \/ UserSavepoints(a)
  BY <1>3, EnteringInv, StatementsInv, OthersInv DEF Closing
<1>4. CASE UNCHANGED vars
  BY <1>4, NoWrapper DEF vars, Inv
<1>5. QED
  BY <1>1, <1>2, <1>3, <1>4 DEF Next, BlockNext

LEMMA InitInv == Init => Inv
<1> SUFFICES ASSUME Init
             PROVE  Inv
  OBVIOUS
<1> DEFINE s == [Connected EXCEPT !.open = FALSE]
<1>1. s \in Wrapper /\ s.autocommit /\ ~s.inAtomic
  BY ConnectedSound DEF Sound, Wrapper, Connected
<1>2. wrap = [a \in Alias |-> s] /\ lastSid \in 0..MaxSid
  BY BlockConstants DEF Init
<1>3. QED
  BY <1>1, <1>2 DEF Inv, FlagsAgree

-----------------------------------------------------------------------------
(* The flag that decides whether a statement commits never disagrees with  *)
(* the one that says whether a block is open, in whatever order blocks of  *)
(* several aliases, statements, errors and close() come.                   *)
THEOREM FlagsAlwaysAgree == Spec => []FlagsAgree
<1>1. Inv => FlagsAgree
  BY DEF Inv
<1>2. QED
  BY <1>1, InitInv, NextInv, PTL DEF Spec

-----------------------------------------------------------------------------
(* The types.  Those of what the wrappers hold are in Inv; frames and the  *)
(* stacks are pushed and popped together.                                  *)

Point == [alias : Alias, sid : Sid, image : Image]

Data ==
  /\ db \in Image /\ work \in Image
  /\ failed \in BOOLEAN /\ exc \in BOOLEAN
  /\ points \in Seq(Point)
  /\ saved \in [Alias -> SUBSET Sid]
  /\ written \subseteq Write /\ void \subseteq Write

Depth ==
  /\ frames \in Seq(Frame) /\ Len(frames) <= MaxDepth
  /\ \A a \in Alias : Len(wrap[a].sids) <= Cardinality(FramesOf(a))

LEMMA PoppedSeq ==
  ASSUME NEW S, NEW s \in Seq(S), s # <<>>
  PROVE  /\ Len(s) \in Nat \ {0}
         /\ SubSeq(s, 1, Len(s) - 1) \in Seq(S)
         /\ Len(SubSeq(s, 1, Len(s) - 1)) = Len(s) - 1
         /\ \A i \in 1..(Len(s) - 1) : SubSeq(s, 1, Len(s) - 1)[i] = s[i]
<1>1. Len(s) \in Nat \ {0} /\ \A i \in 1..Len(s) : s[i] \in S
  OBVIOUS
<1>2. \A i \in 1..(Len(s) - 1) : s[i] \in S
  BY <1>1
<1>3. 1 \in Int /\ Len(s) - 1 \in Int
  BY <1>1
<1> DEFINE n == Len(s) - 1
           t == SubSeq(s, 1, n)
<1>4. n \in Int /\ n >= 0 /\ \A i \in 1..n : s[i] \in S
  BY <1>1, <1>2
<1> HIDE DEF n
<1>5. /\ t \in Seq(S) /\ Len(t) = IF 1 <= n THEN n - 1 + 1 ELSE 0
      /\ \A i \in 1..(n - 1 + 1) : t[i] = s[1 + i - 1]
  BY <1>3, <1>4, SubSeqProperties
<1>6. Len(t) = n
  BY <1>4, <1>5
<1>7. n - 1 + 1 = n /\ \A i \in 1..n : 1 + i - 1 = i
  BY <1>4
<1>8. \A i \in 1..n : t[i] = s[i]
  BY <1>5, <1>7
<1>9. QED
  BY <1>1, <1>5, <1>6, <1>8 DEF n

LEMMA FiniteFrames ==
  ASSUME NEW fs \in Seq(Frame), NEW a
  PROVE  /\ IsFiniteSet({i \in 1..Len(fs) : fs[i].alias = a})
         /\ Cardinality({i \in 1..Len(fs) : fs[i].alias = a}) \in Nat
<1>1. IsFiniteSet(1..Len(fs))
  BY FS_Interval
<1>2. {i \in 1..Len(fs) : fs[i].alias = a} \subseteq 1..Len(fs)
  OBVIOUS
<1>3. QED
  BY <1>1, <1>2, FS_Subset, FS_CardinalityType

LEMMA FramesFinite ==
  ASSUME frames \in Seq(Frame), NEW a
  PROVE  IsFiniteSet(FramesOf(a)) /\ Cardinality(FramesOf(a)) \in Nat
BY FiniteFrames DEF FramesOf

(* A push adds a frame to its alias and leaves those of the others. *)
LEMMA PushedFrames ==
  ASSUME frames \in Seq(Frame), NEW f \in Frame, frames' = Append(frames, f), NEW b
  PROVE  /\ frames' \in Seq(Frame) /\ Len(frames') = Len(frames) + 1
         /\ Cardinality(FramesOf(b)') =
              Cardinality(FramesOf(b)) + (IF f.alias = b THEN 1 ELSE 0)
<1>1. frames' \in Seq(Frame) /\ Len(frames') = Len(frames) + 1
  OBVIOUS
<1>2. /\ \A i \in 1..Len(frames) : frames'[i] = frames[i]
      /\ frames'[Len(frames) + 1] = f
      /\ 1..Len(frames') = (1..Len(frames)) \cup {Len(frames) + 1}
      /\ Len(frames) + 1 \notin 1..Len(frames)
  BY <1>1
<1>3. FramesOf(b)' = FramesOf(b) \cup (IF f.alias = b THEN {Len(frames) + 1} ELSE {})
  BY <1>2 DEF FramesOf
<1>4. Len(frames) + 1 \notin FramesOf(b)
  BY <1>2 DEF FramesOf
<1>5. CASE f.alias = b
  BY <1>1, <1>3, <1>4, <1>5, FramesFinite, FS_AddElement
<1>6. CASE f.alias # b
  <2>1. FramesOf(b)' = FramesOf(b)
    BY <1>3, <1>6
  <2>2. QED
    BY <1>1, <1>6, <2>1, FramesFinite
<1>7. QED
  BY <1>5, <1>6

LEMMA PoppedFrames ==
  ASSUME frames \in Seq(Frame), frames # <<>>,
         frames' = SubSeq(frames, 1, Len(frames) - 1), NEW b
  PROVE  /\ frames' \in Seq(Frame) /\ Len(frames') = Len(frames) - 1
         /\ Top \in Frame
         /\ Cardinality(FramesOf(b)') =
              Cardinality(FramesOf(b)) - (IF Top.alias = b THEN 1 ELSE 0)
<1>1. Len(frames) \in Nat \ {0}
  OBVIOUS
<1>2. frames' \in Seq(Frame) /\ Len(frames') = Len(frames) - 1 /\ Top \in Frame
  <2>1. \A i \in 1..Len(frames) : frames[i] \in Frame
    OBVIOUS
  <2>2. Top \in Frame
    BY <1>1, <2>1 DEF Top
  <2>3. QED
    BY <2>2, PoppedSeq
<1>3. /\ \A i \in 1..(Len(frames) - 1) : frames'[i] = frames[i]
      /\ 1..Len(frames') = (1..Len(frames)) \ {Len(frames)}
      /\ Len(frames) \in 1..Len(frames)
  BY <1>1, <1>2
<1>4. FramesOf(b)' = FramesOf(b) \ {Len(frames)}
  BY <1>3 DEF FramesOf
<1>5. Len(frames) \in FramesOf(b) <=> Top.alias = b
  BY <1>3 DEF FramesOf, Top
<1>6. CASE Top.alias = b
  BY <1>2, <1>4, <1>5, <1>6, FramesFinite, FS_RemoveElement
<1>7. CASE Top.alias # b
  <2>1. FramesOf(b)' = FramesOf(b)
    BY <1>4, <1>5, <1>7
  <2>2. QED
    BY <1>2, <1>7, <2>1, FramesFinite
<1>8. QED
  BY <1>6, <1>7

LEMMA PushDepth ==
  ASSUME Inv, Depth, NEW a \in Alias, NEW s, NEW f \in Frame, f.alias = a,
         wrap' = [wrap EXCEPT ![a] = s], Len(s.sids) <= Len(wrap[a].sids) + 1,
         Len(s.sids) \in Nat, Len(frames) < MaxDepth, frames' = Append(frames, f)
  PROVE  Depth'
<1>1. frames' \in Seq(Frame) /\ Len(frames') <= MaxDepth
  BY PushedFrames, BlockConstants DEF Depth
<1>2. ASSUME NEW b \in Alias
      PROVE  Len(wrap'[b].sids) <= Cardinality(FramesOf(b)')
  <2>1. Cardinality(FramesOf(b)') = Cardinality(FramesOf(b)) + (IF b = a THEN 1 ELSE 0)
    BY PushedFrames DEF Depth
  <2>2. Cardinality(FramesOf(b)) \in Nat /\ Len(wrap[b].sids) \in Nat
    BY FramesFinite DEF Depth, Inv, Wrapper
  <2>3. Len(wrap[b].sids) <= Cardinality(FramesOf(b))
    BY DEF Depth
  <2>4. wrap'[b] = IF b = a THEN s ELSE wrap[b]
    BY DEF Inv
  <2>5. QED
    BY <2>1, <2>2, <2>3, <2>4
<1>3. QED
  BY <1>1, <1>2 DEF Depth

LEMMA PopDepth ==
  ASSUME Inv, Depth, frames # <<>>, NEW s, wrap' = [wrap EXCEPT ![Top.alias] = s],
         frames' = SubSeq(frames, 1, Len(frames) - 1), Len(s.sids) \in Nat,
         Len(s.sids) = 0 \/ Len(s.sids) < Len(wrap[Top.alias].sids)
  PROVE  Depth'
<1>1. frames' \in Seq(Frame) /\ Len(frames') <= MaxDepth
  BY PoppedFrames, BlockConstants DEF Depth
<1>2. ASSUME NEW b \in Alias
      PROVE  Len(wrap'[b].sids) <= Cardinality(FramesOf(b)')
  <2>1. Cardinality(FramesOf(b)') = Cardinality(FramesOf(b)) - (IF b = Top.alias THEN 1 ELSE 0)
    BY PoppedFrames DEF Depth
  <2>2. Cardinality(FramesOf(b)) \in Nat /\ Len(wrap[b].sids) \in Nat
    BY FramesFinite DEF Depth, Inv, Wrapper
  <2>3. Cardinality(FramesOf(b)') \in Nat
    <3>1. Cardinality({i \in 1..Len(frames') : frames'[i].alias = b}) \in Nat
      BY <1>1, FiniteFrames
    <3>2. QED
      BY <3>1 DEF FramesOf
  <2>4. Len(wrap[b].sids) <= Cardinality(FramesOf(b))
    BY DEF Depth
  <2>5. wrap'[b] = IF b = Top.alias THEN s ELSE wrap[b]
    BY DEF Inv
  <2>6. QED
    BY <2>1, <2>2, <2>3, <2>4, <2>5
<1>3. QED
  BY <1>1, <1>2 DEF Depth

LEMMA StayDepth ==
  ASSUME Inv, Depth, frames' = frames, NEW a, NEW s, wrap' = [wrap EXCEPT ![a] = s],
         a \in Alias => s.sids = wrap[a].sids \/ s.sids = <<>>
  PROVE  Depth'
<1>1. \A b \in Alias : wrap'[b] = IF b = a THEN s ELSE wrap[b]
  BY DEF Inv
<1>2. \A b \in Alias : Cardinality(FramesOf(b)) \in Nat /\ FramesOf(b)' = FramesOf(b)
  BY FramesFinite DEF Depth, FramesOf
<1>3. ASSUME NEW b \in Alias
      PROVE  Len(wrap'[b].sids) <= Cardinality(FramesOf(b)')
  BY <1>1, <1>2 DEF Depth
<1>4. QED
  BY <1>3 DEF Depth
LEMMA PoppedSids ==
  ASSUME NEW s \in Wrapper
  PROVE  /\ Left(Popped(s)).sids = Popped(s).sids
         /\ \A f \in BOOLEAN : Left([Popped(s) EXCEPT !.needsRollback = f]).sids = Popped(s).sids
         /\ Left(Connected).sids = <<>>
         /\ Popped(s).sids \in Seq(Sid \cup {NoSid})
         /\ s.sids # <<>> => /\ Len(Popped(s).sids) = Len(s.sids) - 1
                             /\ \A i \in 1..Len(Popped(s).sids) : Popped(s).sids[i] = s.sids[i]
         /\ s.sids = <<>> => Popped(s).sids = <<>>
<1> DEFINE p == Popped(s)
<1>1. p \in Wrapper /\ p.sids = IF s.sids = <<>> THEN <<>> ELSE SubSeq(s.sids, 1, Len(s.sids) - 1)
  <2>1. s.sids # <<>> => SubSeq(s.sids, 1, Len(s.sids) - 1) \in Seq(Sid \cup {NoSid})
    BY PoppedSeq DEF Wrapper
  <2>2. QED
    BY <2>1 DEF Popped, Wrapper
<1>2. Left(p).sids = p.sids /\ \A f \in BOOLEAN : Left([p EXCEPT !.needsRollback = f]).sids = p.sids
  BY <1>1 DEF Left, Wrapper
<1>3. Left(Connected).sids = <<>>
  BY DEF Left, Connected
<1>4. p.sids \in Seq(Sid \cup {NoSid})
  BY <1>1 DEF Wrapper
<1>5. s.sids # <<>> => /\ Len(p.sids) = Len(s.sids) - 1
                       /\ \A i \in 1..Len(p.sids) : p.sids[i] = s.sids[i]
  BY <1>1, PoppedSeq DEF Wrapper
<1>6. QED
  BY <1>1, <1>2, <1>3, <1>4, <1>5

(* What an exit does to the wrapper, whichever it is. *)
LEMMA ExitedWrapper ==
  ASSUME Inv, Exiting
  PROVE  /\ frames # <<>> /\ frames' = SubSeq(frames, 1, Len(frames) - 1)
         /\ void' = void \/ void' = void \cup (work[Top.alias] \ Top.before)
         /\ \E s \in {Popped(wrap[Top.alias]), Connected}
                     \cup {[Popped(wrap[Top.alias]) EXCEPT !.needsRollback = f] : f \in BOOLEAN} :
              wrap' = [wrap EXCEPT ![Top.alias] = Left(s)]
<1>1. CASE ExitCommits
  BY <1>1 DEF ExitCommits, Leave
<1>2. CASE ExitReleases
  BY <1>2 DEF ExitReleases, Leave
<1>3. CASE ExitRollsBack
  BY <1>3 DEF ExitRollsBack, Leave
<1>4. CASE ExitToSavepoint
  BY <1>4 DEF ExitToSavepoint, Leave
<1>5. CASE ExitMarks
  BY <1>5 DEF ExitMarks, Leave
<1>6. QED
  BY <1>1, <1>2, <1>3, <1>4, <1>5 DEF Exiting

LEMMA PushType ==
  ASSUME Data, NEW a \in Alias, NEW outer \in BOOLEAN
  PROVE  /\ [alias |-> a, outer |-> outer,
             before |-> IF outer THEN db[a] ELSE work[a]] \in Frame
         /\ Push(a, outer) => frames' = Append(frames, [alias |-> a, outer |-> outer,
                                  before |-> IF outer THEN db[a] ELSE work[a]])
BY DEF Data, Frame, Image, Push

LEMMA EnteringDepth ==
  ASSUME Inv, Data, Depth, NEW a \in Alias, Entering(a) \/ EnterClosed(a)
  PROVE  Depth'
<1> DEFINE f(outer) == [alias |-> a, outer |-> outer,
                        before |-> IF outer THEN db[a] ELSE work[a]]
<1>1. \A outer \in BOOLEAN : f(outer) \in Frame /\ f(outer).alias = a
  BY PushType
<1>2. wrap[a] \in Wrapper /\ Connected \in Wrapper
  BY ConnectedSound DEF Inv, Sound
<1>3. Len(wrap[a].sids) \in Nat /\ Len(Connected.sids) = 0
  BY <1>2 DEF Wrapper, Connected
<1>4. CASE EnterOutermost(a)
  <2> DEFINE s == [Ensured(wrap[a]) EXCEPT !.autocommit = FALSE, !.inAtomic = TRUE,
                                           !.needsRollback = FALSE]
  <2>1. s.sids = wrap[a].sids \/ s.sids = <<>>
    BY <1>2 DEF Ensured, Wrapper, Connected
  <2>2. Len(s.sids) \in Nat /\ Len(s.sids) <= Len(wrap[a].sids) + 1
    BY <1>3, <2>1
  <2>3. /\ wrap' = [wrap EXCEPT ![a] = s] /\ Len(frames) < MaxDepth
        /\ frames' = Append(frames, f(TRUE))
    BY <1>4, PushType DEF EnterOutermost
  <2>4. QED
    BY <1>1, <2>2, <2>3, PushDepth
<1>5. CASE EnterSavepoint(a)
  <2> DEFINE s == [wrap[a] EXCEPT !.sids = Append(@, lastSid')]
  <2>1. s.sids = Append(wrap[a].sids, lastSid')
    BY <1>2 DEF Wrapper
  <2>2. Len(s.sids) \in Nat /\ Len(s.sids) <= Len(wrap[a].sids) + 1
    BY <1>2, <1>3, <2>1 DEF Wrapper
  <2>3. /\ wrap' = [wrap EXCEPT ![a] = s] /\ Len(frames) < MaxDepth
        /\ frames' = Append(frames, f(FALSE))
    BY <1>5, PushType DEF EnterSavepoint
  <2>4. QED
    BY <1>1, <2>2, <2>3, PushDepth
<1>6. CASE EnterRaises(a)
  BY <1>6 DEF EnterRaises, Depth, FramesOf
<1>7. CASE EnterPlain(a)
  <2> DEFINE s == [wrap[a] EXCEPT !.sids = Append(@, NoSid)]
  <2>1. s.sids = Append(wrap[a].sids, NoSid)
    BY <1>2 DEF Wrapper
  <2>2. Len(s.sids) \in Nat /\ Len(s.sids) <= Len(wrap[a].sids) + 1
    BY <1>2, <1>3, <2>1 DEF Wrapper
  <2>3. /\ wrap' = [wrap EXCEPT ![a] = s] /\ Len(frames) < MaxDepth
        /\ frames' = Append(frames, f(FALSE))
    BY <1>7, PushType DEF EnterPlain
  <2>4. QED
    BY <1>1, <2>2, <2>3, PushDepth
<1>8. CASE EnterClosed(a)
  <2> DEFINE s == [Connected EXCEPT !.sids = <<NoSid>>]
  <2>1. s.sids = <<NoSid>>
    BY <1>2 DEF Wrapper
  <2>2. Len(s.sids) \in Nat /\ Len(s.sids) <= Len(wrap[a].sids) + 1
    BY <1>3, <2>1
  <2>3. /\ wrap' = [wrap EXCEPT ![a] = s] /\ Len(frames) < MaxDepth
        /\ frames' = Append(frames, f(FALSE))
    BY <1>8, PushType DEF EnterClosed
  <2>4. QED
    BY <1>1, <2>2, <2>3, PushDepth
<1>9. QED
  BY <1>4, <1>5, <1>6, <1>7, <1>8 DEF Entering

LEMMA ExitingDepth ==
  ASSUME Inv, Depth, Exiting
  PROVE  Depth'
<1> DEFINE a == Top.alias
           p == Popped(wrap[a])
<1>1. frames # <<>> /\ frames' = SubSeq(frames, 1, Len(frames) - 1)
  BY ExitedWrapper
<1>2. a \in Alias
  BY <1>1, PoppedFrames DEF Depth, Frame
<1>3. wrap[a] \in Wrapper
  BY <1>2 DEF Inv
<1>4. PICK s \in {p, Connected} \cup {[p EXCEPT !.needsRollback = f] : f \in BOOLEAN} :
         wrap' = [wrap EXCEPT ![a] = Left(s)]
  BY ExitedWrapper
<1>5. Left(s).sids = p.sids \/ Left(s).sids = <<>>
  BY <1>3, <1>4, PoppedSids
<1>6. Len(p.sids) \in Nat /\ (Len(p.sids) = 0 \/ Len(p.sids) < Len(wrap[a].sids))
  <2>1. Len(wrap[a].sids) \in Nat
    BY <1>3 DEF Wrapper
  <2>2. QED
    BY <1>3, <2>1, PoppedSids
<1>7. Len(Left(s).sids) \in Nat /\ (Len(Left(s).sids) = 0 \/ Len(Left(s).sids) < Len(wrap[a].sids))
  BY <1>5, <1>6
<1>8. QED
  BY <1>1, <1>4, <1>7, PopDepth

LEMMA OthersDepth ==
  ASSUME Inv, Depth, NEW a \in Alias,
         Statements(a) \/ Catch \/ Close(a) \/ UserSavepoints(a) \/ UNCHANGED vars
  PROVE  Depth'
<1>1. wrap[a] \in Wrapper /\ Ensured(wrap[a]) \in Wrapper
  BY SoundWrappers, EnsuredSound DEF Sound
<1>2. Ensured(wrap[a]).sids = wrap[a].sids \/ Ensured(wrap[a]).sids = <<>>
  BY DEF Ensured, Connected
<1>3. frames' = frames
  BY DEF Statements, Statement, StatementBreaks, StatementRefused, Catch, Close,
         UserSavepoints, UserSavepoint, UserRollback, vars
<1>4. CASE wrap' = [wrap EXCEPT ![a] = Ensured(wrap[a])]
  BY <1>2, <1>3, <1>4, StayDepth
<1>5. ASSUME NEW mark \in BOOLEAN, wrap' = [wrap EXCEPT ![a] = Marking(Ensured(wrap[a]), mark)]
      PROVE  Depth'
  <2>1. Marking(Ensured(wrap[a]), mark).sids = Ensured(wrap[a]).sids
    BY <1>1 DEF Wrapper, Marking
  <2>2. QED
    BY <1>2, <1>3, <1>5, <2>1, StayDepth
<1>6. CASE Close(a)
  <2> DEFINE s == [wrap[a] EXCEPT !.open = FALSE]
  <2>1. s.sids = wrap[a].sids
    BY <1>1 DEF Wrapper
  <2>2. wrap' = [wrap EXCEPT ![a] = s]
    BY <1>6 DEF Close
  <2>3. QED
    BY <1>3, <2>1, <2>2, StayDepth
<1>7. CASE wrap' = wrap
  BY <1>3, <1>7 DEF Depth, FramesOf
<1>8. QED
  BY <1>4, <1>5, <1>6, <1>7 DEF Statements, Statement, StatementBreaks, StatementRefused, Catch,
     UserSavepoints, UserSavepoint, UserRollback, vars
LEMMA RolledBackData ==
  ASSUME Data, NEW sid, Alive(sid), RollBackTo(sid)
  PROVE  /\ db' \in Image /\ work' \in Image
         /\ failed' \in BOOLEAN /\ points' \in Seq(Point)
<1> DEFINE n == PointOf(sid)
<1>1. n \in 1..Len(points) /\ points[n].sid = sid
  BY DEF Alive, PointOf
<1>2. \A i \in 1..Len(points) : points[i] \in Point
  BY DEF Data
<1>3. points[n].image \in Image
  BY <1>1, <1>2 DEF Point
<1>4. SubSeq(points, 1, n) \in Seq(Point)
  <2>1. n \in Int /\ 1 \in Int /\ \A i \in 1..n : points[i] \in Point
    BY <1>1, <1>2 DEF Data
  <2>2. QED
    BY <2>1, SubSeqProperties
<1>5. QED
  BY <1>3, <1>4 DEF RollBackTo, Data

LEMMA SavepointData ==
  ASSUME Inv, Data, NEW a \in Alias, MakeSavepoint(a)
  PROVE  /\ lastSid' \in Sid /\ lastSid' = lastSid + 1
         /\ points' \in Seq(Point) /\ saved' \in [Alias -> SUBSET Sid]
<1>1. lastSid' \in Sid /\ lastSid' = lastSid + 1
  BY BlockConstants DEF MakeSavepoint, Inv, Sid
<1>2. [alias |-> a, sid |-> lastSid', image |-> work] \in Point
  BY <1>1 DEF Point, Data
<1>3. points' \in Seq(Point)
  BY <1>2 DEF MakeSavepoint, Data
<1>4. saved' \in [Alias -> SUBSET Sid]
  BY <1>1 DEF MakeSavepoint, Data
<1>5. QED
  BY <1>1, <1>3, <1>4

LEMMA EmptyPoints == <<>> \in Seq(Point)
OBVIOUS

LEMMA EnteringData ==
  ASSUME Inv, Data, NEW a \in Alias, Entering(a) \/ EnterClosed(a)
  PROVE  Data'
<1>1. CASE EnterSavepoint(a)
  BY <1>1, SavepointData DEF EnterSavepoint, Data
<1>2. CASE ~EnterSavepoint(a)
  BY <1>2 DEF Entering, EnterOutermost, EnterRaises, EnterPlain, EnterClosed, Data
<1>3. QED
  BY <1>1, <1>2

LEMMA ExitingData ==
  ASSUME Inv, Data, Depth, Exiting
  PROVE  Data'
<1> DEFINE a == Top.alias
<1>1. frames # <<>> /\ a \in Alias /\ Top.before \subseteq Write
  BY ExitedWrapper, PoppedFrames DEF Depth, Frame
<1>2. void' \subseteq Write /\ written' \subseteq Write
  <2>1. work[a] \subseteq Write
    BY <1>1 DEF Data, Image
  <2>2. void' \subseteq Write
    BY <2>1, ExitedWrapper DEF Data
  <2>3. written' = written
    BY DEF Exiting, ExitCommits, ExitReleases, ExitRollsBack, ExitToSavepoint, ExitMarks, Leave
  <2>4. QED
    BY <2>2, <2>3 DEF Data
<1>3. saved' \in [Alias -> SUBSET Sid]
  <2>1. saved' = saved \/ ForgetSid(a, LastSid(wrap[a]))
    BY DEF Exiting, ExitCommits, ExitReleases, ExitRollsBack, ExitToSavepoint, ExitMarks
  <2>2. QED
    BY <2>1 DEF ForgetSid, Data
<1>4. exc' \in BOOLEAN
  BY DEF Exiting, ExitCommits, ExitReleases, ExitRollsBack, ExitToSavepoint, ExitMarks, Data
<1>5. /\ db' \in Image /\ work' \in Image
      /\ failed' \in BOOLEAN /\ points' \in Seq(Point)
  <2>1. CASE \E sid : Alive(sid) /\ RollBackTo(sid)
    BY <2>1, RolledBackData
  <2>2. CASE CommitGoesThrough(work) \/ CommitConflicts(work) \/ Abort
    BY <2>2, EmptyPoints DEF CommitGoesThrough, CommitConflicts, Abort, Data
  <2>3. CASE UNCHANGED <<db, work, failed, points>>
    BY <2>3 DEF Data
  <2>4. QED
    BY <2>1, <2>2, <2>3
    DEF Exiting, ExitCommits, ExitReleases, ExitRollsBack, ExitToSavepoint, ExitMarks
<1>6. QED
  BY <1>2, <1>3, <1>4, <1>5 DEF Data

LEMMA StatementsData ==
  ASSUME Data, NEW a \in Alias, Statements(a)
  PROVE  Data'
<1>1. ASSUME NEW w \in Write, Statement(a, w) \/ \E mark \in BOOLEAN : StatementBreaks(a, w, mark)
      PROVE  Data'
  <2>1. With(a, w) \in Image
    BY DEF With, Image, Data
  <2>2. /\ written' = written \cup {w} /\ saved' = saved /\ void' = void
        /\ exc' = exc \/ exc' = TRUE
    BY <1>1 DEF Statement, StatementBreaks
  <2>3. \/ work' = With(a, w) /\ UNCHANGED <<db, failed, points>>
        \/ CommitGoesThrough(With(a, w)) \/ CommitConflicts(With(a, w))
    BY <1>1 DEF Statement, StatementBreaks
  <2>4. /\ db' \in Image /\ work' \in Image
        /\ failed' \in BOOLEAN /\ points' \in Seq(Point)
    BY <2>1, <2>3, EmptyPoints DEF CommitGoesThrough, CommitConflicts, Data
  <2>5. QED
    BY <2>2, <2>4 DEF Data
<1>2. ASSUME NEW mark \in BOOLEAN, StatementRefused(a, mark)
      PROVE  Data'
  BY <1>2 DEF StatementRefused, Data
<1>3. QED
  BY <1>1, <1>2 DEF Statements

LEMMA OthersData ==
  ASSUME Inv, Data, NEW a \in Alias, Catch \/ Close(a) \/ UserSavepoints(a) \/ UNCHANGED vars
  PROVE  Data'
<1>1. CASE Catch \/ UNCHANGED vars
  BY <1>1 DEF Catch, vars, Data
<1>2. CASE Close(a)
  BY <1>2, EmptyPoints DEF Close, Abort, Data
<1>3. CASE UserSavepoint(a)
  BY <1>3, SavepointData DEF UserSavepoint, Data
<1>4. ASSUME NEW sid \in Sid, UserRollback(a, sid)
      PROVE  Data'
  <2>1. saved' \in [Alias -> SUBSET Sid] /\ exc' \in BOOLEAN
    BY <1>4 DEF UserRollback, ForgetSid, Data
  <2>2. /\ db' \in Image /\ work' \in Image
        /\ failed' \in BOOLEAN /\ points' \in Seq(Point)
    <3>1. CASE Alive(sid) /\ RollBackTo(sid)
      BY <3>1, RolledBackData
    <3>2. CASE UNCHANGED <<db, work, failed, points>>
      BY <3>2 DEF Data
    <3>3. QED
      BY <1>4, <3>1, <3>2 DEF UserRollback
  <2>3. QED
    BY <1>4, <2>1, <2>2 DEF UserRollback, Data
<1>5. QED
  BY <1>1, <1>2, <1>3, <1>4 DEF UserSavepoints

Typed == Inv /\ Data /\ Depth

LEMMA TypedIsTypeOK == Typed => TypeOK
BY DEF Typed, Inv, Data, Depth, TypeOK, Point

LEMMA TypedInit == Init => Typed
<1> SUFFICES ASSUME Init
             PROVE  Typed
  OBVIOUS
<1>1. Data
  BY EmptyPoints DEF Init, Data, Image
<1>2. frames \in Seq(Frame) /\ Len(frames) <= MaxDepth
  BY BlockConstants DEF Init
<1>3. ASSUME NEW a \in Alias
      PROVE  Len(wrap[a].sids) <= Cardinality(FramesOf(a))
  <2>1. wrap[a].sids = <<>>
    BY DEF Init, Connected
  <2>2. QED
    BY <1>2, <2>1, FramesFinite
<1>4. QED
  BY <1>1, <1>2, <1>3, InitInv DEF Typed, Depth

LEMMA TypedNext == Typed /\ [Next]_vars => Typed'
<1> SUFFICES ASSUME Typed, [Next]_vars
             PROVE  Typed'
  OBVIOUS
<1> USE DEF Typed
<1>1. Inv'
  BY NextInv
<1>2. CASE Exiting
  BY <1>1, <1>2, ExitingData, ExitingDepth
<1>3. CASE \E a \in Alias : Entering(a) \/ Statements(a) \/ Closing(a) \/ UserSavepoints(a)
  BY <1>1, <1>3, EnteringData, EnteringDepth, StatementsData, OthersData, OthersDepth DEF Closing
<1>4. CASE Catch \/ UNCHANGED vars
  <2>1. Data'
    BY <1>4 DEF Catch, vars, Data
  <2>2. Depth'
    BY <1>4 DEF Catch, vars, Depth, FramesOf
  <2>3. QED
    BY <1>1, <2>1, <2>2
<1>5. QED
  BY <1>2, <1>3, <1>4 DEF Next, BlockNext

(* Whatever the nesting of blocks, the savepoints and the errors: the      *)
(* state stays well formed, and a wrapper's savepoint stack is never       *)
(* higher than the blocks of its alias.                                    *)
THEOREM BlocksTypeOK == Spec => []TypeOK
BY TypedInit, TypedNext, TypedIsTypeOK, PTL DEF Spec

-----------------------------------------------------------------------------
(* The savepoint stacks.  A sid is on a stack once, and no sid that is     *)
(* kept is greater than the last one made, so that a new one is new.       *)

Stacked(s, known) ==
  \A i \in 1..Len(s.sids) : s.sids[i] # NoSid =>
    /\ s.sids[i] \in known
    /\ \A j \in 1..Len(s.sids) : s.sids[j] = s.sids[i] => j = i

Handles ==
  \A a \in Alias : Stacked(wrap[a], saved[a]) /\ saved[a] \subseteq 1..lastSid

(* A stack that is kept, or loses its top, or is emptied, needs no sid but *)
(* those that are on it.                                                   *)
LEMMA LowerStack ==
  ASSUME Typed, Handles, NEW a, NEW s,
         wrap' = [wrap EXCEPT ![a] = s], lastSid' = lastSid,
         a \in Alias => /\ Len(s.sids) \in Nat /\ Len(s.sids) <= Len(wrap[a].sids)
                        /\ \A i \in 1..Len(s.sids) : s.sids[i] = wrap[a].sids[i],
         \/ saved' = saved
         \/ \E sid : /\ ForgetSid(a, sid)
                     /\ \A i \in 1..Len(s.sids) : s.sids[i] # NoSid => s.sids[i] # sid
  PROVE  Handles'
<1>1. ASSUME NEW b \in Alias, b # a
      PROVE  Stacked(wrap[b], saved[b])' /\ saved'[b] \subseteq 1..lastSid'
  <2>1. wrap'[b] = wrap[b] /\ saved'[b] = saved[b]
    BY <1>1 DEF Typed, Inv, Data, ForgetSid
  <2>2. QED
    BY <2>1 DEF Handles, Stacked
<1>2. ASSUME a \in Alias
      PROVE  Stacked(wrap[a], saved[a])' /\ saved'[a] \subseteq 1..lastSid'
  <2>1. wrap'[a] = s
    BY <1>2 DEF Typed, Inv
  <2>2. /\ saved'[a] \subseteq saved[a]
        /\ \A i \in 1..Len(s.sids) : s.sids[i] # NoSid /\ s.sids[i] \in saved[a]
                                       => s.sids[i] \in saved'[a]
    BY <1>2 DEF Typed, Data, ForgetSid
  <2>3. Len(wrap[a].sids) \in Nat
    BY <1>2 DEF Typed, Inv, Wrapper
  <2>4. \A i \in 1..Len(s.sids) : i \in 1..Len(wrap[a].sids)
    BY <1>2, <2>3
  <2>5. Stacked(s, saved[a])
    BY <1>2, <2>4 DEF Handles, Stacked
  <2>6. Stacked(s, saved'[a])
    BY <2>2, <2>5 DEF Stacked
  <2>7. QED
    BY <1>2, <2>1, <2>2, <2>6 DEF Handles, Stacked
<1>3. QED
  BY <1>1, <1>2 DEF Handles

(* NoSid, or a sid that was just made, on top of a stack. *)
LEMMA HigherStack ==
  ASSUME Typed, Handles, NEW a \in Alias, NEW t, t \in Sid \cup {NoSid},
         wrap' = [wrap EXCEPT ![a] = [wrap[a] EXCEPT !.sids = Append(@, t)]],
         \/ t = NoSid /\ UNCHANGED <<saved, lastSid>>
         \/ MakeSavepoint(a) /\ t = lastSid'
  PROVE  Handles'
<1>1. wrap[a] \in Wrapper /\ wrap[a].sids \in Seq(Sid \cup {NoSid})
  BY DEF Typed, Inv, Wrapper
<1> DEFINE old == wrap[a].sids
           new == Append(old, t)
<1>2. /\ Len(new) = Len(old) + 1 /\ new[Len(old) + 1] = t /\ Len(old) \in Nat
      /\ \A i \in 1..Len(old) : new[i] = old[i]
      /\ \A i \in 1..Len(new) : i \in 1..Len(old) \/ i = Len(old) + 1
  BY <1>1
<1>3. \A b \in Alias : wrap'[b].sids = IF b = a THEN new ELSE wrap[b].sids
  BY <1>1 DEF Typed, Inv, Wrapper
<1>4. /\ saved'[a] = saved[a] \cup (IF t = NoSid THEN {} ELSE {t})
      /\ \A b \in Alias : b # a => saved'[b] = saved[b]
      /\ t # NoSid => t = lastSid + 1
  <2>1. NoSid \notin Sid
    BY BlockConstants DEF Sid
  <2>2. CASE UNCHANGED <<saved, lastSid>> /\ t = NoSid
    BY <2>2
  <2>3. CASE MakeSavepoint(a) /\ t = lastSid'
    <3>1. lastSid' \in Sid /\ lastSid' = lastSid + 1
      BY <2>3, SavepointData DEF Typed
    <3>2. saved' = [saved EXCEPT ![a] = @ \cup {lastSid'}]
      BY <2>3 DEF MakeSavepoint
    <3>3. t # NoSid /\ t = lastSid + 1
      BY <2>1, <2>3, <3>1
    <3>4. saved \in [Alias -> SUBSET Sid]
      BY DEF Typed, Data
    <3>5. saved'[a] = saved[a] \cup {t} /\ \A b \in Alias : b # a => saved'[b] = saved[b]
      BY <2>3, <3>2, <3>4
    <3>6. QED
      BY <3>3, <3>5
  <2>4. QED
    BY <2>2, <2>3
<1>5. lastSid \in Nat /\ lastSid' \in Nat /\ lastSid <= lastSid' /\ (t # NoSid => t = lastSid')
  <2>1. lastSid \in Nat
    BY BlockConstants DEF Typed, Inv
  <2>2. QED
    BY <2>1 DEF MakeSavepoint
<1>6. ASSUME NEW b \in Alias
      PROVE  Stacked(wrap'[b], saved'[b]) /\ saved'[b] \subseteq 1..lastSid'
  <2>1. Stacked(wrap[b], saved[b]) /\ saved[b] \subseteq 1..lastSid
    BY DEF Handles
  <2>2. 1..lastSid \subseteq 1..lastSid'
    BY <1>5
  <2>3. CASE b # a
    BY <1>3, <1>4, <2>1, <2>2, <2>3 DEF Stacked
  <2>4. CASE b = a
    <3>1. saved'[a] \subseteq 1..lastSid'
      <4>1. t # NoSid => t \in 1..lastSid'
        BY <1>4, <1>5
      <4>2. QED
        BY <1>4, <2>1, <2>2, <2>4, <4>1
    <3>2. \A i \in 1..Len(old) : old[i] # NoSid => old[i] # t
      <4>1. \A i \in 1..Len(old) : old[i] # NoSid => old[i] \in 1..lastSid
        BY <2>1, <2>4 DEF Stacked
      <4>2. t # NoSid => t \notin 1..lastSid
        BY <1>4, <1>5
      <4>3. QED
        BY <4>1, <4>2
    <3>3. \A i \in 1..Len(new) : new[i] # NoSid => new[i] \in saved'[a]
      BY <1>2, <1>4, <2>1, <2>4 DEF Stacked
    <3>4. ASSUME NEW i \in 1..Len(new), NEW j \in 1..Len(new), new[i] # NoSid, new[j] = new[i]
          PROVE  j = i
      BY <1>2, <2>1, <2>4, <3>2, <3>4 DEF Stacked
    <3>5. QED
      BY <1>3, <2>4, <3>1, <3>3, <3>4 DEF Stacked
  <2>5. QED
    BY <2>3, <2>4
<1>7. QED
  BY <1>6 DEF Handles, Stacked

LEMMA EnteringHandles ==
  ASSUME Typed, Handles, NEW a \in Alias, Entering(a) \/ EnterClosed(a)
  PROVE  Handles'
<1>1. wrap[a] \in Wrapper /\ Len(wrap[a].sids) \in Nat
  BY DEF Typed, Inv, Wrapper
<1>2. CASE EnterOutermost(a)
  <2> DEFINE s == [Ensured(wrap[a]) EXCEPT !.autocommit = FALSE, !.inAtomic = TRUE,
                                           !.needsRollback = FALSE]
  <2>1. s.sids = wrap[a].sids \/ s.sids = <<>>
    BY <1>1 DEF Ensured, Wrapper, Connected
  <2>2. /\ Len(s.sids) \in Nat /\ Len(s.sids) <= Len(wrap[a].sids)
        /\ \A i \in 1..Len(s.sids) : s.sids[i] = wrap[a].sids[i]
    BY <1>1, <2>1
  <2>3. wrap' = [wrap EXCEPT ![a] = s] /\ saved' = saved /\ lastSid' = lastSid
    BY <1>2 DEF EnterOutermost
  <2>4. QED
    BY <2>2, <2>3, LowerStack
<1>3. CASE EnterSavepoint(a)
  <2>1. MakeSavepoint(a) /\ wrap' = [wrap EXCEPT ![a] = [wrap[a] EXCEPT !.sids = Append(@, lastSid')]]
    BY <1>3 DEF EnterSavepoint
  <2>2. lastSid' \in Sid \cup {NoSid}
    BY <2>1, SavepointData DEF Typed
  <2>3. QED
    BY <2>1, <2>2, HigherStack
<1>4. CASE EnterRaises(a)
  BY <1>4 DEF EnterRaises, Handles, Stacked
<1>5. CASE EnterPlain(a)
  <2>1. /\ UNCHANGED <<saved, lastSid>>
        /\ wrap' = [wrap EXCEPT ![a] = [wrap[a] EXCEPT !.sids = Append(@, NoSid)]]
    BY <1>5 DEF EnterPlain
  <2>2. QED
    BY <2>1, HigherStack
<1>6. CASE EnterClosed(a)
  <2>1. /\ UNCHANGED <<saved, lastSid>>
        /\ \A b \in Alias : b # a => wrap'[b] = wrap[b]
        /\ wrap'[a] = [Connected EXCEPT !.sids = <<NoSid>>]
    BY <1>6 DEF EnterClosed, Typed, Inv
  <2>2. wrap'[a].sids = <<NoSid>>
    BY <2>1 DEF Connected
  <2>3. \A i \in 1..Len(wrap'[a].sids) : wrap'[a].sids[i] = NoSid
    BY <2>2
  <2>4. Stacked(wrap'[a], saved'[a])
    BY <2>3 DEF Stacked
  <2>5. ASSUME NEW b \in Alias, b # a
        PROVE  Stacked(wrap'[b], saved'[b])
    BY <2>1, <2>5 DEF Handles
  <2>6. \A b \in Alias : saved'[b] \subseteq 1..lastSid'
    BY <2>1 DEF Handles
  <2>7. QED
    BY <2>4, <2>5, <2>6 DEF Handles, Stacked
<1>7. QED
  BY <1>2, <1>3, <1>4, <1>5, <1>6 DEF Entering

LEMMA ExitingHandles ==
  ASSUME Typed, Handles, Exiting
  PROVE  Handles'
<1> DEFINE a == Top.alias
           p == Popped(wrap[a])
<1>1. a \in Alias
  BY ExitedWrapper, PoppedFrames DEF Typed, Depth, Frame
<1>2. wrap[a] \in Wrapper /\ wrap[a].sids \in Seq(Sid \cup {NoSid}) /\ Len(wrap[a].sids) \in Nat
  BY <1>1 DEF Typed, Inv, Wrapper
<1>3. PICK s \in {p, Connected} \cup {[p EXCEPT !.needsRollback = f] : f \in BOOLEAN} :
         wrap' = [wrap EXCEPT ![a] = Left(s)]
  BY ExitedWrapper DEF Typed
<1>4. Left(s).sids = p.sids \/ Left(s).sids = <<>>
  BY <1>2, <1>3, PoppedSids
<1>5. /\ Len(p.sids) \in Nat /\ Len(p.sids) <= Len(wrap[a].sids)
      /\ \A i \in 1..Len(p.sids) : p.sids[i] = wrap[a].sids[i]
      /\ wrap[a].sids # <<>> => Len(p.sids) = Len(wrap[a].sids) - 1
  BY <1>2, PoppedSids
<1>6. /\ Len(Left(s).sids) \in Nat /\ Len(Left(s).sids) <= Len(wrap[a].sids)
      /\ \A i \in 1..Len(Left(s).sids) : Left(s).sids[i] = wrap[a].sids[i]
      /\ wrap[a].sids # <<>> => Len(Left(s).sids) < Len(wrap[a].sids)
      /\ wrap[a].sids = <<>> => Len(Left(s).sids) = 0
  <2>1. wrap[a].sids # <<>> => Len(wrap[a].sids) # 0
    BY <1>2
  <2>2. QED
    BY <1>2, <1>4, <1>5, <2>1
<1>7. \A i \in 1..Len(Left(s).sids) :
         Left(s).sids[i] # NoSid => Left(s).sids[i] # LastSid(wrap[a])
  <2>1. ASSUME NEW i \in 1..Len(Left(s).sids), Left(s).sids[i] # NoSid,
               Left(s).sids[i] = LastSid(wrap[a])
        PROVE  FALSE
    <3>1. wrap[a].sids # <<>>
      BY <1>6, <2>1
    <3>2. LastSid(wrap[a]) = wrap[a].sids[Len(wrap[a].sids)]
      BY <3>1 DEF LastSid
    <3>3. i \in 1..Len(wrap[a].sids) /\ Len(wrap[a].sids) \in 1..Len(wrap[a].sids)
          /\ i # Len(wrap[a].sids)
      BY <1>2, <1>6, <3>1
    <3>4. wrap[a].sids[i] # NoSid /\ wrap[a].sids[Len(wrap[a].sids)] = wrap[a].sids[i]
      BY <1>6, <2>1, <3>2
    <3>5. QED
      BY <1>1, <3>3, <3>4 DEF Handles, Stacked
  <2>2. QED
    BY <2>1
<1>8. saved' = saved \/ ForgetSid(a, LastSid(wrap[a]))
  BY DEF Exiting, ExitCommits, ExitReleases, ExitRollsBack, ExitToSavepoint, ExitMarks
<1>9. lastSid' = lastSid
  BY DEF Exiting, ExitCommits, ExitReleases, ExitRollsBack, ExitToSavepoint, ExitMarks, Leave
<1>10. QED
  BY <1>3, <1>6, <1>7, <1>8, <1>9, LowerStack

LEMMA OthersHandles ==
  ASSUME Typed, Handles, NEW a \in Alias,
         Statements(a) \/ Catch \/ Close(a) \/ UserSavepoints(a) \/ UNCHANGED vars
  PROVE  Handles'
<1> DEFINE e == Ensured(wrap[a])
<1>1. wrap[a] \in Wrapper /\ e \in Wrapper /\ Len(wrap[a].sids) \in Nat
  BY SoundWrappers, EnsuredSound DEF Typed, Sound, Wrapper
<1>2. e.sids = wrap[a].sids \/ e.sids = <<>>
  BY DEF Ensured, Connected
<1>3. CASE /\ saved' = saved /\ lastSid' = lastSid
           /\ \E s : wrap' = [wrap EXCEPT ![a] = s] /\ (s.sids = wrap[a].sids \/ s.sids = <<>>)
  <2>1. PICK s : wrap' = [wrap EXCEPT ![a] = s] /\ (s.sids = wrap[a].sids \/ s.sids = <<>>)
    BY <1>3
  <2>2. /\ Len(s.sids) \in Nat /\ Len(s.sids) <= Len(wrap[a].sids)
        /\ \A i \in 1..Len(s.sids) : s.sids[i] = wrap[a].sids[i]
    BY <1>1, <2>1
  <2>3. QED
    BY <1>3, <2>1, <2>2, LowerStack
<1>4. CASE Statements(a)
  <2>1. saved' = saved /\ lastSid' = lastSid
    BY <1>4 DEF Statements, Statement, StatementBreaks, StatementRefused
  <2>2. CASE wrap' = [wrap EXCEPT ![a] = e]
    BY <1>2, <1>3, <2>1, <2>2
  <2>3. ASSUME NEW mark \in BOOLEAN, wrap' = [wrap EXCEPT ![a] = Marking(e, mark)]
        PROVE  Handles'
    <3>1. Marking(e, mark).sids = e.sids
      BY <1>1 DEF Wrapper, Marking
    <3>2. QED
      BY <1>2, <1>3, <2>1, <2>3, <3>1
  <2>4. QED
    BY <1>4, <2>2, <2>3 DEF Statements, Statement, StatementBreaks, StatementRefused
<1>5. CASE Close(a)
  <2> DEFINE s == [wrap[a] EXCEPT !.open = FALSE]
  <2>1. s.sids = wrap[a].sids
    BY <1>1 DEF Wrapper
  <2>2. wrap' = [wrap EXCEPT ![a] = s] /\ saved' = saved /\ lastSid' = lastSid
    BY <1>5 DEF Close
  <2>3. QED
    BY <1>3, <2>1, <2>2
<1>6. CASE Catch \/ UNCHANGED vars
  BY <1>6 DEF Catch, vars, Handles, Stacked
<1>7. CASE UserSavepoint(a)
  <2>1. lastSid' = lastSid + 1 /\ lastSid \in Nat
    BY <1>7, SavepointData, BlockConstants DEF UserSavepoint, Typed, Inv
  <2>2. wrap' = wrap /\ saved' = [saved EXCEPT ![a] = @ \cup {lastSid'}]
    BY <1>7 DEF UserSavepoint, MakeSavepoint
  <2>3. \A b \in Alias : /\ saved[b] \subseteq saved'[b]
                         /\ saved'[b] \subseteq saved[b] \cup {lastSid'}
    BY <2>2 DEF Typed, Data
  <2>4. 1..lastSid \cup {lastSid'} \subseteq 1..lastSid'
    BY <2>1
  <2>5. QED
    BY <2>2, <2>3, <2>4 DEF Handles, Stacked
<1>8. ASSUME NEW own \in Sid, UserRollback(a, own)
      PROVE  Handles'
  <2>1. /\ ForgetSid(a, own) /\ wrap' = wrap /\ lastSid' = lastSid
        /\ \A i \in 1..Len(wrap[a].sids) : wrap[a].sids[i] # NoSid => wrap[a].sids[i] # own
    BY <1>8 DEF UserRollback, InsideBlocks, Sid
  <2>2. wrap' = [wrap EXCEPT ![a] = wrap[a]]
    BY <2>1 DEF Typed, Inv
  <2>3. /\ Len(wrap[a].sids) <= Len(wrap[a].sids)
        /\ \E sid : /\ ForgetSid(a, sid)
                    /\ \A i \in 1..Len(wrap[a].sids) : wrap[a].sids[i] # NoSid => wrap[a].sids[i] # sid
    BY <1>1, <2>1
  <2>4. QED
    BY <1>1, <2>1, <2>2, <2>3, LowerStack
<1>9. QED
  BY <1>4, <1>5, <1>6, <1>7, <1>8 DEF UserSavepoints

(* The savepoint of every open block is found by its sid, whatever the     *)
(* blocks, the application and the other aliases of the thread did in the  *)
(* meantime: no exit and no savepoint_rollback() forgets another's.        *)
THEOREM SavepointsAreKept == Spec => []StackHandles
<1>1. Init => Handles
  BY DEF Init, Handles, Stacked, Connected
<1>2. Typed /\ Handles /\ [Next]_vars => Handles'
  <2> SUFFICES ASSUME Typed, Handles, [Next]_vars
               PROVE  Handles'
    OBVIOUS
  <2>1. CASE Exiting
    BY <2>1, ExitingHandles
  <2>2. CASE \E a \in Alias : Entering(a) \/ Statements(a) \/ Closing(a) \/ UserSavepoints(a)
    BY <2>2, EnteringHandles, OthersHandles DEF Closing
  <2>3. CASE Catch \/ UNCHANGED vars
    BY <2>3 DEF Catch, vars, Handles, Stacked
  <2>4. QED
    BY <2>1, <2>2, <2>3 DEF Next, BlockNext
<1>3. Handles => StackHandles
  BY DEF Handles, Stacked, StackHandles
<1>4. QED
  BY <1>1, <1>2, <1>3, TypedInit, TypedNext, PTL DEF Spec

-----------------------------------------------------------------------------
(* One alias: an open block is not committed.                              *)

(* The stack is as high as the blocks the wrapper knows inside its         *)
(* outermost one; where it is as high as all of them, that one is all that *)
(* there is, and nothing was committed since it was entered.               *)
InBlock(o) == wrap[o].inAtomic /\ Len(frames) = Len(wrap[o].sids) + 1

Uncommitted(o) ==
  /\ frames = <<>> => wrap[o].sids = <<>> /\ ~wrap[o].inAtomic
  /\ frames # <<>> => Len(wrap[o].sids) + 1 <= Len(frames)
  /\ InBlock(o) => \A i \in 1..Len(frames) : frames[i].outer => frames[i].before = db[o]

LEMMA OfOneAlias ==
  ASSUME NEW o, Alias = {o}, frames \in Seq(Frame)
  PROVE  \A i \in 1..Len(frames) : frames[i].alias = o
<1>1. ASSUME NEW i \in 1..Len(frames)
      PROVE  frames[i] \in Frame
  OBVIOUS
<1>2. \A f \in Frame : f.alias = o
  BY DEF Frame
<1>3. QED
  BY <1>1, <1>2

LEMMA AllFrames ==
  ASSUME NEW o, Alias = {o}, frames \in Seq(Frame)
  PROVE  Cardinality(FramesOf(o)) = Len(frames)
<1>1. \A i \in 1..Len(frames) : frames[i].alias = o
  BY OfOneAlias
<1>2. FramesOf(o) = 1..Len(frames) /\ Len(frames) \in Nat
  BY <1>1 DEF FramesOf
<1>3. QED
  BY <1>2, FS_Interval

LEMMA UncommittedIsNothingEarly ==
  ASSUME NEW o, Alias = {o}, Typed, Uncommitted(o)
  PROVE  NothingEarly
<1>1. frames \in Seq(Frame)
  BY DEF Typed, Depth
<1>2. Cardinality(FramesOf(o)) = Len(frames)
  BY <1>1, AllFrames
<1>3. \A i \in 1..Len(frames) : frames[i].alias = o
  BY <1>1, OfOneAlias
<1>4. QED
  BY <1>2, <1>3 DEF NothingEarly, InStep, Uncommitted, InBlock

(* A block is entered: either the first, or one more around which the      *)
(* wrapper is as it was, or one of which the wrapper has lost count.       *)
LEMMA PushUncommitted ==
  ASSUME NEW o, Alias = {o}, Typed, Uncommitted(o), NEW outer \in BOOLEAN,
         Push(o, outer), db' = db,
         \/ wrap'[o].inAtomic /\ outer /\ (wrap'[o].sids = wrap[o].sids \/ wrap'[o].sids = <<>>)
         \/ /\ frames # <<>> /\ ~outer /\ wrap'[o].inAtomic = wrap[o].inAtomic
            /\ \E t : wrap'[o].sids = Append(wrap[o].sids, t)
         \/ frames # <<>> /\ ~wrap'[o].inAtomic /\ Len(wrap'[o].sids) = 1
  PROVE  Uncommitted(o)'
<1> DEFINE f == [alias |-> o, outer |-> outer, before |-> IF outer THEN db[o] ELSE work[o]]
           n == Len(frames)
           k == Len(wrap[o].sids)
<1>1. frames' = Append(frames, f) /\ frames \in Seq(Frame) /\ f \in Frame /\ f.outer = outer
  BY PushType DEF Typed, Depth, Push
<1>2. /\ Len(frames') = n + 1 /\ n \in Nat /\ frames'[n + 1] = f /\ frames' # <<>>
      /\ \A i \in 1..n : frames'[i] = frames[i]
      /\ \A i \in 1..(n + 1) : i \in 1..n \/ i = n + 1
      /\ frames = <<>> <=> n = 0
  BY <1>1
<1>3. k \in Nat /\ wrap[o].sids \in Seq(Sid \cup {NoSid})
  BY DEF Typed, Inv, Wrapper
<1>4. CASE wrap'[o].inAtomic /\ outer /\ (wrap'[o].sids = wrap[o].sids \/ wrap'[o].sids = <<>>)
  <2>1. Len(wrap'[o].sids) = k \/ Len(wrap'[o].sids) = 0
    BY <1>4
  <2>2. n = 0 => k = 0
    BY <1>2 DEF Uncommitted
  <2>3. n # 0 => k + 1 <= n
    BY <1>2 DEF Uncommitted
  <2>4. Len(wrap'[o].sids) + 1 <= n + 1
    BY <1>2, <1>3, <2>1, <2>2, <2>3
  <2>5. n + 1 = Len(wrap'[o].sids) + 1 => n = 0
    BY <1>2, <1>3, <2>1, <2>3
  <2>6. f.before = db[o]
    BY <1>4
  <2>7. n = 0 => \A i \in 1..(n + 1) : frames'[i] = f
    <3>1. n = 0 => \A i \in 1..(n + 1) : i = n + 1
      BY <1>2
    <3>2. QED
      BY <1>2, <3>1
  <2>8. QED
    BY <1>2, <2>4, <2>5, <2>6, <2>7 DEF Uncommitted, InBlock
<1>5. CASE /\ frames # <<>> /\ ~outer /\ wrap'[o].inAtomic = wrap[o].inAtomic
           /\ \E t : wrap'[o].sids = Append(wrap[o].sids, t)
  <2>1. Len(wrap'[o].sids) = k + 1
    BY <1>3, <1>5
  <2>2. k + 1 <= n
    BY <1>5 DEF Uncommitted
  <2>3. n + 1 = k + 1 + 1 => n = k + 1
    BY <1>2, <1>3
  <2>4. ~f.outer
    BY <1>5
  <2>5. ASSUME InBlock(o)', NEW i \in 1..(n + 1), frames'[i].outer
        PROVE  frames'[i].before = db'[o]
    <3>1. InBlock(o)
      BY <1>2, <1>5, <2>1, <2>3, <2>5 DEF InBlock
    <3>2. i \in 1..n
      BY <1>1, <1>2, <1>5, <2>5
    <3>3. QED
      BY <1>2, <2>5, <3>1, <3>2 DEF Uncommitted
  <2>6. k + 1 + 1 <= n + 1
    BY <1>2, <1>3, <2>2
  <2>7. QED
    BY <1>2, <2>1, <2>5, <2>6 DEF Uncommitted
<1>6. CASE frames # <<>> /\ ~wrap'[o].inAtomic /\ Len(wrap'[o].sids) = 1
  <2>1. 1 + 1 <= n + 1
    BY <1>2, <1>6
  <2>2. QED
    BY <1>2, <1>6, <2>1 DEF Uncommitted, InBlock
<1>7. QED
  BY <1>4, <1>5, <1>6

LEMMA EnteringUncommitted ==
  ASSUME NEW o, Alias = {o}, Typed, Uncommitted(o), Entering(o) \/ EnterClosed(o)
  PROVE  Uncommitted(o)'
<1>1. wrap[o] \in Wrapper /\ Connected \in Wrapper /\ wrap \in [Alias -> Wrapper] /\ o \in Alias
  BY ConnectedSound DEF Typed, Inv, Sound
<1>2. CASE EnterOutermost(o)
  <2> DEFINE s == [Ensured(wrap[o]) EXCEPT !.autocommit = FALSE, !.inAtomic = TRUE,
                                           !.needsRollback = FALSE]
  <2>1. s.inAtomic /\ (s.sids = wrap[o].sids \/ s.sids = <<>>)
    BY <1>1 DEF Ensured, Wrapper, Connected
  <2>2. wrap'[o] = s /\ Push(o, TRUE) /\ db' = db
    BY <1>1, <1>2 DEF EnterOutermost
  <2>3. QED
    BY <2>1, <2>2, PushUncommitted
<1>3. ASSUME NEW t, wrap[o].inAtomic, Push(o, FALSE), db' = db,
             wrap' = [wrap EXCEPT ![o].sids = Append(@, t)]
      PROVE  Uncommitted(o)'
  <2>1. wrap'[o].sids = Append(wrap[o].sids, t) /\ wrap'[o].inAtomic = wrap[o].inAtomic
    BY <1>1, <1>3 DEF Wrapper
  <2>2. frames # <<>>
    BY <1>3 DEF Uncommitted
  <2>3. QED
    BY <1>3, <2>1, <2>2, PushUncommitted
<1>4. CASE EnterSavepoint(o)
  BY <1>3, <1>4 DEF EnterSavepoint
<1>5. CASE EnterRaises(o)
  BY <1>5 DEF EnterRaises, Uncommitted, InBlock
<1>6. CASE EnterPlain(o)
  BY <1>3, <1>6 DEF EnterPlain
<1>7. CASE EnterClosed(o)
  <2>1. wrap'[o].sids = <<NoSid>> /\ ~wrap'[o].inAtomic
    BY <1>1, <1>7 DEF EnterClosed, Connected
  <2>2. frames # <<>> /\ Push(o, FALSE) /\ db' = db
    BY <1>7 DEF EnterClosed, Uncommitted
  <2>3. QED
    BY <2>1, <2>2, PushUncommitted
<1>8. QED
  BY <1>2, <1>4, <1>5, <1>6, <1>7 DEF Entering

LEMMA ExitingUncommitted ==
  ASSUME NEW o, Alias = {o}, Typed, Uncommitted(o), Exiting
  PROVE  Uncommitted(o)'
<1> DEFINE n == Len(frames)
           k == Len(wrap[o].sids)
           p == Popped(wrap[o])
<1>1. /\ frames \in Seq(Frame) /\ frames # <<>> /\ Top.alias = o
      /\ frames' = SubSeq(frames, 1, n - 1)
  BY ExitedWrapper, PoppedFrames DEF Typed, Depth, Frame
<1>2. /\ n \in Nat \ {0} /\ Len(frames') = n - 1
      /\ \A i \in 1..(n - 1) : frames'[i] = frames[i]
      /\ frames' = <<>> => n = 1
      /\ n # 1 => frames' # <<>>
  <2>1. Len(frames') = n - 1 /\ n \in Nat \ {0} /\ \A i \in 1..(n - 1) : frames'[i] = frames[i]
    BY <1>1, PoppedSeq
  <2>2. Len(<<>>) = 0
    OBVIOUS
  <2>3. QED
    BY <2>1, <2>2
<1>3. wrap[o] \in Wrapper /\ k \in Nat /\ wrap \in [Alias -> Wrapper] /\ o \in Alias
      /\ wrap[o].sids \in Seq(Sid \cup {NoSid}) /\ (wrap[o].sids = <<>> <=> k = 0)
  BY DEF Typed, Inv, Wrapper
<1>4. PICK s \in {p, Connected} \cup {[p EXCEPT !.needsRollback = f] : f \in BOOLEAN} :
         wrap' = [wrap EXCEPT ![o] = Left(s)]
  BY <1>1, ExitedWrapper DEF Typed
<1>5. wrap'[o] = Left(s)
  BY <1>3, <1>4
<1>6. /\ k = 0 => p.sids = <<>> /\ ~p.inAtomic
      /\ k # 0 => Len(p.sids) = k - 1 /\ p.inAtomic = wrap[o].inAtomic
      /\ p \in Wrapper
  <2>1. k = 0 => p.sids = <<>>
    BY <1>3, PoppedSids
  <2>2. k # 0 => Len(p.sids) = k - 1
    BY <1>3, PoppedSids
  <2>3. /\ k = 0 => ~p.inAtomic
        /\ k # 0 => p.inAtomic = wrap[o].inAtomic
    BY <1>3 DEF Popped, Wrapper
  <2>4. p \in Wrapper
    <3>1. p.sids \in Seq(Sid \cup {NoSid})
      BY <1>3, PoppedSids
    <3>2. QED
      BY <1>3, <3>1 DEF Popped, Wrapper
  <2>5. QED
    BY <2>1, <2>2, <2>3, <2>4
<1>7. /\ Left(s).inAtomic => p.inAtomic /\ Left(s).sids = p.sids
      /\ Left(s).sids = p.sids \/ Left(s).sids = <<>>
  <2>1. CASE s = Connected
    BY <2>1 DEF Left, Connected
  <2>2. CASE s # Connected
    BY <1>4, <1>6, <2>2 DEF Left, Wrapper
  <2>3. QED
    BY <2>1, <2>2
<1>8. k + 1 <= n
  BY <1>1 DEF Uncommitted
<1>9. frames' = <<>> => wrap'[o].sids = <<>> /\ ~wrap'[o].inAtomic
  <2>1. frames' = <<>> => k = 0
    <3>1. \A i, j \in Nat : i + 1 <= j /\ j = 1 => i = 0
      OBVIOUS
    <3>2. k \in Nat /\ n \in Nat
      BY <1>2, <1>3
    <3>3. QED
      BY <1>2, <1>8, <3>1, <3>2
  <2>2. k = 0 => Left(s).sids = <<>> /\ ~Left(s).inAtomic
    BY <1>6, <1>7
  <2>3. QED
    BY <1>5, <2>1, <2>2
<1>10. Len(Left(s).sids) \in Nat /\ (Len(Left(s).sids) = 0 \/ Len(Left(s).sids) <= k - 1)
  <2>1. k # 0 => k - 1 \in Nat
    BY <1>3
  <2>2. QED
    BY <1>3, <1>6, <1>7, <2>1
<1>11. frames' # <<>> => Len(wrap'[o].sids) + 1 <= Len(frames')
  <2>1. n - 1 = 0 => frames' = <<>>
    BY <1>1, <1>2
  <2>2. QED
    BY <1>2, <1>3, <1>5, <1>8, <1>10, <2>1
<1>12. ASSUME InBlock(o)', NEW i \in 1..(n - 1), frames'[i].outer
       PROVE  frames'[i].before = db'[o]
  <2>1. p.inAtomic /\ k # 0 /\ wrap[o].inAtomic /\ n - 1 = (k - 1) + 1
    BY <1>2, <1>5, <1>6, <1>7, <1>12 DEF InBlock
  <2>2. InBlock(o)
    BY <1>2, <1>3, <2>1 DEF InBlock
  <2>3. db' = db
    BY <1>1, <2>1 DEF Exiting, ExitCommits, ExitReleases, ExitRollsBack, ExitToSavepoint,
       ExitMarks, RollBackTo
  <2>4. i \in 1..n /\ frames'[i] = frames[i]
    BY <1>2
  <2>5. QED
    BY <1>12, <2>2, <2>3, <2>4 DEF Uncommitted
<1>13. QED
  BY <1>2, <1>9, <1>11, <1>12 DEF Uncommitted

(* What leaves the blocks alone: the wrapper keeps its stack and nothing   *)
(* is committed, or it is in no block.                                     *)
LEMMA StayUncommitted ==
  ASSUME NEW o, Uncommitted(o), frames' = frames, Len(wrap'[o].sids) \in Nat,
         \/ /\ wrap'[o].sids = wrap[o].sids /\ wrap'[o].inAtomic = wrap[o].inAtomic
            /\ wrap[o].inAtomic => db' = db
         \/ wrap'[o].sids = <<>> /\ ~wrap'[o].inAtomic /\ Len(frames) \in Nat
            /\ (frames # <<>> => Len(frames) # 0)
  PROVE  Uncommitted(o)'
BY DEF Uncommitted, InBlock

LEMMA OthersUncommitted ==
  ASSUME NEW o, Alias = {o}, Typed, Uncommitted(o),
         Statements(o) \/ Catch \/ Close(o) \/ UserSavepoints(o) \/ UNCHANGED vars
  PROVE  Uncommitted(o)'
<1> DEFINE e == Ensured(wrap[o])
<1>1. /\ wrap[o] \in Wrapper /\ e \in Wrapper /\ Sound(wrap[o])
      /\ Len(wrap[o].sids) \in Nat /\ Len(e.sids) \in Nat
      /\ wrap \in [Alias -> Wrapper] /\ o \in Alias
  BY SoundWrappers, EnsuredSound DEF Typed, Inv, Sound, Wrapper
<1>2. /\ frames' = frames /\ Len(frames) \in Nat /\ (frames # <<>> => Len(frames) # 0)
  BY DEF Typed, Depth, Statements, Statement, StatementBreaks, StatementRefused, Catch, Close,
         UserSavepoints, UserSavepoint, UserRollback, vars
<1>3. wrap[o].open => e = wrap[o]
  BY DEF Ensured
<1>4. ~wrap[o].open => e.sids = <<>> /\ ~e.inAtomic
  BY DEF Ensured, Connected
<1>5. wrap[o].inAtomic => ~wrap[o].autocommit
  BY <1>1 DEF Sound, Agrees
<1>6. CASE Statements(o)
  <2>1. wrap'[o].sids = e.sids /\ wrap'[o].inAtomic = e.inAtomic
    <3>1. CASE wrap' = [wrap EXCEPT ![o] = e]
      BY <1>1, <3>1
    <3>2. ASSUME NEW mark \in BOOLEAN, wrap' = [wrap EXCEPT ![o] = Marking(e, mark)]
          PROVE  wrap'[o].sids = e.sids /\ wrap'[o].inAtomic = e.inAtomic
      <4>1. wrap'[o] = Marking(e, mark)
        BY <1>1, <3>2
      <4>2. QED
        BY <1>1, <4>1 DEF Wrapper, Marking
    <3>3. QED
      BY <1>6, <3>1, <3>2 DEF Statements, Statement, StatementBreaks, StatementRefused
  <2>2. wrap[o].open /\ wrap[o].inAtomic => db' = db
    <3>1. db' = db \/ e.autocommit
      BY <1>6 DEF Statements, Statement, StatementBreaks, StatementRefused
    <3>2. QED
      BY <1>3, <1>5, <3>1
  <2>3. QED
    BY <1>1, <1>2, <1>3, <1>4, <2>1, <2>2, StayUncommitted
<1>7. CASE Close(o)
  <2>1. wrap'[o] = [wrap[o] EXCEPT !.open = FALSE] /\ db' = db
    BY <1>1, <1>7 DEF Close, Abort
  <2>2. wrap'[o].sids = wrap[o].sids /\ wrap'[o].inAtomic = wrap[o].inAtomic
    BY <1>1, <2>1 DEF Wrapper
  <2>3. QED
    BY <1>1, <1>2, <2>1, <2>2, StayUncommitted
<1>8. CASE Catch \/ UserSavepoints(o) \/ UNCHANGED vars
  <2>1. wrap' = wrap /\ db' = db
    BY <1>8 DEF Catch, UserSavepoints, UserSavepoint, UserRollback, RollBackTo, vars
  <2>2. QED
    BY <1>1, <1>2, <2>1, StayUncommitted
<1>9. QED
  BY <1>6, <1>7, <1>8

(* A thread that uses one alias commits nothing while a block of it is     *)
(* open, however deep its blocks are nested, whatever is rolled back or    *)
(* raised inside them, and whenever close() is called.  (With two aliases  *)
(* it does not hold: _maybe_commit of one commits the other's.)            *)
THEOREM NothingIsEarly ==
  ASSUME NEW o, Alias = {o}
  PROVE  Spec => []NothingEarly
<1>1. Init => Uncommitted(o)
  BY DEF Init, Uncommitted, InBlock, Connected
<1>2. Typed /\ Uncommitted(o) /\ [Next]_vars => Uncommitted(o)'
  <2> SUFFICES ASSUME Typed, Uncommitted(o), [Next]_vars
               PROVE  Uncommitted(o)'
    OBVIOUS
  <2>1. CASE Exiting
    BY <2>1, ExitingUncommitted
  <2>2. CASE \E a \in Alias : Entering(a) \/ Statements(a) \/ Closing(a) \/ UserSavepoints(a)
    BY <2>2, EnteringUncommitted, OthersUncommitted DEF Closing
  <2>3. CASE Catch \/ UNCHANGED vars
    BY <2>3, OthersUncommitted
  <2>4. QED
    BY <2>1, <2>2, <2>3 DEF Next, BlockNext
<1>3. Typed /\ Uncommitted(o) => NothingEarly
  BY UncommittedIsNothingEarly
<1>4. QED
  BY <1>1, <1>2, <1>3, TypedInit, TypedNext, PTL DEF Spec
==============================================================================
