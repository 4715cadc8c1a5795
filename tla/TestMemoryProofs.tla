-------------------------- MODULE TestMemoryProofs --------------------------
(***************************************************************************)
(* Proofs about TestMemory.tla, for every pool, hole and depth of the      *)
(* recursion.                                                              *)
(*                                                                         *)
(* Before the first release every frame of every active call is in use     *)
(* (Taken), so the first window of free frames meets none of them and no   *)
(* pattern is overwritten (Patterns).  Where the release reaches the pool  *)
(* at all, a frame in use that the test has filled lies in an active call  *)
(* of which no frame has been freed (Covered).                             *)
(***************************************************************************)
EXTENDS TestMemory, TLAPS

Allocation == [first : PoolFrames, len : 1 .. n_frames, pattern : Nat]
Phases == {"main", "call", "return", "done", "stuck"}

TypeOK ==
  /\ bitmap \in [Cells -> Free .. Inaccessible]
  /\ phase \in Phases
  /\ todo \in Nat
  /\ stack \in Seq(Allocation)
  /\ contents \in [PoolFrames -> Int]

InPool == \A k \in DOMAIN stack : FramesOf(stack[k]) \subseteq PoolFrames

Patterns == \A k \in DOMAIN stack : PatternIntact(stack[k])

\* On the way down the frames of all active calls are in use.
Taken ==
  phase = "call" =>
    \A k \in DOMAIN stack : \A f \in FramesOf(stack[k]) : bitmap[f - base_frame_no] \in InUse

\* Before the first call nothing is filled, after the last no call is active.
Phased ==
  /\ phase = "main" => stack = <<>> /\ \A f \in PoolFrames : contents[f] = -1
  /\ phase = "done" => stack = <<>>

MInv == TypeOK /\ InPool /\ Patterns /\ Taken /\ Phased

Intact(s) ==
  /\ bitmap[s.first - base_frame_no] = HeadOfSeq
  /\ \A f \in FramesOf(s) \ {s.first} : bitmap[f - base_frame_no] = Allocated

Covered ==
  \A c \in Frames : bitmap[c] \in InUse /\ contents[c + base_frame_no] # -1 =>
    \E k \in DOMAIN stack : Intact(stack[k]) /\ c + base_frame_no \in FramesOf(stack[k])

-----------------------------------------------------------------------------
(* The pool                                                                *)

LEMMA FramesInCells == Frames \subseteq Cells /\ Cells \subseteq Nat
<1> DEFINE q == (n_frames - 1) \div FRAME_SIZE
<1>1. q \in Nat /\ n_frames - 1 = FRAME_SIZE * q + ((n_frames - 1) % FRAME_SIZE)
  BY PoolAssumption, Z3
<1>2. (n_frames - 1) % FRAME_SIZE \in 0 .. FRAME_SIZE - 1
  BY PoolAssumption
<1> HIDE DEF q
<1>3. FRAME_SIZE * (q + 1) = FRAME_SIZE * q + FRAME_SIZE /\ FRAME_SIZE * q \in Int
  BY <1>1, PoolAssumption, SMT
<1>4. n_frames <= FRAME_SIZE * (q + 1) /\ FRAME_SIZE * (q + 1) \in Int
  BY <1>1, <1>2, <1>3, PoolAssumption
<1> QED
  BY <1>4, PoolAssumption DEF Frames, Cells, q

\* The release loop takes the whole of a sequence or nothing of it.
LEMMA RunTakesWhole ==
  ASSUME NEW i \in Int, bitmap[i] = HeadOfSeq,
         NEW a \in Int, NEW z \in Int, a .. z \subseteq Cells,
         bitmap[a] = HeadOfSeq, \A j \in a + 1 .. z : bitmap[j] = Allocated,
         NEW c \in a .. z, NEW d \in a .. z, d \in Run(i)
  PROVE  c \in Run(i)
<1>1. d >= i /\ \A j \in i .. d : bitmap[j] \in InUse
  BY DEF Run
<1>2. \A j \in a .. z : bitmap[j] \in InUse
  <2> TAKE j \in a .. z
  <2>1. j = a \/ j \in a + 1 .. z
    OBVIOUS
  <2> QED
    BY <2>1 DEF InUse
<1>3. c >= i
  <2> SUFFICES ASSUME c < i PROVE FALSE
    OBVIOUS
  <2>1. i \in a + 1 .. z
    BY <1>1
  <2> QED
    BY <2>1 DEF HeadOfSeq, Allocated
<1>4. \A j \in i .. c : j \in i .. d \/ j \in a .. z
  OBVIOUS
<1>5. \A j \in i .. c : bitmap[j] \in InUse
  BY <1>1, <1>2, <1>4
<1>6. c \in Cells
  OBVIOUS
<1> QED
  BY <1>3, <1>5, <1>6 DEF Run


\* A frame of the pool has its own state byte.
LEMMA FrameCell ==
  ASSUME NEW f \in PoolFrames
  PROVE  /\ f \in Nat /\ f - base_frame_no \in Frames /\ f - base_frame_no \in Cells
         /\ (f - base_frame_no) + base_frame_no = f
<1>1. f \in Nat /\ f - base_frame_no \in Frames /\ (f - base_frame_no) + base_frame_no = f
  BY PoolAssumption DEF PoolFrames, Frames
<1> QED
  BY <1>1, FramesInCells

LEMMA CellFrame ==
  ASSUME NEW c \in Frames
  PROVE  c + base_frame_no \in PoolFrames /\ (c + base_frame_no) - base_frame_no = c
BY PoolAssumption DEF PoolFrames, Frames

\* A request that is granted takes free frames, which are marked as one
\* sequence; nothing else changes.
LEMMA Granted ==
  ASSUME NEW n \in 1 .. n_frames, NEW f \in PoolFrames, get_frames(n, f),
         bitmap \in [Cells -> Free .. Inaccessible]
  PROVE  /\ f .. f + n - 1 \subseteq PoolFrames
         /\ bitmap' \in [Cells -> Free .. Inaccessible]
         /\ \A g \in f .. f + n - 1 : bitmap[g - base_frame_no] = Free
         /\ bitmap'[f - base_frame_no] = HeadOfSeq
         /\ \A g \in f + 1 .. f + n - 1 : bitmap'[g - base_frame_no] = Allocated
         /\ \A g \in PoolFrames : g \notin f .. f + n - 1 =>
              bitmap'[g - base_frame_no] = bitmap[g - base_frame_no]
<1>1. f # 0
  BY PoolAssumption DEF PoolFrames
<1>2. PICK i \in 0 .. n_frames - n : GetFramesAt(i, n, f)
  BY <1>1 DEF get_frames, GetFramesFails
<1>3. f = base_frame_no + i /\ i \in Nat /\ n \in Nat \ {0} /\ i + n <= n_frames
  BY <1>2, PoolAssumption DEF GetFramesAt
<1>4. f .. f + n - 1 \subseteq PoolFrames
  BY <1>3, PoolAssumption DEF PoolFrames
<1>5. \A g \in PoolFrames : g - base_frame_no \in Cells
  BY FrameCell
<1>6. \A c \in i .. i + n - 1 : bitmap[c] = Free
  BY <1>2 DEF GetFramesAt, Fits
<1>7. \A c \in Cells : bitmap'[c] = IF c = i THEN HeadOfSeq
                                    ELSE IF c \in i .. i + n - 1 THEN Allocated ELSE bitmap[c]
  BY <1>2 DEF GetFramesAt
<1>8. bitmap' \in [Cells -> Free .. Inaccessible]
  BY <1>2 DEF GetFramesAt, Free, HeadOfSeq, Allocated, Inaccessible
<1>9. \A g \in PoolFrames : g \in f .. f + n - 1 <=> g - base_frame_no \in i .. i + n - 1
  BY <1>3, PoolAssumption DEF PoolFrames
<1>10. \A g \in f .. f + n - 1 : bitmap[g - base_frame_no] = Free
  BY <1>4, <1>6, <1>9
<1>11. bitmap'[f - base_frame_no] = HeadOfSeq
  <2>1. f - base_frame_no = i /\ i \in Cells
    BY <1>3, <1>5, PoolAssumption
  <2> QED
    BY <1>7, <2>1
<1>12. \A g \in f + 1 .. f + n - 1 : bitmap'[g - base_frame_no] = Allocated
  <2> TAKE g \in f + 1 .. f + n - 1
  <2>1. g \in f .. f + n - 1 /\ g - base_frame_no # i
    BY <1>3, PoolAssumption
  <2> QED
    BY <1>4, <1>5, <1>7, <1>9, <2>1
<1>13. \A g \in PoolFrames : g \notin f .. f + n - 1 =>
              bitmap'[g - base_frame_no] = bitmap[g - base_frame_no]
  <2> SUFFICES ASSUME NEW g \in PoolFrames, g \notin f .. f + n - 1
               PROVE  bitmap'[g - base_frame_no] = bitmap[g - base_frame_no]
    OBVIOUS
  <2>1. g - base_frame_no \notin i .. i + n - 1 /\ g - base_frame_no # i
    BY <1>3, <1>9
  <2> QED
    BY <1>5, <1>7, <2>1
<1> QED
  BY <1>4, <1>8, <1>10, <1>11, <1>12, <1>13

\* A request that is not granted changes nothing.
LEMMA NotGranted == ASSUME NEW n \in 1 .. n_frames, get_frames(n, 0) PROVE bitmap' = bitmap
BY PoolAssumption DEF get_frames, GetFramesAt, GetFramesFails

LEMMA RequestType == ASSUME todo \in Nat PROVE Request \in 1 .. n_frames
<1>1. (todo % 4) + 1 \in 1 .. 4
  OBVIOUS
<1> QED
  BY <1>1, PoolAssumption DEF Request, get_total_frames

LEMMA StackTyped ==
  ASSUME TypeOK
  PROVE  /\ DOMAIN stack = 1 .. Len(stack) /\ Len(stack) \in Nat
         /\ \A k \in DOMAIN stack : stack[k] \in Allocation
  BY DEF TypeOK

LEMMA AllocationTyped ==
  ASSUME NEW s \in Allocation
  PROVE  s.first \in Nat /\ s.len \in Nat \ {0} /\ s.first \in FramesOf(s)
BY PoolAssumption DEF Allocation, FramesOf, PoolFrames

-----------------------------------------------------------------------------
(* The patterns                                                            *)

LEMMA InitMInv == Init => MInv
<1> SUFFICES ASSUME Init PROVE MInv
  OBVIOUS
<1>1. PICK memory \in [Cells \ Frames -> Free .. Inaccessible] :
        bitmap = MarkedInaccessible(Constructed(memory), HoleFirst, HoleLen)
  BY DEF Init
<1>2. \A c \in Cells : Constructed(memory)[c] \in Free .. Inaccessible
  BY DEF Constructed, Free, Inaccessible
<1>3. bitmap \in [Cells -> Free .. Inaccessible]
  BY <1>1, <1>2 DEF MarkedInaccessible, Free, Inaccessible
<1> QED
  BY <1>3, TestAssumption DEF Init, MInv, TypeOK, InPool, Patterns, Taken, Phased, Phases

\* What a call that gets frames adds.
LEMMA CallGetsAdds ==
  ASSUME MInv, CallGets
  PROVE  \E s \in Allocation :
           /\ stack' = Append(stack, s)
           /\ s.len = Request /\ s.pattern = todo
           /\ get_frames(Request, s.first)
           /\ contents' = [g \in PoolFrames |-> IF g \in FramesOf(s) THEN todo ELSE contents[g]]
<1>1. PICK f \in PoolFrames :
       LET s == [first |-> f, len |-> Request, pattern |-> todo] IN
         /\ get_frames(Request, f)
         /\ contents' = [g \in PoolFrames |-> IF g \in FramesOf(s) THEN todo ELSE contents[g]]
         /\ stack' = Append(stack, s)
  BY DEF CallGets
<1> DEFINE s == [first |-> f, len |-> Request, pattern |-> todo]
<1>2. Request \in 1 .. n_frames /\ todo \in Nat
  BY RequestType DEF MInv, TypeOK
<1>3. s \in Allocation /\ s.first = f /\ s.len = Request /\ s.pattern = todo
  BY <1>2 DEF Allocation
<1> QED
  BY <1>1, <1>3

LEMMA MCallGets == ASSUME MInv, CallGets PROVE MInv'
<1>1. PICK s \in Allocation :
           /\ stack' = Append(stack, s)
           /\ s.len = Request /\ s.pattern = todo
           /\ get_frames(Request, s.first)
           /\ contents' = [g \in PoolFrames |-> IF g \in FramesOf(s) THEN todo ELSE contents[g]]
  BY CallGetsAdds
<1>2. Request \in 1 .. n_frames /\ todo \in Nat /\ s.first \in PoolFrames
  BY RequestType DEF MInv, TypeOK, Allocation
<1>3. /\ FramesOf(s) \subseteq PoolFrames
      /\ bitmap' \in [Cells -> Free .. Inaccessible]
      /\ \A g \in FramesOf(s) : bitmap[g - base_frame_no] = Free
      /\ \A g \in FramesOf(s) : bitmap'[g - base_frame_no] \in InUse
      /\ \A g \in PoolFrames : g \notin FramesOf(s) => bitmap'[g - base_frame_no] = bitmap[g - base_frame_no]
  <2>1. FramesOf(s) = s.first .. s.first + Request - 1
    BY <1>1 DEF FramesOf
  <2>2. s.first \in Nat
    BY AllocationTyped
  <2>3. \A g \in FramesOf(s) : g = s.first \/ g \in s.first + 1 .. s.first + Request - 1
    BY <1>2, <2>1, <2>2
  <2> QED
    BY <1>1, <1>2, <2>1, <2>3, Granted DEF MInv, TypeOK, InUse
<1>4. /\ Len(stack') = Len(stack) + 1 /\ DOMAIN stack' = 1 .. Len(stack) + 1
      /\ DOMAIN stack = 1 .. Len(stack) /\ Len(stack) \in Nat
      /\ stack'[Len(stack) + 1] = s
      /\ \A k \in DOMAIN stack : stack'[k] = stack[k] /\ stack[k] \in Allocation
      /\ stack' \in Seq(Allocation)
  BY <1>1, StackTyped DEF MInv, TypeOK
<1>5. \A k \in DOMAIN stack' : k \in DOMAIN stack \/ k = Len(stack) + 1
  BY <1>4
<1>6. phase = "call" /\ phase' = "call" /\ todo' = todo - 1 /\ todo > 0
  BY DEF CallGets
<1>7. TypeOK'
  <2>1. contents' \in [PoolFrames -> Int] /\ todo' \in Nat
    BY <1>1, <1>2, <1>6 DEF MInv, TypeOK
  <2> QED
    BY <1>3, <1>4, <1>6, <2>1 DEF TypeOK, Phases
<1>8. InPool'
  <2>1. \A k \in DOMAIN stack' : FramesOf(stack'[k]) \subseteq PoolFrames
    BY <1>3, <1>4, <1>5 DEF MInv, InPool
  <2> QED
    BY <2>1 DEF InPool, FramesOf
<1>9. \A k \in DOMAIN stack : FramesOf(stack[k]) \cap FramesOf(s) = {}
  BY <1>3, <1>6 DEF MInv, Taken, InUse, Free, HeadOfSeq, Allocated
<1>10. Patterns'
  <2>1. \A k \in DOMAIN stack' : \A f \in FramesOf(stack'[k]) : contents'[f] = stack'[k].pattern
    <3> TAKE k \in DOMAIN stack'
    <3>1. CASE k \in DOMAIN stack
      <4>1. \A f \in FramesOf(stack[k]) : f \in PoolFrames /\ f \notin FramesOf(s)
        BY <1>9, <3>1 DEF MInv, InPool
      <4>2. \A f \in FramesOf(stack[k]) : contents[f] = stack[k].pattern
        BY <3>1 DEF MInv, Patterns, PatternIntact
      <4> QED
        BY <1>1, <1>4, <3>1, <4>1, <4>2
    <3>2. CASE k = Len(stack) + 1
      BY <1>1, <1>3, <1>4, <3>2
    <3> QED
      BY <1>5, <3>1, <3>2
  <2> QED
    BY <2>1 DEF Patterns, PatternIntact, FramesOf
<1>11. Taken'
  <2>1. \A k \in DOMAIN stack' : \A f \in FramesOf(stack'[k]) : bitmap'[f - base_frame_no] \in InUse
    <3> TAKE k \in DOMAIN stack'
    <3>1. CASE k \in DOMAIN stack
      <4>1. \A f \in FramesOf(stack[k]) : f \in PoolFrames /\ f \notin FramesOf(s)
        BY <1>9, <3>1 DEF MInv, InPool
      <4>2. \A f \in FramesOf(stack[k]) : bitmap[f - base_frame_no] \in InUse
        BY <1>6, <3>1 DEF MInv, Taken
      <4> QED
        BY <1>3, <1>4, <3>1, <4>1, <4>2
    <3>2. CASE k = Len(stack) + 1
      BY <1>3, <1>4, <3>2
    <3> QED
      BY <1>5, <3>1, <3>2
  <2> QED
    BY <2>1 DEF Taken, FramesOf
<1> QED
  BY <1>6, <1>7, <1>8, <1>10, <1>11 DEF MInv, Phased

\* Popping a call, whatever becomes of its frames.
LEMMA MPop ==
  ASSUME MInv, stack # <<>>, phase = "return",
         stack' = SubSeq(stack, 1, Len(stack) - 1), UNCHANGED <<phase, todo, contents>>,
         bitmap' \in [Cells -> Free .. Inaccessible]
  PROVE  /\ MInv'
         /\ DOMAIN stack' = 1 .. Len(stack) - 1
         /\ \A k \in DOMAIN stack' : k \in DOMAIN stack /\ k # Len(stack) /\ stack'[k] = stack[k]
<1>1. DOMAIN stack = 1 .. Len(stack) /\ Len(stack) \in Nat \ {0} /\ stack \in Seq(Allocation)
  BY DEF MInv, TypeOK
<1>2. /\ stack' \in Seq(Allocation) /\ DOMAIN stack' = 1 .. Len(stack) - 1
      /\ \A k \in DOMAIN stack' : k \in DOMAIN stack /\ k # Len(stack) /\ stack'[k] = stack[k]
  BY <1>1
<1> QED
  BY <1>2 DEF MInv, TypeOK, InPool, Patterns, PatternIntact, Taken, Phased, FramesOf

LEMMA TopIntact ==
  ASSUME MInv, stack # <<>>
  PROVE  Len(stack) \in DOMAIN stack /\ Top \in Allocation /\ PatternIntact(Top)
<1>1. Len(stack) \in DOMAIN stack
  BY DEF MInv, TypeOK
<1> QED
  BY <1>1, StackTyped DEF Top, MInv, Patterns

LEMMA ReleaseType ==
  ASSUME bitmap \in [Cells -> Free .. Inaccessible], NEW first, NEW base, release_frames(first, base)
  PROVE  bitmap' \in [Cells -> Free .. Inaccessible]
BY DEF release_frames, Free, Inaccessible

LEMMA StepMInv == ASSUME MInv, [Next]_vars PROVE MInv'
<1>1. CASE Main
  <2>1. bitmap' \in [Cells -> Free .. Inaccessible]
    BY <1>1 DEF Main, get_frames, GetFramesAt, GetFramesFails, MInv, TypeOK, Free, HeadOfSeq,
       Allocated, Inaccessible
  <2>2. stack = <<>>
    BY <1>1 DEF Main, MInv, Phased
  <2> QED
    BY <1>1, <2>1, <2>2 DEF Main, MInv, TypeOK, Phases, InPool, Patterns, PatternIntact, Taken, Phased
<1>2. CASE CallGets
  BY <1>2, MCallGets
<1>3. CASE CallFails
  <2>1. bitmap' = bitmap
    BY <1>3, NotGranted, RequestType DEF CallFails, MInv, TypeOK
  <2> QED
    BY <1>3, <2>1 DEF CallFails, MInv, TypeOK, Phases, InPool, Patterns, PatternIntact, Taken, Phased
<1>4. CASE CallEnds
  BY <1>4 DEF CallEnds, MInv, TypeOK, Phases, InPool, Patterns, PatternIntact, Taken, Phased
<1>5. CASE CallReturns
  <2>1. PatternIntact(Top)
    BY <1>5, TopIntact DEF CallReturns
  <2>2. bitmap' \in [Cells -> Free .. Inaccessible]
    BY <1>5, <2>1, ReleaseType DEF CallReturns, MInv, TypeOK
  <2> QED
    BY <1>5, <2>1, <2>2, MPop DEF CallReturns
<1>6. CASE Done
  BY <1>6 DEF Done, MInv, TypeOK, Phases, InPool, Patterns, PatternIntact, Taken, Phased
<1>7. CASE UNCHANGED vars
  BY <1>7 DEF vars, MInv, TypeOK, Phases, InPool, Patterns, PatternIntact, Taken, Phased
<1> QED
  BY <1>1, <1>2, <1>3, <1>4, <1>5, <1>6, <1>7 DEF Next

LEMMA TestInductive == Spec => []MInv
BY InitMInv, StepMInv, PTL DEF Spec

\* No call finds its frames overwritten by an inner call, whatever the pool,
\* the hole and the depth, and the kernel never hangs on a mismatch.
THEOREM NoPatternOverwritten == Spec => []MemoryIntact
<1>1. MInv => MemoryIntact
  BY TopIntact DEF MemoryIntact
<1> QED
  BY <1>1, TestInductive, PTL

-----------------------------------------------------------------------------
(* The release, where the size of the pool is also its base                *)

LEMMA StepCovered ==
  ASSUME n_frames = base_frame_no, MInv, Covered, [Next]_vars
  PROVE  Covered'
<1>1. CASE Main
  <2>1. \A f \in PoolFrames : contents'[f] = -1
    BY <1>1 DEF Main, MInv, Phased
  <2> QED
    BY <2>1, CellFrame DEF Covered
<1>2. CASE CallGets
  <2>1. PICK s \in Allocation :
           /\ stack' = Append(stack, s)
           /\ s.len = Request /\ s.pattern = todo
           /\ get_frames(Request, s.first)
           /\ contents' = [g \in PoolFrames |-> IF g \in FramesOf(s) THEN todo ELSE contents[g]]
    BY <1>2, CallGetsAdds
  <2>2. Request \in 1 .. n_frames /\ s.first \in PoolFrames /\ s.first \in Nat
    BY RequestType, AllocationTyped DEF MInv, TypeOK, Allocation
  <2>3. FramesOf(s) = s.first .. s.first + Request - 1
    BY <2>1 DEF FramesOf
  <2>4. /\ \A g \in FramesOf(s) : bitmap[g - base_frame_no] = Free
        /\ bitmap'[s.first - base_frame_no] = HeadOfSeq
        /\ \A g \in s.first + 1 .. s.first + Request - 1 : bitmap'[g - base_frame_no] = Allocated
        /\ \A g \in PoolFrames : g \notin FramesOf(s) => bitmap'[g - base_frame_no] = bitmap[g - base_frame_no]
    <3>1. bitmap \in [Cells -> Free .. Inaccessible] /\ get_frames(Request, s.first)
      BY <2>1 DEF MInv, TypeOK
    <3> QED
      BY <2>2, <2>3, <3>1, Granted
  <2>5. \A g \in FramesOf(s) \ {s.first} : bitmap'[g - base_frame_no] = Allocated
    <3>1. \A g \in FramesOf(s) \ {s.first} : g \in s.first + 1 .. s.first + Request - 1
      BY <2>2, <2>3
    <3> QED
      BY <2>4, <3>1
  <2>6. /\ DOMAIN stack' = 1 .. Len(stack) + 1 /\ Len(stack) + 1 \in DOMAIN stack'
        /\ stack'[Len(stack) + 1] = s
        /\ \A k \in DOMAIN stack : k \in DOMAIN stack' /\ stack'[k] = stack[k]
    BY <2>1, StackTyped DEF MInv, TypeOK
  <2> SUFFICES ASSUME NEW c \in Frames, bitmap'[c] \in InUse, contents'[c + base_frame_no] # -1
               PROVE  \E k \in DOMAIN stack' : Intact(stack[k])' /\ c + base_frame_no \in FramesOf(stack'[k])
    BY DEF Covered, FramesOf
  <2>7. c + base_frame_no \in PoolFrames /\ (c + base_frame_no) - base_frame_no = c
    BY CellFrame
  <2>8. CASE c + base_frame_no \in FramesOf(s)
    <3> PICK m \in DOMAIN stack' : stack'[m] = s
      BY <2>6
    <3>1. Intact(stack[m])'
      BY <2>4, <2>5 DEF Intact, FramesOf
    <3> QED
      BY <2>8, <3>1
  <2>9. CASE c + base_frame_no \notin FramesOf(s)
    <3>1. bitmap[c] \in InUse /\ contents[c + base_frame_no] # -1
      BY <2>1, <2>4, <2>7, <2>9
    <3>2. PICK k \in DOMAIN stack : Intact(stack[k]) /\ c + base_frame_no \in FramesOf(stack[k])
      BY <3>1 DEF Covered
    <3>3. \A g \in FramesOf(stack[k]) : bitmap'[g - base_frame_no] = bitmap[g - base_frame_no]
      <4> TAKE g \in FramesOf(stack[k])
      <4>1. g \in PoolFrames
        BY DEF MInv, InPool
      <4>2. bitmap[g - base_frame_no] \in {HeadOfSeq, Allocated}
        BY <3>2 DEF Intact
      <4>3. g \notin FramesOf(s)
        BY <2>4, <4>2 DEF Free, HeadOfSeq, Allocated
      <4> QED
        BY <2>4, <4>1, <4>3
    <3>4. stack[k].first \in FramesOf(stack[k])
      BY AllocationTyped, StackTyped DEF MInv
    <3>5. Intact(stack[k])'
      BY <2>6, <3>2, <3>3, <3>4 DEF Intact, FramesOf
    <3> QED
      BY <2>6, <3>2, <3>5
  <2> QED
    BY <2>8, <2>9
<1>3. CASE CallFails
  <2>1. bitmap' = bitmap
    BY <1>3, NotGranted, RequestType DEF CallFails, MInv, TypeOK
  <2> QED
    BY <1>3, <2>1 DEF CallFails, Covered, Intact, FramesOf
<1>4. CASE CallEnds
  BY <1>4 DEF CallEnds, Covered, Intact, FramesOf
<1>5. CASE CallReturns
  <2>1. PatternIntact(Top) /\ Top \in Allocation /\ Len(stack) \in DOMAIN stack
    BY <1>5, TopIntact DEF CallReturns
  <2>2. release_frames(Top.first, base_frame_no) /\ stack' = SubSeq(stack, 1, Len(stack) - 1) /\ contents' = contents
    BY <1>5, <2>1 DEF CallReturns, get_total_frames
  <2>3. bitmap' \in [Cells -> Free .. Inaccessible]
    BY <2>2, ReleaseType DEF MInv, TypeOK
  <2>4. /\ DOMAIN stack' = 1 .. Len(stack) - 1
        /\ \A k \in DOMAIN stack' : k \in DOMAIN stack /\ stack'[k] = stack[k]
    BY <1>5, <2>1, <2>2, <2>3, MPop DEF CallReturns
  <2>5. \A k \in DOMAIN stack : k # Len(stack) => k \in DOMAIN stack'
    BY <2>4, StackTyped DEF MInv
  <2> DEFINE i == Top.first - base_frame_no
  <2>6. i \in Cells /\ i \in Int /\ Top.first \in FramesOf(Top)
    <3>1. Top.first \in PoolFrames /\ Top.first \in FramesOf(Top)
      BY <2>1, AllocationTyped DEF Allocation
    <3>2. i \in Cells
      BY <3>1, FrameCell
    <3>3. i \in Int
      <4> HIDE DEF i
      <4> QED
        BY <3>2, FramesInCells
    <3> QED
      BY <3>1, <3>2, <3>3
  <2>7. Intact(Top) => bitmap[i] = HeadOfSeq
    BY DEF Intact
  <2>8. \A k \in DOMAIN stack : \A g \in FramesOf(stack[k]) :
          g \in PoolFrames /\ g - base_frame_no \in Cells
    BY FrameCell DEF MInv, InPool
  <2> SUFFICES ASSUME NEW c \in Frames, bitmap'[c] \in InUse, contents[c + base_frame_no] # -1
               PROVE  \E k \in DOMAIN stack' : Intact(stack[k])' /\ c + base_frame_no \in FramesOf(stack'[k])
    BY <2>2 DEF Covered, FramesOf
  <2>9. c \in Cells /\ c \in Int /\ (c + base_frame_no) - base_frame_no = c
    BY FramesInCells, CellFrame
  <2>10. CASE bitmap[i] = HeadOfSeq
    <3>1. bitmap' = [d \in Cells |-> IF d \in Run(i) THEN Free ELSE bitmap[d]]
      BY <2>2, <2>6, <2>10 DEF release_frames
    <3> HIDE DEF i
    <3>2. c \notin Run(i) /\ bitmap[c] \in InUse
      BY <2>9, <3>1 DEF InUse, Free, HeadOfSeq, Allocated
    <3>3. PICK k \in DOMAIN stack : Intact(stack[k]) /\ c + base_frame_no \in FramesOf(stack[k])
      BY <3>2 DEF Covered
    <3> PICK s \in Allocation : s = stack[k]
      BY StackTyped DEF MInv
    <3> DEFINE a == s.first - base_frame_no
    <3> DEFINE z == s.first + s.len - 1 - base_frame_no
    <3>4. s.first \in Nat /\ s.len \in Nat \ {0} /\ base_frame_no \in Nat /\ a \in Int /\ z \in Int
      BY AllocationTyped, PoolAssumption
    <3>5. \A d \in a .. z : d + base_frame_no \in FramesOf(s) /\ (d + base_frame_no) - base_frame_no = d
      BY <3>4 DEF FramesOf
    <3>6. a .. z \subseteq Cells
      BY <2>8, <3>5
    <3>7. bitmap[a] = HeadOfSeq
      BY <3>3 DEF Intact
    <3>8. \A d \in a + 1 .. z : bitmap[d] = Allocated
      <4> TAKE d \in a + 1 .. z
      <4>1. d \in a .. z /\ d + base_frame_no # s.first
        BY <3>4
      <4> QED
        BY <3>3, <3>5, <4>1 DEF Intact
    <3>9. c \in a .. z
      BY <2>9, <3>3, <3>4 DEF FramesOf
    <3>10. \A d \in a .. z : d \notin Run(i)
      <4> HIDE DEF a, z
      <4> SUFFICES ASSUME NEW d \in a .. z, d \in Run(i) PROVE FALSE
        OBVIOUS
      <4>1. c \in Run(i)
        BY <2>6, <2>10, <3>4, <3>6, <3>7, <3>8, <3>9, RunTakesWhole
      <4> QED
        BY <3>2, <4>1
    <3>11. \A g \in FramesOf(s) : bitmap'[g - base_frame_no] = bitmap[g - base_frame_no]
      <4> TAKE g \in FramesOf(s)
      <4>1. g - base_frame_no \in a .. z
        BY <3>4 DEF FramesOf
      <4> QED
        BY <3>1, <3>6, <3>10, <4>1
    <3>12. s.first \in FramesOf(s)
      BY AllocationTyped
    <3>13. k # Len(stack)
      <4> SUFFICES ASSUME k = Len(stack) PROVE FALSE
        OBVIOUS
      <4>1. i = a /\ i \in a .. z
        BY <3>4 DEF Top, i
      <4>2. i \in Run(i)
        <5>1. \A j \in i .. i : j = i
          BY <2>6
        <5> QED
          BY <2>6, <2>10, <5>1 DEF Run, InUse
      <4> QED
        BY <3>10, <4>1, <4>2
    <3>14. k \in DOMAIN stack' /\ stack'[k] = s
      BY <2>4, <2>5, <3>13
    <3>15. Intact(stack[k])'
      BY <3>3, <3>11, <3>12, <3>14 DEF Intact, FramesOf
    <3> QED
      BY <3>3, <3>14, <3>15
  <2>11. CASE bitmap[i] # HeadOfSeq
    <3>1. bitmap' = bitmap
      BY <2>2, <2>11 DEF release_frames
    <3>2. PICK k \in DOMAIN stack : Intact(stack[k]) /\ c + base_frame_no \in FramesOf(stack[k])
      BY <3>1 DEF Covered
    <3>3. k # Len(stack)
      BY <2>7, <2>11, <3>2 DEF Top
    <3>4. k \in DOMAIN stack' /\ stack'[k] = stack[k]
      BY <2>4, <2>5, <3>3
    <3>5. Intact(stack[k])'
      BY <3>1, <3>2, <3>4 DEF Intact, FramesOf
    <3> QED
      BY <3>2, <3>4, <3>5
  <2> QED
    BY <2>10, <2>11
<1>6. CASE Done
  BY <1>6 DEF Done, Covered, Intact, FramesOf
<1>7. CASE UNCHANGED vars
  BY <1>7 DEF vars, Covered, Intact, FramesOf
<1> QED
  BY <1>1, <1>2, <1>3, <1>4, <1>5, <1>6, <1>7 DEF Next

\* Where the size of the pool is also its base, as in the kernel pool of MP2,
\* every frame the test has used is free again when it is over.
THEOREM TestReleasesAll == ASSUME n_frames = base_frame_no PROVE Spec => []AllReleased
<1>1. Init => Covered
  <2> SUFFICES ASSUME Init PROVE Covered
    OBVIOUS
  <2>1. \A f \in PoolFrames : contents[f] = -1
    BY DEF Init
  <2> QED
    BY <2>1, CellFrame DEF Covered
<1>2. MInv /\ Covered => AllReleased
  <2> SUFFICES ASSUME MInv, Covered, phase = "done", NEW c \in Frames,
                      bitmap[c] # Free, bitmap[c] # Inaccessible,
                      NEW f \in PoolFrames, f - base_frame_no = c
               PROVE  contents[f] = -1
    BY DEF AllReleased
  <2>1. stack = <<>> /\ f = c + base_frame_no /\ c \in Cells
    BY FrameCell, FramesInCells DEF MInv, Phased
  <2>2. bitmap[c] \in InUse
    BY <2>1 DEF MInv, TypeOK, InUse, Free, HeadOfSeq, Allocated, Inaccessible
  <2> QED
    BY <2>1, <2>2 DEF Covered
<1>3. MInv /\ Covered /\ [Next]_vars => Covered'
  BY StepCovered
<1> QED
  BY <1>1, <1>2, <1>3, TestInductive, PTL DEF Spec
=============================================================================
