----------------------------- MODULE TestMemory -----------------------------
(***************************************************************************)
(* main and test_memory of MP2 (kernel.C) on one ContFramePool: main takes *)
(* the info frames of the other pool, then a recursion of N_TEST calls     *)
(* gets 1 to 4 frames per level, fills them with its own pattern, and on   *)
(* the way back checks the pattern and releases the frames.                *)
(***************************************************************************)
EXTENDS ContFramePool

CONSTANTS MaxTests,    \* N_TEST_ALLOCATIONS is taken from 0 .. MaxTests
          InfoFrames,  \* frames main takes for the other pool's bitmap
          HoleFirst,   \* the frames marked inaccessible
          HoleLen

ASSUME TestAssumption ==
  /\ MaxTests \in Nat
  /\ InfoFrames \in 1 .. n_frames
  /\ HoleFirst \in base_frame_no .. base_frame_no + n_frames
  /\ HoleLen \in 0 .. base_frame_no + n_frames - HoleFirst

VARIABLES phase,    \* main, call or return of test_memory, done, stuck
          todo,     \* _allocs_to_go of the call that is entered
          stack,    \* the active calls that hold frames, outermost first
          contents  \* the pattern in each frame of the pool

vars == <<bitmap, phase, todo, stack, contents>>

PoolFrames == base_frame_no .. base_frame_no + n_frames - 1
FramesOf(s) == s.first .. (s.first + s.len - 1)

get_total_frames == n_frames

Init ==
  /\ \E memory \in [Cells \ Frames -> Free .. Inaccessible] :
       bitmap = MarkedInaccessible(Constructed(memory), HoleFirst, HoleLen)
  /\ phase = "main"
  /\ todo \in 0 .. MaxTests
  /\ stack = <<>>
  /\ contents = [f \in PoolFrames |-> -1]

Main ==
  /\ phase = "main"
  /\ \E f \in {0} \cup PoolFrames : get_frames(InfoFrames, f)
  /\ phase' = "call"
  /\ UNCHANGED <<todo, stack, contents>>

\* The frames a call asks for, limited to the size of the pool.
Request == LET n == (todo % 4) + 1 IN IF n > get_total_frames THEN get_total_frames ELSE n

\* A call gets frames, writes its pattern and makes the inner call ...
CallGets ==
  /\ phase = "call" /\ todo > 0
  /\ \E f \in PoolFrames :
       LET s == [first |-> f, len |-> Request, pattern |-> todo] IN
         /\ get_frames(Request, f)
         /\ contents' = [g \in PoolFrames |-> IF g \in FramesOf(s) THEN todo ELSE contents[g]]
         /\ stack' = Append(stack, s)
  /\ todo' = todo - 1
  /\ UNCHANGED phase

\* ... or gets none and returns ...
CallFails ==
  /\ phase = "call" /\ todo > 0
  /\ get_frames(Request, 0)
  /\ phase' = "return"
  /\ UNCHANGED <<todo, stack, contents>>

\* ... or has nothing to do and returns.
CallEnds ==
  /\ phase = "call" /\ todo = 0
  /\ phase' = "return"
  /\ UNCHANGED <<bitmap, todo, stack, contents>>

Top == stack[Len(stack)]

PatternIntact(s) == \A f \in FramesOf(s) : contents[f] = s.pattern

\* Back from the inner call: the frames are verified, then released with the
\* size of the pool in the place of its base; a mismatch hangs the kernel.
CallReturns ==
  /\ phase = "return" /\ stack # <<>>
  /\ IF PatternIntact(Top)
       THEN /\ release_frames(Top.first, get_total_frames)
            /\ stack' = SubSeq(stack, 1, Len(stack) - 1)
            /\ UNCHANGED phase
       ELSE phase' = "stuck" /\ UNCHANGED <<bitmap, stack>>
  /\ UNCHANGED <<todo, contents>>

Done ==
  /\ phase = "return" /\ stack = <<>>
  /\ phase' = "done"
  /\ UNCHANGED <<bitmap, todo, stack, contents>>

Next == Main \/ CallGets \/ CallFails \/ CallEnds \/ CallReturns \/ Done

Spec == Init /\ [][Next]_vars /\ WF_vars(Next)

-----------------------------------------------------------------------------
\* No call finds its frames overwritten by an inner call (kernel.C: "Verify
\* memory integrity").
MemoryIntact == (phase = "return" /\ stack # <<>>) => PatternIntact(Top)

\* When the test is over, every frame it used is free again: only the bitmap,
\* the hole and what main took are not free (kernel.C: "Release the frames
\* after verification").
AllReleased ==
  phase = "done" =>
    \A c \in Frames :
      \/ bitmap[c] = Free
      \/ bitmap[c] = Inaccessible
      \/ \A f \in PoolFrames : f - base_frame_no = c => contents[f] = -1

\* The recursion comes to its end.
TestEnds == <>(phase = "done")
=============================================================================
