-------------------------- MODULE FramePoolClient --------------------------
(***************************************************************************)
(* A client of one ContFramePool that gets sequences of any length and     *)
(* releases them, newest first (as the recursion of test_memory in         *)
(* kernel.C does) or in any order.                                         *)
(***************************************************************************)
EXTENDS ContFramePool

CONSTANTS MaxRequest,  \* the longest sequence the client asks for
          AnyOrder,    \* whether sequences are released in any order
          HoleFirst,   \* the frames marked inaccessible after construction
          HoleLen

ASSUME ClientAssumption ==
  /\ MaxRequest \in 1 .. n_frames
  /\ AnyOrder \in BOOLEAN
  /\ HoleLen \in Nat
  /\ HoleFirst \in base_frame_no .. base_frame_no + n_frames
  /\ HoleFirst + HoleLen <= base_frame_no + n_frames

VARIABLE held  \* the sequences handed out, oldest first

vars == <<bitmap, held>>

Init ==
  /\ \E memory \in [Cells \ Frames -> Free .. Inaccessible] :
       bitmap = MarkedInaccessible(Constructed(memory), HoleFirst, HoleLen)
  /\ held = <<>>

Get(n) ==
  \E f \in {0} \cup (base_frame_no .. base_frame_no + n_frames - 1) :
    /\ get_frames(n, f)
    /\ held' = IF f = 0 THEN held ELSE Append(held, [first |-> f, len |-> n])

Without(q, k) == [i \in 1 .. Len(q) - 1 |-> IF i < k THEN q[i] ELSE q[i + 1]]

Release(k) ==
  /\ AnyOrder \/ k = Len(held)
  /\ release_frames(held[k].first, base_frame_no)
  /\ held' = Without(held, k)

Next ==
  \/ \E n \in 1 .. MaxRequest : Get(n)
  \/ \E k \in DOMAIN held : Release(k)

Spec == Init /\ [][Next]_vars

-----------------------------------------------------------------------------
FramesOf(s) == s.first .. (s.first + s.len - 1)
State(f) == bitmap[f - base_frame_no]

\* Every variable has its type; it is part of the inductive invariant of
\* FramePoolProofs.
TypeOK ==
  /\ bitmap \in [Cells -> Free .. Inaccessible]
  /\ held \in Seq([first : base_frame_no .. base_frame_no + n_frames - 1,
                   len : 1 .. MaxRequest])

\* No frame is handed out twice, and each sequence a client holds is still
\* recorded as such: a head followed by allocated frames (get_frames never
\* chooses, and release_frames of another sequence never frees, its frames).
HeldIntact ==
  \A k \in DOMAIN held :
    /\ State(held[k].first) = HeadOfSeq
    /\ \A f \in FramesOf(held[k]) \ {held[k].first} : State(f) = Allocated
    /\ \A l \in DOMAIN held :
         k # l => FramesOf(held[k]) \cap FramesOf(held[l]) = {}

\* No frame leaks: a frame in use belongs to a sequence that a client holds.
NothingLeaks ==
  \A c \in Frames : bitmap[c] \in InUse =>
    \E k \in DOMAIN held : c + base_frame_no \in FramesOf(held[k])

\* The frames of the hole and every frame that a byte of the bitmap lies in
\* stay inaccessible, whatever the size of the pool (needed_info_frames).
ReservedStay ==
  \A c \in Frames :
    c * FRAME_SIZE < n_frames \/ c + base_frame_no \in HoleFirst .. HoleFirst + HoleLen - 1
      => bitmap[c] = Inaccessible

-----------------------------------------------------------------------------
(* The pool implements the contiguous allocator.                           *)

FreeFrames == {f \in base_frame_no .. base_frame_no + n_frames - 1 : State(f) = Free}

Allocator == INSTANCE FrameAllocator WITH free <- FreeFrames

\* Every step of the pool is one of the allocator: only free frames are handed
\* out, and a release makes exactly the released frames free again
\* (cont_frame_pool.H: release_frames).
AllocatorSafe == Allocator!Safe
=============================================================================
