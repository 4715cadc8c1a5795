--------------------------- MODULE FrameAllocator ---------------------------
(***************************************************************************)
(* What cont_frame_pool.H (MP2) promises: a pool hands out contiguous      *)
(* sequences of free frames, and releasing a sequence, named by its first  *)
(* frame, gives back exactly that sequence.  FramePoolClient.tla           *)
(* implements this module as long as sequences are released newest first.  *)
(***************************************************************************)
EXTENDS Integers, Sequences

CONSTANT MaxRequest  \* the longest sequence a client asks for

VARIABLES free,  \* the frames that can be handed out
          held   \* the sequences handed out, oldest first

vars == <<free, held>>

FramesOf(s) == s.first .. (s.first + s.len - 1)

Without(q, k) == [i \in 1 .. Len(q) - 1 |-> IF i < k THEN q[i] ELSE q[i + 1]]

GetFrames ==
  \E f \in free, n \in 1 .. MaxRequest :
    LET s == [first |-> f, len |-> n] IN
      /\ FramesOf(s) \subseteq free
      /\ free' = free \ FramesOf(s)
      /\ held' = Append(held, s)

ReleaseFrames ==
  \E k \in DOMAIN held :
    /\ free' = free \cup FramesOf(held[k])
    /\ held' = Without(held, k)

Next == GetFrames \/ ReleaseFrames

Safe == held = <<>> /\ [][Next]_vars
=============================================================================
