--------------------------- MODULE ContFramePool ---------------------------
(***************************************************************************)
(* The contiguous frame pool of MP2 (cont_frame_pool.C): one state byte    *)
(* per frame, kept at the start of the pool itself.  The bytes that the    *)
(* bitmap leaves over in its last frame are uninitialised; release_frames  *)
(* can run into them, so they belong to the model.                         *)
(***************************************************************************)
EXTENDS Integers, Sequences

CONSTANTS base_frame_no,  \* the first frame of the pool
          n_frames,       \* the size of the pool
          FRAME_SIZE      \* bytes, and so frame states, per frame

ASSUME PoolAssumption ==
  base_frame_no \in Nat \ {0} /\ n_frames \in Nat \ {0} /\ FRAME_SIZE \in Nat \ {0}

VARIABLE bitmap

Free == 0
HeadOfSeq == 1
Allocated == 2
Inaccessible == 3

InUse == {HeadOfSeq, Allocated}

\* Seeded bug: a last frame that the bitmap does not fill is not counted.
WholeInfoFrames(n) == n \div FRAME_SIZE

needed_info_frames(n) == (n + FRAME_SIZE - 1) \div FRAME_SIZE

\* The frames of the pool, and the state bytes in memory: those of the frames
\* and the ones behind them, to the end of the frame that the last lies in.
Frames == 0 .. n_frames - 1
Cells == 0 .. FRAME_SIZE * ((n_frames - 1) \div FRAME_SIZE + 1) - 1

\* The bitmap after the constructor, over the given contents of its memory.
Constructed(memory) ==
  [c \in Cells |-> IF c \notin Frames THEN memory[c]
                   ELSE IF c < needed_info_frames(n_frames) THEN Inaccessible
                   ELSE Free]

Fits(i, n) == \A j \in i .. i + n - 1 : bitmap[j] = Free

\* Seeded bug: the last frame of a sequence is not marked.
GetFramesMarksShort(i, n, f) ==
  /\ Fits(i, n)
  /\ \A k \in 0 .. i - 1 : ~Fits(k, n)
  /\ f = base_frame_no + i
  /\ bitmap' = [c \in Cells |-> IF c = i THEN HeadOfSeq
                                ELSE IF c \in i .. i + n - 2 THEN Allocated
                                ELSE bitmap[c]]

\* The first window of n free frames is taken; f is the frame returned.
GetFramesAt(i, n, f) ==
  /\ Fits(i, n)
  /\ \A k \in 0 .. i - 1 : ~Fits(k, n)
  /\ f = base_frame_no + i
  /\ bitmap' = [c \in Cells |-> IF c = i THEN HeadOfSeq
                                ELSE IF c \in i .. i + n - 1 THEN Allocated
                                ELSE bitmap[c]]

GetFramesFails(n, f) ==
  /\ \A i \in 0 .. n_frames - n : ~Fits(i, n)
  /\ f = 0
  /\ UNCHANGED bitmap

get_frames(n, f) ==
  \/ \E i \in 0 .. n_frames - n : GetFramesAt(i, n, f)
  \/ GetFramesFails(n, f)

\* The bitmap once the frames in the hole are marked.
MarkedInaccessible(b, first, n) ==
  [c \in Cells |-> IF c \in first - base_frame_no .. first - base_frame_no + n - 1
                     THEN Inaccessible ELSE b[c]]

\* Seeded bug: only the head of a sequence is released.
RunHeadOnly(i) == {i}

\* Seeded bug: the release runs on to the next free frame.
RunToFree(i) == {c \in Cells : c >= i /\ \A k \in i .. c : bitmap[k] # Free}

\* The cells the loop of release_frames reaches from cell i.
Run(i) == {c \in Cells : c >= i /\ \A k \in i .. c : bitmap[k] \in InUse}

\* The caller names the pool by its base.  With another base the code reads
\* and writes memory elsewhere: the bitmap of this pool stays as it is.
release_frames(first, base) ==
  LET i == first - base IN
    IF base = base_frame_no /\ i \in Cells /\ bitmap[i] = HeadOfSeq
      THEN bitmap' = [c \in Cells |-> IF c \in Run(i) THEN Free ELSE bitmap[c]]
      ELSE UNCHANGED bitmap
=============================================================================
