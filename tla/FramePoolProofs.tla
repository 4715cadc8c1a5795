-------------------------- MODULE FramePoolProofs --------------------------
(***************************************************************************)
(* Proofs about FramePoolClient.tla for clients that release the newest    *)
(* sequence first, for every pool, hole and request size.                  *)
(*                                                                         *)
(* release_frames stops only at a frame that is neither a head nor         *)
(* allocated.  It frees the right frames because no frame in use follows   *)
(* the newest sequence: first fit leaves no free frame in front of a frame *)
(* in use (NoGap), so a sequence never ends where an older one begins      *)
(* (NewestLast).                                                           *)
(***************************************************************************)
EXTENDS FramePoolClient, TLAPS

Sequence == [first : base_frame_no .. base_frame_no + n_frames - 1, len : 1 .. MaxRequest]

\* No free frame is followed by a frame in use.
NoGap == \A c \in Frames : (c + 1 \in Frames /\ bitmap[c] = Free) => bitmap[c + 1] \notin InUse

\* No sequence ends where an older one begins.
NewestLast == \A k, l \in DOMAIN held : k < l => held[l].first + held[l].len # held[k].first

\* Sequences lie in the pool.
InPool == \A k \in DOMAIN held : FramesOf(held[k]) \subseteq base_frame_no .. base_frame_no + n_frames - 1

LInv == TypeOK /\ InPool /\ HeldIntact /\ NothingLeaks /\ ReservedStay /\ NoGap /\ NewestLast

-----------------------------------------------------------------------------
(* The bitmap has a byte for each frame.                                   *)

LEMMA InfoFramesEnough ==
  /\ needed_info_frames(n_frames) \in Nat
  /\ n_frames <= FRAME_SIZE * needed_info_frames(n_frames)
<1> DEFINE q == (n_frames + FRAME_SIZE - 1) \div FRAME_SIZE
<1>1. q \in Int /\ n_frames + FRAME_SIZE - 1 = FRAME_SIZE * q + ((n_frames + FRAME_SIZE - 1) % FRAME_SIZE)
  BY PoolAssumption, Z3
<1>2. (n_frames + FRAME_SIZE - 1) % FRAME_SIZE \in 0 .. FRAME_SIZE - 1
  BY PoolAssumption
<1> QED
  BY <1>1, <1>2, PoolAssumption DEF needed_info_frames

LEMMA FramesInCells == Frames \subseteq Cells /\ Cells \subseteq Nat
<1> DEFINE q == (n_frames - 1) \div FRAME_SIZE
<1>1. q \in Nat /\ n_frames - 1 = FRAME_SIZE * q + ((n_frames - 1) % FRAME_SIZE)
  BY PoolAssumption, Z3
<1>2. (n_frames - 1) % FRAME_SIZE \in 0 .. FRAME_SIZE - 1
  BY PoolAssumption
<1> HIDE DEF q
<1>3. FRAME_SIZE * (q + 1) = FRAME_SIZE * q + FRAME_SIZE /\ FRAME_SIZE * q \in Int
  BY <1>1, PoolAssumption, SMT
<1>4. n_frames <= FRAME_SIZE * (q + 1) /\ FRAME_SIZE * (q + 1) \in Int
  BY <1>1, <1>2, <1>3, PoolAssumption
<1> QED
  BY <1>4, PoolAssumption DEF Frames, Cells, q

\* needed_info_frames rounds up: a frame that a byte of the bitmap lies in is
\* one of those it counts.
LEMMA BitmapReserved ==
  ASSUME NEW c \in Nat, c * FRAME_SIZE < n_frames
  PROVE  c < needed_info_frames(n_frames)
<1> DEFINE q == needed_info_frames(n_frames)
<1>1. q \in Nat /\ n_frames <= FRAME_SIZE * q
  BY InfoFramesEnough
<1> HIDE DEF q
<1>2. ASSUME ~(c < q) PROVE FALSE
  <2>1. PICK d \in Nat : c = q + d
    <3>1. c - q \in Nat /\ c = q + (c - q)
      BY <1>1, <1>2
    <3> QED
      BY <3>1
  <2>2. c * FRAME_SIZE = FRAME_SIZE * q + d * FRAME_SIZE /\ d * FRAME_SIZE \in Nat
    BY <1>1, <2>1, PoolAssumption, SMT
  <2>3. FRAME_SIZE * q \in Int
    BY <1>1, PoolAssumption
  <2> QED
    BY <1>1, <2>2, <2>3, PoolAssumption
<1> QED
  BY <1>2 DEF q

-----------------------------------------------------------------------------
LEMMA InitLInv == Init => LInv
<1> SUFFICES ASSUME Init PROVE LInv
  OBVIOUS
<1>1. PICK memory \in [Cells \ Frames -> Free .. Inaccessible] :
        bitmap = MarkedInaccessible(Constructed(memory), HoleFirst, HoleLen)
  BY DEF Init
<1>2. \A c \in Cells : Constructed(memory)[c] \in Free .. Inaccessible
  BY DEF Constructed, Free, Inaccessible
<1>3. bitmap \in [Cells -> Free .. Inaccessible]
  BY <1>1, <1>2 DEF MarkedInaccessible, Free, Inaccessible
<1>4. \A c \in Frames : bitmap[c] \in {Free, Inaccessible}
  BY <1>1, FramesInCells DEF MarkedInaccessible, Constructed
<1>5. \A c \in Frames :
        c * FRAME_SIZE < n_frames \/ c + base_frame_no \in HoleFirst .. HoleFirst + HoleLen - 1
          => bitmap[c] = Inaccessible
  <2> TAKE c \in Frames
  <2>1. c \in Nat /\ c \in Cells
    BY FramesInCells
  <2>2. c * FRAME_SIZE < n_frames => c < needed_info_frames(n_frames)
    BY <2>1, BitmapReserved
  <2>3. CASE c < needed_info_frames(n_frames)
    BY <1>1, <2>1, <2>3 DEF MarkedInaccessible, Constructed
  <2>4. CASE c + base_frame_no \in HoleFirst .. HoleFirst + HoleLen - 1
    BY <1>1, <2>1, <2>4, PoolAssumption, ClientAssumption DEF MarkedInaccessible
  <2> QED
    BY <2>2, <2>3, <2>4, Zenon
<1>6. held = <<>>
  BY DEF Init
<1> QED
  BY <1>3, <1>4, <1>5, <1>6 DEF LInv, TypeOK, InPool, HeldIntact, NothingLeaks,
     ReservedStay, NoGap, NewestLast, InUse, Free, HeadOfSeq, Allocated, Inaccessible

\* Getting frames.
LEMMA GetStep == ASSUME LInv, NEW n \in 1 .. MaxRequest, Get(n) PROVE LInv'
<1> USE PoolAssumption, ClientAssumption
<1>1. PICK f \in {0} \cup (base_frame_no .. base_frame_no + n_frames - 1) :
        /\ get_frames(n, f)
        /\ held' = IF f = 0 THEN held ELSE Append(held, [first |-> f, len |-> n])
  BY DEF Get
<1>2. CASE GetFramesFails(n, f)
  BY <1>1, <1>2 DEF GetFramesFails, LInv, TypeOK, InPool, HeldIntact, NothingLeaks,
     ReservedStay, NoGap, NewestLast, State
<1>3. ASSUME NEW i \in 0 .. n_frames - n, GetFramesAt(i, n, f) PROVE LInv'
  <2> DEFINE s == [first |-> f, len |-> n]
  <2> DEFINE W == i .. i + n - 1
  <2>1. f = base_frame_no + i /\ f # 0 /\ s \in Sequence /\ held' = Append(held, s)
    BY <1>1, <1>3 DEF GetFramesAt, Sequence
  <2>2. held \in Seq(Sequence) /\ bitmap \in [Cells -> Free .. Inaccessible]
    BY DEF LInv, TypeOK, Sequence
  <2>3. /\ Len(held') = Len(held) + 1 /\ DOMAIN held' = 1 .. Len(held) + 1
        /\ DOMAIN held = 1 .. Len(held) /\ Len(held) \in Nat
        /\ held'[Len(held) + 1] = s
        /\ \A k \in DOMAIN held : held'[k] = held[k] /\ held[k] \in Sequence
    BY <2>1, <2>2
  <2>4. W \subseteq Frames /\ \A c \in W : bitmap[c] = Free
    BY <1>3 DEF GetFramesAt, Fits, Frames
  <2>5. \A c \in Cells : bitmap'[c] = IF c = i THEN HeadOfSeq
                                      ELSE IF c \in W THEN Allocated ELSE bitmap[c]
    BY <1>3 DEF GetFramesAt
  <2>6. bitmap' \in [Cells -> Free .. Inaccessible]
    BY <1>3, <2>2 DEF GetFramesAt, HeadOfSeq, Allocated, Free, Inaccessible
  <2>7. \A g \in FramesOf(s) : g - base_frame_no \in W
    BY <2>1 DEF FramesOf
  <2>8. \A c \in W : c + base_frame_no \in FramesOf(s)
    BY <2>1 DEF FramesOf
  <2>9. \A k \in DOMAIN held : \A g \in FramesOf(held[k]) :
          /\ g \in Int /\ g - base_frame_no \in Frames
          /\ State(g) \in InUse
    <3> SUFFICES ASSUME NEW k \in DOMAIN held, NEW g \in FramesOf(held[k])
                 PROVE  g \in Int /\ g - base_frame_no \in Frames /\ State(g) \in InUse
      OBVIOUS
    <3>1. g \in base_frame_no .. base_frame_no + n_frames - 1
      BY DEF LInv, InPool
    <3>2. State(g) \in InUse
      BY DEF LInv, HeldIntact, InUse
    <3> QED
      BY <3>1, <3>2 DEF Frames
  <2>10. \A k \in DOMAIN held : FramesOf(held[k]) \cap FramesOf(s) = {}
    BY <2>4, <2>7, <2>9 DEF State, InUse, Free, HeadOfSeq, Allocated
  <2>11. \A c \in Frames \ W : bitmap'[c] = bitmap[c]
    BY <2>5, <2>4, FramesInCells, <1>3 DEF Frames
  <2>12. \A k \in DOMAIN held : \A g \in FramesOf(held[k]) : State(g)' = State(g)
    <3> SUFFICES ASSUME NEW k \in DOMAIN held, NEW g \in FramesOf(held[k])
                 PROVE  bitmap'[g - base_frame_no] = bitmap[g - base_frame_no]
      BY DEF State
    <3>1. g \in Int /\ g - base_frame_no \in Frames /\ g \notin FramesOf(s)
      BY <2>9, <2>10
    <3>2. g - base_frame_no \notin W
      <4> SUFFICES ASSUME g - base_frame_no \in W PROVE FALSE
        OBVIOUS
      <4>1. (g - base_frame_no) + base_frame_no \in FramesOf(s)
        BY <2>8
      <4>2. (g - base_frame_no) + base_frame_no = g
        BY <3>1
      <4> QED
        BY <3>1, <4>1, <4>2
    <3> QED
      BY <2>11, <3>1, <3>2
  <2>13. TypeOK'
    <3>1. held' \in Seq(Sequence)
      BY <2>1, <2>2
    <3> QED
      BY <2>6, <3>1 DEF TypeOK, Sequence
  <2>14. InPool'
    BY <2>1, <2>3, <2>4, <2>7 DEF LInv, InPool, FramesOf, Sequence
  <2>15. HeldIntact'
    <3>1. ASSUME NEW k \in DOMAIN held
          PROVE  /\ State(held[k].first)' = HeadOfSeq
                 /\ \A g \in FramesOf(held[k]) \ {held[k].first} : State(g)' = Allocated
      <4>1. held[k].first \in FramesOf(held[k])
        BY <2>3 DEF FramesOf, Sequence
      <4>2. State(held[k].first) = HeadOfSeq
            /\ \A g \in FramesOf(held[k]) \ {held[k].first} : State(g) = Allocated
        BY DEF LInv, HeldIntact
      <4> QED
        BY <2>3, <2>12, <4>1, <4>2 DEF State
    <3>2. bitmap'[f - base_frame_no] = HeadOfSeq
      BY <2>1, <2>4, <2>5, FramesInCells
    <3>3. \A g \in FramesOf(s) \ {f} : bitmap'[g - base_frame_no] = Allocated
      BY <2>1, <2>4, <2>5, <2>7, FramesInCells DEF FramesOf
    <3>4. \A k, l \in DOMAIN held' :
            k # l => FramesOf(held'[k]) \cap FramesOf(held'[l]) = {}
      <4> SUFFICES ASSUME NEW k \in DOMAIN held', NEW l \in DOMAIN held', k # l
                   PROVE  FramesOf(held'[k]) \cap FramesOf(held'[l]) = {}
        OBVIOUS
      <4>1. CASE k \in DOMAIN held /\ l \in DOMAIN held
        BY <2>3, <4>1 DEF LInv, HeldIntact
      <4>2. CASE k \in DOMAIN held /\ l = Len(held) + 1
        BY <2>3, <2>10, <4>2
      <4>3. CASE k = Len(held) + 1 /\ l \in DOMAIN held
        BY <2>3, <2>10, <4>3
      <4> QED
        BY <2>3, <4>1, <4>2, <4>3
    <3>5. \A k \in DOMAIN held' :
            /\ bitmap'[held'[k].first - base_frame_no] = HeadOfSeq
            /\ \A g \in FramesOf(held'[k]) \ {held'[k].first} :
                 bitmap'[g - base_frame_no] = Allocated
      <4> SUFFICES ASSUME NEW k \in DOMAIN held'
                   PROVE  /\ bitmap'[held'[k].first - base_frame_no] = HeadOfSeq
                          /\ \A g \in FramesOf(held'[k]) \ {held'[k].first} :
                               bitmap'[g - base_frame_no] = Allocated
        OBVIOUS
      <4>1. CASE k \in DOMAIN held
        BY <2>3, <3>1, <4>1 DEF State
      <4>2. CASE k = Len(held) + 1
        <5>1. held'[k] = s /\ s.first = f
          BY <2>3, <4>2
        <5> QED
          BY <3>2, <3>3, <5>1
      <4> QED
        BY <2>3, <4>1, <4>2
    <3> QED
      BY <3>4, <3>5 DEF HeldIntact, State, FramesOf
  <2>16. NothingLeaks'
    <3> SUFFICES ASSUME NEW c \in Frames, bitmap'[c] \in InUse
                 PROVE  \E k \in DOMAIN held' : c + base_frame_no \in FramesOf(held'[k])
      BY DEF NothingLeaks, Frames, FramesOf
    <3>1. CASE c \in W
      <4>1. Len(held) + 1 \in DOMAIN held' /\ held'[Len(held) + 1] = s
        BY <2>3
      <4> QED
        BY <2>8, <3>1, <4>1
    <3>2. CASE c \notin W
      <4>1. PICK k \in DOMAIN held : c + base_frame_no \in FramesOf(held[k])
        BY <2>11, <3>2 DEF LInv, NothingLeaks
      <4> QED
        BY <2>3, <4>1
    <3> QED
      BY <3>1, <3>2
  <2>17. ReservedStay'
    BY <2>4, <2>11 DEF LInv, ReservedStay, Free, Inaccessible
  <2>18. NoGap'
    <3>1. i > 0 => bitmap[i - 1] # Free
      BY <1>3 DEF GetFramesAt, Fits
    <3> SUFFICES ASSUME NEW c \in Frames, c + 1 \in Frames, bitmap'[c] = Free
                 PROVE  bitmap'[c + 1] \notin InUse
      BY DEF NoGap, Frames
    <3>2. c \notin W /\ bitmap[c] = Free
      BY <2>5, <2>4, <2>11, FramesInCells DEF Free, HeadOfSeq, Allocated
    <3>3. c + 1 \notin W
      BY <3>1, <3>2, <1>3 DEF Frames
    <3> QED
      BY <2>11, <3>2, <3>3 DEF LInv, NoGap
  <2>19. NewestLast'
    <3>1. \A k \in DOMAIN held : f + n # held[k].first
      <4> SUFFICES ASSUME NEW k \in DOMAIN held, f + n = held[k].first PROVE FALSE
        OBVIOUS
      <4>1. held[k].first \in FramesOf(held[k])
        BY <2>3 DEF FramesOf, Sequence
      <4>2. i + n \in Frames /\ bitmap[i + n] \in InUse
        BY <2>1, <2>9, <4>1 DEF State
      <4>3. i + n - 1 \in Frames /\ bitmap[i + n - 1] = Free
        BY <2>4
      <4> QED
        BY <4>2, <4>3 DEF LInv, NoGap
    <3>2. ASSUME NEW k \in DOMAIN held', NEW l \in DOMAIN held', k < l
          PROVE  held'[l].first + held'[l].len # held'[k].first
      <4>1. k \in DOMAIN held /\ held'[k] = held[k]
        BY <2>3, <3>2
      <4>2. CASE l \in DOMAIN held
        BY <2>3, <3>2, <4>1, <4>2 DEF LInv, NewestLast
      <4>3. CASE l = Len(held) + 1
        <5>1. held'[l] = s /\ s.first = f /\ s.len = n
          BY <2>3, <4>3
        <5> QED
          BY <3>1, <4>1, <5>1
      <4> QED
        BY <2>3, <4>2, <4>3
    <3> QED
      BY <3>2 DEF NewestLast
  <2> QED
    BY <2>13, <2>14, <2>15, <2>16, <2>17, <2>18, <2>19 DEF LInv
<1> QED
  BY <1>1, <1>2, <1>3 DEF get_frames
LEMMA HeldTyped ==
  ASSUME LInv
  PROVE  /\ held \in Seq(Sequence) /\ DOMAIN held = 1 .. Len(held) /\ Len(held) \in Nat
         /\ \A k \in DOMAIN held : held[k] \in Sequence
<1>1. held \in Seq(Sequence)
  BY DEF LInv, TypeOK, Sequence
<1> QED
  BY <1>1

LEMMA SequenceTyped ==
  ASSUME NEW s \in Sequence
  PROVE  s.first \in Nat /\ s.len \in Nat \ {0} /\ s.first \in FramesOf(s)
BY PoolAssumption, ClientAssumption DEF Sequence, FramesOf

\* Of two disjoint sequences, the one that holds the frame behind the other
\* begins with it.
LEMMA Adjacent ==
  ASSUME NEW s \in Sequence, NEW t \in Sequence,
         FramesOf(s) \cap FramesOf(t) = {}, s.first + s.len \in FramesOf(t)
  PROVE  t.first = s.first + s.len
<1>1. s.first + s.len - 1 \in FramesOf(s)
  BY SequenceTyped DEF FramesOf
<1>2. s.first + s.len - 1 \notin FramesOf(t)
  BY <1>1
<1> QED
  BY <1>2, SequenceTyped DEF FramesOf

\* Releasing the newest sequence: the loop frees its frames and no other
\* frame of the pool.
LEMMA ReleaseRun ==
  ASSUME LInv, held # <<>>
  PROVE  LET s == held[Len(held)] IN
         \A c \in Frames : c \in Run(s.first - base_frame_no)
                             <=> c + base_frame_no \in FramesOf(s)
<1> USE PoolAssumption, ClientAssumption
<1> DEFINE s == held[Len(held)]
<1> DEFINE i == s.first - base_frame_no
<1>1. Len(held) \in DOMAIN held /\ DOMAIN held = 1 .. Len(held) /\ s \in Sequence
  BY HeldTyped
<1>2. \A k \in DOMAIN held : held[k] \in Sequence
  BY HeldTyped
<1>3. FramesOf(s) \subseteq base_frame_no .. base_frame_no + n_frames - 1
  BY <1>1 DEF LInv, InPool
<1>4. \A c \in Frames : c + base_frame_no \in FramesOf(s) <=> c \in i .. i + s.len - 1
  BY <1>1 DEF FramesOf, Sequence, Frames
<1>5. i \in Frames /\ i + s.len - 1 \in Frames /\ s.len \in Nat \ {0}
  <2>1. s.first \in FramesOf(s) /\ s.first + s.len - 1 \in FramesOf(s)
    BY <1>1 DEF FramesOf, Sequence
  <2> QED
    BY <1>1, <1>3, <2>1 DEF Frames, Sequence
<1>6. \A c \in i .. i + s.len - 1 : bitmap[c] \in InUse
  <2> SUFFICES ASSUME NEW c \in i .. i + s.len - 1 PROVE bitmap[c] \in InUse
    OBVIOUS
  <2>1. c + base_frame_no \in FramesOf(s) /\ (c + base_frame_no) - base_frame_no = c
    BY <1>4, <1>5 DEF Frames
  <2> QED
    BY <1>1, <2>1 DEF LInv, HeldIntact, State, InUse
<1>7. i + s.len \in Frames => bitmap[i + s.len] \notin InUse
  <2> SUFFICES ASSUME i + s.len \in Frames, bitmap[i + s.len] \in InUse PROVE FALSE
    OBVIOUS
  <2>1. PICK k \in DOMAIN held : i + s.len + base_frame_no \in FramesOf(held[k])
    BY DEF LInv, NothingLeaks
  <2>2. i + s.len + base_frame_no = s.first + s.len
    BY <1>1 DEF Sequence
  <2>3. k # Len(held)
    BY <1>1, <2>1, <2>2 DEF FramesOf, Sequence
  <2>4. FramesOf(held[k]) \cap FramesOf(s) = {}
    BY <1>1, <2>3 DEF LInv, HeldIntact
  <2>5. s.first + s.len \in FramesOf(held[k]) /\ FramesOf(s) \cap FramesOf(held[k]) = {}
    BY <2>1, <2>2, <2>4
  <2>6. held[k].first = s.first + s.len
    BY <1>1, <1>2, <2>5, Adjacent
  <2> QED
    BY <1>1, <2>3, <2>6 DEF LInv, NewestLast
<1>8. \A c \in Frames : c \in Run(i) <=> c \in i .. i + s.len - 1
  <2> SUFFICES ASSUME NEW c \in Frames
               PROVE  c \in Run(i) <=> c \in i .. i + s.len - 1
    OBVIOUS
  <2>1. CASE c < i
    BY <1>5, <2>1 DEF Run, Frames
  <2>2. CASE c \in i .. i + s.len - 1
    <3>1. c >= i /\ i .. c \subseteq i .. i + s.len - 1 /\ c \in Cells
      BY <1>5, <2>2, FramesInCells DEF Frames
    <3>2. \A j \in i .. c : bitmap[j] \in InUse
      BY <1>6, <3>1
    <3> QED
      BY <2>2, <3>1, <3>2 DEF Run
  <2>3. CASE c >= i + s.len
    <3> HIDE DEF i, s
    <3>0. c \in 0 .. n_frames - 1 /\ i \in 0 .. n_frames - 1 /\ s.len \in Nat \ {0}
      BY <1>5 DEF Frames
    <3>1. i + s.len \in i .. c /\ i + s.len \in Frames /\ c \notin i .. i + s.len - 1
      BY <2>3, <3>0 DEF Frames
    <3> QED
      BY <1>7, <3>1 DEF Run
  <2> QED
    BY <1>5, <2>1, <2>2, <2>3 DEF Frames
<1> QED
  BY <1>4, <1>8

LEMMA ReleaseStep ==
  ASSUME LInv, AnyOrder = FALSE, NEW k \in DOMAIN held, Release(k)
  PROVE  LInv'
<1> USE PoolAssumption, ClientAssumption
<1> DEFINE top == Len(held)
<1>1. k = top /\ top \in Nat \ {0} /\ DOMAIN held = 1 .. top /\ held # <<>>
  BY HeldTyped DEF Release
<1> PICK s \in Sequence : s = held[top]
  BY <1>1, HeldTyped
<1>2. \A l \in DOMAIN held : held[l] \in Sequence
  BY HeldTyped
<1>3. held' = [l \in 1 .. top - 1 |-> held[l]]
  BY <1>1 DEF Release, Without
<1>4. held' \in Seq(Sequence) /\ DOMAIN held' = 1 .. top - 1 /\ Len(held') = top - 1
      /\ \A l \in DOMAIN held' : l \in DOMAIN held /\ l # top /\ held'[l] = held[l]
  BY <1>1, <1>2, <1>3
<1>5. s.first - base_frame_no \in Frames /\ bitmap[s.first - base_frame_no] = HeadOfSeq
  BY <1>1 DEF LInv, HeldIntact, State, Sequence, Frames
<1>6. bitmap' = [c \in Cells |-> IF c \in Run(s.first - base_frame_no) THEN Free ELSE bitmap[c]]
  BY <1>1, <1>5, FramesInCells DEF Release, release_frames
<1>7. bitmap' \in [Cells -> Free .. Inaccessible]
  BY <1>6 DEF LInv, TypeOK, Free, Inaccessible
<1>8. \A c \in Frames : bitmap'[c] = IF c + base_frame_no \in FramesOf(s) THEN Free ELSE bitmap[c]
  BY <1>1, <1>6, ReleaseRun, FramesInCells
<1>9. \A l \in DOMAIN held' : FramesOf(held[l]) \cap FramesOf(s) = {}
  BY <1>1, <1>4 DEF LInv, HeldIntact
<1>10. \A l \in DOMAIN held' : \A g \in FramesOf(held[l]) :
         bitmap'[g - base_frame_no] = bitmap[g - base_frame_no]
  <2> SUFFICES ASSUME NEW l \in DOMAIN held', NEW g \in FramesOf(held[l])
               PROVE  bitmap'[g - base_frame_no] = bitmap[g - base_frame_no]
    OBVIOUS
  <2>1. g \in base_frame_no .. base_frame_no + n_frames - 1 /\ g \notin FramesOf(s)
    BY <1>4, <1>9 DEF LInv, InPool
  <2>2. g - base_frame_no \in Frames /\ (g - base_frame_no) + base_frame_no = g
    BY <2>1 DEF Frames
  <2> QED
    BY <1>8, <2>1, <2>2
<1>11. TypeOK'
  BY <1>4, <1>7 DEF TypeOK, Sequence
<1>12. InPool'
  BY <1>4 DEF LInv, InPool, FramesOf
<1>13. HeldIntact'
  <2>1. ASSUME NEW l \in DOMAIN held'
        PROVE  /\ bitmap'[held'[l].first - base_frame_no] = HeadOfSeq
               /\ \A g \in FramesOf(held'[l]) \ {held'[l].first} :
                    bitmap'[g - base_frame_no] = Allocated
    <3>1. held[l].first \in FramesOf(held[l])
      BY <1>2, <1>4, SequenceTyped
    <3> QED
      BY <1>4, <1>10, <3>1 DEF LInv, HeldIntact, State
  <2>2. \A a, b \in DOMAIN held' : a # b => FramesOf(held'[a]) \cap FramesOf(held'[b]) = {}
    BY <1>4 DEF LInv, HeldIntact
  <2> QED
    BY <2>1, <2>2 DEF HeldIntact, State, FramesOf
<1>14. NothingLeaks'
  <2> SUFFICES ASSUME NEW c \in Frames, bitmap'[c] \in InUse
               PROVE  \E l \in DOMAIN held' : c + base_frame_no \in FramesOf(held'[l])
    BY DEF NothingLeaks, FramesOf
  <2>1. c + base_frame_no \notin FramesOf(s) /\ bitmap[c] \in InUse
    BY <1>8 DEF InUse, Free, HeadOfSeq, Allocated
  <2>2. PICK l \in DOMAIN held : c + base_frame_no \in FramesOf(held[l])
    BY <2>1 DEF LInv, NothingLeaks
  <2>3. l # top
    BY <2>1, <2>2
  <2> QED
    BY <1>1, <1>4, <2>2, <2>3
<1>15. ReservedStay'
  <2>1. \A c \in Frames : c + base_frame_no \in FramesOf(s) => bitmap[c] \in InUse
    <3> SUFFICES ASSUME NEW c \in Frames, c + base_frame_no \in FramesOf(s)
                 PROVE  bitmap[c] \in InUse
      OBVIOUS
    <3>1. (c + base_frame_no) - base_frame_no = c
      BY DEF Frames
    <3> QED
      BY <1>1, <3>1 DEF LInv, HeldIntact, State, InUse
  <2> QED
    BY <1>8, <2>1 DEF LInv, ReservedStay, InUse, HeadOfSeq, Allocated, Inaccessible
<1>16. NoGap'
  <2> SUFFICES ASSUME NEW c \in Frames, c + 1 \in Frames, bitmap'[c] = Free
               PROVE  bitmap'[c + 1] \notin InUse
    BY DEF NoGap
  <2>1. Free \notin InUse
    BY DEF Free, InUse, HeadOfSeq, Allocated
  <2>2. CASE (c + 1) + base_frame_no \in FramesOf(s)
    BY <1>8, <2>1, <2>2
  <2>3. CASE bitmap[c] = Free
    BY <1>8, <2>1, <2>3 DEF LInv, NoGap
  <2>4. CASE c + base_frame_no \in FramesOf(s) /\ (c + 1) + base_frame_no \notin FramesOf(s)
    <3>1. (c + 1) + base_frame_no = s.first + s.len
      BY <2>4, SMTT(30) DEF FramesOf, Sequence, Frames
    <3> SUFFICES ASSUME bitmap[c + 1] \in InUse PROVE FALSE
      BY <1>8, <2>4
    <3>2. PICK l \in DOMAIN held : (c + 1) + base_frame_no \in FramesOf(held[l])
      BY DEF LInv, NothingLeaks
    <3>3. l # top
      BY <2>4, <3>2
    <3>4. FramesOf(held[l]) \cap FramesOf(s) = {}
      BY <1>1, <3>3 DEF LInv, HeldIntact
    <3>5. held[l].first = s.first + s.len
      <4>1. s.first + s.len \in FramesOf(held[l]) /\ FramesOf(s) \cap FramesOf(held[l]) = {}
        BY <3>1, <3>2, <3>4
      <4> QED
        BY <1>2, <4>1, Adjacent
    <3> QED
      BY <1>1, <3>3, <3>5 DEF LInv, NewestLast
  <2> QED
    BY <1>8, <2>2, <2>3, <2>4
<1>17. NewestLast'
  BY <1>4 DEF LInv, NewestLast
<1> QED
  BY <1>11, <1>12, <1>13, <1>14, <1>15, <1>16, <1>17 DEF LInv

-----------------------------------------------------------------------------
LEMMA PoolInductive == ASSUME AnyOrder = FALSE PROVE Spec => []LInv
<1>1. LInv /\ [Next]_vars => LInv'
  <2> SUFFICES ASSUME LInv, [Next]_vars PROVE LInv'
    OBVIOUS
  <2>1. CASE UNCHANGED vars
    BY <2>1 DEF vars, LInv, TypeOK, InPool, HeldIntact, NothingLeaks, ReservedStay,
       NoGap, NewestLast, State
  <2> QED
    BY <2>1, GetStep, ReleaseStep DEF Next
<1> QED
  BY <1>1, InitLInv, PTL DEF Spec

\* Under clients that release the newest sequence first: no frame is handed
\* out twice, no sequence is damaged, none leaks, and no reserved frame is
\* ever handed out.
THEOREM PoolSafe ==
  ASSUME AnyOrder = FALSE
  PROVE  Spec => [](TypeOK /\ HeldIntact /\ NothingLeaks /\ ReservedStay)
<1>1. LInv => TypeOK /\ HeldIntact /\ NothingLeaks /\ ReservedStay
  BY DEF LInv
<1> QED
  BY <1>1, PoolInductive, PTL

-----------------------------------------------------------------------------
(* Clients that release in any order.  A release may free more than its    *)
(* sequence, and a sequence that is still held may lose its frames; but    *)
(* what is freed is always whole sequences, so every frame in use lies in  *)
(* a sequence of which no frame has been lost.                             *)

Intact(s) ==
  /\ State(s.first) = HeadOfSeq
  /\ \A f \in FramesOf(s) \ {s.first} : State(f) = Allocated

Covered ==
  \A c \in Frames : bitmap[c] \in InUse =>
    \E k \in DOMAIN held : Intact(held[k]) /\ c + base_frame_no \in FramesOf(held[k])

AInv == TypeOK /\ InPool /\ ReservedStay /\ Covered

\* The release loop takes the whole of a sequence or nothing of it.
LEMMA RunTakesWhole ==
  ASSUME NEW i \in Int, bitmap[i] = HeadOfSeq,
         NEW a \in Int, NEW z \in Int, a .. z \subseteq Cells,
         bitmap[a] = HeadOfSeq, \A j \in a + 1 .. z : bitmap[j] = Allocated,
         NEW c \in a .. z, NEW d \in a .. z, d \in Run(i)
  PROVE  c \in Run(i)
<1>1. d >= i /\ \A j \in i .. d : bitmap[j] \in InUse
  BY DEF Run
<1>2. \A j \in a .. z : bitmap[j] \in InUse
  <2> TAKE j \in a .. z
  <2>1. j = a \/ j \in a + 1 .. z
    OBVIOUS
  <2> QED
    BY <2>1 DEF InUse
<1>3. c >= i
  <2> SUFFICES ASSUME c < i PROVE FALSE
    OBVIOUS
  <2>1. i \in a + 1 .. z
    BY <1>1
  <2> QED
    BY <2>1 DEF HeadOfSeq, Allocated
<1>4. \A j \in i .. c : j \in i .. d \/ j \in a .. z
  OBVIOUS
<1>5. \A j \in i .. c : bitmap[j] \in InUse
  BY <1>1, <1>2, <1>4
<1>6. c \in Cells
  OBVIOUS
<1> QED
  BY <1>3, <1>5, <1>6 DEF Run

LEMMA AHeldTyped ==
  ASSUME AInv
  PROVE  /\ held \in Seq(Sequence) /\ DOMAIN held = 1 .. Len(held) /\ Len(held) \in Nat
         /\ \A k \in DOMAIN held : held[k] \in Sequence
<1>1. held \in Seq(Sequence)
  BY DEF AInv, TypeOK, Sequence
<1> QED
  BY <1>1

\* A held sequence lies in the bitmap.
LEMMA AInBitmap ==
  ASSUME AInv, NEW k \in DOMAIN held, NEW g \in FramesOf(held[k])
  PROVE  g \in Int /\ g - base_frame_no \in Frames /\ (g - base_frame_no) + base_frame_no = g
<1>1. g \in base_frame_no .. base_frame_no + n_frames - 1
  BY DEF AInv, InPool
<1> QED
  BY <1>1, PoolAssumption DEF Frames

LEMMA AGetStep == ASSUME AInv, NEW n \in 1 .. MaxRequest, Get(n) PROVE AInv'
<1> USE PoolAssumption, ClientAssumption
<1>1. PICK f \in {0} \cup (base_frame_no .. base_frame_no + n_frames - 1) :
        /\ get_frames(n, f)
        /\ held' = IF f = 0 THEN held ELSE Append(held, [first |-> f, len |-> n])
  BY DEF Get
<1>2. CASE GetFramesFails(n, f)
  BY <1>1, <1>2 DEF GetFramesFails, AInv, TypeOK, InPool, ReservedStay, Covered, Intact, State
<1>3. ASSUME NEW i \in 0 .. n_frames - n, GetFramesAt(i, n, f) PROVE AInv'
  <2> DEFINE s == [first |-> f, len |-> n]
  <2> DEFINE W == i .. i + n - 1
  <2>1. f = base_frame_no + i /\ f # 0 /\ s \in Sequence /\ held' = Append(held, s)
    BY <1>1, <1>3 DEF GetFramesAt, Sequence
  <2>2. held \in Seq(Sequence) /\ bitmap \in [Cells -> Free .. Inaccessible]
    BY DEF AInv, TypeOK, Sequence
  <2>3. /\ Len(held') = Len(held) + 1 /\ DOMAIN held' = 1 .. Len(held) + 1
        /\ DOMAIN held = 1 .. Len(held) /\ Len(held) \in Nat
        /\ held'[Len(held) + 1] = s
        /\ \A k \in DOMAIN held : held'[k] = held[k] /\ held[k] \in Sequence
    BY <2>1, <2>2
  <2>4. W \subseteq Frames /\ W \subseteq Cells /\ \A c \in W : bitmap[c] = Free
    BY <1>3, FramesInCells DEF GetFramesAt, Fits, Frames
  <2>5. \A c \in Cells : bitmap'[c] = IF c = i THEN HeadOfSeq
                                      ELSE IF c \in W THEN Allocated ELSE bitmap[c]
    BY <1>3 DEF GetFramesAt
  <2>6. bitmap' \in [Cells -> Free .. Inaccessible]
    BY <1>3, <2>2 DEF GetFramesAt, HeadOfSeq, Allocated, Free, Inaccessible
  <2>7. \A c \in Frames \ W : bitmap'[c] = bitmap[c]
    BY <2>5, <1>3, FramesInCells DEF Frames
  <2>8. TypeOK'
    <3>1. held' \in Seq(Sequence)
      BY <2>1, <2>2
    <3> QED
      BY <2>6, <3>1 DEF TypeOK, Sequence
  <2>9. InPool'
    <3>1. \A g \in FramesOf(s) : g \in f .. f + n - 1
      BY DEF FramesOf
    <3>2. f .. f + n - 1 \subseteq base_frame_no .. base_frame_no + n_frames - 1
      <4>1. i \in Nat /\ n \in Nat /\ i + n <= n_frames /\ f = base_frame_no + i
        BY <1>3, <2>1
      <4> QED
        BY <4>1
    <3>3. FramesOf(s) \subseteq base_frame_no .. base_frame_no + n_frames - 1
      BY <3>1, <3>2
    <3>4. \A k \in DOMAIN held' : k \in DOMAIN held \/ k = Len(held) + 1
      BY <2>3
    <3>5. \A k \in DOMAIN held' : FramesOf(held'[k]) \subseteq base_frame_no .. base_frame_no + n_frames - 1
      BY <2>3, <3>3, <3>4 DEF AInv, InPool
    <3> QED
      BY <3>5 DEF InPool, FramesOf
  <2>10. ReservedStay'
    BY <2>4, <2>7 DEF AInv, ReservedStay, Free, Inaccessible
  <2>11. Intact(s)'
    <3>1. f - base_frame_no = i /\ i \in W
      BY <1>3, <2>1
    <3>2. bitmap'[f - base_frame_no] = HeadOfSeq
      BY <2>4, <2>5, <3>1
    <3>3. \A g \in FramesOf(s) \ {f} : bitmap'[g - base_frame_no] = Allocated
      <4> TAKE g \in FramesOf(s) \ {f}
      <4>1. g \in f .. f + n - 1 /\ g # f
        BY DEF FramesOf
      <4>2. g - base_frame_no \in W /\ g - base_frame_no # i
        BY <1>3, <2>1, <4>1
      <4> QED
        BY <2>4, <2>5, <4>2
    <3> QED
      BY <3>2, <3>3 DEF Intact, State, FramesOf
  <2>12. ASSUME NEW k \in DOMAIN held, Intact(held[k])
         PROVE  /\ bitmap'[held[k].first - base_frame_no] = HeadOfSeq
                /\ \A g \in FramesOf(held[k]) \ {held[k].first} : bitmap'[g - base_frame_no] = Allocated
    <3>1. \A g \in FramesOf(held[k]) : bitmap'[g - base_frame_no] = bitmap[g - base_frame_no]
      <4> TAKE g \in FramesOf(held[k])
      <4>1. g - base_frame_no \in Frames
        BY AInBitmap
      <4>2. bitmap[g - base_frame_no] \in {HeadOfSeq, Allocated}
        BY <2>12 DEF Intact, State
      <4>3. g - base_frame_no \notin W
        BY <2>4, <4>2 DEF Free, HeadOfSeq, Allocated
      <4> QED
        BY <2>7, <4>1, <4>3
    <3>2. held[k].first \in FramesOf(held[k])
      BY <2>3, SequenceTyped
    <3> QED
      BY <2>12, <3>1, <3>2 DEF Intact, State
  <2>13. Covered'
    <3> SUFFICES ASSUME NEW c \in Frames, bitmap'[c] \in InUse
                 PROVE  \E k \in DOMAIN held' : Intact(held[k])' /\ c + base_frame_no \in FramesOf(held'[k])
      BY DEF Covered, Frames, FramesOf
    <3>1. CASE c \in W
      <4>1. Len(held) + 1 \in DOMAIN held' /\ held'[Len(held) + 1] = s
        BY <2>3
      <4>2. c + base_frame_no \in FramesOf(s)
        BY <2>1, <3>1 DEF FramesOf
      <4> QED
        BY <2>11, <4>1, <4>2 DEF Intact, State, FramesOf
    <3>2. CASE c \notin W
      <4>1. PICK k \in DOMAIN held : Intact(held[k]) /\ c + base_frame_no \in FramesOf(held[k])
        BY <2>7, <3>2 DEF AInv, Covered
      <4>2. k \in DOMAIN held' /\ held'[k] = held[k]
        BY <2>3
      <4> QED
        BY <2>12, <4>1, <4>2 DEF Intact, State, FramesOf
    <3> QED
      BY <3>1, <3>2
  <2> QED
    BY <2>8, <2>9, <2>10, <2>13 DEF AInv
<1> QED
  BY <1>1, <1>2, <1>3 DEF get_frames

LEMMA AReleaseStep == ASSUME AInv, NEW k \in DOMAIN held, Release(k) PROVE AInv'
<1> USE PoolAssumption, ClientAssumption
<1> DEFINE i == held[k].first - base_frame_no
<1>1. /\ held \in Seq(Sequence) /\ DOMAIN held = 1 .. Len(held) /\ Len(held) \in Nat
      /\ \A l \in DOMAIN held : held[l] \in Sequence
  BY AHeldTyped
<1>2. held' = Without(held, k) /\ Len(held) # 0
  BY <1>1 DEF Release
<1>3. /\ held' \in Seq(Sequence) /\ DOMAIN held' = 1 .. Len(held) - 1
      /\ \A l \in DOMAIN held' : held'[l] = IF l < k THEN held[l] ELSE held[l + 1]
  <2>1. \A l \in 1 .. Len(held) - 1 : l \in DOMAIN held /\ l + 1 \in DOMAIN held
    BY <1>1
  <2>2. \A l \in 1 .. Len(held) - 1 : (IF l < k THEN held[l] ELSE held[l + 1]) \in Sequence
    BY <1>1, <2>1
  <2>3. Len(held) - 1 \in Nat
    BY <1>1, <1>2
  <2> QED
    BY <1>2, <2>2, <2>3 DEF Without
<1>4. \A l \in DOMAIN held' : \E m \in DOMAIN held : held'[l] = held[m]
  <2> TAKE l \in DOMAIN held'
  <2>1. l \in DOMAIN held /\ l + 1 \in DOMAIN held
    BY <1>1, <1>3
  <2> QED
    BY <1>3, <2>1
<1>5. \A m \in DOMAIN held : m # k => \E l \in DOMAIN held' : held'[l] = held[m]
  <2> SUFFICES ASSUME NEW m \in DOMAIN held, m # k
               PROVE  \E l \in DOMAIN held' : held'[l] = held[m]
    OBVIOUS
  <2>1. CASE m < k
    <3>1. m \in DOMAIN held'
      BY <1>1, <1>3, <2>1
    <3> QED
      BY <1>3, <2>1, <3>1
  <2>2. CASE m > k
    <3>1. m - 1 \in DOMAIN held' /\ (m - 1) + 1 = m /\ ~(m - 1 < k)
      BY <1>1, <1>3, <2>2
    <3>2. held'[m - 1] = held[(m - 1) + 1]
      BY <1>3, <3>1
    <3> QED
      BY <3>1, <3>2
  <2> QED
    BY <1>1, <2>1, <2>2
<1>6. CASE i \in Cells /\ bitmap[i] = HeadOfSeq
  <2>1. bitmap' = [c \in Cells |-> IF c \in Run(i) THEN Free ELSE bitmap[c]]
    BY <1>6 DEF Release, release_frames
  <2>2. TypeOK'
    <3>1. bitmap' \in [Cells -> Free .. Inaccessible]
      BY <2>1 DEF AInv, TypeOK, Free, Inaccessible
    <3> QED
      BY <1>3, <3>1 DEF TypeOK, Sequence
  <2>3. InPool'
    BY <1>4 DEF AInv, InPool, FramesOf
  <2>4. ReservedStay'
    <3>1. \A c \in Cells : c >= i => c \in i .. c
      BY FramesInCells, <1>6
    <3>2. \A c \in Run(i) : bitmap[c] # Inaccessible
      BY <3>1 DEF Run, InUse, HeadOfSeq, Allocated, Inaccessible
    <3>3. \A c \in Frames : bitmap[c] = Inaccessible => bitmap'[c] = Inaccessible
      BY <2>1, <3>2, FramesInCells
    <3> QED
      BY <3>3 DEF AInv, ReservedStay
  <2>5. Covered'
    <3> SUFFICES ASSUME NEW c \in Frames, bitmap'[c] \in InUse
                 PROVE  \E l \in DOMAIN held' : Intact(held[l])' /\ c + base_frame_no \in FramesOf(held'[l])
      BY DEF Covered, FramesOf
    <3>0. i \in Cells /\ i \in Int /\ c \in Cells /\ c \in Int
      <4> HIDE DEF i
      <4> QED
        BY <1>6, FramesInCells
    <3>1. c \notin Run(i) /\ bitmap[c] \in InUse
      <4> HIDE DEF i
      <4> QED
        BY <2>1, <3>0 DEF InUse, Free, HeadOfSeq, Allocated
    <3>2. PICK m \in DOMAIN held : Intact(held[m]) /\ c + base_frame_no \in FramesOf(held[m])
      BY <3>1 DEF AInv, Covered
    <3> PICK s \in Sequence : s = held[m]
      BY <1>1
    <3> DEFINE a == s.first - base_frame_no
    <3> DEFINE z == s.first + s.len - 1 - base_frame_no
    <3>3. s.first \in Nat /\ s.len \in Nat \ {0} /\ base_frame_no \in Nat /\ a \in Int /\ z \in Int
      BY SequenceTyped
    <3>4. \A d \in a .. z : d + base_frame_no \in FramesOf(s) /\ d \in Int
      BY <3>3 DEF FramesOf
    <3>5. \A d \in a .. z : d \in Frames /\ d \in Cells
      <4> TAKE d \in a .. z
      <4>1. (d + base_frame_no) - base_frame_no \in Frames
        BY <3>4, AInBitmap
      <4> QED
        BY <3>3, <3>4, <4>1, FramesInCells
    <3>6. bitmap[a] = HeadOfSeq
      BY <3>2 DEF Intact, State
    <3>7. \A d \in a + 1 .. z : bitmap[d] = Allocated
      <4> TAKE d \in a + 1 .. z
      <4>1. d \in a .. z /\ d + base_frame_no # s.first /\ (d + base_frame_no) - base_frame_no = d
        BY <3>3
      <4> QED
        BY <3>2, <3>4, <4>1 DEF Intact, State
    <3>8. c \in a .. z
      BY <3>2, <3>3 DEF FramesOf, Frames
    <3>9. \A d \in a .. z : d \notin Run(i)
      <4> HIDE DEF a, z, i
      <4> QED
        <5> SUFFICES ASSUME NEW d \in a .. z, d \in Run(i) PROVE FALSE
          OBVIOUS
        <5>1. a .. z \subseteq Cells
          BY <3>5
        <5>2. c \in Run(i)
          BY <1>6, <3>0, <3>3, <3>6, <3>7, <3>8, <5>1, RunTakesWhole
        <5> QED
          BY <3>1, <5>2
    <3>10. \A g \in FramesOf(s) : bitmap'[g - base_frame_no] = bitmap[g - base_frame_no]
      <4> TAKE g \in FramesOf(s)
      <4>1. g - base_frame_no \in a .. z
        BY <3>3 DEF FramesOf
      <4> QED
        BY <2>1, <3>5, <3>9, <4>1
    <3>11. s.first \in FramesOf(s)
      BY SequenceTyped
    <3>12. m # k
      <4> SUFFICES ASSUME m = k PROVE FALSE
        OBVIOUS
      <4>1. i = a /\ i \in a .. z
        BY <3>3
      <4>2. i \in Run(i)
        BY <1>6, <4>1, <3>3 DEF Run, InUse
      <4> QED
        BY <3>9, <4>1, <4>2
    <3>13. PICK l \in DOMAIN held' : held'[l] = s
      BY <1>5, <3>12
    <3>14. Intact(held[l])'
      BY <3>2, <3>10, <3>11, <3>13 DEF Intact, State, FramesOf
    <3> QED
      BY <3>2, <3>13, <3>14
  <2> QED
    BY <2>2, <2>3, <2>4, <2>5 DEF AInv
<1>7. CASE ~(i \in Cells /\ bitmap[i] = HeadOfSeq)
  <2>1. bitmap' = bitmap
    BY <1>7 DEF Release, release_frames
  <2>2. TypeOK'
    BY <1>3, <2>1 DEF AInv, TypeOK, Sequence
  <2>3. InPool'
    BY <1>4 DEF AInv, InPool, FramesOf
  <2>4. ReservedStay'
    BY <2>1 DEF AInv, ReservedStay
  <2>5. Covered'
    <3> SUFFICES ASSUME NEW c \in Frames, bitmap[c] \in InUse
                 PROVE  \E l \in DOMAIN held' : Intact(held[l])' /\ c + base_frame_no \in FramesOf(held'[l])
      BY <2>1 DEF Covered, Frames, FramesOf
    <3>1. PICK m \in DOMAIN held : Intact(held[m]) /\ c + base_frame_no \in FramesOf(held[m])
      BY DEF AInv, Covered
    <3>2. m # k
      <4> SUFFICES ASSUME m = k PROVE FALSE
        OBVIOUS
      <4>1. bitmap[i] = HeadOfSeq
        BY <3>1 DEF Intact, State
      <4>2. held[k].first \in FramesOf(held[k])
        BY <1>1, SequenceTyped
      <4>3. i \in Cells
        BY <4>2, AInBitmap, FramesInCells
      <4> QED
        BY <1>7, <4>1, <4>3
    <3>3. PICK l \in DOMAIN held' : held'[l] = held[m]
      BY <1>5, <3>2
    <3> QED
      BY <2>1, <3>1, <3>3 DEF Intact, State, FramesOf
  <2> QED
    BY <2>2, <2>3, <2>4, <2>5 DEF AInv
<1> QED
  BY <1>6, <1>7

LEMMA AnyOrderInductive == Spec => []AInv
<1>1. Init => AInv
  <2> SUFFICES ASSUME Init PROVE AInv
    OBVIOUS
  <2>1. LInv /\ held = <<>>
    BY InitLInv DEF Init
  <2>2. Covered
    BY <2>1 DEF LInv, NothingLeaks, Covered
  <2> QED
    BY <2>1, <2>2 DEF LInv, AInv
<1>2. AInv /\ [Next]_vars => AInv'
  <2> SUFFICES ASSUME AInv, [Next]_vars PROVE AInv'
    OBVIOUS
  <2>1. CASE UNCHANGED vars
    BY <2>1 DEF vars, AInv, TypeOK, InPool, ReservedStay, Covered, Intact, State
  <2> QED
    BY <2>1, AGetStep, AReleaseStep DEF Next
<1> QED
  BY <1>1, <1>2, PTL DEF Spec

\* In whatever order the sequences are released, no frame in use is without
\* a sequence that a client still holds.
THEOREM NoFrameLeaks == Spec => []NothingLeaks
<1>1. AInv => NothingLeaks
  BY DEF AInv, Covered, NothingLeaks
<1> QED
  BY <1>1, AnyOrderInductive, PTL

\* In whatever order the sequences are released, the frames of the bitmap and
\* of the hole are never handed out and never freed.
THEOREM ReservedNeverFreed == Spec => []ReservedStay
<1>1. AInv => ReservedStay
  BY DEF AInv
<1> QED
  BY <1>1, AnyOrderInductive, PTL
-----------------------------------------------------------------------------
(* Refinement                                                              *)

LEMMA GetRefines ==
  ASSUME LInv, NEW n \in 1 .. MaxRequest, Get(n)
  PROVE  Allocator!GetFrames \/ (UNCHANGED <<FreeFrames, held>>)
<1> USE PoolAssumption, ClientAssumption
<1>1. PICK f \in {0} \cup (base_frame_no .. base_frame_no + n_frames - 1) :
        /\ get_frames(n, f)
        /\ held' = IF f = 0 THEN held ELSE Append(held, [first |-> f, len |-> n])
  BY DEF Get
<1>2. CASE GetFramesFails(n, f)
  BY <1>1, <1>2 DEF GetFramesFails, FreeFrames, State
<1>3. ASSUME NEW i \in 0 .. n_frames - n, GetFramesAt(i, n, f) PROVE Allocator!GetFrames
  <2>0. f \in base_frame_no .. base_frame_no + n_frames - 1 /\ f # 0
    BY <1>3 DEF GetFramesAt
  <2>1. PICK s \in Sequence : s = [first |-> f, len |-> n]
    <3>1. [first |-> f, len |-> n] \in Sequence
      BY <2>0 DEF Sequence
    <3> QED
      BY <3>1
  <2>2. f = base_frame_no + i /\ held' = Append(held, s)
    BY <1>1, <1>3, <2>0, <2>1 DEF GetFramesAt
  <2>3. Allocator!FramesOf(s) = f .. f + n - 1
    BY <2>1 DEF Allocator!FramesOf
  <2>4. \A g \in f .. f + n - 1 : g \in FreeFrames
    BY <1>3, <2>2 DEF GetFramesAt, Fits, FreeFrames, State
  <2>5. \A g \in base_frame_no .. base_frame_no + n_frames - 1 :
          g - base_frame_no \in Frames /\ g - base_frame_no \in Cells
    BY FramesInCells DEF Frames
  <2>6. \A g \in base_frame_no .. base_frame_no + n_frames - 1 :
          bitmap'[g - base_frame_no] = Free
            <=> bitmap[g - base_frame_no] = Free /\ g \notin f .. f + n - 1
    BY <1>3, <2>2, <2>5 DEF GetFramesAt, Free, HeadOfSeq, Allocated
  <2>7. FreeFrames' = FreeFrames \ (f .. f + n - 1)
    BY <2>6 DEF FreeFrames, State
  <2>8. f \in FreeFrames
    BY <2>4, <2>2
  <2> QED
    BY <2>1, <2>2, <2>3, <2>4, <2>7, <2>8 DEF Allocator!GetFrames
<1> QED
  BY <1>1, <1>2, <1>3 DEF get_frames

LEMMA ReleaseRefines ==
  ASSUME LInv, AnyOrder = FALSE, NEW k \in DOMAIN held, Release(k)
  PROVE  Allocator!ReleaseFrames
<1> USE PoolAssumption, ClientAssumption
<1>1. k = Len(held) /\ held # <<>> /\ held[k] \in Sequence
  BY HeldTyped DEF Release
<1> PICK s \in Sequence : s = held[k]
  BY <1>1
<1>2. s.first - base_frame_no \in Frames /\ bitmap[s.first - base_frame_no] = HeadOfSeq
  BY <1>1 DEF LInv, HeldIntact, State, Sequence, Frames
<1>3. bitmap' = [c \in Cells |-> IF c \in Run(s.first - base_frame_no) THEN Free ELSE bitmap[c]]
  BY <1>2, FramesInCells DEF Release, release_frames
<1>4. \A c \in Frames : bitmap'[c] = IF c + base_frame_no \in FramesOf(s) THEN Free ELSE bitmap[c]
  BY <1>1, <1>3, ReleaseRun, FramesInCells
<1>5. \A g \in base_frame_no .. base_frame_no + n_frames - 1 :
        g - base_frame_no \in Frames /\ (g - base_frame_no) + base_frame_no = g
  BY DEF Frames
<1>6. \A g \in base_frame_no .. base_frame_no + n_frames - 1 :
        bitmap'[g - base_frame_no] = Free
          <=> bitmap[g - base_frame_no] = Free \/ g \in FramesOf(s)
  BY <1>4, <1>5
<1>7. FramesOf(s) \subseteq base_frame_no .. base_frame_no + n_frames - 1
  BY DEF LInv, InPool
<1>8. FreeFrames' = FreeFrames \cup FramesOf(s)
  BY <1>6, <1>7 DEF FreeFrames, State
<1>9. FramesOf(s) = Allocator!FramesOf(held[k])
  BY DEF FramesOf, Allocator!FramesOf
<1>10. held' = Allocator!Without(held, k)
  BY DEF Release, Without, Allocator!Without
<1> QED
  BY <1>8, <1>9, <1>10 DEF Allocator!ReleaseFrames

\* Under clients that release the newest sequence first, the pool implements
\* the contiguous allocator: each step takes exactly the frames it hands out
\* and gives back exactly the frames of the released sequence.
THEOREM PoolRefines == ASSUME AnyOrder = FALSE PROVE Spec => AllocatorSafe
<1>1. Init => held = <<>>
  BY DEF Init
<1>2. LInv /\ [Next]_vars => [Allocator!Next]_(Allocator!vars)
  <2> SUFFICES ASSUME LInv, [Next]_vars PROVE [Allocator!Next]_(Allocator!vars)
    OBVIOUS
  <2>1. CASE UNCHANGED vars
    BY <2>1 DEF vars, Allocator!vars, FreeFrames, State
  <2> QED
    BY <2>1, GetRefines, ReleaseRefines DEF Next, Allocator!Next, Allocator!vars
<1> QED
  BY <1>1, <1>2, PoolInductive, PTL DEF Spec, AllocatorSafe, Allocator!Safe
=============================================================================
