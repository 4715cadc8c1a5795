------------------------- MODULE BlockingDiskProofs -------------------------
(***************************************************************************)
(* Proofs about BlockingDisk.tla, for every set of threads and every size  *)
(* of the rings, of which one thread at most uses the disk.                *)
(*                                                                         *)
(* TypeOK and DiskInv hold for every disk; with a prompt disk PlaceInv     *)
(* says where each thread is, and from it and from the number of threads   *)
(* follows that the unchecked rings never overflow.                        *)
(***************************************************************************)
EXTENDS BlockingDisk, Integers, FiniteSetTheorems, TLAPS

-----------------------------------------------------------------------------
(* Rings                                                                   *)

Ring == [slot : [Slots -> Actor], head : Slots, tail : Slots, n : Nat]

\* The i-th entry of a ring, oldest first.
Entry(ring, i) == ring.slot[Position(ring, i)]

Holds(ring, t) == \E i \in 0 .. ring.n - 1 : Entry(ring, i) = t

\* A ring that has not overflowed: every entry is a thread, and none is twice.
Sound(ring) ==
  /\ ring.n <= MAXV
  /\ ring.tail = Position(ring, ring.n)
  /\ \A i \in 0 .. ring.n - 1 : Entry(ring, i) \in Thread
  /\ \A i, j \in 0 .. ring.n - 1 : Entry(ring, i) = Entry(ring, j) => i = j

LEMMA PositionIs ==
  ASSUME NEW ring \in Ring, NEW i \in 0 .. MAXV
  PROVE  /\ Position(ring, i) \in Slots
         /\ Position(ring, i) = IF ring.head + i < MAXV THEN ring.head + i
                                                        ELSE ring.head + i - MAXV
<1>1. ring.head \in 0 .. MAXV - 1 /\ MAXV \in Nat \ {0}
  BY SizeAssumption DEF Ring, Slots
<1>2. ring.head + i \in 0 .. 2 * MAXV - 1
  BY <1>1
<1>3. \A a \in 0 .. 2 * MAXV - 1 :
        a % MAXV \in 0 .. MAXV - 1 /\ a % MAXV = IF a < MAXV THEN a ELSE a - MAXV
  BY <1>1
<1> QED
  BY <1>1, <1>2, <1>3 DEF Position, Slots

LEMMA PositionInjective ==
  ASSUME NEW ring \in Ring, NEW i \in 0 .. MAXV, NEW j \in 0 .. MAXV,
         i - j < MAXV, j - i < MAXV, Position(ring, i) = Position(ring, j)
  PROVE  i = j
<1>1. ring.head \in Int
  BY DEF Ring, Slots
<1> QED
  BY <1>1, PositionIs, SizeAssumption

LEMMA EnqueueType ==
  ASSUME NEW ring \in Ring, NEW t \in Actor
  PROVE  Enqueued(ring, t) \in Ring
<1>1. (ring.tail + 1) % MAXV \in Slots
  BY SizeAssumption DEF Ring, Slots
<1>2. [ring.slot EXCEPT ![ring.tail] = t] \in [Slots -> Actor] /\ ring.n + 1 \in Nat
  BY DEF Ring
<1> QED
  BY <1>1, <1>2 DEF Enqueued, Ring

LEMMA DequeueType ==
  ASSUME NEW ring \in Ring, ring.n > 0
  PROVE  /\ Dequeued(ring) \in Ring
         /\ [Dequeued(ring) EXCEPT !.slot[ring.head] = NULL] \in Ring
<1>1. (ring.head + 1) % MAXV \in Slots
  BY SizeAssumption DEF Ring, Slots
<1>2. ring.n - 1 \in Nat
  BY DEF Ring
<1> QED
  BY <1>1, <1>2 DEF Dequeued, Ring, Actor

\* A ring with room takes one more entry behind the others.
LEMMA EnqueueSound ==
  ASSUME NEW ring \in Ring, Sound(ring), ring.n < MAXV,
         NEW t \in Thread, ~Holds(ring, t)
  PROVE  /\ Sound(Enqueued(ring, t))
         /\ \A i \in 0 .. ring.n : Entry(Enqueued(ring, t), i) =
                                     IF i = ring.n THEN t ELSE Entry(ring, i)
         /\ \A s \in Actor : Holds(Enqueued(ring, t), s) <=> Holds(ring, s) \/ s = t
<1> DEFINE new == Enqueued(ring, t)
<1>1. new.n = ring.n + 1 /\ new.head = ring.head /\ ring.n \in Nat
  BY DEF Enqueued, Ring
<1>2. new \in Ring
  BY EnqueueType DEF Actor
<1>3. \A i \in 0 .. MAXV : Position(new, i) = Position(ring, i)
  BY <1>1 DEF Position
<1>4. ring.tail = Position(ring, ring.n) /\ ring.tail \in Slots
  BY DEF Sound, Ring
<1>5. new.slot = [ring.slot EXCEPT ![ring.tail] = t]
  BY DEF Enqueued, Ring
<1>6. \A i \in 0 .. ring.n : Entry(new, i) = IF i = ring.n THEN t ELSE Entry(ring, i)
  <2> TAKE i \in 0 .. ring.n
  <2>1. Position(ring, i) \in Slots /\ i \in 0 .. MAXV
    BY <1>1, PositionIs, SizeAssumption
  <2>2. i # ring.n => Position(ring, i) # ring.tail
    BY <1>1, <1>4, <2>1, PositionInjective, SizeAssumption
  <2>3. new.slot[Position(ring, i)] = IF i = ring.n THEN t ELSE ring.slot[Position(ring, i)]
    BY <1>4, <1>5, <2>1, <2>2 DEF Ring
  <2> QED
    BY <1>3, <2>1, <2>3 DEF Entry
<1>7. new.tail = Position(new, new.n)
  <2>1. new.tail = (ring.tail + 1) % MAXV
    BY DEF Enqueued, Ring
  <2>2. ring.n + 1 \in 0 .. MAXV
    BY <1>1, SizeAssumption
  <2>3. Position(ring, ring.n + 1) = (Position(ring, ring.n) + 1) % MAXV
    <3>1. ring.head \in 0 .. MAXV - 1
      BY DEF Ring, Slots
    <3>2. Position(ring, ring.n) \in 0 .. MAXV - 1
      BY <1>4 DEF Slots
    <3>3. /\ Position(ring, ring.n) = IF ring.head + ring.n < MAXV THEN ring.head + ring.n
                                                        ELSE ring.head + ring.n - MAXV
          /\ Position(ring, ring.n + 1) = IF ring.head + (ring.n + 1) < MAXV THEN ring.head + (ring.n + 1)
                                                        ELSE ring.head + (ring.n + 1) - MAXV
      <4>1. ring.n \in 0 .. MAXV
        BY <1>1, SizeAssumption
      <4>2. Position(ring, ring.n) = IF ring.head + ring.n < MAXV THEN ring.head + ring.n
                                                        ELSE ring.head + ring.n - MAXV
        BY <4>1, PositionIs
      <4>3. Position(ring, ring.n + 1) = IF ring.head + (ring.n + 1) < MAXV THEN ring.head + (ring.n + 1)
                                                        ELSE ring.head + (ring.n + 1) - MAXV
        BY <2>2, PositionIs
      <4> QED
        BY <4>2, <4>3
    <3>4. \A a \in 0 .. MAXV - 1 : (a + 1) % MAXV = IF a + 1 < MAXV THEN a + 1 ELSE 0
      BY SizeAssumption
    <3> QED
      BY <1>1, <3>1, <3>2, <3>3, <3>4, SizeAssumption
  <2> QED
    BY <1>1, <1>3, <1>4, <2>1, <2>2, <2>3
<1>8. \A i \in 0 .. ring.n : i # ring.n => i \in 0 .. ring.n - 1
  BY <1>1
<1>9. 0 .. new.n - 1 = 0 .. ring.n /\ new.n <= MAXV
  BY <1>1, SizeAssumption
<1>10. Sound(new)
  BY <1>6, <1>7, <1>8, <1>9 DEF Sound, Holds
<1>11. ring.n \in 0 .. ring.n /\ \A i \in 0 .. ring.n - 1 : i \in 0 .. ring.n /\ i # ring.n
  BY <1>1
<1>12. \A s \in Actor : Holds(new, s) <=> Holds(ring, s) \/ s = t
  BY <1>6, <1>8, <1>9, <1>11 DEF Holds
<1> QED
  BY <1>6, <1>10, <1>12

\* Taking the oldest entry leaves the others in their order, whether its slot
\* is cleared or not.
LEMMA DequeueSound ==
  ASSUME NEW ring \in Ring, Sound(ring), ring.n > 0,
         NEW new, new \in {Dequeued(ring), [Dequeued(ring) EXCEPT !.slot[ring.head] = NULL]}
  PROVE  /\ Oldest(ring) \in Thread
         /\ Oldest(ring) = Entry(ring, 0)
         /\ Sound(new)
         /\ \A i \in 0 .. ring.n - 2 : Entry(new, i) = Entry(ring, i + 1)
         /\ \A s \in Actor : Holds(new, s) <=> Holds(ring, s) /\ s # Oldest(ring)
<1>1. /\ new \in Ring /\ new.n = ring.n - 1 /\ new.tail = ring.tail
      /\ new.head = (ring.head + 1) % MAXV /\ ring.n \in Nat
      /\ new.slot \in {ring.slot, [ring.slot EXCEPT ![ring.head] = NULL]}
  BY DequeueType DEF Dequeued, Ring
<1>2. ring.head \in 0 .. MAXV - 1 /\ MAXV \in Nat \ {0} /\ ring.n <= MAXV
  BY SizeAssumption DEF Ring, Slots, Sound
<1>3. ring.head = Position(ring, 0)
  BY <1>2, PositionIs
<1>4. Oldest(ring) = Entry(ring, 0) /\ 0 \in 0 .. ring.n - 1
  BY <1>1, <1>3 DEF Oldest, Entry
<1>5. Oldest(ring) \in Thread
  BY <1>4 DEF Sound
<1>6. \A i \in 0 .. ring.n - 1 : Position(new, i) = Position(ring, i + 1)
  <2> TAKE i \in 0 .. ring.n - 1
  <2>1. i \in 0 .. MAXV /\ i + 1 \in 0 .. MAXV
    BY <1>1, <1>2
  <2>2. new.head = IF ring.head + 1 < MAXV THEN ring.head + 1 ELSE 0
    BY <1>1, <1>2
  <2>3. /\ Position(new, i) = IF new.head + i < MAXV THEN new.head + i ELSE new.head + i - MAXV
        /\ Position(ring, i + 1) = IF ring.head + (i + 1) < MAXV THEN ring.head + (i + 1)
                                                                 ELSE ring.head + (i + 1) - MAXV
    BY <1>1, <2>1, PositionIs
  <2> QED
    BY <1>2, <2>1, <2>2, <2>3
<1>7. \A i \in 0 .. ring.n - 2 : Entry(new, i) = Entry(ring, i + 1)
  <2> TAKE i \in 0 .. ring.n - 2
  <2>1. Position(new, i) = Position(ring, i + 1)
    BY <1>1, <1>6
  <2>2. Position(ring, i + 1) \in Slots /\ Position(ring, i + 1) # ring.head
    <3>1. i + 1 \in 0 .. MAXV /\ 0 \in 0 .. MAXV /\ i + 1 < MAXV /\ i + 1 # 0
      BY <1>1, <1>2
    <3>2. Position(ring, i + 1) \in Slots
      BY <3>1, PositionIs
    <3>3. Position(ring, i + 1) # Position(ring, 0)
      <4>1. (i + 1) - 0 < MAXV /\ 0 - (i + 1) < MAXV
        BY <3>1, <1>2
      <4> QED
        BY <3>1, <4>1, PositionInjective
    <3> QED
      BY <1>3, <3>2, <3>3
  <2> QED
    BY <1>1, <2>1, <2>2 DEF Entry, Ring
<1>8. new.tail = Position(new, new.n)
  BY <1>1, <1>6 DEF Sound
<1>9. \A i \in 0 .. ring.n - 2 : i + 1 \in 0 .. ring.n - 1 /\ i + 1 # 0
  BY <1>1
<1>10. 0 .. new.n - 1 = 0 .. ring.n - 2 /\ new.n <= MAXV
  BY <1>1, <1>2
<1>11. \A i, j \in 0 .. ring.n - 2 : i + 1 = j + 1 => i = j
  BY <1>1
<1>12. Sound(new)
  <2>1. \A i \in 0 .. new.n - 1 : Entry(new, i) \in Thread
    BY <1>7, <1>9, <1>10 DEF Sound
  <2>2. ASSUME NEW i \in 0 .. new.n - 1, NEW j \in 0 .. new.n - 1, Entry(new, i) = Entry(new, j)
        PROVE  i = j
    <3>1. i \in 0 .. ring.n - 2 /\ j \in 0 .. ring.n - 2
      BY <1>10
    <3>2. Entry(ring, i + 1) = Entry(ring, j + 1)
      BY <1>7, <2>2, <3>1
    <3>3. i + 1 = j + 1
      BY <1>9, <3>1, <3>2 DEF Sound
    <3> QED
      BY <1>11, <3>1, <3>3
  <2> QED
    BY <1>8, <1>10, <2>1, <2>2 DEF Sound
<1>13. \A j \in 0 .. ring.n - 1 : j # 0 => \E i \in 0 .. ring.n - 2 : j = i + 1
  <2> TAKE j \in 0 .. ring.n - 1
  <2>1. j # 0 => j - 1 \in 0 .. ring.n - 2 /\ j = (j - 1) + 1
    BY <1>1
  <2> QED
    BY <2>1
<1>14. \A s \in Actor : Holds(new, s) <=> Holds(ring, s) /\ s # Oldest(ring)
  <2> TAKE s \in Actor
  <2>1. ASSUME Holds(new, s) PROVE Holds(ring, s) /\ s # Oldest(ring)
    <3>1. PICK i \in 0 .. ring.n - 2 : Entry(new, i) = s
      BY <1>10, <2>1 DEF Holds
    <3>2. i + 1 \in 0 .. ring.n - 1 /\ i + 1 # 0 /\ Entry(ring, i + 1) = s
      BY <1>7, <1>9, <3>1
    <3> QED
      BY <1>4, <3>2 DEF Holds, Sound
  <2>2. ASSUME Holds(ring, s), s # Oldest(ring) PROVE Holds(new, s)
    <3>1. PICK j \in 0 .. ring.n - 1 : Entry(ring, j) = s
      BY <2>2 DEF Holds
    <3>2. PICK i \in 0 .. ring.n - 2 : j = i + 1
      BY <1>4, <1>13, <2>2, <3>1
    <3> QED
      BY <1>7, <1>10, <3>1, <3>2 DEF Holds
  <2> QED
    BY <2>1, <2>2
<1> QED
  BY <1>4, <1>5, <1>7, <1>12, <1>14

\* With no more threads than slots there is room for every thread that does
\* not wait yet.
LEMMA Room ==
  ASSUME NEW ring \in Ring, Sound(ring), NEW t \in Thread, ~Holds(ring, t),
         IsFiniteSet(Thread), Cardinality(Thread) <= MAXV
  PROVE  ring.n < MAXV
<1> DEFINE f == [i \in 0 .. ring.n - 1 |-> Entry(ring, i)]
<1>1. f \in Injection(0 .. ring.n - 1, Thread \ {t})
  BY DEF Injection, IsInjective, Sound, Holds
<1>2. IsFiniteSet(Thread \ {t}) /\ Cardinality(Thread \ {t}) = Cardinality(Thread) - 1
  BY FS_RemoveElement
<1>3. ring.n \in Nat /\ Cardinality(Thread) \in Nat
  BY FS_CardinalityType DEF Ring
<1>4. Cardinality(0 .. ring.n - 1) <= Cardinality(Thread \ {t})
  <2> HIDE DEF f
  <2> QED
    BY <1>1, <1>2, FS_Injection
<1>5. Cardinality(0 .. ring.n - 1) = ring.n
  BY <1>3, FS_Interval
<1> QED
  BY <1>2, <1>3, <1>4, <1>5, SizeAssumption

\* Every slot outside the entries is null.
Clean(ring) ==
  \A s \in Slots : ring.slot[s] # NULL => \E i \in 0 .. ring.n - 1 : Position(ring, i) = s

LEMMA EnqueueClean ==
  ASSUME NEW ring \in Ring, Sound(ring), Clean(ring), NEW t \in Thread
  PROVE  Clean(Enqueued(ring, t))
<1> DEFINE new == Enqueued(ring, t)
<1>1. /\ new.n = ring.n + 1 /\ new.head = ring.head /\ ring.n \in Nat
      /\ new.slot = [ring.slot EXCEPT ![ring.tail] = t]
      /\ ring.slot \in [Slots -> Actor]
  BY DEF Enqueued, Ring
<1>2. 0 .. new.n - 1 = 0 .. ring.n /\ ring.n \in 0 .. ring.n
  BY <1>1
<1>3. \A i \in 0 .. ring.n - 1 : i \in 0 .. ring.n
  BY <1>1
<1>4. Position(new, ring.n) = ring.tail
  BY <1>1 DEF Position, Sound
<1>5. \A i \in 0 .. ring.n - 1 : Position(new, i) = Position(ring, i)
  BY <1>1 DEF Position
<1>6. ASSUME NEW s \in Slots, new.slot[s] # NULL
      PROVE  \E i \in 0 .. ring.n : Position(new, i) = s
  <2>1. CASE s = ring.tail
    BY <1>2, <1>4, <2>1
  <2>2. CASE s # ring.tail
    <3>1. PICK i \in 0 .. ring.n - 1 : Position(ring, i) = s
      BY <1>1, <1>6, <2>2 DEF Clean
    <3> QED
      BY <1>3, <1>5, <3>1
  <2> QED
    BY <2>1, <2>2
<1> QED
  BY <1>2, <1>6 DEF Clean

LEMMA DequeueClean ==
  ASSUME NEW ring \in Ring, Sound(ring), Clean(ring), ring.n > 0
  PROVE  Clean([Dequeued(ring) EXCEPT !.slot[ring.head] = NULL])
<1> DEFINE new == [Dequeued(ring) EXCEPT !.slot[ring.head] = NULL]
<1>1. /\ new.n = ring.n - 1 /\ new.head = (ring.head + 1) % MAXV /\ ring.n \in Nat
      /\ new.slot = [ring.slot EXCEPT ![ring.head] = NULL]
      /\ ring.slot \in [Slots -> Actor] /\ new \in Ring
  BY DequeueType DEF Dequeued, Ring
<1>2. ring.head \in 0 .. MAXV - 1 /\ MAXV \in Nat \ {0} /\ ring.n <= MAXV
  BY SizeAssumption DEF Ring, Slots, Sound
<1>3. ring.head = Position(ring, 0)
  BY <1>2, PositionIs
<1>4. ASSUME NEW s \in Slots, new.slot[s] # NULL
      PROVE  \E i \in 0 .. new.n - 1 : Position(new, i) = s
  <2>1. s # ring.head /\ ring.slot[s] # NULL
    BY <1>1, <1>4, <1>2 DEF Slots
  <2>2. PICK j \in 0 .. ring.n - 1 : Position(ring, j) = s
    BY <2>1 DEF Clean
  <2>3. j # 0
    BY <1>3, <2>1, <2>2
  <2>4. j - 1 \in 0 .. new.n - 1 /\ j - 1 \in 0 .. MAXV /\ j \in 0 .. MAXV
    BY <1>1, <1>2, <2>2, <2>3
  <2>5. Position(new, j - 1) = s
    <3>1. new.head = IF ring.head + 1 < MAXV THEN ring.head + 1 ELSE 0
      BY <1>1, <1>2
    <3>2. Position(new, j - 1) = IF new.head + (j - 1) < MAXV THEN new.head + (j - 1)
                                                       ELSE new.head + (j - 1) - MAXV
      BY <1>1, <2>4, PositionIs
    <3>3. Position(ring, j) = IF ring.head + j < MAXV THEN ring.head + j
                                                      ELSE ring.head + j - MAXV
      BY <2>4, PositionIs
    <3> QED
      BY <1>2, <2>2, <2>4, <3>1, <3>2, <3>3
  <2> QED
    BY <2>4, <2>5
<1> QED
  BY <1>4 DEF Clean

\* A thread is at most once in a sound ring.
LEMMA EntriesCount ==
  ASSUME NEW ring \in Ring, Sound(ring), NEW t
  PROVE  Cardinality(Entries(ring, t)) = IF Holds(ring, t) THEN 1 ELSE 0
<1>1. Entries(ring, t) = {i \in 0 .. ring.n - 1 : Entry(ring, i) = t}
  BY DEF Entries, Entry
<1>2. CASE Holds(ring, t)
  <2>1. PICK i \in 0 .. ring.n - 1 : Entry(ring, i) = t
    BY <1>2 DEF Holds
  <2>2. Entries(ring, t) = {i}
    BY <1>1, <2>1 DEF Sound
  <2> QED
    BY <1>2, <2>2, FS_Singleton
<1>3. CASE ~Holds(ring, t)
  <2>1. Entries(ring, t) = {}
    BY <1>1, <1>3 DEF Holds
  <2> QED
    BY <1>3, <2>1, FS_EmptySet
<1> QED
  BY <1>2, <1>3

-----------------------------------------------------------------------------
(* The invariant                                                           *)

MainLabels == {"main_enable", "main_add", "main_assert"}
\* Where only the thread that has the CPU can be.
RunningLabels == {"pass_on", "read_check", "read_done", "blocking", "written"}
ThreadLabels == RunningLabels \cup {"function", "write_check"}
Data == ({"low", "high"} \X Block) \cup {Junk}

TypeOK ==
  /\ current \in Actor
  /\ pc \in [Actor -> MainLabels \cup ThreadLabels]
  /\ pc[NULL] \in MainLabels
  /\ \A t \in Thread : pc[t] \in ThreadLabels
  /\ \A t \in Thread \ DiskUser : pc[t] \in {"function", "pass_on"}
  /\ intr \in BOOLEAN /\ irq \in BOOLEAN
  /\ toAdd \subseteq Thread \ {First}
  /\ rq \in Ring /\ bq \in Ring
  /\ round \in [DiskUser -> Nat]
  /\ prompt \in BOOLEAN
  /\ disk \in [op : {"none", "read", "write"}, block : Block, drq : BOOLEAN]
  /\ content \in [Block -> Data \X Data]
  /\ buf \in [DiskUser -> Data \X Data]

\* Until its write has come to the disk, the command of the controller is the
\* one of this write.
DiskInv ==
  \A t \in DiskUser : pc[t] \in {"blocking", "write_check"} =>
    disk.op = "write" /\ disk.block = WriteBlock(t)

\* Before the first switch: the threads that main has added are in the ready
\* ring.
StartInv ==
  current = NULL =>
    \A t \in Thread : /\ pc[t] = "function"
                      /\ ~Holds(bq, t)
                      /\ Holds(rq, t) <=> t \notin toAdd \cup {First}

\* Afterwards a thread that does not have the CPU is in one of the rings.
RunInv ==
  current # NULL =>
    /\ \A t \in Thread : Holds(rq, t) <=> ~Holds(bq, t) /\ (t # current \/ pc[t] = "pass_on")
    /\ Holds(bq, current) <=> pc[current] = "blocking"

PlaceInv ==
  /\ Sound(rq) /\ Sound(bq) /\ Clean(rq)
  /\ StartInv
  /\ RunInv
  /\ \A t \in Thread : pc[t] \in RunningLabels => current = t
  /\ \A t \in Thread : Holds(bq, t) => t \in DiskUser /\ pc[t] \in {"blocking", "write_check"}
  /\ \A t \in Thread : pc[t] = "read_check" => disk.drq
  /\ \A t \in Thread : pc[t] = "write_check" /\ ~Holds(bq, t) => disk.drq

WrittenInv ==
  \A t \in DiskUser : pc[t] = "written" => content[WriteBlock(t)] = buf[t]

IInv == TypeOK /\ DiskInv /\ (prompt => PlaceInv /\ WrittenInv)

-----------------------------------------------------------------------------
(* Type correctness                                                        *)

LEMMA InitType == Init => TypeOK
<1> SUFFICES ASSUME Init PROVE TypeOK
  OBVIOUS
<1> USE ThreadAssumption, SizeAssumption DEF Init, Actor
<1>1. pc \in [Actor -> MainLabels \cup ThreadLabels]
  BY DEF MainLabels, ThreadLabels, setup_context
<1>2. pc[NULL] \in MainLabels /\ \A t \in Thread : pc[t] = "function"
  BY DEF MainLabels, setup_context
<1>3. EmptyRing \in Ring
  BY DEF EmptyRing, Ring, Slots
<1>4. Idle \in [op : {"none", "read", "write"}, block : Block, drq : BOOLEAN]
  BY DEF Idle, Block
<1>5. content \in [Block -> Data \X Data] /\ buf \in [DiskUser -> Data \X Data]
  BY DEF Data
<1> QED
  BY <1>1, <1>2, <1>3, <1>4, <1>5 DEF TypeOK, ThreadLabels

\* What yield does to the rings.
LEMMA YieldType ==
  ASSUME TypeOK, NEW back, Yield(back)
  PROVE  bq' \in Ring /\ rq' \in Ring /\ current' \in Actor /\ intr' \in BOOLEAN
<1>1. rq \in Ring /\ bq \in Ring /\ current \in Actor /\ 0 \in Slots
  BY SizeAssumption DEF TypeOK, Slots
<1>2. \A ring \in Ring : Oldest(ring) \in Actor
  BY DEF Oldest, Ring
<1>3. Ready \in Ring
  BY <1>1, <1>2, EnqueueType DEF Ready
<1>4. bq' \in Ring
  BY <1>1, DequeueType DEF Yield, Unblocks
<1>5. rq' \in Ring
  <2>1. [Ready EXCEPT !.head = 0, !.tail = 0] \in Ring
    BY <1>1, <1>3 DEF Ring
  <2> QED
    BY <1>3, <2>1, DequeueType DEF Yield
<1>6. current' \in Actor /\ intr' \in BOOLEAN
  BY <1>1, <1>2, <1>3 DEF Yield, threads_low_switch_to
<1> QED
  BY <1>4, <1>5, <1>6

LEMMA StepType == TypeOK /\ [Next]_vars => TypeOK'
<1> SUFFICES ASSUME TypeOK, [Next]_vars PROVE TypeOK'
  OBVIOUS
<1> USE ThreadAssumption DEF At, Goto, storage
<1>0. /\ \A t \in Thread : t \in Actor /\ t # NULL
      /\ NULL \in Actor
      /\ \A l \in ThreadLabels : l \notin MainLabels
      /\ \A t \in Actor : pc[t] \in MainLabels => t = NULL
  BY DEF TypeOK, Actor, MainLabels, ThreadLabels, RunningLabels
<1>1. CASE MainEnable
  BY <1>1, <1>0 DEF MainEnable, TypeOK, MainLabels
<1>2. ASSUME NEW t \in Thread, MainAdd(t) PROVE TypeOK'
  <2>1. rq' \in Ring
    BY <1>2, <1>0, EnqueueType DEF MainAdd, TypeOK
  <2> QED
    BY <1>2, <2>1 DEF MainAdd, TypeOK
<1>3. CASE MainDispatch
  BY <1>3, <1>0 DEF MainDispatch, threads_low_switch_to, TypeOK, MainLabels
<1>4. ASSUME current \in Thread, NEW back \in {"function", "write_check"}, Yield(back),
             current \in DiskUser \/ back = "function"
      PROVE  TypeOK'
  <2>1. bq' \in Ring /\ rq' \in Ring /\ current' \in Actor /\ intr' \in BOOLEAN
    BY <1>4, YieldType
  <2>2. pc' = [pc EXCEPT ![current] = back] /\ UNCHANGED <<irq, toAdd, round, storage>>
    BY <1>4 DEF Yield
  <2> QED
    BY <1>0, <1>4, <2>1, <2>2 DEF TypeOK, ThreadLabels
<1>5. CASE PassOnYield
  <2>1. current \in Thread
    BY <1>0, <1>5 DEF PassOnYield, TypeOK, Actor, MainLabels
  <2> QED
    BY <1>4, <1>5, <2>1 DEF PassOnYield
<1>6. CASE WriteYield
  <2>1. current \in Thread /\ current \in DiskUser
    BY <1>0, <1>6 DEF WriteYield, TypeOK, Actor, MainLabels
  <2> QED
    BY <1>4, <1>6, <2>1 DEF WriteYield
<1>7. ASSUME current \in Thread, PassOn, round' \in [DiskUser -> Nat] PROVE TypeOK'
  <2>1. rq' \in Ring
    BY <1>7, <1>0, EnqueueType DEF PassOn, TypeOK
  <2>2. pc' = [pc EXCEPT ![current] = "pass_on"]
    BY <1>7 DEF PassOn
  <2> QED
    BY <1>0, <1>7, <2>1, <2>2 DEF PassOn, TypeOK, ThreadLabels, RunningLabels
<1>8. CASE Compute
  <2>1. current \in Thread
    BY <1>0, <1>8 DEF Compute, TypeOK, Actor, MainLabels
  <2> QED
    BY <1>7, <1>8, <2>1 DEF Compute, TypeOK
<1>9. CASE ReadIssue
  <2>1. ReadBlock(current) \in Block
    BY <1>9, SizeAssumption DEF ReadIssue, ReadBlock, Block, TypeOK
  <2>2. disk' \in [op : {"none", "read", "write"}, block : Block, drq : BOOLEAN]
    BY <1>9, <2>1 DEF ReadIssue, Issue, TypeOK
  <2> QED
    BY <1>0, <1>9, <2>2 DEF ReadIssue, TypeOK, ThreadLabels, RunningLabels
<1>10. CASE ReadTransfer
  <2>1. current \in DiskUser
    BY <1>0, <1>10 DEF ReadTransfer, TypeOK, Actor, MainLabels
  <2>2. Idle \in [op : {"none", "read", "write"}, block : Block, drq : BOOLEAN]
    BY SizeAssumption DEF Idle, Block
  <2>3. content[disk.block][2] \in Data
    BY DEF TypeOK
  <2>4. buf' \in [DiskUser -> Data \X Data]
    <3>1. buf[current] \in Data \X Data
      BY <2>1 DEF TypeOK
    <3>2. [buf[current] EXCEPT ![1] = content[disk.block][2]] \in Data \X Data
      BY <2>3, <3>1
    <3>3. buf' = [buf EXCEPT ![current] = [buf[current] EXCEPT ![1] = content[disk.block][2]]]
      BY <1>10 DEF ReadTransfer
    <3> HIDE DEF Data
    <3> QED
      BY <3>2, <3>3 DEF TypeOK
  <2> QED
    BY <1>0, <1>10, <2>1, <2>2, <2>4 DEF ReadTransfer, TypeOK, ThreadLabels, RunningLabels
<1>11. CASE ReadEnqueue
  <2>1. current \in DiskUser
    BY <1>0, <1>11 DEF ReadEnqueue, TypeOK, Actor, MainLabels
  <2>2. bq' \in Ring
    BY <1>11, <1>0, EnqueueType DEF ReadEnqueue, TypeOK
  <2> QED
    BY <1>0, <1>11, <2>1, <2>2 DEF ReadEnqueue, TypeOK, ThreadLabels, RunningLabels
<1>12. CASE WriteIssue
  <2>1. current \in DiskUser
    BY <1>0, <1>12 DEF WriteIssue, TypeOK, Actor, MainLabels
  <2>2. WriteBlock(current) \in Block
    BY <2>1, SizeAssumption DEF WriteBlock, Block, TypeOK
  <2>3. disk' \in [op : {"none", "read", "write"}, block : Block, drq : BOOLEAN]
    BY <1>12, <2>2 DEF WriteIssue, Issue, TypeOK
  <2>4. bq' \in Ring
    BY <1>12, <1>0, EnqueueType DEF WriteIssue, TypeOK
  <2> QED
    BY <1>0, <1>12, <2>1, <2>3, <2>4 DEF WriteIssue, TypeOK, ThreadLabels, RunningLabels
<1>13. CASE WriteTransfer
  <2>1. current \in DiskUser
    BY <1>0, <1>13 DEF WriteTransfer, TypeOK, Actor, MainLabels
  <2>2. Idle \in [op : {"none", "read", "write"}, block : Block, drq : BOOLEAN]
    BY SizeAssumption DEF Idle, Block
  <2>3. content' \in [Block -> Data \X Data] /\ disk' \in [op : {"none", "read", "write"}, block : Block, drq : BOOLEAN]
    BY <1>13, <2>1, <2>2 DEF WriteTransfer, TypeOK
  <2> QED
    BY <1>0, <1>13, <2>1, <2>3 DEF WriteTransfer, TypeOK, ThreadLabels, RunningLabels
<1>14. CASE WriteGivesUp
  <2>1. current \in DiskUser
    BY <1>0, <1>14 DEF WriteGivesUp, TypeOK, Actor, MainLabels
  <2> QED
    BY <1>0, <1>14, <2>1 DEF WriteGivesUp, TypeOK, ThreadLabels, RunningLabels
<1>15. CASE NextBlock
  <2>1. current \in DiskUser
    BY <1>0, <1>15 DEF NextBlock, TypeOK, Actor, MainLabels
  <2>2. round' \in [DiskUser -> Nat]
    BY <1>15, <2>1 DEF NextBlock, TypeOK
  <2> QED
    BY <1>7, <1>15, <2>1, <2>2 DEF NextBlock
<1>16. CASE DiskReady
  BY <1>16 DEF DiskReady, TypeOK
<1>17. CASE TimerRaise
  BY <1>17 DEF TimerRaise, TypeOK
<1>18. CASE TimerInterrupt
  BY <1>18 DEF TimerInterrupt, TypeOK
<1>19. CASE UNCHANGED vars
  BY <1>19 DEF vars, TypeOK
<1> QED
  BY <1>1, <1>2, <1>3, <1>5, <1>6, <1>8, <1>9, <1>10, <1>11, <1>12, <1>13, <1>14, <1>15, <1>16,
     <1>17, <1>18, <1>19 DEF Next, Code

-----------------------------------------------------------------------------
(* The command of the controller, for every kind of disk                   *)

OneUser == \A t, u \in DiskUser : t = u

\* The labels of a disk user tell who has the CPU.
LEMMA UserRuns ==
  ASSUME TypeOK, NEW l \in {"read_check", "read_done", "blocking", "write_check", "written"}, At(l)
  PROVE  current \in DiskUser /\ current \in Thread
  BY ThreadAssumption DEF TypeOK, At, Actor, MainLabels

LEMMA StepDisk ==
  ASSUME TypeOK, OneUser, DiskInv, [Next]_vars
  PROVE  DiskInv'
<1> USE ThreadAssumption DEF At, Goto, storage
<1>0. \A t \in DiskUser : t \in Actor
  BY DEF Actor
<1>1. ASSUME NEW l, l \notin {"blocking", "write_check"},
             pc' = [pc EXCEPT ![current] = l], UNCHANGED disk,
             \A t \in DiskUser : t # current => round'[t] = round[t]
      PROVE  DiskInv'
  BY <1>0, <1>1 DEF DiskInv, WriteBlock, TypeOK
<1>2. CASE MainEnable
  BY <1>2, <1>1 DEF MainEnable
<1>3. ASSUME NEW t \in Thread, MainAdd(t) PROVE DiskInv'
  BY <1>3 DEF MainAdd, DiskInv, WriteBlock
<1>4. CASE MainDispatch
  BY <1>4, <1>1 DEF MainDispatch
<1>5. CASE PassOnYield
  BY <1>5, <1>1 DEF PassOnYield, Yield
<1>6. CASE WriteYield
  BY <1>6, <1>0 DEF WriteYield, Yield, DiskInv, WriteBlock, TypeOK
<1>7. CASE Compute
  BY <1>7, <1>1 DEF Compute, PassOn
<1>8. CASE ReadIssue
  <2>1. current \in DiskUser /\ pc' = [pc EXCEPT ![current] = "read_check"]
    BY <1>8 DEF ReadIssue
  <2>2. \A t \in DiskUser : pc'[t] = "read_check"
    BY <1>0, <2>1 DEF OneUser, TypeOK
  <2> QED
    BY <2>2 DEF DiskInv
<1>9. CASE ReadTransfer
  <2>1. current \in DiskUser /\ pc' = [pc EXCEPT ![current] = "read_done"]
    BY <1>9, UserRuns DEF ReadTransfer
  <2>2. \A t \in DiskUser : pc'[t] = "read_done"
    BY <1>0, <2>1 DEF OneUser, TypeOK
  <2> QED
    BY <2>2 DEF DiskInv
<1>10. CASE ReadEnqueue
  BY <1>10, <1>1 DEF ReadEnqueue
<1>11. CASE WriteIssue
  <2>1. current \in DiskUser
    BY <1>11, UserRuns DEF WriteIssue
  <2>2. disk'.op = "write" /\ disk'.block = WriteBlock(current) /\ UNCHANGED round
    BY <1>11 DEF WriteIssue, Issue
  <2> QED
    BY <2>1, <2>2 DEF DiskInv, OneUser, WriteBlock
<1>12. CASE WriteTransfer
  <2>1. current \in DiskUser /\ pc' = [pc EXCEPT ![current] = "written"]
    BY <1>12, UserRuns DEF WriteTransfer
  <2>2. \A t \in DiskUser : pc'[t] = "written"
    BY <1>0, <2>1 DEF OneUser, TypeOK
  <2> QED
    BY <2>2 DEF DiskInv
<1>13. CASE WriteGivesUp
  BY <1>13, <1>1 DEF WriteGivesUp
<1>14. CASE NextBlock
  BY <1>14, <1>1 DEF NextBlock, PassOn, TypeOK
<1>15. CASE DiskReady
  BY <1>15 DEF DiskReady, DiskInv, WriteBlock, TypeOK
<1>16. CASE TimerRaise
  BY <1>16 DEF TimerRaise, DiskInv, WriteBlock
<1>17. CASE TimerInterrupt
  BY <1>17 DEF TimerInterrupt, DiskInv, WriteBlock
<1>18. CASE UNCHANGED vars
  BY <1>18 DEF vars, DiskInv, WriteBlock
<1> QED
  BY <1>2, <1>3, <1>4, <1>5, <1>6, <1>7, <1>8, <1>9, <1>10, <1>11, <1>12, <1>13, <1>14, <1>15,
     <1>16, <1>17, <1>18 DEF Next, Code

-----------------------------------------------------------------------------
(* A prompt disk: where each thread is                                     *)

\* There is a slot for every thread.
EnoughSlots == IsFiniteSet(Thread) /\ Cardinality(Thread) <= MAXV

\* When the disk user waits, somebody else can run.
Company == \A t \in DiskUser : Thread # {t}

LEMMA EmptySound == EmptyRing \in Ring /\ Sound(EmptyRing) /\ Clean(EmptyRing) /\ \A t : ~Holds(EmptyRing, t)
<1>1. EmptyRing \in Ring
  BY SizeAssumption DEF EmptyRing, Ring, Slots, Actor
<1>2. EmptyRing.n = 0 /\ EmptyRing.head = 0 /\ EmptyRing.tail = 0
  BY DEF EmptyRing
<1>3. 0 .. 0 - 1 = {} /\ 0 % MAXV = 0
  BY SizeAssumption
<1>4. \A s \in Slots : EmptyRing.slot[s] = NULL
  BY DEF EmptyRing
<1> QED
  BY <1>1, <1>2, <1>3, <1>4, SizeAssumption DEF Sound, Clean, Holds, Position

LEMMA InitPlace == Init => PlaceInv /\ WrittenInv /\ DiskInv
<1> SUFFICES ASSUME Init PROVE PlaceInv /\ WrittenInv /\ DiskInv
  OBVIOUS
<1>1. rq = EmptyRing /\ bq = EmptyRing /\ current = NULL /\ toAdd = Thread \ {First}
  BY DEF Init
<1>2. \A t \in Thread : pc[t] = "function"
  BY ThreadAssumption DEF Init, Actor, setup_context
<1>3. StartInv
  BY <1>1, <1>2, EmptySound DEF StartInv
<1>4. RunInv
  BY <1>1 DEF RunInv
<1>5. DiskUser \subseteq Thread
  BY ThreadAssumption
<1> QED
  BY <1>1, <1>2, <1>3, <1>4, <1>5, EmptySound DEF PlaceInv, WrittenInv, DiskInv, RunningLabels

\* No step changes the kind of the disk.
LEMMA SameDisk == [Next]_vars => prompt' = prompt
<1> USE DEF storage
<1> SUFFICES ASSUME [Next]_vars PROVE prompt' = prompt
  OBVIOUS
<1>1. CASE MainEnable \/ MainDispatch \/ \E t \in Thread : MainAdd(t)
  BY <1>1 DEF MainEnable, MainDispatch, MainAdd
<1>2. CASE PassOnYield \/ WriteYield \/ Compute \/ NextBlock
  BY <1>2 DEF PassOnYield, WriteYield, Yield, Compute, NextBlock, PassOn
<1>3. CASE ReadIssue \/ ReadTransfer \/ ReadEnqueue
  BY <1>3 DEF ReadIssue, ReadTransfer, ReadEnqueue
<1>4. CASE WriteIssue \/ WriteTransfer \/ WriteGivesUp
  BY <1>4 DEF WriteIssue, WriteTransfer, WriteGivesUp
<1>5. CASE DiskReady \/ TimerRaise \/ TimerInterrupt \/ UNCHANGED vars
  BY <1>5 DEF DiskReady, TimerRaise, TimerInterrupt, vars
<1> QED
  BY <1>1, <1>2, <1>3, <1>4, <1>5 DEF Next, Code

\* Yield moves at most one thread from the blocked to the ready ring and gives
\* the CPU to the oldest ready thread.
LEMMA YieldRings ==
  ASSUME TypeOK, OneUser, EnoughSlots, PlaceInv, NEW back, Yield(back),
         \A t \in Thread : Holds(rq, t) <=> ~Holds(bq, t),
         \E t \in Thread : Holds(rq, t)
  PROVE  /\ Sound(rq') /\ Sound(bq') /\ Clean(rq')
         /\ current' \in Thread
         /\ \A t \in Thread : Holds(rq', t) <=> ~Holds(bq', t) /\ t # current'
         /\ ~Holds(bq', current')
         /\ \A t \in Thread : Holds(bq', t) => Holds(bq, t)
         /\ \A t \in Thread : Holds(bq, t) /\ ~Holds(bq', t) => is_ready
         /\ UNCHANGED disk
<1>0. /\ rq \in Ring /\ bq \in Ring /\ Sound(rq) /\ Sound(bq) /\ Clean(rq)
      /\ \A t \in Thread : t \in Actor
  BY DEF TypeOK, PlaceInv, Actor
<1>1. /\ Ready \in Ring /\ Sound(Ready) /\ Clean(Ready) /\ Sound(bq')
      /\ \A t \in Thread : Holds(Ready, t) <=> Holds(rq, t) \/ (Unblocks /\ t = Oldest(bq))
      /\ \A t \in Thread : Holds(bq', t) <=> Holds(bq, t) /\ ~(Unblocks /\ t = Oldest(bq))
      /\ Unblocks => Holds(bq, Oldest(bq)) /\ Oldest(bq) \in Thread
  <2>1. CASE Unblocks
    <3>1. bq' = Dequeued(bq) /\ bq.n > 0 /\ Ready = Enqueued(rq, Oldest(bq))
      BY <2>1 DEF Yield, Unblocks, Ready
    <3>2. /\ Oldest(bq) \in Thread /\ Oldest(bq) = Entry(bq, 0) /\ Sound(bq')
          /\ \A t \in Actor : Holds(bq', t) <=> Holds(bq, t) /\ t # Oldest(bq)
      BY <1>0, <3>1, DequeueSound
    <3>3. 0 \in 0 .. bq.n - 1
      BY <1>0, <3>1 DEF Ring
    <3>4. Holds(bq, Oldest(bq))
      BY <3>2, <3>3 DEF Holds
    <3>5. ~Holds(rq, Oldest(bq))
      BY <3>2, <3>4
    <3>6. rq.n < MAXV
      BY <1>0, <3>2, <3>5, Room DEF EnoughSlots
    <3>7. /\ Sound(Enqueued(rq, Oldest(bq))) /\ Clean(Enqueued(rq, Oldest(bq)))
          /\ \A t \in Actor : Holds(Enqueued(rq, Oldest(bq)), t) <=> Holds(rq, t) \/ t = Oldest(bq)
      BY <1>0, <3>2, <3>5, <3>6, EnqueueSound, EnqueueClean
    <3>8. Enqueued(rq, Oldest(bq)) \in Ring
      BY <1>0, <3>2, EnqueueType
    <3> QED
      BY <1>0, <2>1, <3>1, <3>2, <3>4, <3>7, <3>8
  <2>2. CASE ~Unblocks
    BY <1>0, <2>2 DEF Yield, Ready
  <2> QED
    BY <2>1, <2>2
<1>2. Ready.n > 0
  <2>1. PICK t \in Thread : Holds(Ready, t)
    BY <1>1
  <2> QED
    BY <1>1, <2>1 DEF Holds, Ring
<1>3. rq' = [Dequeued(Ready) EXCEPT !.slot[Ready.head] = NULL] /\ current' = Oldest(Ready)
  BY <1>2 DEF Yield, threads_low_switch_to
<1>4. /\ Oldest(Ready) \in Thread /\ Oldest(Ready) = Entry(Ready, 0) /\ Sound(rq')
      /\ \A t \in Actor : Holds(rq', t) <=> Holds(Ready, t) /\ t # Oldest(Ready)
  BY <1>1, <1>2, <1>3, DequeueSound
<1>5. Clean(rq')
  BY <1>1, <1>2, <1>3, DequeueClean
<1>6. Holds(Ready, Oldest(Ready))
  <2>1. 0 \in 0 .. Ready.n - 1
    BY <1>1, <1>2 DEF Ring
  <2> QED
    BY <1>4, <2>1 DEF Holds
<1>7. Unblocks => is_ready
  BY DEF Unblocks
<1> QED
  BY <1>0, <1>1, <1>3, <1>4, <1>5, <1>6, <1>7 DEF Yield, storage

LEMMA YieldPlace ==
  ASSUME TypeOK, OneUser, EnoughSlots, Company, PlaceInv, NEW back,
         \/ back = "function" /\ At("pass_on")
         \/ back = "write_check" /\ At("blocking"),
         Yield(back)
  PROVE  PlaceInv'
<1>0. current \in Thread /\ current # NULL /\ \A t \in Thread : t \in Actor
  BY ThreadAssumption DEF TypeOK, At, Actor, MainLabels
<1>1. \A t \in Thread : Holds(rq, t) <=> ~Holds(bq, t)
  BY <1>0 DEF At, PlaceInv, RunInv
<1>2. \E t \in Thread : Holds(rq, t)
  <2>1. CASE At("pass_on")
    BY <1>0, <2>1 DEF At, PlaceInv, RunInv
  <2>2. CASE At("blocking")
    <3>1. current \in DiskUser
      BY <2>2, UserRuns
    <3>2. PICK t \in Thread : t # current
      BY <1>0, <3>1 DEF Company
    <3>3. ~Holds(bq, t)
      BY <3>1, <3>2 DEF PlaceInv, OneUser
    <3> QED
      BY <1>1, <3>3
  <2> QED
    BY <2>1, <2>2
<1>3. /\ Sound(rq') /\ Sound(bq') /\ Clean(rq')
      /\ current' \in Thread
      /\ \A t \in Thread : Holds(rq', t) <=> ~Holds(bq', t) /\ t # current'
      /\ ~Holds(bq', current')
      /\ \A t \in Thread : Holds(bq', t) => Holds(bq, t)
      /\ \A t \in Thread : Holds(bq, t) /\ ~Holds(bq', t) => is_ready
      /\ UNCHANGED disk
  BY <1>1, <1>2, YieldRings
<1>4. pc' = [pc EXCEPT ![current] = back] /\ \A t \in Thread : t # current => pc'[t] = pc[t]
  BY DEF Yield, Goto, TypeOK
<1>5. pc'[current] = back
  BY <1>0, <1>4 DEF TypeOK
<1>6. \A t \in Thread : pc'[t] \notin RunningLabels
  BY <1>3, <1>4, <1>5 DEF PlaceInv, RunningLabels
<1>7. RunInv'
  <2>1. pc'[current'] # "blocking" /\ \A t \in Thread : pc'[t] # "pass_on"
    BY <1>3, <1>6 DEF RunningLabels
  <2> QED
    BY <1>3, <2>1 DEF RunInv
<1>8. \A t \in Thread : Holds(bq', t) => t \in DiskUser /\ pc'[t] \in {"blocking", "write_check"}
  <2> SUFFICES ASSUME NEW t \in Thread, Holds(bq', t)
               PROVE  t \in DiskUser /\ pc'[t] \in {"blocking", "write_check"}
    OBVIOUS
  <2>1. t \in DiskUser /\ pc[t] \in {"blocking", "write_check"}
    BY <1>3 DEF PlaceInv
  <2> QED
    BY <1>4, <1>5, <2>1 DEF At
<1>9. \A t \in Thread : pc'[t] = "write_check" /\ ~Holds(bq', t) => disk'.drq
  <2> SUFFICES ASSUME NEW t \in Thread, pc'[t] = "write_check", ~Holds(bq', t) PROVE disk'.drq
    OBVIOUS
  <2>1. CASE Holds(bq, t)
    BY <1>3, <2>1 DEF is_ready
  <2>2. CASE ~Holds(bq, t)
    <3>1. t # current
      BY <1>0, <1>5, <2>2 DEF At, PlaceInv, RunInv
    <3> QED
      BY <1>3, <1>4, <2>2, <3>1 DEF PlaceInv
  <2> QED
    BY <2>1, <2>2
<1>10. StartInv'
  BY <1>3, ThreadAssumption DEF StartInv
<1> QED
  BY <1>3, <1>6, <1>7, <1>8, <1>9, <1>10 DEF PlaceInv, RunningLabels

\* A step of the running thread that leaves the rings alone.
LEMMA RunPlace ==
  ASSUME TypeOK, PlaceInv, current \in Thread,
         NEW l \in {"read_check", "read_done", "written"},
         pc' = [pc EXCEPT ![current] = l],
         UNCHANGED <<current, rq, bq, toAdd>>,
         pc[current] \notin {"pass_on", "blocking"},
         l = "read_check" => disk'.drq,
         disk'.drq \/ \A t \in Thread : t # current => pc[t] # "write_check"
  PROVE  PlaceInv'
<1>1. current # NULL
  BY ThreadAssumption
<1>2. \A t \in Thread : t # current => pc'[t] = pc[t]
  BY DEF TypeOK
<1>3. pc'[current] = l
  BY DEF TypeOK, Actor
<1>4. ~Holds(bq, current)
  BY <1>1 DEF PlaceInv, RunInv
<1>5. Sound(rq') /\ Sound(bq') /\ Clean(rq')
  BY DEF PlaceInv
<1>6. \A t \in Thread : (Holds(rq', t) <=> Holds(rq, t)) /\ (Holds(bq', t) <=> Holds(bq, t))
  OBVIOUS
<1>7. RunInv'
  BY <1>1, <1>2, <1>3, <1>6 DEF PlaceInv, RunInv
<1>8. StartInv'
  BY <1>1 DEF StartInv
<1>9. \A t \in Thread : pc'[t] \in RunningLabels => current' = t
  BY <1>2 DEF PlaceInv
<1>10. \A t \in Thread : Holds(bq', t) => t \in DiskUser /\ pc'[t] \in {"blocking", "write_check"}
  BY <1>2, <1>4, <1>6 DEF PlaceInv
<1>11. \A t \in Thread : pc'[t] = "read_check" => disk'.drq
  BY <1>2, <1>3 DEF PlaceInv, RunningLabels
<1>12. \A t \in Thread : pc'[t] = "write_check" /\ ~Holds(bq', t) => disk'.drq
  BY <1>2, <1>3, <1>6 DEF PlaceInv
<1> QED
  BY <1>5, <1>7, <1>8, <1>9, <1>10, <1>11, <1>12 DEF PlaceInv

LEMMA StepPlace ==
  ASSUME TypeOK, OneUser, EnoughSlots, Company, DiskInv, prompt, PlaceInv, [Next]_vars
  PROVE  PlaceInv'
<1> USE ThreadAssumption DEF At, Goto, storage
<1>0. /\ \A t \in Thread : t \in Actor /\ t # NULL
      /\ \A t \in Actor : pc[t] \in MainLabels <=> t = NULL
      /\ rq \in Ring /\ bq \in Ring /\ Sound(rq) /\ Sound(bq) /\ Clean(rq)
      /\ current \in Actor
  BY DEF TypeOK, PlaceInv, Actor, MainLabels, ThreadLabels, RunningLabels
<1>1. CASE MainEnable
  <2>1. current = NULL /\ UNCHANGED <<rq, bq, toAdd, disk, current>>
    BY <1>0, <1>1 DEF MainEnable, MainLabels
  <2>2. \A t \in Thread : pc'[t] = pc[t]
    BY <1>0, <1>1, <2>1 DEF MainEnable, TypeOK
  <2> QED
    BY <2>1, <2>2 DEF PlaceInv, StartInv, RunInv
<1>2. ASSUME NEW t \in Thread, MainAdd(t) PROVE PlaceInv'
  <2>1. /\ current = NULL /\ UNCHANGED <<pc, bq, disk, current>>
        /\ t \in toAdd /\ toAdd' = toAdd \ {t} /\ rq' = Enqueued(rq, t) /\ t # First
    BY <1>0, <1>2 DEF MainAdd, MainLabels, TypeOK
  <2>2. ~Holds(rq, t)
    BY <2>1 DEF PlaceInv, StartInv
  <2>3. rq.n < MAXV
    BY <1>0, <2>2, Room DEF EnoughSlots
  <2>4. /\ Sound(rq') /\ Clean(rq')
        /\ \A s \in Actor : Holds(rq', s) <=> Holds(rq, s) \/ s = t
    BY <1>0, <2>1, <2>2, <2>3, EnqueueSound, EnqueueClean
  <2>5. StartInv'
    BY <1>0, <2>1, <2>4 DEF PlaceInv, StartInv
  <2> QED
    BY <1>0, <2>1, <2>4, <2>5 DEF PlaceInv, RunInv
<1>3. CASE MainDispatch
  <2>1. /\ current = NULL /\ UNCHANGED <<rq, bq, disk, toAdd>> /\ toAdd = {}
        /\ current' = First /\ pc' = [pc EXCEPT ![NULL] = "main_assert"]
    BY <1>0, <1>3 DEF MainDispatch, MainLabels, threads_low_switch_to
  <2>2. \A t \in Thread : pc'[t] = "function" /\ ~Holds(bq', t) /\ (Holds(rq', t) <=> t # First)
    BY <1>0, <2>1 DEF PlaceInv, StartInv, TypeOK
  <2>3. RunInv'
    BY <2>1, <2>2 DEF RunInv
  <2>4. StartInv'
    BY <2>1 DEF StartInv
  <2> QED
    BY <1>0, <2>1, <2>2, <2>3, <2>4 DEF PlaceInv, RunningLabels
<1>4. CASE PassOnYield
  BY <1>4, YieldPlace DEF PassOnYield
<1>5. CASE WriteYield
  BY <1>5, YieldPlace DEF WriteYield
<1>6. ASSUME current \in Thread, PassOn, UNCHANGED disk,
             pc[current] \in {"function", "written"}
      PROVE  PlaceInv'
  <2>1. /\ UNCHANGED <<current, bq, toAdd>> /\ rq' = Enqueued(rq, current)
        /\ pc' = [pc EXCEPT ![current] = "pass_on"]
    BY <1>6 DEF PassOn
  <2>2. ~Holds(rq, current) /\ ~Holds(bq, current)
    BY <1>0, <1>6 DEF PlaceInv, RunInv
  <2>3. rq.n < MAXV
    BY <1>0, <1>6, <2>2, Room DEF EnoughSlots
  <2>4. /\ Sound(rq') /\ Clean(rq')
        /\ \A s \in Actor : Holds(rq', s) <=> Holds(rq, s) \/ s = current
    BY <1>0, <1>6, <2>1, <2>2, <2>3, EnqueueSound, EnqueueClean
  <2>5. /\ \A t \in Thread : t # current => pc'[t] = pc[t]
        /\ pc'[current] = "pass_on"
    BY <1>0, <2>1 DEF TypeOK
  <2>6. \A t \in Thread : Holds(bq', t) <=> Holds(bq, t)
    BY <2>1
  <2>7. RunInv'
    BY <1>0, <1>6, <2>1, <2>2, <2>4, <2>5, <2>6 DEF PlaceInv, RunInv
  <2>8. StartInv'
    BY <1>0, <1>6, <2>1 DEF StartInv
  <2>9. \A t \in Thread : pc'[t] \in RunningLabels => current' = t
    BY <2>1, <2>5 DEF PlaceInv
  <2>10. \A t \in Thread : Holds(bq', t) => t \in DiskUser /\ pc'[t] \in {"blocking", "write_check"}
    BY <2>2, <2>5, <2>6 DEF PlaceInv
  <2>11. \A t \in Thread : /\ pc'[t] = "read_check" => disk'.drq
                           /\ pc'[t] = "write_check" /\ ~Holds(bq', t) => disk'.drq
    BY <1>6, <2>5, <2>6 DEF PlaceInv
  <2> QED
    BY <1>0, <2>1, <2>4, <2>7, <2>8, <2>9, <2>10, <2>11 DEF PlaceInv
<1>7. CASE Compute
  <2>1. current \in Thread
    BY <1>0, <1>7 DEF Compute, Actor, MainLabels
  <2> QED
    BY <1>6, <1>7, <2>1 DEF Compute, PassOn
<1>8. CASE ReadIssue
  <2>1. /\ current \in DiskUser /\ UNCHANGED <<current, rq, bq, toAdd>>
        /\ pc' = [pc EXCEPT ![current] = "read_check"] /\ disk'.drq
    BY <1>8 DEF ReadIssue, Issue
  <2> QED
    BY <1>8, <2>1, RunPlace DEF ReadIssue
<1>9. CASE ReadTransfer
  <2>1. /\ current \in DiskUser /\ UNCHANGED <<current, rq, bq, toAdd>>
        /\ pc' = [pc EXCEPT ![current] = "read_done"]
    BY <1>9, UserRuns DEF ReadTransfer
  <2>2. \A t \in Thread : t # current => pc[t] # "write_check"
    BY <2>1 DEF TypeOK, OneUser
  <2>3. current \in Thread /\ pc[current] = "read_check"
    BY <1>9, <2>1 DEF ReadTransfer
  <2> QED
    BY <1>9, <2>1, <2>2, <2>3, RunPlace DEF ReadTransfer
<1>10. CASE ReadEnqueue
  BY <1>10, UserRuns DEF ReadEnqueue, PlaceInv, is_ready
<1>11. CASE WriteIssue
  <2>1. /\ current \in DiskUser /\ current \in Thread /\ UNCHANGED <<current, rq, toAdd>>
        /\ pc' = [pc EXCEPT ![current] = "blocking"] /\ bq' = Enqueued(bq, current)
    BY <1>11, UserRuns DEF WriteIssue
  <2>2. pc[current] = "read_done"
    BY <1>11 DEF WriteIssue
  <2>3. ~Holds(bq, current) /\ ~Holds(rq, current)
    BY <1>0, <2>1, <2>2 DEF PlaceInv, RunInv
  <2>4. bq.n < MAXV
    BY <1>0, <2>1, <2>3, Room DEF EnoughSlots
  <2>5. Sound(bq') /\ \A s \in Actor : Holds(bq', s) <=> Holds(bq, s) \/ s = current
    BY <1>0, <2>1, <2>3, <2>4, EnqueueSound
  <2>6. /\ \A t \in Thread : t # current => pc'[t] = pc[t]
        /\ pc'[current] = "blocking"
    BY <1>0, <2>1 DEF TypeOK
  <2>7. \A t \in Thread : Holds(rq', t) <=> Holds(rq, t)
    BY <2>1
  <2>8. RunInv'
    BY <1>0, <2>1, <2>3, <2>5, <2>6, <2>7 DEF PlaceInv, RunInv
  <2>9. StartInv'
    BY <1>0, <2>1 DEF StartInv
  <2>10. \A t \in Thread : pc'[t] \notin {"read_check", "write_check"}
    BY <2>1, <2>6 DEF PlaceInv, RunningLabels, TypeOK, OneUser
  <2>11. \A t \in Thread : pc'[t] \in RunningLabels => current' = t
    BY <2>1, <2>6 DEF PlaceInv
  <2>12. \A t \in Thread : Holds(bq', t) => t \in DiskUser /\ pc'[t] \in {"blocking", "write_check"}
    BY <1>0, <2>1, <2>5, <2>6 DEF PlaceInv
  <2> QED
    BY <1>0, <2>1, <2>5, <2>8, <2>9, <2>10, <2>11, <2>12 DEF PlaceInv
<1>12. CASE WriteTransfer
  <2>1. /\ current \in DiskUser /\ UNCHANGED <<current, rq, bq, toAdd>>
        /\ pc' = [pc EXCEPT ![current] = "written"]
    BY <1>12, UserRuns DEF WriteTransfer
  <2>2. \A t \in Thread : t # current => pc[t] # "write_check"
    BY <2>1 DEF TypeOK, OneUser
  <2> QED
    BY <1>12, <2>1, <2>2, RunPlace DEF WriteTransfer
<1>13. CASE WriteGivesUp
  <2>1. current \in Thread /\ ~Holds(bq, current)
    BY <1>0, <1>13, UserRuns DEF WriteGivesUp, PlaceInv, RunInv
  <2> QED
    BY <1>13, <2>1 DEF WriteGivesUp, PlaceInv, is_ready
<1>14. CASE NextBlock
  <2>1. current \in Thread
    BY <1>14, UserRuns DEF NextBlock
  <2> QED
    BY <1>6, <1>14, <2>1 DEF NextBlock, PassOn
<1>15. ASSUME UNCHANGED <<current, pc, toAdd, rq, bq>>, disk.drq => disk'.drq
       PROVE  PlaceInv'
  BY <1>15 DEF PlaceInv, StartInv, RunInv
<1>16. CASE DiskReady
  BY <1>15, <1>16 DEF DiskReady
<1>17. CASE TimerRaise
  BY <1>15, <1>17 DEF TimerRaise
<1>18. CASE TimerInterrupt
  BY <1>15, <1>18 DEF TimerInterrupt
<1>19. CASE UNCHANGED vars
  BY <1>15, <1>19 DEF vars
<1> QED
  BY <1>1, <1>2, <1>3, <1>4, <1>5, <1>7, <1>8, <1>9, <1>10, <1>11, <1>12, <1>13, <1>14, <1>16,
     <1>17, <1>18, <1>19 DEF Next, Code

\* With a prompt disk the write has been made when it is over.
LEMMA StepWritten ==
  ASSUME TypeOK, OneUser, DiskInv, prompt, PlaceInv, WrittenInv, [Next]_vars
  PROVE  WrittenInv'
<1> USE ThreadAssumption DEF At, Goto, storage
<1>0. \A t \in DiskUser : t \in Actor /\ t \in Thread /\ t # NULL
  BY DEF Actor
<1>1. ASSUME NEW l, l # "written", pc' = [pc EXCEPT ![current] = l],
             current \in DiskUser \/ UNCHANGED <<round, content, buf>>
      PROVE  WrittenInv'
  <2> SUFFICES ASSUME NEW t \in DiskUser, pc'[t] = "written"
               PROVE  content'[WriteBlock(t)'] = buf'[t]
    BY DEF WrittenInv
  <2>1. t # current /\ pc[t] = "written"
    BY <1>0, <1>1 DEF TypeOK
  <2> QED
    BY <1>0, <1>1, <2>1 DEF WrittenInv, WriteBlock, OneUser
<1>2. CASE MainEnable
  BY <1>2, <1>1 DEF MainEnable
<1>3. CASE MainDispatch
  BY <1>3, <1>1 DEF MainDispatch
<1>4. CASE PassOnYield
  BY <1>4, <1>1 DEF PassOnYield, Yield
<1>5. CASE WriteYield
  BY <1>5, <1>1 DEF WriteYield, Yield
<1>6. CASE Compute
  BY <1>6, <1>1 DEF Compute, PassOn
<1>7. CASE ReadIssue
  BY <1>7, <1>1 DEF ReadIssue
<1>8. CASE ReadTransfer
  BY <1>8, <1>1, UserRuns DEF ReadTransfer
<1>9. CASE ReadEnqueue
  BY <1>9, <1>1 DEF ReadEnqueue
<1>10. CASE WriteIssue
  BY <1>10, <1>1 DEF WriteIssue
<1>11. CASE WriteTransfer
  <2>1. current \in DiskUser /\ disk.op = "write" /\ disk.block = WriteBlock(current)
    BY <1>11, UserRuns DEF WriteTransfer, DiskInv
  <2>2. content' = [content EXCEPT ![WriteBlock(current)] = buf[current]] /\ UNCHANGED <<round, buf>>
    BY <1>11, <2>1 DEF WriteTransfer
  <2>3. WriteBlock(current) \in Block
    BY <2>1 DEF TypeOK
  <2>4. content'[WriteBlock(current)] = buf'[current]
    BY <2>2, <2>3 DEF TypeOK
  <2> QED
    BY <2>1, <2>2, <2>4 DEF WrittenInv, OneUser, WriteBlock
<1>12. CASE WriteGivesUp
  <2>1. current \in Thread /\ ~Holds(bq, current)
    BY <1>0, <1>12, UserRuns DEF WriteGivesUp, PlaceInv, RunInv
  <2> QED
    BY <1>12, <2>1 DEF WriteGivesUp, PlaceInv, is_ready
<1>13. CASE NextBlock
  BY <1>13, <1>1, UserRuns DEF NextBlock, PassOn
<1>14. ASSUME UNCHANGED <<pc, round, content, buf>> PROVE WrittenInv'
  BY <1>14 DEF WrittenInv, WriteBlock
<1>15. CASE \E t \in Thread : MainAdd(t)
  BY <1>14, <1>15 DEF MainAdd
<1>16. CASE DiskReady \/ TimerRaise \/ TimerInterrupt
  BY <1>14, <1>16 DEF DiskReady, TimerRaise, TimerInterrupt
<1>17. CASE UNCHANGED vars
  BY <1>14, <1>17 DEF vars
<1> QED
  BY <1>2, <1>3, <1>4, <1>5, <1>6, <1>7, <1>8, <1>9, <1>10, <1>11, <1>12, <1>13, <1>15, <1>16,
     <1>17 DEF Next, Code

-----------------------------------------------------------------------------
(* The theorems                                                            *)

\* The kernel of MP6: one thread at most uses the disk, others run beside it,
\* and the rings have a slot for each.
SystemSize == OneUser /\ Company /\ EnoughSlots

LEMMA Inductive == SystemSize => (Spec => []IInv)
<1> SUFFICES ASSUME SystemSize PROVE Spec => []IInv
  OBVIOUS
<1>1. Init => IInv
  BY InitType, InitPlace DEF IInv
<1>2. IInv /\ [Next]_vars => IInv'
  <2> SUFFICES ASSUME IInv, [Next]_vars PROVE IInv'
    OBVIOUS
  <2>1. TypeOK' /\ DiskInv'
    BY StepType, StepDisk DEF IInv, SystemSize
  <2>2. ASSUME prompt' PROVE PlaceInv' /\ WrittenInv'
    <3>1. prompt
      BY <2>2, SameDisk
    <3> QED
      BY <3>1, StepPlace, StepWritten DEF IInv, SystemSize
  <2> QED
    BY <2>1, <2>2 DEF IInv
<1> QED
  BY <1>1, <1>2, PTL DEF Spec

\* The ready ring and the blocked ring never overflow with a prompt disk,
\* although neither checks for it.
THEOREM RingsNeverOverflow == SystemSize => (Spec => []RingsSound)
<1> SUFFICES ASSUME SystemSize PROVE Spec => []RingsSound
  OBVIOUS
<1>1. IInv => RingsSound
  <2> SUFFICES ASSUME TypeOK, PlaceInv
               PROVE  /\ \A ring \in {rq, bq} : ring.n <= MAXV /\ ring.tail = Position(ring, ring.n)
                      /\ Occupied(rq) = {s \in Slots : rq.slot[s] # NULL}
    BY DEF IInv, RingsSound
  <2>1. \A ring \in {rq, bq} : ring.n <= MAXV /\ ring.tail = Position(ring, ring.n)
    BY DEF PlaceInv, Sound
  <2>2. \A i \in 0 .. rq.n - 1 : Position(rq, i) \in Slots /\ rq.slot[Position(rq, i)] # NULL
    <3> TAKE i \in 0 .. rq.n - 1
    <3>1. i \in 0 .. MAXV
      BY SizeAssumption DEF PlaceInv, Sound, TypeOK, Ring
    <3> QED
      BY <3>1, PositionIs, ThreadAssumption DEF PlaceInv, Sound, Entry, TypeOK
  <2>3. Occupied(rq) = {s \in Slots : rq.slot[s] # NULL}
    BY <2>2 DEF Occupied, PlaceInv, Clean
  <2> QED
    BY <2>1, <2>3
<1> QED
  BY <1>1, Inductive, PTL

\* With a prompt disk a thread without the CPU waits in one ring, once.
THEOREM NoThreadIsLost == SystemSize => (Spec => []NoThreadLost)
<1> SUFFICES ASSUME SystemSize PROVE Spec => []NoThreadLost
  OBVIOUS
<1>1. IInv => NoThreadLost
  <2> SUFFICES ASSUME TypeOK, PlaceInv, current # NULL, NEW t \in Thread
               PROVE  Cardinality(Entries(rq, t)) + Cardinality(Entries(bq, t)) =
                        IF t = current /\ pc[t] \notin {"pass_on", "blocking"} THEN 0 ELSE 1
    BY DEF IInv, NoThreadLost
  <2>1. /\ Cardinality(Entries(rq, t)) = IF Holds(rq, t) THEN 1 ELSE 0
        /\ Cardinality(Entries(bq, t)) = IF Holds(bq, t) THEN 1 ELSE 0
    BY EntriesCount DEF TypeOK, PlaceInv
  <2>2. Holds(rq, t) <=> ~Holds(bq, t) /\ (t # current \/ pc[t] = "pass_on")
    BY DEF PlaceInv, RunInv
  <2>3. t = current => (Holds(bq, t) <=> pc[t] = "blocking")
    BY DEF PlaceInv, RunInv
  <2> QED
    BY <2>1, <2>2, <2>3
<1> QED
  BY <1>1, Inductive, PTL

\* A write to a prompt disk has changed the block when it returns.
THEOREM WritesAreDelivered == SystemSize => (Spec => []WriteDelivers)
<1> SUFFICES ASSUME SystemSize PROVE Spec => []WriteDelivers
  OBVIOUS
<1>1. IInv => WriteDelivers
  BY UserRuns DEF IInv, WriteDelivers, WrittenInv, At
<1> QED
  BY <1>1, Inductive, PTL

\* Whatever the disk does, data reach the block of the write that sends them
\* and no other, and this needs no room in the rings.
THEOREM DataReachTheirBlock == OneUser => (Spec => OnlyOwnBlock)
<1> SUFFICES ASSUME OneUser PROVE Spec => OnlyOwnBlock
  OBVIOUS
<1> DEFINE Own == \A b \in Block : content'[b] # content[b] =>
                    current \in DiskUser /\ b = WriteBlock(current)
<1>1. Init => TypeOK /\ DiskInv
  BY InitType, InitPlace
<1>2. TypeOK /\ DiskInv /\ [Next]_vars => TypeOK' /\ DiskInv'
  BY StepType, StepDisk
<1>3. TypeOK /\ DiskInv /\ [Next]_vars => [Own]_vars
  <2> SUFFICES ASSUME TypeOK, DiskInv, [Next]_vars PROVE Own \/ UNCHANGED vars
    OBVIOUS
  <2> USE DEF storage
  <2>1. CASE WriteTransfer
    <3>1. current \in DiskUser
      BY <2>1, UserRuns DEF WriteTransfer
    <3>2. disk.block = WriteBlock(current)
      BY <2>1, <3>1 DEF WriteTransfer, At, DiskInv
    <3> QED
      BY <2>1, <3>1, <3>2 DEF WriteTransfer, TypeOK
  <2>2. CASE UNCHANGED content
    BY <2>2
  <2>3. CASE MainEnable \/ MainDispatch \/ \E t \in Thread : MainAdd(t)
    BY <2>2, <2>3 DEF MainEnable, MainDispatch, MainAdd
  <2>4. CASE PassOnYield \/ WriteYield \/ Compute \/ NextBlock
    BY <2>2, <2>4 DEF PassOnYield, WriteYield, Yield, Compute, NextBlock, PassOn
  <2>5. CASE ReadIssue \/ ReadTransfer \/ ReadEnqueue \/ WriteIssue \/ WriteGivesUp
    BY <2>2, <2>5 DEF ReadIssue, ReadTransfer, ReadEnqueue, WriteIssue, WriteGivesUp
  <2>6. CASE DiskReady \/ TimerRaise \/ TimerInterrupt \/ UNCHANGED vars
    BY <2>2, <2>6 DEF DiskReady, TimerRaise, TimerInterrupt, vars
  <2> QED
    BY <2>1, <2>3, <2>4, <2>5, <2>6 DEF Next, Code
<1>4. Spec => [][Own]_vars
  BY <1>1, <1>2, <1>3, PTL DEF Spec
<1> QED
  BY <1>4 DEF OnlyOwnBlock

=============================================================================
