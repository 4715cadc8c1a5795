------------------------------ MODULE VMProofs ------------------------------
(***************************************************************************)
(* Proofs about VirtualMemory.tla and VMPools.tla, for tables and pools of *)
(* every size, every program and every request.  Those about paging need   *)
(* frames without leftover entries (Stale = {}).                           *)
(*                                                                         *)
(* Two things make demand paging safe here.  The fault handler takes every *)
(* frame from the pool and enters it in one place only (Structure).  And   *)
(* free_page, which would give mapped frames back, never does: its indices *)
(* are always 0, and entry 0 of the first table is frame 0, which is not   *)
(* of the pool (FreeDirZero, FreeTabZero).                                 *)
(*                                                                         *)
(* The entries of a pool's array stay sorted and apart when release moves  *)
(* them (Packed).  What rems holds does not matter: a region is placed     *)
(* behind the last, and ends before what the program used in all.          *)
(***************************************************************************)
EXTENDS VMPools, TLAPS

\* The directory, the shared table and the frames of the pool.
Structure ==
    /\ entry[Directory][Last] = Directory
    /\ entry[SharedTable][0] = 0 /\ entry[Directory][0] = SharedTable
    /\ SharedTable \notin free
    /\ \A d \in UserDirs : entry[Directory][d] # Absent =>
         entry[Directory][d] \in Frames \ (free \cup {SharedTable})
    /\ \A d, e \in UserDirs :
         entry[Directory][d] = entry[Directory][e] /\ entry[Directory][d] # Absent => d = e
    /\ \A d \in UserDirs, i \in Index : FrameOf(<<d, i>>) # Absent =>
         FrameOf(<<d, i>>) \in Frames \ (free \cup {SharedTable} \cup Tables)
    /\ \A p, q \in UserPages :
         FrameOf(p) = FrameOf(q) /\ FrameOf(p) # Absent => p = q
    /\ \A f \in free : value[f] = Zero /\ \A i \in Index : entry[f][i] = Absent

IInv == TypeVM /\ (~failed => Structure)

-----------------------------------------------------------------------------
(* The indices the code computes.                                          *)

LEMMA Small == ASSUME NEW x \in Nat, NEW y \in Nat, x < y PROVE x \div y = 0
OBVIOUS

LEMMA Sizes ==
  /\ ENTRIES \in Nat /\ ENTRIES > 2
  /\ PAGE_SIZE \in Nat /\ PAGE_SIZE > 0 /\ ENTRIES < PAGE_SIZE
  /\ PAGE_SIZE * ENTRIES \in Nat /\ PAGE_SIZE < PAGE_SIZE * ENTRIES
<1>1. PAGE_SIZE \in Nat /\ PAGE_SIZE > 0 /\ ENTRIES < PAGE_SIZE
  BY VMAssumption DEF PAGE_SIZE
<1>2. \A p \in Nat, e \in Nat : p > 0 /\ e > 2 => p * e \in Nat /\ p < p * e
  OBVIOUS
<1> QED
  BY <1>1, <1>2, VMAssumption

\* free_page masks the page number before it shifts it.
LEMMA FreeDirZero == ASSUME NEW a \in Nat PROVE FreeDirIndex(a) = 0
<1>1. a % PAGE_SIZE \in 0 .. PAGE_SIZE - 1
  BY Sizes
<1>2. \A r \in Nat : 4 * (r \div 4) \in Nat /\ 4 * (r \div 4) <= r
  OBVIOUS
<1> DEFINE m == 4 * ((a % PAGE_SIZE) \div 4)
<1>3. m \in Nat /\ m < PAGE_SIZE * ENTRIES
  BY <1>1, <1>2, Sizes
<1> QED
  BY <1>3, Small, Sizes DEF FreeDirIndex

LEMMA FreeTabZero == ASSUME NEW a \in Nat PROVE FreeTabIndex(a) = 0
<1>1. a % ENTRIES \in 0 .. ENTRIES - 1
  BY Sizes
<1> QED
  BY <1>1, Small, Sizes DEF FreeTabIndex

LEMMA TabIndexType == ASSUME NEW a \in Nat PROVE TabIndex(a) \in Index
<1>1. a \div PAGE_SIZE \in Nat
  BY Sizes
<1>2. \A x \in Nat : x % ENTRIES \in 0 .. ENTRIES - 1
  BY Sizes
<1> QED
  BY <1>1, <1>2 DEF TabIndex, Index

-----------------------------------------------------------------------------
LEMMA Constants ==
  /\ 0 \in Index /\ Last \in Index /\ Last # 0 /\ UserDirs \subseteq Index
  /\ 0 \notin UserDirs /\ Last \notin UserDirs
  /\ Directory \in Index /\ Directory \notin Frames /\ 0 \notin Frames
  /\ SharedTable \in Frames /\ Absent \notin AllFrames
  /\ Frames \subseteq AllFrames /\ Index \subseteq AllFrames
  /\ Directory # Absent /\ SharedTable # Directory
BY VMAssumption DEF Index, Last, UserDirs, AllFrames

LEMMA GetFrames == ASSUME NEW pool
                   PROVE /\ pool # {} => get_frames(pool) \in pool
                         /\ pool = {} => get_frames(pool) = 0
<1>1. CASE pool = {}
  BY <1>1 DEF get_frames
<1>2. CASE pool # {}
  <2>1. PICK f : f \in pool
    BY <1>2
  <2> QED
    BY <1>2, <2>1, Zenon DEF get_frames
<1> QED
  BY <1>1, <1>2

-----------------------------------------------------------------------------
LEMMA InitIInv == ASSUME Stale = {}, InitVM PROVE IInv
<1>1. PICK old \in [AllFrames -> [Index -> {Absent}]] :
        entry = [old EXCEPT ![Directory] = EmptyDirectory, ![SharedTable] = Identity]
  BY DEF InitVM
<1>2. EmptyDirectory \in [Index -> AllFrames \cup {Absent}]
  BY Constants DEF EmptyDirectory
<1>3. Identity \in [Index -> AllFrames \cup {Absent}]
  BY Constants DEF Identity
<1>4. TypeVM
  <2>1. entry \in [AllFrames -> [Index -> AllFrames \cup {Absent}]]
    BY <1>1, <1>2, <1>3, Constants
  <2>2. value \in [AllFrames -> Values]
    BY VMAssumption DEF InitVM
  <2> QED
    BY <2>1, <2>2 DEF TypeVM, InitVM
<1>5. entry[Directory] = EmptyDirectory /\ entry[SharedTable] = Identity
  BY <1>1, Constants
<1>6. \A d \in UserDirs : entry[Directory][d] = Absent
  BY <1>5, Constants DEF EmptyDirectory
<1>7. \A p \in UserPages : FrameOf(p) = Absent
  BY <1>6 DEF FrameOf, Translate, UserPages
<1>8. \A f \in free : value[f] = Zero /\ \A i \in Index : entry[f][i] = Absent
  BY <1>1, Constants DEF InitVM
<1>9. Structure
  <2>1. /\ entry[Directory][Last] = Directory
        /\ entry[SharedTable][0] = 0 /\ entry[Directory][0] = SharedTable
    BY <1>5, Constants DEF EmptyDirectory, Identity
  <2>2. SharedTable \notin free
    BY DEF InitVM
  <2>3. \A d \in UserDirs, i \in Index : FrameOf(<<d, i>>) = Absent
    BY <1>7 DEF UserPages
  <2> QED
    BY <1>6, <1>7, <1>8, <2>1, <2>2, <2>3 DEF Structure
<1> QED
  BY <1>4, <1>9 DEF IInv

-----------------------------------------------------------------------------
(* A write to a page shows in no other.                                    *)
LEMMA StoreKeeps ==
  ASSUME IInv, NEW a \in UserAddresses, NEW v \in Values, Store(a, v)
  PROVE  IInv'
<1> DEFINE p == <<DirIndex(a), TabIndex(a)>>
<1>1. p \in UserPages /\ FrameOf(p) # Absent
  BY TabIndexType DEF UserAddresses, UserPages, FrameOf, Store
<1>2. value' = [value EXCEPT ![FrameOf(p)] = v] /\ UNCHANGED <<free, entry, failed>>
  BY DEF Store, FrameOf
<1>3. TypeVM'
  BY <1>2 DEF IInv, TypeVM
<1>4. ASSUME ~failed, Structure PROVE Structure'
  <2>1. FrameOf(p) \notin free
    BY <1>1, <1>4 DEF Structure, UserPages
  <2>2. \A f \in free : value'[f] = value[f]
    BY <2>1, <1>2, Constants DEF IInv, TypeVM
  <2>3. \A q : FrameOf(q)' = FrameOf(q)
    BY <1>2 DEF FrameOf, Translate
  <2>4. Tables' = Tables
    BY <1>2 DEF Tables
  <2> QED
    BY <1>2, <1>4, <2>2, <2>3, <2>4 DEF Structure
<1> QED
  BY <1>2, <1>3, <1>4 DEF IInv

\* Releasing pages gives nothing back.
LEMMA FreeKeepsAll ==
  ASSUME IInv, ~failed, NEW pages \in SUBSET Nat, free_pages(pages)
  PROVE  UNCHANGED vmvars
<1>1. \A a \in pages : ReleasedFrame(a) = 0
  <2> TAKE a \in pages
  <2>1. FreeDirIndex(a) = 0 /\ FreeTabIndex(a) = 0
    BY FreeDirZero, FreeTabZero
  <2>2. Translate(entry, Last, 0) = SharedTable
    BY Constants DEF Translate, IInv, Structure
  <2> QED
    BY <2>1, <2>2 DEF ReleasedFrame, IInv, Structure
<1>2. Frames \cap { ReleasedFrame(a) : a \in pages } = {}
  BY <1>1, Constants
<1> QED
  BY <1>2 DEF free_pages, vmvars

LEMMA FreeKeeps ==
  ASSUME IInv, NEW pages \in SUBSET Nat, free_pages(pages)
  PROVE  IInv'
<1>1. TypeVM' /\ failed' = failed
  BY DEF IInv, TypeVM, free_pages
<1>2. CASE failed
  BY <1>1, <1>2 DEF IInv
<1>3. CASE ~failed
  <2>1. UNCHANGED vmvars
    BY <1>3, FreeKeepsAll
  <2> QED
    BY <2>1 DEF vmvars, IInv, TypeVM, Structure, Tables, FrameOf, Translate
<1> QED
  BY <1>2, <1>3

-----------------------------------------------------------------------------
(* The fault handler.                                                      *)

\* Where the handler writes: the directory through <<Last, Last>>, the table
\* of directory entry d through <<Last, d>>.
LEMMA Recursive ==
  ASSUME NEW e, e[Directory][Last] = Directory
  PROVE  /\ Translate(e, Last, Last) = Directory
         /\ \A d : Translate(e, Last, d) = e[Directory][d]
BY Constants DEF Translate

\* The directory entry has a table: one frame is taken and entered in it.
LEMMA FaultInTable ==
  ASSUME IInv, ~failed, NEW a \in UserAddresses, handle_fault(a),
         entry[Directory][DirIndex(a)] # Absent
  PROVE  LET f == get_frames(free)
             T == entry[Directory][DirIndex(a)]
         IN  /\ free' = free \ {f}
             /\ entry' = [entry EXCEPT ![T][TabIndex(a)] = f]
             /\ ~failed' => f \in free
<1> DEFINE f == get_frames(free)
<1>1. entry[Directory][Last] = Directory
  BY DEF IInv, Structure
<1>2. Translate(entry, Last, DirIndex(a)) = entry[Directory][DirIndex(a)]
  BY <1>1, Recursive
<1>3. WithTable(DirIndex(a), f) = entry
  BY DEF WithTable
<1>4. free' = free \ {f} /\ failed' = (failed \/ free = {})
  BY DEF handle_fault
<1>5. entry' = Written(WithTable(DirIndex(a), get_frames(free)), Last, DirIndex(a), TabIndex(a), f)
  BY DEF handle_fault
<1> QED
  BY <1>2, <1>3, <1>4, <1>5, GetFrames DEF Written

\* It has none: a second frame becomes the table.
LEMMA FaultNewTable ==
  ASSUME IInv, ~failed, NEW a \in UserAddresses, handle_fault(a),
         entry[Directory][DirIndex(a)] = Absent
  PROVE  LET t == get_frames(free)
             f == get_frames(free \ {t})
             withTable == [entry EXCEPT ![Directory][DirIndex(a)] = t]
         IN  /\ free' = free \ {t, f}
             /\ entry' = [withTable EXCEPT ![t][TabIndex(a)] = f]
             /\ ~failed' => t \in free /\ f \in free \ {t}
<1> DEFINE t == get_frames(free)
           f == get_frames(free \ {t})
           withTable == [entry EXCEPT ![Directory][DirIndex(a)] = t]
<1>1. entry[Directory][Last] = Directory
  BY DEF IInv, Structure
<1>2. WithTable(DirIndex(a), t) = withTable
  BY <1>1, Recursive DEF WithTable, Written
<1>3. DirIndex(a) \in UserDirs
  BY DEF UserAddresses
<1>4. entry \in [AllFrames -> [Index -> AllFrames \cup {Absent}]]
  BY DEF IInv, TypeVM
<1>5. withTable[Directory][Last] = Directory /\ withTable[Directory][DirIndex(a)] = t
  BY <1>1, <1>3, <1>4, Constants
<1>6. Translate(withTable, Last, DirIndex(a)) = t
  BY <1>5, Recursive
<1>7. /\ free' = (free \ {t}) \ {f}
      /\ failed' = (failed \/ free \ {t} = {} \/ free = {})
      /\ entry' = Written(WithTable(DirIndex(a), t), Last, DirIndex(a), TabIndex(a), f)
  BY DEF handle_fault
<1>8. entry' = [withTable EXCEPT ![t][TabIndex(a)] = f]
  BY <1>2, <1>6, <1>7 DEF Written
<1>9. ~failed' => t \in free /\ f \in free \ {t}
  BY <1>7, GetFrames
<1> QED
  BY <1>7, <1>8, <1>9

LEMMA FaultKeepsType ==
  ASSUME TypeVM, NEW a \in UserAddresses, handle_fault(a)
  PROVE  TypeVM'
<1> DEFINE B == AllFrames \cup {Absent}
<1>1. \A pool \in SUBSET Frames : get_frames(pool) \in B
  BY GetFrames, Constants
<1>2. \A d, t, i : \A e \in [AllFrames -> [Index -> B]], f \in B :
        Written(e, d, t, i, f) \in [AllFrames -> [Index -> B]]
  BY DEF Written
<1>3. \A t \in B : WithTable(DirIndex(a), t) \in [AllFrames -> [Index -> B]]
  BY <1>2 DEF WithTable, TypeVM
<1>4. entry' \in [AllFrames -> [Index -> B]]
  <2> DEFINE t == get_frames(free)
             left == IF entry[Directory][DirIndex(a)] = Absent THEN free \ {t} ELSE free
  <2>1. t \in B /\ get_frames(left) \in B
    BY <1>1 DEF TypeVM
  <2>2. entry' = Written(WithTable(DirIndex(a), t), Last, DirIndex(a), TabIndex(a), get_frames(left))
    BY DEF handle_fault
  <2> QED
    BY <1>2, <1>3, <2>1, <2>2
<1>5. free' \subseteq Frames
  BY DEF handle_fault, TypeVM
<1>6. failed' \in BOOLEAN /\ value' = value
  BY DEF handle_fault, TypeVM
<1> QED
  BY <1>4, <1>5, <1>6 DEF TypeVM

\* What the pages are mapped to after a fault, whichever case it was.
LEMMA FaultEffect ==
  ASSUME IInv, ~failed, ~failed', NEW a \in UserAddresses, handle_fault(a)
  PROVE  \E f \in free, T \in Frames :
           /\ f # T /\ T # SharedTable
           /\ T \in free => entry[Directory][DirIndex(a)] = Absent
           /\ free' = free \ {f, T}
           /\ entry'[Directory] = [entry[Directory] EXCEPT ![DirIndex(a)] = T]
           /\ entry'[SharedTable] = entry[SharedTable]
           /\ T \notin free => entry[Directory][DirIndex(a)] = T
           /\ \A g \in free' : entry'[g] = entry[g]
           /\ \A p \in UserPages :
                FrameOf(p)' = IF p = <<DirIndex(a), TabIndex(a)>> THEN f ELSE FrameOf(p)
<1> DEFINE d == DirIndex(a)
           i == TabIndex(a)
<1>0. /\ d \in UserDirs /\ i \in Index /\ d \in Index
      /\ entry \in [AllFrames -> [Index -> AllFrames \cup {Absent}]]
      /\ free \subseteq Frames /\ Structure
  BY TabIndexType, Constants DEF UserAddresses, IInv, TypeVM
<1>1. CASE entry[Directory][d] # Absent
  <2> DEFINE f == get_frames(free)
             T == entry[Directory][d]
  <2>1. free' = free \ {f} /\ entry' = [entry EXCEPT ![T][i] = f] /\ f \in free
    BY <1>1, FaultInTable
  <2>2. T \in Frames \ (free \cup {SharedTable})
    BY <1>0, <1>1 DEF Structure
  <2>3. entry'[Directory] = entry[Directory] /\ entry'[SharedTable] = entry[SharedTable]
    BY <1>0, <2>1, <2>2, Constants
  <2>4. \A g \in free' : entry'[g] = entry[g]
    BY <1>0, <2>1, <2>2, Constants
  <2>5. ASSUME NEW p \in UserPages
        PROVE  FrameOf(p)' = IF p = <<d, i>> THEN f ELSE FrameOf(p)
    <3>1. PICK pd \in UserDirs, pi \in Index : p = <<pd, pi>>
      BY DEF UserPages
    <3>2. FrameOf(p)' = IF entry[Directory][pd] = Absent THEN Absent
                        ELSE entry'[entry[Directory][pd]][pi]
      BY <2>3, <3>1 DEF FrameOf, Translate
    <3>3. FrameOf(p) = IF entry[Directory][pd] = Absent THEN Absent
                       ELSE entry[entry[Directory][pd]][pi]
      BY <3>1 DEF FrameOf, Translate
    <3>4. CASE pd = d
      <4>1. entry'[T] = [entry[T] EXCEPT ![i] = f] /\ entry[T] \in [Index -> AllFrames \cup {Absent}]
        BY <1>0, <2>1, <2>2, Constants
      <4>2. entry'[T][pi] = IF pi = i THEN f ELSE entry[T][pi]
        BY <4>1
      <4> QED
        BY <3>1, <3>2, <3>3, <3>4, <4>2, <1>1
    <3>5. CASE pd # d
      <4>1. entry[Directory][pd] # Absent => entry[Directory][pd] # T
        BY <1>0, <1>1, <3>5 DEF Structure
      <4>2. entry[Directory][pd] # Absent => entry[Directory][pd] \in AllFrames
        BY <1>0, Constants DEF Structure
      <4> QED
        BY <1>0, <2>1, <3>1, <3>2, <3>3, <3>5, <4>1, <4>2
    <3> QED
      BY <3>4, <3>5
  <2>6. entry'[Directory] = [entry[Directory] EXCEPT ![d] = T]
    BY <1>0, <2>3, Constants
  <2> QED
    BY <2>1, <2>2, <2>3, <2>4, <2>5, <2>6
<1>2. CASE entry[Directory][d] = Absent
  <2> DEFINE t == get_frames(free)
             f == get_frames(free \ {t})
             withTable == [entry EXCEPT ![Directory][d] = t]
  <2>1. /\ free' = free \ {t, f} /\ entry' = [withTable EXCEPT ![t][i] = f]
        /\ t \in free /\ f \in free \ {t}
    BY <1>2, FaultNewTable
  <2>2. t \in Frames \ {SharedTable} /\ t # Directory
    BY <1>0, <2>1, Constants DEF Structure
  <2>3. /\ withTable \in [AllFrames -> [Index -> AllFrames \cup {Absent}]]
        /\ withTable[Directory] = [entry[Directory] EXCEPT ![d] = t]
        /\ \A g \in AllFrames \ {Directory} : withTable[g] = entry[g]
    BY <1>0, <2>2, Constants
  <2>4. /\ entry'[t] = [entry[t] EXCEPT ![i] = f]
        /\ entry'[Directory] = [entry[Directory] EXCEPT ![d] = t]
        /\ \A g \in AllFrames \ {Directory, t} : entry'[g] = entry[g]
    BY <2>1, <2>2, <2>3, Constants
  <2>5. ASSUME NEW p \in UserPages
        PROVE  FrameOf(p)' = IF p = <<d, i>> THEN f ELSE FrameOf(p)
    <3>1. PICK pd \in UserDirs, pi \in Index : p = <<pd, pi>>
      BY DEF UserPages
    <3>2. entry'[Directory][pd] = IF pd = d THEN t ELSE entry[Directory][pd]
      BY <1>0, <2>4, Constants
    <3>3. FrameOf(p)' = IF entry'[Directory][pd] = Absent THEN Absent
                        ELSE entry'[entry'[Directory][pd]][pi]
      BY <3>1 DEF FrameOf, Translate
    <3>4. FrameOf(p) = IF entry[Directory][pd] = Absent THEN Absent
                       ELSE entry[entry[Directory][pd]][pi]
      BY <3>1 DEF FrameOf, Translate
    <3>5. CASE pd = d
      <4>1. t # Absent
        BY <2>2, Constants
      <4>2. FrameOf(p)' = entry'[t][pi]
        BY <3>2, <3>3, <3>5, <4>1
      <4>3. entry[t] \in [Index -> AllFrames \cup {Absent}] /\ entry[t][pi] = Absent
        BY <1>0, <2>1, <2>2, Constants DEF Structure
      <4>4. entry'[t][pi] = IF pi = i THEN f ELSE Absent
        BY <2>4, <4>3
      <4>5. FrameOf(p) = Absent
        BY <1>2, <3>4, <3>5
      <4> QED
        BY <3>1, <3>5, <4>2, <4>4, <4>5
    <3>6. CASE pd # d
      <4>1. entry[Directory][pd] # Absent =>
              entry[Directory][pd] \in AllFrames \ {Directory, t}
        BY <1>0, <2>1, Constants DEF Structure
      <4> QED
        BY <2>4, <3>1, <3>2, <3>3, <3>4, <3>6, <4>1
    <3> QED
      BY <3>5, <3>6
  <2>6. entry'[SharedTable] = entry[SharedTable]
    BY <2>2, <2>4, Constants
  <2>7. \A g \in free' : entry'[g] = entry[g]
    BY <1>0, <2>1, <2>4, Constants
  <2> QED
    BY <1>2, <2>1, <2>2, <2>4, <2>5, <2>6, <2>7
<1> QED
  BY <1>1, <1>2

LEMMA FaultKeeps ==
  ASSUME IInv, NEW a \in UserAddresses, handle_fault(a)
  PROVE  IInv'
<1>1. TypeVM' /\ (failed => failed') /\ value' = value
  BY FaultKeepsType DEF IInv, handle_fault
<1> SUFFICES ASSUME ~failed' PROVE Structure'
  BY <1>1 DEF IInv
<1> DEFINE d == DirIndex(a)
           i == TabIndex(a)
<1>2. /\ Structure /\ d \in UserDirs /\ i \in Index /\ d # Last /\ d # 0 /\ d \in Index
      /\ entry[Directory] \in [Index -> AllFrames \cup {Absent}] /\ free \subseteq Frames
  BY <1>1, TabIndexType, Constants DEF IInv, UserAddresses, TypeVM
<1>3. PICK f \in free, T \in Frames :
           /\ f # T /\ T # SharedTable
           /\ T \in free => entry[Directory][d] = Absent
           /\ free' = free \ {f, T}
           /\ entry'[Directory] = [entry[Directory] EXCEPT ![d] = T]
           /\ entry'[SharedTable] = entry[SharedTable]
           /\ T \notin free => entry[Directory][d] = T
           /\ \A g \in free' : entry'[g] = entry[g]
           /\ \A p \in UserPages :
                FrameOf(p)' = IF p = <<d, i>> THEN f ELSE FrameOf(p)
  BY <1>1, FaultEffect
<1>4. \A e \in Index : entry'[Directory][e] = IF e = d THEN T ELSE entry[Directory][e]
  BY <1>2, <1>3
<1>5. /\ entry'[Directory][Last] = Directory
      /\ entry'[SharedTable][0] = 0 /\ entry'[Directory][0] = SharedTable
  BY <1>2, <1>3, <1>4, Constants DEF Structure
<1>6. SharedTable \notin free'
  BY <1>2, <1>3 DEF Structure
<1>7. Tables' \subseteq Tables \cup {T}
  BY <1>4, Constants DEF Tables
<1>8. \A e \in UserDirs : entry'[Directory][e] # Absent =>
        entry'[Directory][e] \in Frames \ (free' \cup {SharedTable})
  BY <1>2, <1>3, <1>4, Constants DEF Structure
<1>9. ASSUME NEW e \in UserDirs, e # d, entry[Directory][e] # Absent
      PROVE  entry[Directory][e] # T
  BY <1>2, <1>3, <1>9 DEF Structure
<1>10. \A e, g \in UserDirs :
         entry'[Directory][e] = entry'[Directory][g] /\ entry'[Directory][e] # Absent => e = g
  BY <1>2, <1>4, <1>9, Constants DEF Structure
<1>11. ASSUME NEW p \in UserPages, FrameOf(p) # Absent
       PROVE  FrameOf(p) \in Frames \ (free \cup {SharedTable} \cup Tables) /\ FrameOf(p) # T
  <2>1. FrameOf(p) \in Frames \ (free \cup {SharedTable} \cup Tables)
    BY <1>2, <1>11 DEF Structure, UserPages
  <2>2. T \notin free => T \in Tables
    BY <1>2, <1>3, Constants DEF Tables
  <2> QED
    BY <2>1, <2>2
<1>12. f \notin Tables \cup {SharedTable}
  BY <1>2 DEF Structure, Tables
<1>13. \A p \in UserPages : FrameOf(p)' # Absent =>
         FrameOf(p)' \in Frames \ (free' \cup {SharedTable} \cup Tables')
  BY <1>2, <1>3, <1>7, <1>11, <1>12
<1>14. \A p, q \in UserPages : FrameOf(p)' = FrameOf(q)' /\ FrameOf(p)' # Absent => p = q
  BY <1>2, <1>3, <1>11 DEF Structure
<1>15. \A g \in free' : value'[g] = Zero /\ \A j \in Index : entry'[g][j] = Absent
  BY <1>1, <1>2, <1>3 DEF Structure
<1>16. \A e \in UserDirs, j \in Index : FrameOf(<<e, j>>)' # Absent =>
         FrameOf(<<e, j>>)' \in Frames \ (free' \cup {SharedTable} \cup Tables')
  BY <1>13 DEF UserPages
<1> QED
  BY <1>5, <1>6, <1>8, <1>10, <1>14, <1>15, <1>16 DEF Structure

-----------------------------------------------------------------------------
(* The virtual memory pools change the page table through these three      *)
(* operations only, with page numbers that are numbers.                    *)

Region == [ba : Nat, len : Nat]

TypePools ==
    /\ reg \in [Pools -> [Slots -> Region]]
    /\ c \in [Pools -> 0 .. MaxRegions]
    /\ built \in [Pools -> {"no", "registered", "yes"}]
    /\ \A p \in Pools : built[p] = "yes" => c[p] > 0

LEMMA WordSize == WORD \in Nat /\ WORD > 0
<1>1. \A x, y \in Nat : x > 0 /\ y > 0 => x * y \in Nat /\ x * y > 0
  OBVIOUS
<1>2. ENTRIES * ENTRIES \in Nat /\ ENTRIES * ENTRIES > 0
  BY <1>1, Sizes
<1> QED
  BY <1>1, <1>2, Sizes DEF WORD

LEMMA WrappedType == ASSUME NEW x \in Nat PROVE Wrapped(x) \in Nat
BY WordSize DEF Wrapped

LEMMA PagesType == ASSUME NEW r \in Region PROVE PagesOf(r) \subseteq Nat
<1>1. \A n \in Nat : n * PAGE_SIZE \in Nat
  BY Sizes
<1>2. r.ba \in Nat /\ r.len \div PAGE_SIZE \in Nat
  BY Sizes DEF Region
<1>3. \A n \in 0 .. r.len \div PAGE_SIZE - 1 : Wrapped(r.ba + n * PAGE_SIZE) \in Nat
  BY <1>1, <1>2, WrappedType
<1> QED
  BY <1>3 DEF PagesOf

LEMMA LengthType == ASSUME NEW size \in Nat PROVE NumberOfPages(size) * PAGE_SIZE \in Nat
<1>1. NumberOfPages(size) \in Nat
  BY Sizes DEF NumberOfPages
<1> QED
  BY <1>1, Sizes

LEMMA InitPools == ASSUME Init PROVE TypePools
BY PoolAssumption DEF Init, TypePools, Region

LEMMA AllocateType ==
  ASSUME TypePools, NEW p \in Pools, NEW size \in Requests, allocate(p, size)
  PROVE  TypePools'
<1> DEFINE len == NumberOfPages(size) * PAGE_SIZE
           last == reg[p][c[p] - 1]
<1>1. c[p] \in 1 .. MaxRegions - 1 /\ MaxRegions \in Nat
  BY PoolAssumption DEF TypePools, allocate
<1>2. last \in Region
  BY <1>1 DEF TypePools, Slots
<1>3. [ba |-> Wrapped(last.ba + last.len), len |-> len] \in Region
  BY <1>2, LengthType, WrappedType, PoolAssumption DEF Region
<1>4. reg' = [reg EXCEPT ![p][c[p]] = [ba |-> Wrapped(last.ba + last.len), len |-> len]]
  BY DEF allocate
<1>5. reg' \in [Pools -> [Slots -> Region]]
  BY <1>3, <1>4 DEF TypePools
<1>6. c' = [c EXCEPT ![p] = c[p] + 1] /\ built' = built
  BY DEF allocate
<1> QED
  BY <1>1, <1>5, <1>6 DEF TypePools

LEMMA ReleaseType ==
  ASSUME TypePools, NEW p \in Pools, NEW h \in held[p], release(p, h)
  PROVE  /\ TypePools'
         /\ \E r \in Slots : reg[p][r] \in Region /\ free_pages(PagesOf(reg[p][r]))
<1>1. PICK r \in Slots : /\ EntryAt(p, h.ba, r)
                         /\ free_pages(PagesOf(reg[p][r]))
                         /\ reg' = [reg EXCEPT ![p] = Shifted(p, r)]
                         /\ c' = [c EXCEPT ![p] = c[p] - 1]
  BY DEF release
<1>2. r \in 1 .. c[p] - 1 /\ c[p] \in 0 .. MaxRegions /\ MaxRegions \in Nat /\ built' = built
  BY <1>1, PoolAssumption DEF TypePools, EntryAt, release
<1>3. Shifted(p, r) \in [Slots -> Region]
  <2>1. \A x \in r .. c[p] - 1 : x + 1 \in Slots
    BY <1>2 DEF Slots
  <2> QED
    BY <2>1 DEF Shifted, TypePools
<1>4. reg' \in [Pools -> [Slots -> Region]]
  BY <1>1, <1>3 DEF TypePools
<1>5. c' \in [Pools -> 0 .. MaxRegions] /\ c'[p] > 0 /\ \A q \in Pools \ {p} : c'[q] = c[q]
  BY <1>1, <1>2 DEF TypePools
<1> QED
  BY <1>1, <1>2, <1>4, <1>5 DEF TypePools

LEMMA ConstructType ==
  ASSUME TypePools, NEW p \in Pools, Construct(p)
  PROVE  TypePools'
<1> DEFINE region == [ba |-> Base[p], len |-> PAGE_SIZE]
<1>1. region \in Region /\ 0 \in Slots
  BY PoolAssumption, Sizes DEF Slots, Region
<1>2. reg' = [reg EXCEPT ![p][0] = region]
  BY DEF Construct
<1> HIDE DEF region
<1>3. reg' \in [Pools -> [Slots -> Region]]
  BY <1>1, <1>2 DEF TypePools
<1>4. c' = [c EXCEPT ![p] = 1] /\ built' = [built EXCEPT ![p] = "yes"]
  BY DEF Construct
<1>5. c' \in [Pools -> 0 .. MaxRegions] /\ built' \in [Pools -> {"no", "registered", "yes"}]
  BY <1>4, PoolAssumption DEF TypePools
<1>6. ASSUME NEW q \in Pools, built'[q] = "yes" PROVE c'[q] > 0
  BY <1>4, <1>6 DEF TypePools
<1> QED
  BY <1>3, <1>5, <1>6 DEF TypePools

\* Every step of the pools is a step of the page table or none.
LEMMA PoolStep ==
  ASSUME TypePools, [Next]_vars
  PROVE  TypePools' /\ [NextVM]_vmvars
<1>1. ASSUME NEW n \in 1 .. Len(PoolOrder), register_pool(n)
      PROVE  TypePools' /\ UNCHANGED vmvars
  BY <1>1 DEF register_pool, TypePools
<1>2. ASSUME NEW p \in Pools, Construct(p)
      PROVE  TypePools' /\ UNCHANGED vmvars
  BY <1>2, ConstructType DEF Construct
<1>3. ASSUME NEW p \in Pools, NEW size \in Requests, allocate(p, size)
      PROVE  TypePools' /\ UNCHANGED vmvars
  BY <1>3, AllocateType DEF allocate
<1>4. ASSUME NEW p \in Pools, NEW size \in Requests, allocate_fails(p, size)
      PROVE  TypePools' /\ UNCHANGED vmvars
  BY <1>4 DEF allocate_fails, TypePools
<1>5. ASSUME NEW p \in Pools, NEW h \in held[p], release(p, h)
      PROVE  TypePools' /\ NextVM
  <2>1. PICK r \in Slots : reg[p][r] \in Region /\ free_pages(PagesOf(reg[p][r]))
    BY <1>5, ReleaseType
  <2>2. PagesOf(reg[p][r]) \in SUBSET Nat
    BY <2>1, PagesType
  <2> QED
    BY <1>5, <2>1, <2>2, ReleaseType DEF NextVM
<1>6. ASSUME NEW a \in Touched, PageFault(a)
      PROVE  TypePools' /\ NextVM
  BY <1>6 DEF PageFault, Touched, TypePools, NextVM
<1>7. ASSUME NEW a \in Touched, NEW v \in Values, Write(a, v)
      PROVE  TypePools' /\ NextVM
  BY <1>7 DEF Write, Touched, TypePools, NextVM, poolvars
<1>8. CASE UNCHANGED vars
  BY <1>8 DEF vars, poolvars, TypePools
<1> QED
  BY <1>1, <1>2, <1>3, <1>4, <1>5, <1>6, <1>7, <1>8 DEF Next

-----------------------------------------------------------------------------
LEMMA StepKeeps ==
  ASSUME IInv, [NextVM]_vmvars
  PROVE  IInv'
<1>1. ASSUME NEW a \in UserAddresses, handle_fault(a) PROVE IInv'
  BY <1>1, FaultKeeps
<1>2. ASSUME NEW a \in UserAddresses, NEW v \in Values, Store(a, v) PROVE IInv'
  BY <1>2, StoreKeeps
<1>3. ASSUME NEW pages \in SUBSET Nat, free_pages(pages) PROVE IInv'
  BY <1>3, FreeKeeps
<1>4. CASE UNCHANGED vmvars
  BY <1>4 DEF vmvars, IInv, TypeVM, Structure, Tables, FrameOf, Translate
<1> QED
  BY <1>1, <1>2, <1>3, <1>4 DEF NextVM

LEMMA SharingFree == ASSUME IInv PROVE NoSharing
<1> SUFFICES ASSUME ~failed
             PROVE  /\ \A p, q \in MappedPages : FrameOf(p) = FrameOf(q) => p = q
                    /\ \A d, e \in UserDirs :
                         entry[Directory][d] = entry[Directory][e]
                           /\ entry[Directory][d] # Absent => d = e
                    /\ \A p \in MappedPages :
                         FrameOf(p) \notin Tables \cup free \cup {Directory, SharedTable}
  BY DEF NoSharing
<1>1. Structure
  BY DEF IInv
<1>2. \A p \in MappedPages : FrameOf(p) \in Frames \ (free \cup {SharedTable} \cup Tables)
  BY <1>1 DEF Structure, MappedPages, UserPages
<1> QED
  BY <1>1, <1>2, Constants DEF Structure, MappedPages

\* The invariant of the page table and the pools together.
LEMMA Invariant == ASSUME Stale = {} PROVE Spec => [](TypePools /\ IInv)
<1>1. Init => TypePools /\ IInv
  BY InitPools, InitIInv DEF Init
<1>2. TypePools /\ IInv /\ [Next]_vars => (TypePools /\ IInv)'
  BY PoolStep, StepKeeps
<1> QED
  BY <1>1, <1>2, PTL DEF Spec

\* For every number of entries, every set of frames and every program: until
\* the pool of frames is exhausted, no two pages share a frame and no page is
\* mapped to a table or to a free frame (handle_fault and free_page).
THEOREM PagesApart == ASSUME Stale = {} PROVE Spec => []NoSharing
BY Invariant, SharingFree, PTL

-----------------------------------------------------------------------------
(* Demand paging is invisible.                                             *)

\* A fault maps its page to a frame that holds zero.
LEMMA FaultInvisible ==
  ASSUME IInv, ~failed, ~failed', NEW a \in UserAddresses, handle_fault(a)
  PROVE  Content' = Content
<1> DEFINE p0 == <<DirIndex(a), TabIndex(a)>>
<1>1. PICK f \in free :
        \A p \in UserPages : FrameOf(p)' = IF p = p0 THEN f ELSE FrameOf(p)
  BY FaultEffect
<1>2. value[f] = Zero /\ f # Absent /\ value' = value
  BY Constants DEF IInv, Structure, handle_fault, TypeVM
<1>3. FrameOf(p0) = Absent
  BY DEF handle_fault, FrameOf
<1>4. \A p \in UserPages : DataOf(p)' = DataOf(p)
  BY <1>1, <1>2, <1>3 DEF DataOf
<1> QED
  BY <1>4 DEF Content

LEMMA StoreVisible ==
  ASSUME IInv, ~failed, NEW a \in UserAddresses, NEW v \in Values, Store(a, v)
  PROVE  Own!Next
<1> DEFINE p0 == <<DirIndex(a), TabIndex(a)>>
<1>1. p0 \in UserPages /\ FrameOf(p0) # Absent
  BY TabIndexType DEF UserAddresses, UserPages, FrameOf, Store
<1>2. value' = [value EXCEPT ![FrameOf(p0)] = v]
  BY DEF Store, FrameOf
<1>3. \A q : FrameOf(q)' = FrameOf(q)
  BY DEF Store, FrameOf, Translate
<1>4. FrameOf(p0) \in AllFrames
  BY <1>1, Constants DEF IInv, Structure, UserPages
<1>5. DataOf(p0)' = v
  BY <1>1, <1>2, <1>3, <1>4 DEF DataOf, IInv, TypeVM
<1>6. \A q \in UserPages \ {p0} : DataOf(q)' = DataOf(q)
  <2> TAKE q \in UserPages \ {p0}
  <2>1. FrameOf(q) # FrameOf(p0)
    BY <1>1 DEF IInv, Structure
  <2>2. FrameOf(q) # Absent => FrameOf(q) \in AllFrames
    BY Constants DEF IInv, Structure, UserPages
  <2> QED
    BY <1>2, <1>3, <2>1, <2>2 DEF DataOf, IInv, TypeVM
<1>7. Content'[p0] \in Values /\ \A q \in UserPages \ {p0} : Content'[q] = Content[q]
  BY <1>1, <1>5, <1>6 DEF Content
<1> QED
  BY <1>1, <1>7 DEF Own!Next, Own!Store

LEMMA StepVisible ==
  ASSUME IInv, [NextVM]_vmvars
  PROVE  [failed' \/ Own!Next]_Content
<1> SUFFICES ASSUME ~failed' PROVE Own!Next \/ Content' = Content
  OBVIOUS
<1>1. ASSUME NEW a \in UserAddresses, handle_fault(a) PROVE Content' = Content
  BY <1>1, FaultInvisible DEF handle_fault
<1>2. ASSUME NEW a \in UserAddresses, NEW v \in Values, Store(a, v) PROVE Own!Next
  BY <1>2, StoreVisible DEF Store
<1>3. ASSUME UNCHANGED <<entry, value>> PROVE Content' = Content
  BY <1>3 DEF Content, DataOf, FrameOf, Translate
<1>4. ASSUME NEW pages \in SUBSET Nat, free_pages(pages) PROVE Content' = Content
  BY <1>3, <1>4 DEF free_pages
<1> QED
  BY <1>1, <1>2, <1>3, <1>4 DEF NextVM, vmvars

\* Every step shows the program at most the one page it writes: faults and
\* releases are invisible, as the check of foo[i] in kernel.C expects.
THEOREM PagingInvisible == ASSUME Stale = {} PROVE Spec => PagesKeepData
<1>1. IInv /\ TypePools /\ [Next]_vars => [failed' \/ Own!Next]_Content
  BY PoolStep, StepVisible
<1> QED
  BY <1>1, Invariant, PTL DEF Spec, PagesKeepData

-----------------------------------------------------------------------------
(* The regions of a pool                                                    *)

\* Of the entries R the first n are in use: none empty, one behind the other
\* from lo on, none beyond end.
Packed(R, n, lo, end) ==
    /\ \A x \in 0 .. n - 1 : lo <= R[x].ba /\ R[x].len > 0 /\ R[x].ba + R[x].len <= end
    /\ \A x, y \in 0 .. n - 1 : x < y => R[x].ba + R[x].len <= R[y].ba

\* The first n entries of R without the very first, the page of the array.
BehindFirst(R, n) == { R[x] : x \in 1 .. n - 1 }

PoolInv(p) ==
    /\ used[p] \in Nat /\ used[p] <= Budget[p]
    /\ built[p] # "yes" => held[p] = {} /\ used[p] = 0
    /\ built[p] = "yes" =>
         /\ reg[p][0] = ArrayPage(p)
         /\ Packed(reg[p], c[p], Base[p], Base[p] + PAGE_SIZE + used[p])
         /\ held[p] = BehindFirst(reg[p], c[p])

RegionInv ==
    /\ TypePools
    /\ DOMAIN used = Pools /\ DOMAIN held = Pools
    /\ \A p \in Pools : PoolInv(p)

LEMMA LengthPositive ==
  ASSUME NEW size \in Nat \ {0}
  PROVE  NumberOfPages(size) * PAGE_SIZE \in Nat \ {0}
<1>1. PAGE_SIZE \in Nat /\ PAGE_SIZE > 0
  BY Sizes
<1> DEFINE q == size \div PAGE_SIZE
           o == size % PAGE_SIZE
<1>2. q \in Nat /\ o \in Nat /\ size = PAGE_SIZE * q + o
  <2>1. q \in Nat
    BY <1>1, SMT
  <2>2. o \in Nat
    BY <1>1, SMT
  <2>3. size = PAGE_SIZE * q + o
    BY <1>1, SMT
  <2> QED
    BY <2>1, <2>2, <2>3
<1>3. NumberOfPages(size) = q + (IF o > 0 THEN 1 ELSE 0)
  BY DEF NumberOfPages
<1> HIDE DEF q, o
<1>4. NumberOfPages(size) \in Nat /\ NumberOfPages(size) > 0
  <2>1. CASE o > 0
    BY <1>2, <1>3, <2>1
  <2>2. CASE ~(o > 0)
    <3>1. q # 0
      BY <1>1, <1>2, <2>2
    <3> QED
      BY <1>2, <1>3, <2>2, <3>1
  <2> QED
    BY <2>1, <2>2
<1>5. \A x, y \in Nat : x > 0 /\ y > 0 => x * y \in Nat /\ x * y > 0
  OBVIOUS
<1> QED
  BY <1>1, <1>4, <1>5

\* The entries in use are numbers and start at different addresses.
LEMMA PackedEntries ==
  ASSUME NEW R \in [Slots -> Region], NEW n \in 1 .. MaxRegions,
         NEW lo \in Nat, NEW end \in Nat, Packed(R, n, lo, end)
  PROVE  /\ \A x \in 0 .. n - 1 : x \in Slots /\ R[x].ba \in Nat /\ R[x].len \in Nat
         /\ \A x, y \in 0 .. n - 1 : R[x].ba = R[y].ba => x = y
<1>1. n \in Nat /\ n >= 1 /\ MaxRegions \in Nat /\ n <= MaxRegions
  BY PoolAssumption
<1>2. \A x \in 0 .. n - 1 : x \in Slots /\ R[x].ba \in Nat /\ R[x].len \in Nat
  BY <1>1 DEF Slots, Region
<1>3. ASSUME NEW x \in 0 .. n - 1, NEW y \in 0 .. n - 1, x < y
      PROVE  R[x].ba # R[y].ba
  <2>1. R[x].ba + R[x].len <= R[y].ba /\ R[x].len > 0
    BY <1>3 DEF Packed
  <2> QED
    BY <1>2, <2>1
<1>4. \A x, y \in 0 .. n - 1 : x = y \/ x < y \/ y < x
  BY <1>1
<1> QED
  BY <1>2, <1>3, <1>4

\* allocate takes the next entry, behind the last region, and does not wrap.
LEMMA PackedAppend ==
  ASSUME NEW R \in [Slots -> Region], NEW n \in 1 .. MaxRegions - 1,
         NEW lo \in Nat, NEW end \in Nat, NEW len \in Nat \ {0},
         end + len <= WORD, Packed(R, n, lo, end),
         NEW b, b = Wrapped(R[n - 1].ba + R[n - 1].len),
         NEW S, S = [R EXCEPT ![n] = [ba |-> b, len |-> len]]
  PROVE  Packed(S, n + 1, lo, end + len)
<1> DEFINE last == R[n - 1]
<1>1. n \in Nat /\ n \in Slots /\ n - 1 \in 0 .. n - 1 /\ MaxRegions \in Nat /\ n < MaxRegions
      /\ n >= 1 /\ n \in 1 .. MaxRegions
  BY PoolAssumption DEF Slots
<1>2. \A x \in 0 .. n - 1 : x \in Slots /\ x # n /\ R[x].ba \in Nat /\ R[x].len \in Nat
  BY <1>1, PackedEntries
<1>3. last.ba \in Nat /\ last.len \in Nat /\ last.ba + last.len <= end /\ lo <= last.ba
  BY <1>1, <1>2 DEF Packed
<1>4. b = last.ba + last.len
  <2>1. last.ba + last.len \in Nat /\ last.ba + last.len < WORD
    BY <1>3, WordSize
  <2> QED
    BY <2>1, WordSize DEF Wrapped
<1>5. /\ S[n].ba = b /\ S[n].len = len
      /\ \A x \in Slots : x # n => S[x] = R[x]
  BY <1>1
<1>6. \A x \in 0 .. n - 1 : R[x].ba + R[x].len <= last.ba + last.len
  <2> SUFFICES ASSUME NEW x \in 0 .. n - 1
               PROVE  R[x].ba + R[x].len <= last.ba + last.len
    OBVIOUS
  <2>1. CASE x = n - 1
    BY <1>3, <2>1
  <2>2. CASE x < n - 1
    <3>1. R[x].ba + R[x].len <= R[n - 1].ba
      BY <1>1, <2>2 DEF Packed
    <3> QED
      BY <1>2, <1>3, <3>1
  <2> QED
    BY <1>1, <2>1, <2>2
<1> HIDE DEF last
<1>7. ASSUME NEW x \in 0 .. n
      PROVE  lo <= S[x].ba /\ S[x].len > 0 /\ S[x].ba + S[x].len <= end + len
  <2>1. CASE x = n
    BY <1>3, <1>4, <1>5, <2>1
  <2>2. CASE x # n
    <3>1. x \in 0 .. n - 1
      BY <1>1, <2>2
    <3>2. S[x] = R[x] /\ lo <= R[x].ba /\ R[x].len > 0 /\ R[x].ba + R[x].len <= end
      BY <1>2, <1>5, <3>1 DEF Packed
    <3> QED
      BY <1>2, <3>1, <3>2
  <2> QED
    BY <2>1, <2>2
<1>8. ASSUME NEW x \in 0 .. n, NEW y \in 0 .. n, x < y
      PROVE  S[x].ba + S[x].len <= S[y].ba
  <2>1. x \in 0 .. n - 1
    BY <1>1, <1>8
  <2>2. S[x] = R[x]
    BY <1>2, <1>5, <2>1
  <2>3. CASE y = n
    BY <1>4, <1>5, <1>6, <2>1, <2>2, <2>3
  <2>4. CASE y # n
    <3>1. y \in 0 .. n - 1
      BY <1>1, <2>4
    <3>2. S[y] = R[y]
      BY <1>2, <1>5, <3>1
    <3> QED
      BY <1>8, <2>1, <2>2, <3>1, <3>2 DEF Packed
  <2> QED
    BY <2>3, <2>4
<1>9. (n + 1) - 1 = n
  BY <1>1
<1> QED
  BY <1>7, <1>8, <1>9 DEF Packed

\* release closes the gap by moving the entries behind entry r, in order.
LEMMA PackedShift ==
  ASSUME NEW R \in [Slots -> Region], NEW n \in 1 .. MaxRegions, NEW r \in 1 .. n - 1,
         NEW lo \in Nat, NEW end \in Nat, Packed(R, n, lo, end),
         NEW S, \A x \in Slots : S[x] = IF x \in r .. n - 1 THEN R[x + 1] ELSE R[x]
  PROVE  /\ S[0] = R[0]
         /\ Packed(S, n - 1, lo, end)
         /\ BehindFirst(S, n - 1) = BehindFirst(R, n) \ {R[r]}
<1> DEFINE from(x) == IF x < r THEN x ELSE x + 1
<1>1. n \in Nat /\ r \in Nat /\ 1 <= r /\ r < n /\ MaxRegions \in Nat /\ n <= MaxRegions
  BY PoolAssumption
<1>2. ASSUME NEW x \in 0 .. (n - 1) - 1
      PROVE  S[x] = R[from(x)] /\ from(x) \in 0 .. n - 1 /\ from(x) # r
  <2>1. x \in Slots
    BY <1>1 DEF Slots
  <2>2. x \in r .. n - 1 <=> ~(x < r)
    BY <1>1
  <2>3. S[x] = R[from(x)]
    BY <2>1, <2>2
  <2> QED
    BY <1>1, <2>3
<1>3. \A x, y \in 0 .. (n - 1) - 1 : x < y => from(x) < from(y)
  BY <1>1
<1>4. ASSUME NEW y \in 0 .. n - 1, y # r
      PROVE  \E x \in 0 .. (n - 1) - 1 : y = from(x) /\ (y # 0 => x # 0)
  <2>1. CASE y < r
    <3>1. y \in 0 .. (n - 1) - 1
      BY <1>1, <2>1
    <3> QED
      BY <2>1, <3>1
  <2>2. CASE ~(y < r)
    <3>1. y - 1 \in 0 .. (n - 1) - 1 /\ ~(y - 1 < r) /\ (y - 1) + 1 = y /\ y - 1 # 0
      BY <1>1, <1>4, <2>2
    <3> QED
      BY <3>1
  <2> QED
    BY <2>1, <2>2
<1>5. from(0) = 0 /\ 0 \in 0 .. (n - 1) - 1
  BY <1>1
<1>6. \A x \in 1 .. (n - 1) - 1 : x \in 0 .. (n - 1) - 1 /\ from(x) \in 1 .. n - 1
  BY <1>1
<1>7. \A x \in 0 .. n - 1 : R[x] = R[r] => x = r
  BY <1>1, PackedEntries
<1> HIDE DEF from
<1>8. Packed(S, n - 1, lo, end)
  BY <1>2, <1>3 DEF Packed
<1>9. ASSUME NEW x \in 1 .. (n - 1) - 1
      PROVE  S[x] \in { R[y] : y \in 1 .. n - 1 } \ {R[r]}
  <2>1. S[x] = R[from(x)] /\ from(x) \in 1 .. n - 1 /\ from(x) \in 0 .. n - 1 /\ from(x) # r
    BY <1>2, <1>6
  <2> QED
    BY <1>7, <2>1
<1>10. ASSUME NEW y \in 1 .. n - 1, R[y] # R[r]
       PROVE  R[y] \in { S[x] : x \in 1 .. (n - 1) - 1 }
  <2>1. y \in 0 .. n - 1 /\ y # 0 /\ y # r
    BY <1>1, <1>10
  <2>2. PICK x \in 0 .. (n - 1) - 1 : y = from(x) /\ x # 0
    BY <1>4, <2>1
  <2>3. x \in 1 .. (n - 1) - 1
    BY <1>1, <2>2
  <2> QED
    BY <1>2, <2>2, <2>3
<1>11. S[0] = R[0]
  BY <1>2, <1>5
<1>12. { S[x] : x \in 1 .. (n - 1) - 1 } = { R[x] : x \in 1 .. n - 1 } \ {R[r]}
  <2>1. { S[x] : x \in 1 .. (n - 1) - 1 } \subseteq { R[x] : x \in 1 .. n - 1 } \ {R[r]}
    BY <1>9
  <2>2. { R[x] : x \in 1 .. n - 1 } \ {R[r]} \subseteq { S[x] : x \in 1 .. (n - 1) - 1 }
    BY <1>10
  <2> QED
    BY <2>1, <2>2
<1>13. BehindFirst(S, n - 1) = BehindFirst(R, n) \ {R[r]}
  BY <1>12 DEF BehindFirst
<1> QED
  BY <1>8, <1>11, <1>13

\* What a packed array promises.
LEMMA PackedSound ==
  ASSUME NEW R \in [Slots -> Region], NEW n \in 1 .. MaxRegions,
         NEW lo \in Nat, NEW end \in Nat, Packed(R, n, lo, end)
  PROVE  /\ \A x, y \in 0 .. n - 1 : x # y => Extent(R[x]) \cap Extent(R[y]) = {}
         /\ \A x \in 0 .. n - 1 : Extent(R[x]) \subseteq lo .. end - 1
<1>1. n \in Nat /\ \A x \in 0 .. n - 1 : R[x].ba \in Nat /\ R[x].len \in Nat
  BY PackedEntries, PoolAssumption
<1>2. ASSUME NEW x \in 0 .. n - 1, NEW y \in 0 .. n - 1, x < y
      PROVE  Extent(R[x]) \cap Extent(R[y]) = {}
  <2>1. R[x].ba + R[x].len <= R[y].ba
    BY <1>2 DEF Packed
  <2> QED
    BY <1>1, <2>1 DEF Extent
<1>3. ASSUME NEW x \in 0 .. n - 1
      PROVE  Extent(R[x]) \subseteq lo .. end - 1
  <2>1. lo <= R[x].ba /\ R[x].ba + R[x].len <= end
    BY DEF Packed
  <2> QED
    BY <1>1, <2>1 DEF Extent
<1>4. \A x, y \in 0 .. n - 1 : x # y => x < y \/ y < x
  BY <1>1
<1> QED
  BY <1>2, <1>3, <1>4

LEMMA InitRegions == ASSUME Init PROVE RegionInv
<1>1. TypePools /\ used = [p \in Pools |-> 0] /\ held = [p \in Pools |-> {}]
      /\ built = [p \in Pools |-> "no"]
  BY InitPools DEF Init
<1>2. ASSUME NEW p \in Pools
      PROVE  PoolInv(p)
  <2>1. used[p] = 0 /\ held[p] = {} /\ built[p] = "no" /\ Budget[p] \in Nat
    BY <1>1, PoolAssumption
  <2> QED
    BY <2>1 DEF PoolInv
<1> QED
  BY <1>1, <1>2 DEF RegionInv

\* The pools a step does not touch.
LEMMA OtherPools ==
  ASSUME RegionInv, NEW q \in Pools, built'[q] = built[q], reg'[q] = reg[q], c'[q] = c[q],
         held'[q] = held[q], used'[q] = used[q]
  PROVE  PoolInv(q)'
BY DEF RegionInv, PoolInv, ArrayPage

LEMMA ConstructRegions ==
  ASSUME RegionInv, TypePools', NEW p \in Pools, Construct(p)
  PROVE  RegionInv'
<1> DEFINE S == [reg[p] EXCEPT ![0] = ArrayPage(p)]
<1>1. /\ built[p] = "registered" /\ built' = [built EXCEPT ![p] = "yes"]
      /\ reg' = [reg EXCEPT ![p] = S]
      /\ c' = [c EXCEPT ![p] = 1] /\ held' = held /\ used' = used
  BY DEF Construct, ArrayPage
<1>2. held[p] = {} /\ used[p] = 0 /\ 0 <= Budget[p] /\ Base[p] \in Nat
  BY <1>1, PoolAssumption DEF RegionInv, PoolInv
<1>3. reg[p] \in [Slots -> Region] /\ 0 \in Slots /\ PAGE_SIZE \in Nat /\ PAGE_SIZE > 0
  BY PoolAssumption, Sizes DEF RegionInv, TypePools, Slots
<1>4. S[0] = ArrayPage(p)
  BY <1>3
<1>5. built'[p] = "yes" /\ reg'[p] = S /\ c'[p] = 1 /\ held'[p] = {} /\ used'[p] = 0
  BY <1>1, <1>2 DEF RegionInv, TypePools
<1> HIDE DEF S
<1>6. Packed(S, 1, Base[p], Base[p] + PAGE_SIZE + 0)
  <2>1. S[0].ba = Base[p] /\ S[0].len = PAGE_SIZE
    BY <1>4 DEF ArrayPage
  <2>2. \A x \in 0 .. 1 - 1 : x = 0
    OBVIOUS
  <2> QED
    BY <1>2, <1>3, <2>1, <2>2 DEF Packed
<1>7. PoolInv(p)'
  <2>1. { S[x] : x \in 1 .. 1 - 1 } = {}
    OBVIOUS
  <2>2. ArrayPage(p)' = ArrayPage(p)
    BY DEF ArrayPage
  <2> QED
    BY <1>2, <1>4, <1>5, <1>6, <2>1, <2>2 DEF PoolInv, BehindFirst
<1>8. ASSUME NEW q \in Pools, q # p
      PROVE  PoolInv(q)'
  <2>1. built'[q] = built[q] /\ reg'[q] = reg[q] /\ c'[q] = c[q]
    BY <1>1, <1>8 DEF RegionInv, TypePools
  <2> QED
    BY <1>1, <2>1, OtherPools
<1> QED
  BY <1>1, <1>7, <1>8 DEF RegionInv

\* The numbers of a pool in use.
LEMMA InUse ==
  ASSUME RegionInv, NEW p \in Pools, built[p] = "yes"
  PROVE  /\ reg[p] \in [Slots -> Region] /\ c[p] \in 1 .. MaxRegions
         /\ used[p] \in Nat /\ Base[p] \in Nat /\ Size[p] \in Nat /\ Budget[p] \in Nat
         /\ Base[p] + PAGE_SIZE + used[p] \in Nat
         /\ Packed(reg[p], c[p], Base[p], Base[p] + PAGE_SIZE + used[p])
         /\ held[p] = BehindFirst(reg[p], c[p])
         /\ reg[p][0] = ArrayPage(p)
<1>1. /\ reg[p] \in [Slots -> Region] /\ c[p] \in 1 .. MaxRegions
      /\ Base[p] \in Nat /\ Size[p] \in Nat /\ Budget[p] \in Nat
  BY PoolAssumption DEF RegionInv, TypePools
<1>2. PoolInv(p)
  BY DEF RegionInv
<1>3. used[p] \in Nat /\ Base[p] + PAGE_SIZE + used[p] \in Nat
  BY <1>1, <1>2, Sizes DEF PoolInv
<1> QED
  BY <1>1, <1>2, <1>3 DEF PoolInv

LEMMA AllocateRegions ==
  ASSUME ClientFits, RegionInv, TypePools', NEW p \in Pools, NEW size \in Requests,
         allocate(p, size)
  PROVE  RegionInv'
<1> DEFINE len == NumberOfPages(size) * PAGE_SIZE
           n == c[p]
           R == reg[p]
           b == Wrapped(R[n - 1].ba + R[n - 1].len)
           region == [ba |-> b, len |-> len]
           S == [R EXCEPT ![n] = region]
           end == Base[p] + PAGE_SIZE + used[p]
<1>1. /\ built[p] = "yes" /\ n < MaxRegions /\ used[p] + len <= Budget[p] /\ built' = built
      /\ reg' = [reg EXCEPT ![p] = S]
      /\ c' = [c EXCEPT ![p] = n + 1]
      /\ held' = [held EXCEPT ![p] = @ \cup {region}]
      /\ used' = [used EXCEPT ![p] = @ + len]
  BY DEF allocate
<1>2. /\ R \in [Slots -> Region] /\ n \in 1 .. MaxRegions /\ used[p] \in Nat
      /\ Base[p] \in Nat /\ Size[p] \in Nat /\ end \in Nat /\ Budget[p] \in Nat
      /\ Packed(R, n, Base[p], end)
      /\ held[p] = BehindFirst(R, n) /\ R[0] = ArrayPage(p)
  BY <1>1, InUse
<1>3. len \in Nat \ {0}
  BY PoolAssumption, LengthPositive
<1> HIDE DEF len
<1>4. n \in 1 .. MaxRegions - 1 /\ n \in Slots /\ n \in Nat /\ n >= 1 /\ 0 \in Slots
  BY <1>1, <1>2, PoolAssumption DEF Slots
<1>5. end + len <= WORD
  <2>1. PAGE_SIZE + Budget[p] <= Size[p] /\ Base[p] + Size[p] <= WORD
    BY PoolAssumption DEF ClientFits
  <2> QED
    BY <1>1, <1>2, <1>3, <2>1, Sizes, WordSize
<1>6. /\ built'[p] = "yes" /\ reg'[p] = S /\ c'[p] = n + 1
      /\ held'[p] = held[p] \cup {region} /\ used'[p] = used[p] + len
  BY <1>1 DEF RegionInv, TypePools
<1>7. Packed(S, n + 1, Base[p], end + len)
  <2> HIDE DEF R, n, end
  <2> QED
    BY <1>2, <1>3, <1>4, <1>5, PackedAppend
<1>8. end + len = Base[p] + PAGE_SIZE + (used[p] + len) /\ used[p] + len \in Nat
  BY <1>2, <1>3, Sizes
<1>9. S[n] = region /\ S[0] = R[0] /\ \A x \in 1 .. n - 1 : S[x] = R[x]
  BY <1>2, <1>4, PoolAssumption DEF Slots
<1>10. held[p] \cup {region} = BehindFirst(S, n + 1)
  <2>1. \A x : x \in 1 .. (n + 1) - 1 <=> x = n \/ x \in 1 .. n - 1
    BY <1>4
  <2> HIDE DEF S, n, region, R
  <2> QED
    BY <1>2, <1>9, <2>1 DEF BehindFirst
<1>11. PoolInv(p)'
  <2>1. ArrayPage(p)' = ArrayPage(p)
    BY DEF ArrayPage
  <2> HIDE DEF S, n, region, end, R
  <2>2. Packed(reg'[p], c'[p], Base[p], Base[p] + PAGE_SIZE + used'[p])
    BY <1>6, <1>7, <1>8
  <2>3. held'[p] = BehindFirst(reg'[p], c'[p])
    BY <1>6, <1>10
  <2> QED
    BY <1>1, <1>2, <1>6, <1>8, <1>9, <2>1, <2>2, <2>3 DEF PoolInv
<1>12. ASSUME NEW q \in Pools, q # p
       PROVE  PoolInv(q)'
  <2>1. /\ built'[q] = built[q] /\ reg'[q] = reg[q] /\ c'[q] = c[q]
        /\ held'[q] = held[q] /\ used'[q] = used[q]
    BY <1>1, <1>12 DEF RegionInv, TypePools
  <2> QED
    BY <2>1, OtherPools
<1>13. DOMAIN used' = Pools /\ DOMAIN held' = Pools
  BY <1>1 DEF RegionInv
<1> QED
  BY <1>11, <1>12, <1>13 DEF RegionInv

LEMMA ReleaseRegions ==
  ASSUME RegionInv, TypePools', NEW p \in Pools, NEW h \in held[p], release(p, h)
  PROVE  RegionInv'
<1> DEFINE n == c[p]
           R == reg[p]
           end == Base[p] + PAGE_SIZE + used[p]
<1>1. PICK r \in Slots : /\ EntryAt(p, h.ba, r)
                         /\ reg' = [reg EXCEPT ![p] = Shifted(p, r)]
                         /\ c' = [c EXCEPT ![p] = n - 1]
  BY DEF release
<1>2. /\ built[p] = "yes" /\ built' = built /\ used' = used
      /\ held' = [held EXCEPT ![p] = @ \ {h}]
  BY DEF release
<1> DEFINE S == Shifted(p, r)
<1>3. /\ R \in [Slots -> Region] /\ n \in 1 .. MaxRegions /\ used[p] \in Nat
      /\ Base[p] \in Nat /\ end \in Nat /\ Packed(R, n, Base[p], end)
      /\ held[p] = BehindFirst(R, n) /\ R[0] = ArrayPage(p)
  BY <1>2, InUse
<1>4. r \in 1 .. n - 1 /\ R[r].ba = h.ba
  BY <1>1 DEF EntryAt
<1>5. h = R[r]
  <2>1. PICK x \in 1 .. n - 1 : h = R[x]
    BY <1>3 DEF BehindFirst
  <2> HIDE DEF R, n, end
  <2>2. n \in Nat /\ x \in 0 .. n - 1 /\ r \in 0 .. n - 1
    BY <1>3, <1>4, PoolAssumption
  <2>3. x = r
    BY <1>3, <1>4, <2>1, <2>2, PackedEntries
  <2> QED
    BY <2>1, <2>3
<1>6. \A x \in Slots : S[x] = IF x \in r .. n - 1 THEN R[x + 1] ELSE R[x]
  BY DEF Shifted
<1>7. reg'[p] = S /\ c'[p] = n - 1 /\ held'[p] = held[p] \ {h} /\ built'[p] = "yes"
      /\ used'[p] = used[p]
  BY <1>1, <1>2 DEF RegionInv, TypePools
<1> HIDE DEF S
<1>8. /\ S[0] = R[0]
      /\ Packed(S, n - 1, Base[p], end)
      /\ BehindFirst(S, n - 1) = BehindFirst(R, n) \ {R[r]}
  <2> HIDE DEF R, n, end
  <2> QED
    BY <1>3, <1>4, <1>6, PackedShift
<1>9. PoolInv(p)'
  <2>1. ArrayPage(p)' = ArrayPage(p)
    BY DEF ArrayPage
  <2>2. used[p] <= Budget[p]
    BY DEF RegionInv, PoolInv
  <2> HIDE DEF n, R
  <2>3. held'[p] = BehindFirst(reg'[p], c'[p])
    BY <1>3, <1>5, <1>7, <1>8
  <2>4. Packed(reg'[p], c'[p], Base[p], Base[p] + PAGE_SIZE + used'[p])
    BY <1>7, <1>8
  <2> QED
    BY <1>3, <1>7, <1>8, <2>1, <2>2, <2>3, <2>4 DEF PoolInv
<1>10. ASSUME NEW q \in Pools, q # p
       PROVE  PoolInv(q)'
  <2>1. /\ built'[q] = built[q] /\ reg'[q] = reg[q] /\ c'[q] = c[q]
        /\ held'[q] = held[q] /\ used'[q] = used[q]
    BY <1>1, <1>2, <1>10 DEF RegionInv, TypePools
  <2> QED
    BY <2>1, OtherPools
<1>11. DOMAIN used' = Pools /\ DOMAIN held' = Pools
  BY <1>2 DEF RegionInv
<1> QED
  BY <1>9, <1>10, <1>11 DEF RegionInv

LEMMA NextRegions == ASSUME ClientFits, RegionInv, [Next]_vars PROVE RegionInv'
<1>1. TypePools'
  BY PoolStep DEF RegionInv
<1>2. ASSUME built' = built \/ \E n \in 1 .. Len(PoolOrder) : register_pool(n),
             reg' = reg, c' = c, held' = held, used' = used
      PROVE  RegionInv'
  <2>1. ASSUME NEW p \in Pools
        PROVE  PoolInv(p)'
    <3>1. (built'[p] = "yes") <=> (built[p] = "yes")
      BY <1>2 DEF register_pool, RegionInv, TypePools
    <3> QED
      BY <1>2, <3>1 DEF RegionInv, PoolInv, ArrayPage
  <2> QED
    BY <1>1, <1>2, <2>1 DEF RegionInv
<1>3. CASE \E n \in 1 .. Len(PoolOrder) : register_pool(n)
  BY <1>2, <1>3 DEF register_pool
<1>4. ASSUME NEW p \in Pools, Construct(p)
      PROVE  RegionInv'
  BY <1>1, <1>4, ConstructRegions
<1>5. ASSUME NEW p \in Pools, NEW size \in Requests, allocate(p, size)
      PROVE  RegionInv'
  BY <1>1, <1>5, AllocateRegions
<1>6. ASSUME NEW p \in Pools, NEW size \in Requests, allocate_fails(p, size)
      PROVE  RegionInv'
  BY <1>2, <1>6 DEF allocate_fails
<1>7. ASSUME NEW p \in Pools, NEW h \in held[p], release(p, h)
      PROVE  RegionInv'
  BY <1>1, <1>7, ReleaseRegions
<1>8. ASSUME NEW a \in Touched, PageFault(a)
      PROVE  RegionInv'
  BY <1>2, <1>8 DEF PageFault
<1>9. ASSUME NEW a \in Touched, NEW v \in Values, Write(a, v)
      PROVE  RegionInv'
  BY <1>2, <1>9 DEF Write, poolvars
<1>10. CASE UNCHANGED vars
  BY <1>2, <1>10 DEF vars, poolvars
<1> QED
  BY <1>3, <1>4, <1>5, <1>6, <1>7, <1>8, <1>9, <1>10 DEF Next

\* For pools of any size, any requests and whatever rems holds at first: if
\* all that the program allocates from a pool fits into it, as all that main
\* does, the regions it holds are apart, inside the pool and in the array,
\* in whatever order it releases them.  release adds the length of another
\* entry to rems, so this cannot rest on rems: allocate places a region behind
\* the last, wherever room was given back, and what was used bounds that.
THEOREM RegionsApart == ASSUME ClientFits PROVE Spec => []RegionsSound
<1>1. Init => RegionInv
  BY InitRegions
<1>2. RegionInv /\ [Next]_vars => RegionInv'
  BY NextRegions
<1>3. RegionInv => RegionsSound
  <2> SUFFICES ASSUME RegionInv, NEW p \in Pools, built[p] = "yes"
               PROVE  /\ \A h, g \in Regions(p) : h # g => Extent(h) \cap Extent(g) = {}
                      /\ \A h \in Regions(p) :
                           Extent(h) \subseteq Base[p] .. Base[p] + Size[p] - 1
                      /\ \A h \in held[p] : \E x \in 1 .. c[p] - 1 : reg[p][x] = h
    BY DEF RegionsSound
  <2> DEFINE R == reg[p]
             n == c[p]
             end == Base[p] + PAGE_SIZE + used[p]
  <2>1. /\ R \in [Slots -> Region] /\ n \in 1 .. MaxRegions /\ Base[p] \in Nat
        /\ end \in Nat /\ Packed(R, n, Base[p], end) /\ Size[p] \in Nat
        /\ held[p] = BehindFirst(R, n) /\ R[0] = ArrayPage(p)
    BY InUse
  <2>2. end - 1 <= Base[p] + Size[p] - 1
    <3>1. used[p] \in Nat /\ used[p] <= Budget[p] /\ PAGE_SIZE + Budget[p] <= Size[p]
      BY DEF RegionInv, PoolInv, ClientFits
    <3> QED
      BY <2>1, <3>1, Sizes, PoolAssumption
  <2> HIDE DEF R, n, end
  <2>3. /\ \A x, y \in 0 .. n - 1 : x # y => Extent(R[x]) \cap Extent(R[y]) = {}
        /\ \A x \in 0 .. n - 1 : Extent(R[x]) \subseteq Base[p] .. end - 1
    BY <2>1, PackedSound
  <2>4. \A h \in Regions(p) : \E x \in 0 .. n - 1 : h = R[x]
    <3>1. n \in Nat /\ n >= 1
      BY <2>1, PoolAssumption
    <3>2. 0 \in 0 .. n - 1 /\ 1 .. n - 1 \subseteq 0 .. n - 1
      BY <3>1
    <3> QED
      BY <2>1, <3>2 DEF Regions, BehindFirst
  <2>5. Base[p] .. end - 1 \subseteq Base[p] .. Base[p] + Size[p] - 1
    BY <2>1, <2>2
  <2>6. \A h, g \in Regions(p) : h # g => Extent(h) \cap Extent(g) = {}
    BY <2>3, <2>4, Zenon
  <2>7. \A h \in Regions(p) : Extent(h) \subseteq Base[p] .. Base[p] + Size[p] - 1
    BY <2>3, <2>4, <2>5, Zenon
  <2>8. \A h \in held[p] : \E x \in 1 .. c[p] - 1 : reg[p][x] = h
    BY <2>1 DEF R, n, BehindFirst
  <2> QED
    BY <2>6, <2>7, <2>8
<1> QED
  BY <1>1, <1>2, <1>3, PTL DEF Spec
=============================================================================
