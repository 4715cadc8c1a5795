-------------------------- MODULE FileSystemProofs --------------------------
(* Proofs about FileSystem.tla.                                             *)
(*                                                                          *)
(* For any number and size of blocks, files and File objects, an inode is   *)
(* in use by at most one File object, whose position stays within the file  *)
(* (FInv); hence EofMeansEnd.                                               *)
(* With one file at a time, of at most one block, cache and disk agree on   *)
(* the bytes of the file while the cache is clean (SInv), and the file      *)
(* system implements SequentialFile.                                        *)
EXTENDS FileSystem, TLAPS, FiniteSetTheorems, SequenceTheorems, WellFoundedInduction

ZeroBlocks == [i \in 0 .. FS_DIRECT_BLOCKS - 1 |-> 0]

\* An inode has room for that many bytes.
Capacity == FS_DIRECT_BLOCKS * BLOCK_SIZE

Inode == [id : FileIds \union {NULL}, file_size : 0 .. Capacity, data_blocks : {ZeroBlocks}]

TypeOK ==
  /\ disk \in [Blocks -> Block]
  /\ phase \in {"raw", "formatted", "mounted"}
  /\ inodes \in [Inodes -> Inode]
  /\ file \in [Handles -> File \union {NULL}]

Used(i) == inodes[i].id # NULL

\* Who uses what: an id has one inode, an open file's inode is in use, and by
\* one File object only.
OneEach ==
  /\ phase # "mounted" => /\ \A i \in Inodes : ~ Used(i)
                          /\ \A h \in Handles : file[h] = NULL
  /\ \A i, j \in Inodes : Used(i) /\ inodes[i].id = inodes[j].id => i = j
  /\ \A h \in Handles : file[h] # NULL => Used(file[h].inode)
  /\ \A g, h \in Handles :
       file[g] # NULL /\ file[h] # NULL /\ file[g].inode = file[h].inode => g = h

\* The position stays within the file, and eof is set at its end only.
Within ==
  \A h \in Handles : file[h] # NULL =>
    /\ file[h].pos <= InodeOf(h).file_size
    /\ file[h].eof => file[h].pos = InodeOf(h).file_size

FInv == TypeOK /\ OneEach /\ Within

----------------------------------------------------------------------------
(* The inode list                                                          *)

LEMMA CapacityNat == Capacity \in Nat
BY FSAssumption DEF Capacity, FS_DIRECT_BLOCKS

LEMMA Zeros == \A i \in Inodes : TypeOK => inodes[i].data_blocks[0] = 0
<1> SUFFICES ASSUME NEW i \in Inodes, TypeOK
             PROVE  inodes[i].data_blocks[0] = 0
  OBVIOUS
<1>1. inodes[i].data_blocks = ZeroBlocks
  BY DEF TypeOK, Inode
<1>2. ZeroBlocks[0] = 0
  BY DEF ZeroBlocks, FS_DIRECT_BLOCKS
<1> QED
  BY <1>1, <1>2

LEMMA LeastNatural ==
  ASSUME NEW T \in SUBSET Nat, T # {}
  PROVE  \E n \in T : \A k \in T : n <= k
<1> DEFINE R == {p \in Nat \X Nat : p[1] < p[2]}
<1>1. IsWellFoundedOn(R, Nat)
  <2>1. OpToRel(<, Nat) = R
    BY DEF OpToRel
  <2> QED
    BY <2>1, NatLessThanWellFounded
<1>2. PICK n \in T : \A k \in T : ~ (<<k, n>> \in R)
  <2> HIDE DEF R
  <2> QED
    BY <1>1, WFMin
<1>3. ASSUME NEW k \in T
      PROVE  n <= k
  <2>1. ~ (<<k, n>> \in R)
    BY <1>2
  <2> QED
    BY <2>1
<1> QED
  BY <1>3

\* LookupFile finds an inode with the id, if there is one.
LEMMA Lookup ==
  ASSUME NEW id
  PROVE  IF \E i \in Inodes : inodes[i].id = id
         THEN LookupFile(id) \in Inodes /\ inodes[LookupFile(id)].id = id
         ELSE LookupFile(id) = NULL
<1>1. CASE \E i \in Inodes : inodes[i].id = id
  <2>1. Matches(id) # {} /\ Matches(id) \in SUBSET Nat
    BY <1>1, FSAssumption DEF Matches, Inodes
  <2>2. \E i \in Matches(id) : \A j \in Matches(id) : i <= j
    BY <2>1, LeastNatural
  <2>3. LookupFile(id) \in Matches(id)
    BY <2>1, <2>2 DEF LookupFile
  <2> QED
    BY <1>1, <2>3 DEF Matches
<1>2. CASE ~ \E i \in Inodes : inodes[i].id = id
  <2>1. Matches(id) = {}
    BY <1>2 DEF Matches
  <2> QED
    BY <1>2, <2>1 DEF LookupFile
<1> QED
  BY <1>1, <1>2

\* Looked up and not NULL: there is such an inode.
LEMMA Found ==
  ASSUME NEW id
  PROVE  /\ LookupFile(id) # NULL => /\ LookupFile(id) \in Inodes
                                     /\ inodes[LookupFile(id)].id = id
         /\ LookupFile(id) = NULL => \A i \in Inodes : inodes[i].id # id
BY Lookup, FSAssumption

----------------------------------------------------------------------------
(* The invariant                                                           *)

LEMMA InitType == Init => TypeOK
BY CapacityNat DEF Init, TypeOK, Inode, NewInode, ZeroBlocks, Inodes

LEMMA InitFInv == Init => FInv
<1> SUFFICES ASSUME Init
             PROVE  FInv
  OBVIOUS
<1>1. \A i \in Inodes : inodes[i].id = NULL
  BY DEF Init, NewInode
<1> QED
  BY <1>1, InitType DEF Init, FInv, OneEach, Within, Used

LEMMA FormatStep == ASSUME FInv, Format
                    PROVE  FInv'
<1>1. PICK list \in Block :
        disk' = [b \in Blocks |-> IF b = 0 THEN list ELSE [o \in Offsets |-> Empty]]
  BY DEF Format
<1>2. [o \in Offsets |-> Empty] \in Block
  BY FSAssumption DEF Block
<1>3. disk' \in [Blocks -> Block]
  BY <1>1, <1>2
<1>4. /\ phase = "raw" /\ phase' = "formatted"
      /\ inodes' = inodes /\ file' = file
  BY DEF Format
<1>5. TypeOK'
  BY <1>3, <1>4 DEF FInv, TypeOK
<1>6. OneEach'
  BY <1>4 DEF FInv, OneEach, Used
<1> QED
  BY <1>4, <1>5, <1>6 DEF FInv, Within, InodeOf

LEMMA MountStep == ASSUME FInv, Mount
                   PROVE  FInv'
<1>1. /\ phase = "formatted" /\ phase' = "mounted"
      /\ disk' = disk /\ file' = file
      /\ inodes' = [i \in Inodes |-> NewInode(NULL)]
  BY DEF Mount
<1>2. \A h \in Handles : file[h] = NULL
  BY <1>1 DEF FInv, OneEach
<1>3. \A i \in Inodes : inodes'[i].id = NULL
  BY <1>1 DEF NewInode
<1>4. TypeOK'
  BY <1>1, CapacityNat DEF FInv, TypeOK, Inode, NewInode, ZeroBlocks
<1>5. OneEach' /\ Within'
  BY <1>1, <1>2, <1>3 DEF OneEach, Within, Used
<1> QED
  BY <1>4, <1>5 DEF FInv

\* The free inode is in use by nobody, so no File object sees the change.
LEMMA CreateStep == ASSUME FInv, NEW id \in FileIds, CreateFile(id)
                    PROVE  FInv'
<1> DEFINE n == GetFreeInode
<1>1. n \in Inodes /\ ~ Used(n)
  BY Found DEF CreateFile, GetFreeInode, Used
<1>2. \A i \in Inodes : inodes[i].id # id
  BY Found DEF CreateFile
<1>3. /\ phase = "mounted" /\ phase' = "mounted" /\ disk' = disk /\ file' = file
      /\ inodes' = [inodes EXCEPT ![n] = NewInode(id)]
  BY DEF CreateFile
<1> HIDE DEF n
<1>4. NewInode(id) \in Inode
  BY CapacityNat DEF NewInode, Inode, ZeroBlocks
<1>5. TypeOK'
  BY <1>1, <1>3, <1>4 DEF FInv, TypeOK
<1>6. /\ inodes'[n].id = id
      /\ \A i \in Inodes \ {n} : inodes'[i] = inodes[i]
  BY <1>1, <1>3 DEF FInv, TypeOK, NewInode
<1>7. \A h \in Handles : file[h] # NULL => file[h].inode \in Inodes \ {n}
  BY <1>1 DEF FInv, TypeOK, OneEach, File
<1>8. OneEach'
  <2>1. \A i, j \in Inodes : Used(i)' /\ inodes'[i].id = inodes'[j].id => i = j
    BY <1>2, <1>6 DEF FInv, OneEach, Used
  <2>2. \A h \in Handles : file[h] # NULL => Used(file[h].inode)'
    BY <1>3, <1>6, <1>7 DEF FInv, OneEach, Used
  <2> QED
    BY <1>3, <2>1, <2>2 DEF FInv, OneEach
<1>9. Within'
  <2>1. \A h \in Handles : file[h] # NULL => InodeOf(h)' = InodeOf(h)
    BY <1>3, <1>6, <1>7 DEF InodeOf
  <2> QED
    BY <1>3, <2>1 DEF FInv, Within
<1> QED
  BY <1>5, <1>8, <1>9 DEF FInv

LEMMA DeleteStep == ASSUME FInv, NEW id \in FileIds, OpenOf(id) = {}, DeleteFile(id)
                    PROVE  FInv'
<1> DEFINE n == LookupFile(id)
<1>1. n \in Inodes /\ inodes[n].id = id /\ Used(n)
  BY Found, FSAssumption DEF DeleteFile, Used
<1>2. /\ phase = "mounted" /\ phase' = "mounted" /\ disk' = disk /\ file' = file
      /\ inodes' = [inodes EXCEPT ![n].id = NULL]
  BY DEF DeleteFile
<1> HIDE DEF n
<1>3. /\ inodes' \in [Inodes -> Inode] /\ inodes'[n].id = NULL
      /\ \A i \in Inodes \ {n} : inodes'[i] = inodes[i]
  BY <1>1, <1>2 DEF FInv, TypeOK, Inode
<1>4. \A h \in Handles : file[h] # NULL => file[h].inode \in Inodes \ {n}
  BY <1>1 DEF FInv, TypeOK, File, OpenOf, InodeOf
<1>5. TypeOK'
  BY <1>2, <1>3 DEF FInv, TypeOK
<1>6. OneEach'
  <2>1. \A i, j \in Inodes : Used(i)' /\ inodes'[i].id = inodes'[j].id => i = j
    BY <1>3 DEF FInv, OneEach, Used
  <2>2. \A h \in Handles : file[h] # NULL => Used(file[h].inode)'
    BY <1>2, <1>3, <1>4 DEF FInv, OneEach, Used
  <2> QED
    BY <1>2, <2>1, <2>2 DEF FInv, OneEach
<1>7. Within'
  <2>1. \A h \in Handles : file[h] # NULL => InodeOf(h)' = InodeOf(h)
    BY <1>2, <1>3, <1>4 DEF InodeOf
  <2> QED
    BY <1>2, <2>1 DEF FInv, Within
<1> QED
  BY <1>5, <1>6, <1>7 DEF FInv

\* Nobody has the file open, so the new File object is the only one of its
\* inode.
LEMMA OpenStep == ASSUME FInv, NEW id \in FileIds, NEW h \in Handles,
                         OpenOf(id) = {}, Open(h, id)
                  PROVE  FInv'
<1> DEFINE i == LookupFile(id)
           f == [inode |-> i, pos |-> 0, dirty |-> FALSE, eof |-> FALSE,
                 cache |-> ReadBlock(inodes[i].data_blocks[0])]
<1>1. i \in Inodes /\ inodes[i].id = id /\ id # NULL
  BY Found, FSAssumption DEF Open
<1>2. /\ phase = "mounted" /\ phase' = "mounted" /\ disk' = disk /\ inodes' = inodes
      /\ file' = [file EXCEPT ![h] = f]
  BY DEF Open
<1>3. ReadBlock(inodes[i].data_blocks[0]) \in Block
  <2>1. inodes[i].data_blocks[0] = 0
    BY <1>1, Zeros DEF FInv
  <2> QED
    BY <2>1, FSAssumption DEF ReadBlock, FInv, TypeOK
<1>4. f \in File
  BY <1>1, <1>3 DEF File
<1>5. f.inode = i /\ f.pos = 0 /\ f.eof = FALSE
  OBVIOUS
<1> HIDE DEF f, i
<1>6. /\ file' \in [Handles -> File \union {NULL}] /\ file'[h] = f
      /\ \A g \in Handles \ {h} : file'[g] = file[g]
  BY <1>2, <1>4 DEF FInv, TypeOK
<1>7. \A g \in Handles : file[g] # NULL => file[g].inode # i
  BY <1>1 DEF OpenOf, InodeOf
<1>8. TypeOK'
  BY <1>2, <1>6 DEF FInv, TypeOK
<1>9. OneEach'
  BY <1>1, <1>2, <1>5, <1>6, <1>7 DEF FInv, OneEach, Used
<1>10. Within'
  <2>1. inodes[i].file_size \in Nat
    BY <1>1, CapacityNat DEF FInv, TypeOK, Inode
  <2>2. \A g \in Handles \ {h} : InodeOf(g)' = InodeOf(g)
    BY <1>2, <1>6 DEF InodeOf
  <2>3. InodeOf(h)' = inodes[i]
    BY <1>2, <1>5, <1>6 DEF InodeOf
  <2> QED
    BY <1>5, <1>6, <2>1, <2>2, <2>3 DEF FInv, Within
<1> QED
  BY <1>8, <1>9, <1>10 DEF FInv

LEMMA CloseStep == ASSUME FInv, NEW h \in Handles, Close(h)
                   PROVE  FInv'
<1>1. /\ phase' = phase /\ inodes' = inodes
      /\ file' = [file EXCEPT ![h] = NULL]
      /\ file[h] \in File
  BY DEF Close, FInv, TypeOK
<1>2. disk' \in [Blocks -> Block]
  <2>1. file[h].cache \in Block
    BY <1>1 DEF File
  <2> QED
    BY <2>1 DEF Close, WriteBlock, FInv, TypeOK
<1>3. /\ file' \in [Handles -> File \union {NULL}] /\ file'[h] = NULL
      /\ \A g \in Handles \ {h} : file'[g] = file[g]
  BY <1>1 DEF FInv, TypeOK
<1>4. TypeOK'
  BY <1>1, <1>2, <1>3 DEF FInv, TypeOK
<1>5. OneEach'
  BY <1>1, <1>3 DEF FInv, OneEach, Used
<1>6. Within'
  BY <1>1, <1>3 DEF FInv, Within, InodeOf
<1> QED
  BY <1>4, <1>5, <1>6 DEF FInv

\* A change of the File object h that keeps its inode, and of the size of
\* that inode.
LEMMA HandleStep ==
  ASSUME FInv, NEW h \in Handles, file[h] # NULL, NEW f \in File, NEW n \in 0 .. Capacity,
         f.inode = file[h].inode,
         f.pos <= n, f.eof => f.pos = n,
         phase' = phase, disk' \in [Blocks -> Block],
         file' = [file EXCEPT ![h] = f],
         inodes' = [inodes EXCEPT ![f.inode].file_size = n]
  PROVE  FInv'
<1> DEFINE i == f.inode
<1>1. i \in Inodes /\ Used(i) /\ file[h] \in File
  BY DEF FInv, TypeOK, OneEach, File
<1>2. /\ file' \in [Handles -> File \union {NULL}] /\ file'[h] = f
      /\ \A g \in Handles \ {h} : file'[g] = file[g]
  BY DEF FInv, TypeOK
<1>3. /\ inodes' \in [Inodes -> Inode]
      /\ inodes'[i].id = inodes[i].id /\ inodes'[i].file_size = n
      /\ \A j \in Inodes \ {i} : inodes'[j] = inodes[j]
  BY <1>1 DEF FInv, TypeOK, Inode
<1>4. \A g \in Handles : file[g] # NULL /\ g # h => file[g].inode \in Inodes \ {i}
  BY DEF FInv, TypeOK, OneEach, File
<1> HIDE DEF i
<1>5. \A j \in Inodes : inodes'[j].id = inodes[j].id
  BY <1>3
<1>6. TypeOK'
  BY <1>2, <1>3 DEF FInv, TypeOK
<1>7. f # NULL
  BY FSAssumption
<1>8. OneEach'
  <2>1. f.inode = i
    BY DEF i
  <2>2. phase # "mounted" => (\A j \in Inodes : ~ Used(j)')
    BY <1>5 DEF FInv, OneEach, Used
  <2>3. phase = "mounted"
    BY DEF FInv, OneEach
  <2>4. \A g \in Handles : file'[g] # NULL => file'[g].inode \in Inodes /\ inodes'[file'[g].inode].id # NULL
    BY <1>1, <1>2, <1>4, <1>5, <2>1 DEF FInv, OneEach, Used
  <2>5. \A g \in Handles : file'[g] # NULL /\ g # h => file'[g].inode # i
    BY <1>2, <1>4
  <2>6. \A g, k \in Handles : file'[g] # NULL /\ file'[k] # NULL /\ file'[g].inode = file'[k].inode => g = k
    BY <1>2, <2>1, <2>5 DEF FInv, OneEach
  <2> QED
    BY <1>5, <2>3, <2>4, <2>6 DEF FInv, OneEach, Used
<1>9. Within'
  <2>1. f.inode = i
    BY DEF i
  <2>2. \A g \in Handles \ {h} : file[g] # NULL => InodeOf(g)' = InodeOf(g)
    BY <1>2, <1>3, <1>4 DEF InodeOf
  <2>3. InodeOf(h)'.file_size = n
    BY <1>2, <1>3, <2>1 DEF InodeOf
  <2> QED
    BY <1>2, <2>2, <2>3 DEF FInv, Within
<1> QED
  BY <1>6, <1>8, <1>9 DEF FInv

\* The open File object h and its inode.
LEMMA Handle ==
  ASSUME FInv, NEW h \in Handles, file[h] # NULL
  PROVE  /\ file[h] \in File /\ file[h].inode \in Inodes
         /\ file[h].pos \in Nat /\ file[h].cache \in Block
         /\ InodeOf(h) \in Inode /\ InodeOf(h).file_size \in 0 .. Capacity
         /\ InodeOf(h).data_blocks = ZeroBlocks
         /\ file[h].pos <= InodeOf(h).file_size
         /\ inodes = [inodes EXCEPT ![file[h].inode].file_size = InodeOf(h).file_size]
BY DEF FInv, TypeOK, File, Inode, InodeOf, Within

LEMMA ReadAtEndStep == ASSUME FInv, NEW h \in Handles, ReadAtEnd(h)
                       PROVE  FInv'
<1> DEFINE f == [file[h] EXCEPT !.eof = TRUE]
           n == InodeOf(h).file_size
<1>1. file[h] # NULL /\ file[h].pos >= n
  BY DEF ReadAtEnd
<1>2. f \in File /\ f.inode = file[h].inode /\ f.pos = file[h].pos
  BY <1>1, Handle DEF File
<1>3. /\ phase' = phase /\ disk' = disk /\ inodes' = inodes
      /\ file' = [file EXCEPT ![h] = f]
  BY DEF ReadAtEnd
<1>4. n \in 0 .. Capacity /\ f.pos = n
  <2>1. file[h].pos \in Nat /\ n \in 0 .. Capacity /\ file[h].pos <= n
    BY <1>1, Handle
  <2> QED
    BY <1>1, <1>2, <2>1, CapacityNat
<1>5. disk' \in [Blocks -> Block]
  BY <1>3 DEF FInv, TypeOK
<1>6. inodes' = [inodes EXCEPT ![f.inode].file_size = n]
  BY <1>1, <1>2, <1>3, Handle
<1>7. f.pos <= n /\ (f.eof => f.pos = n)
  BY <1>4, CapacityNat
<1> HIDE DEF f, n
<1> QED
  BY <1>1, <1>2, <1>3, <1>4, <1>5, <1>6, <1>7, HandleStep

LEMMA ResetStep == ASSUME FInv, NEW h \in Handles, Reset(h)
                   PROVE  FInv'
<1> DEFINE f == [file[h] EXCEPT !.pos = 0, !.eof = FALSE]
           n == InodeOf(h).file_size
<1>1. file[h] # NULL
  BY DEF Reset
<1>2. f \in File /\ f.inode = file[h].inode /\ f.pos = 0 /\ ~ f.eof
  BY <1>1, Handle DEF File
<1>3. /\ phase' = phase /\ disk' = disk /\ inodes' = inodes
      /\ file' = [file EXCEPT ![h] = f]
  BY DEF Reset
<1>4. n \in 0 .. Capacity
  BY <1>1, <1>2, Handle
<1>5. disk' \in [Blocks -> Block]
  BY <1>3 DEF FInv, TypeOK
<1>6. inodes' = [inodes EXCEPT ![f.inode].file_size = n]
  BY <1>1, <1>2, <1>3, Handle
<1>7. f.pos <= n /\ (f.eof => f.pos = n)
  BY <1>2, <1>4, CapacityNat
<1> HIDE DEF f, n
<1> QED
  BY <1>1, <1>2, <1>3, <1>4, <1>5, <1>6, <1>7, HandleStep

LEMMA Product ==
  ASSUME NEW a \in Nat, NEW b \in Nat, NEW c \in Nat, a <= b
  PROVE  a * c <= b * c /\ a * c \in Nat
OBVIOUS

LEMMA Quotient ==
  ASSUME NEW p \in Nat, NEW d \in Nat \ {0}
  PROVE  \E q \in Nat, o \in 0 .. d - 1 :
           /\ p \div d = q /\ p % d = o
           /\ q * d \in Nat /\ p = q * d + o
<1> DEFINE q == p \div d
           o == p % d
<1>1. q \in Nat
  BY SMT
<1>2. o \in 0 .. d - 1
  BY SMT
<1>3. p = d * q + o
  BY SMT
<1> HIDE DEF q, o
<1>4. d * q = q * d /\ q * d \in Nat
  BY <1>1, SMT
<1>5. p = q * d + o
  BY <1>3, <1>4
<1> QED
  BY <1>1, <1>2, <1>4, <1>5 DEF q, o

\* Positions below the capacity lie in one of the direct blocks, and what is
\* left of their block does not exceed the capacity.
LEMMA BelowCapacity ==
  ASSUME NEW p \in Nat, p < Capacity
  PROVE  /\ p \div BLOCK_SIZE \in 0 .. FS_DIRECT_BLOCKS - 1
         /\ p + (BLOCK_SIZE - (p % BLOCK_SIZE)) <= Capacity
<1>2. Capacity = 8 * BLOCK_SIZE /\ BLOCK_SIZE \in Nat \ {0}
  BY FSAssumption DEF Capacity, FS_DIRECT_BLOCKS
<1>1. PICK q \in Nat, o \in 0 .. BLOCK_SIZE - 1 :
        /\ p \div BLOCK_SIZE = q /\ p % BLOCK_SIZE = o
        /\ q * BLOCK_SIZE \in Nat /\ p = q * BLOCK_SIZE + o
  BY <1>2, Quotient
<1>3. q < 8
  <2> SUFFICES ASSUME 8 <= q
               PROVE  FALSE
    BY <1>1
  <2>1. 8 * BLOCK_SIZE <= q * BLOCK_SIZE
    BY <1>1, <1>2, Product
  <2> QED
    BY <1>1, <1>2, <2>1
<1>4. (q + 1) * BLOCK_SIZE <= 8 * BLOCK_SIZE /\ (q + 1) * BLOCK_SIZE = q * BLOCK_SIZE + BLOCK_SIZE
  BY <1>1, <1>2, <1>3, Product
<1>5. p + (BLOCK_SIZE - o) <= Capacity
  <2>1. p + (BLOCK_SIZE - o) = q * BLOCK_SIZE + BLOCK_SIZE
    BY <1>1, <1>2
  <2> QED
    BY <1>2, <1>4, <2>1
<1>6. q \in 0 .. FS_DIRECT_BLOCKS - 1
  BY <1>3 DEF FS_DIRECT_BLOCKS
<1>7. p + (BLOCK_SIZE - (p % BLOCK_SIZE)) <= Capacity
  BY <1>1, <1>5
<1>8. p \div BLOCK_SIZE \in 0 .. FS_DIRECT_BLOCKS - 1
  BY <1>1, <1>6
<1> QED
  BY <1>7, <1>8

LEMMA LeastOf ==
  ASSUME NEW m \in Nat, NEW n \in Nat
  PROVE  Least(m, n) \in Nat /\ Least(m, n) <= m /\ Least(m, n) <= n
         /\ (m >= 1 /\ n >= 1 => Least(m, n) >= 1)
BY DEF Least

LEMMA ReadStep == ASSUME FInv, NEW h \in Handles, NEW n \in 1 .. BLOCK_SIZE, Read(h, n)
                  PROVE  FInv'
<1> DEFINE f == file[h]
           size == InodeOf(h).file_size
           k == Least(n, size - f.pos)
           pos == f.pos + k
           reload == pos % BLOCK_SIZE = 0 /\ pos < size
           g == IF reload
                THEN [f EXCEPT !.pos = pos, !.dirty = FALSE,
                       !.cache = ReadBlock(InodeOf(h).data_blocks[pos \div BLOCK_SIZE])]
                ELSE [f EXCEPT !.pos = pos]
<1>1. /\ file[h] # NULL /\ f.pos < size
      /\ phase' = phase /\ disk' = disk /\ inodes' = inodes
      /\ file' = [file EXCEPT ![h] = g]
  BY DEF Read
<1>2. f \in File /\ f.pos \in Nat /\ size \in 0 .. Capacity /\ InodeOf(h).data_blocks = ZeroBlocks
  BY <1>1, Handle
<1>3. pos \in Nat /\ pos <= size
  <2>1. n \in Nat /\ size - f.pos \in Nat
    BY <1>1, <1>2, CapacityNat
  <2>2. k \in Nat /\ k <= size - f.pos
    BY <2>1, LeastOf
  <2> HIDE DEF k
  <2> QED
    BY <1>2, <2>2, CapacityNat
<1>4. ~ f.eof
  BY <1>1, <1>2, CapacityNat DEF FInv, Within
<1> HIDE DEF pos, size, f
<1>5. g \in File /\ g.inode = f.inode /\ g.pos = pos /\ g.eof = f.eof
  <2>1. CASE reload
    <3> DEFINE b == ReadBlock(InodeOf(h).data_blocks[pos \div BLOCK_SIZE])
    <3>1. pos < Capacity
      BY <1>2, <1>3, <2>1, CapacityNat
    <3>2. pos \div BLOCK_SIZE \in 0 .. FS_DIRECT_BLOCKS - 1
      BY <1>3, <3>1, BelowCapacity
    <3>3. InodeOf(h).data_blocks[pos \div BLOCK_SIZE] = 0
      BY <1>2, <3>2 DEF ZeroBlocks
    <3>4. b \in Block
      BY <3>3, FSAssumption DEF ReadBlock, FInv, TypeOK
    <3>5. g = [f EXCEPT !.pos = pos, !.dirty = FALSE, !.cache = b]
      BY <2>1
    <3> HIDE DEF b, g
    <3> QED
      BY <1>2, <1>3, <3>4, <3>5 DEF File
  <2>2. CASE ~ reload
    <3>1. g = [f EXCEPT !.pos = pos]
      BY <2>2
    <3> HIDE DEF g
    <3> QED
      BY <1>2, <1>3, <3>1 DEF File
  <2> QED
    BY <2>1, <2>2
<1> HIDE DEF g
<1>6. disk' \in [Blocks -> Block]
  BY <1>1 DEF FInv, TypeOK
<1>7. inodes' = [inodes EXCEPT ![g.inode].file_size = size]
  BY <1>1, <1>5, Handle DEF f, size
<1>8. g.pos <= size /\ (g.eof => g.pos = size)
  BY <1>3, <1>4, <1>5
<1>9. g.inode = file[h].inode
  BY <1>5 DEF f
<1> QED
  BY <1>1, <1>2, <1>5, <1>6, <1>7, <1>8, <1>9, HandleStep

\* A full block is one of the inode's direct blocks.
LEMMA FullBlock ==
  ASSUME NEW p \in Nat \ {0}, p <= Capacity, p % BLOCK_SIZE = 0
  PROVE  (p \div BLOCK_SIZE) - 1 \in 0 .. FS_DIRECT_BLOCKS - 1
<1>1. Capacity = 8 * BLOCK_SIZE /\ BLOCK_SIZE \in Nat \ {0}
  BY FSAssumption DEF Capacity, FS_DIRECT_BLOCKS
<1>2. PICK q \in Nat, o \in 0 .. BLOCK_SIZE - 1 :
        /\ p \div BLOCK_SIZE = q /\ p % BLOCK_SIZE = o
        /\ q * BLOCK_SIZE \in Nat /\ p = q * BLOCK_SIZE + o
  BY <1>1, Quotient
<1>3. o = 0 /\ p = q * BLOCK_SIZE
  BY <1>2
<1>4. q # 0
  BY <1>1, <1>3
<1>5. q <= 8
  <2> SUFFICES ASSUME 9 <= q
               PROVE  FALSE
    OBVIOUS
  <2>1. 9 * BLOCK_SIZE <= q * BLOCK_SIZE
    BY <1>1, Product
  <2> QED
    BY <1>1, <1>3, <2>1
<1>6. q - 1 \in 0 .. FS_DIRECT_BLOCKS - 1
  BY <1>4, <1>5 DEF FS_DIRECT_BLOCKS
<1> QED
  BY <1>2, <1>6

LEMMA WriteStep ==
  ASSUME FInv, NEW h \in Handles, NEW n \in 1 .. BLOCK_SIZE, NEW buf \in [1 .. n -> Bytes],
         Write(h, buf)
  PROVE  FInv'
<1> DEFINE f == file[h]
           o == f.pos % BLOCK_SIZE
           k == Least(Len(buf), BLOCK_SIZE - o)
           pos == f.pos + k
           cache == [i \in Offsets |->
                       IF i \in o .. o + k - 1 THEN buf[i - o + 1] ELSE f.cache[i]]
           full == pos % BLOCK_SIZE = 0
           size == InodeOf(h).file_size
           m == IF pos > size THEN pos ELSE size
           b == (pos \div BLOCK_SIZE) - 1
           g == [f EXCEPT !.pos = pos, !.cache = cache, !.dirty = ~ full]
<1>1. /\ file[h] # NULL /\ f.pos < MaxLength
      /\ phase' = phase
      /\ file' = [file EXCEPT ![h] = g]
      /\ inodes' = [inodes EXCEPT ![f.inode].file_size = m]
  BY DEF Write
<1>2. IF full THEN WriteBlock(InodeOf(h).data_blocks[b], cache) ELSE disk' = disk
  BY DEF Write
<1>3. /\ f \in File /\ f.pos \in Nat /\ size \in 0 .. Capacity /\ f.cache \in Block
      /\ InodeOf(h).data_blocks = ZeroBlocks /\ f.pos <= size
  BY <1>1, Handle
<1>4. BLOCK_SIZE \in Nat \ {0} /\ MaxLength \in Nat /\ MaxLength <= Capacity
  BY FSAssumption, CapacityNat DEF Capacity
<1>5. o \in 0 .. BLOCK_SIZE - 1
  BY <1>3, <1>4, Quotient
<1>6. Len(buf) = n /\ n \in Nat /\ n >= 1
  BY <1>4
<1>7. k \in Nat /\ k >= 1 /\ k <= n /\ k <= BLOCK_SIZE - o
  <2>1. BLOCK_SIZE - o \in Nat /\ BLOCK_SIZE - o >= 1
    BY <1>4, <1>5
  <2> HIDE DEF o
  <2> QED
    BY <1>6, <2>1, LeastOf
<1>8. f.pos < Capacity
  BY <1>1, <1>3, <1>4, CapacityNat
<1>9. f.pos + (BLOCK_SIZE - o) <= Capacity
  BY <1>3, <1>8, BelowCapacity
<1> HIDE DEF f, o, k, size
<1>10. pos \in Nat \ {0} /\ pos > f.pos /\ pos <= Capacity
  BY <1>3, <1>4, <1>5, <1>7, <1>9, CapacityNat
<1>11. cache \in Block
  <2> SUFFICES ASSUME NEW i \in Offsets
               PROVE  (IF i \in o .. o + k - 1 THEN buf[i - o + 1] ELSE f.cache[i]) \in Bytes
    BY DEF Block
  <2>1. CASE i \in o .. o + k - 1
    <3>1. i - o + 1 \in 1 .. n
      BY <1>5, <1>6, <1>7, <2>1
    <3> QED
      BY <2>1, <3>1
  <2>2. CASE ~ (i \in o .. o + k - 1)
    BY <1>3, <2>2 DEF Block
  <2> QED
    BY <2>1, <2>2
<1> HIDE DEF pos, cache
<1>12. disk' \in [Blocks -> Block]
  <2>1. CASE full
    <3>1. b \in 0 .. FS_DIRECT_BLOCKS - 1
      BY <1>10, <2>1, FullBlock
    <3> HIDE DEF b
    <3>2. InodeOf(h).data_blocks[b] = 0
      BY <1>3, <3>1 DEF ZeroBlocks
    <3>3. disk' = [disk EXCEPT ![0] = cache]
      BY <1>2, <2>1, <3>2 DEF WriteBlock
    <3> QED
      BY <1>11, <3>3, FSAssumption DEF FInv, TypeOK
  <2>2. CASE ~ full
    BY <1>2, <2>2 DEF FInv, TypeOK
  <2> QED
    BY <2>1, <2>2
<1>13. m \in 0 .. Capacity /\ pos <= m /\ m >= size
  BY <1>3, <1>10, CapacityNat
<1>14. f.eof => pos = m
  <2> SUFFICES ASSUME f.eof
               PROVE  pos = m
    OBVIOUS
  <2>1. f.pos = size
    BY <1>1 DEF FInv, Within, f, size
  <2> QED
    BY <1>3, <1>10, <2>1
<1> HIDE DEF m, full
<1>15. g \in File /\ g.inode = f.inode /\ g.pos = pos /\ g.eof = f.eof
  BY <1>3, <1>10, <1>11 DEF File, full
<1> HIDE DEF g
<1>16. inodes' = [inodes EXCEPT ![g.inode].file_size = m]
  BY <1>1, <1>15
<1>17. g.pos <= m /\ (g.eof => g.pos = m)
  BY <1>13, <1>14, <1>15
<1>18. g.inode = file[h].inode
  BY <1>15 DEF f
<1> QED
  BY <1>1, <1>12, <1>13, <1>15, <1>16, <1>17, <1>18, HandleStep

LEMMA NextFInv == FInv /\ [Next]_vars => FInv'
<1> SUFFICES ASSUME FInv, [Next]_vars
             PROVE  FInv'
  OBVIOUS
<1>1. CASE Format
  BY <1>1, FormatStep
<1>2. CASE Mount
  BY <1>2, MountStep
<1>3. ASSUME NEW id \in FileIds, CreateFile(id)
      PROVE  FInv'
  BY <1>3, CreateStep
<1>4. ASSUME NEW id \in FileIds, OpenOf(id) = {}, DeleteFile(id)
      PROVE  FInv'
  BY <1>4, DeleteStep
<1>5. ASSUME NEW id \in FileIds, OpenOf(id) = {}, NEW h \in Handles, Open(h, id)
      PROVE  FInv'
  BY <1>5, OpenStep
<1>6. ASSUME NEW h \in Handles, Close(h) \/ ReadAtEnd(h) \/ Reset(h)
      PROVE  FInv'
  BY <1>6, CloseStep, ReadAtEndStep, ResetStep
<1>7. ASSUME NEW h \in Handles, NEW n \in 1 .. BLOCK_SIZE, Read(h, n)
      PROVE  FInv'
  BY <1>7, ReadStep
<1>8. ASSUME NEW h \in Handles, NEW n \in 1 .. BLOCK_SIZE, NEW buf \in [1 .. n -> Bytes],
             Write(h, buf)
      PROVE  FInv'
  BY <1>8, WriteStep
<1>9. CASE vars' = vars
  <2>1. disk' = disk /\ phase' = phase /\ inodes' = inodes /\ file' = file
    BY <1>9 DEF vars
  <2> QED
    BY <2>1 DEF FInv, TypeOK, OneEach, Within, Used, InodeOf
<1> QED
  BY <1>1, <1>2, <1>3, <1>4, <1>5, <1>6, <1>7, <1>8, <1>9 DEF Next, Program

LEMMA AlwaysFInv == Spec => []FInv
<1>1. Init => FInv
  BY InitFInv
<1>2. FInv /\ [Next]_vars => FInv'
  BY NextFInv
<1> QED
  BY <1>1, <1>2, PTL DEF Spec

(* EoF is true exactly at the end of the file, whichever calls of Read,     *)
(* Write, Reset and the constructor set the flag, the position and the size *)
(* before: for any number of files, inodes and File objects, any block size *)
(* and any length a program can write within the direct blocks.             *)
THEOREM EofReliable == Spec => []EofMeansEnd
<1>1. FInv => EofMeansEnd
  <2> SUFFICES ASSUME FInv, NEW h \in Handles, file[h] # NULL
               PROVE  EoF(h) <=> file[h].pos >= InodeOf(h).file_size
    BY DEF EofMeansEnd
  <2>1. /\ file[h].pos \in Nat /\ InodeOf(h).file_size \in 0 .. Capacity
        /\ file[h].pos <= InodeOf(h).file_size
    BY Handle
  <2>2. file[h].eof => file[h].pos = InodeOf(h).file_size
    BY DEF FInv, Within
  <2> QED
    BY <2>1, <2>2, CapacityNat DEF EoF
<1> QED
  BY <1>1, AlwaysFInv, PTL

----------------------------------------------------------------------------
(* One file at a time, of at most one block                                *)

OneBlock == MaxFiles = 1 /\ MaxLength <= BLOCK_SIZE

\* The cache is dirty or as block 0 is.
SInv ==
  /\ FInv
  /\ \A i, j \in Inodes : Used(i) /\ Used(j) => i = j
  /\ \A i \in Inodes : inodes[i].file_size <= BLOCK_SIZE
  /\ \A h \in Handles : file[h] # NULL /\ ~ file[h].dirty => file[h].cache = disk[0]

\* The first n bytes of a block.
Prefix(n, b) == [k \in 1 .. n |-> b[k - 1]]

\* What the state shows to SequentialFile.
Data == IF Only = NULL THEN <<>> ELSE DataOf(Only)

LEMMA OneOpen == ASSUME SInv, NEW g \in Handles, NEW h \in Handles,
                        file[g] # NULL, file[h] # NULL
                 PROVE  g = h
<1>1. /\ file[g].inode \in Inodes /\ file[h].inode \in Inodes
      /\ Used(file[g].inode) /\ Used(file[h].inode)
  BY Handle DEF SInv, FInv, OneEach
<1>2. file[g].inode = file[h].inode
  BY <1>1 DEF SInv
<1> QED
  BY <1>2 DEF SInv, FInv, OneEach

LEMMA SmallMod ==
  ASSUME NEW m \in Nat, NEW d \in Nat \ {0}, m < d
  PROVE  m % d = m
OBVIOUS

LEMMA NoFileView ==
  ASSUME SInv, \A i \in Inodes : ~ Used(i)
  PROVE  Existing = {} /\ Data = <<>> /\ Position = 0
<1>1. ASSUME NEW id \in FileIds, LookupFile(id) # NULL
      PROVE  FALSE
  BY <1>1, Found, FSAssumption DEF Used
<1>2. Existing = {}
  BY <1>1 DEF Existing
<1>3. \A h \in Handles : file[h] = NULL
  BY Handle DEF SInv, FInv, OneEach
<1>4. OpenOf(Only) = {}
  BY <1>3 DEF OpenOf
<1>5. Only = NULL
  BY <1>2 DEF Only
<1> QED
  BY <1>2, <1>4, <1>5 DEF Data, Position

LEMMA OneFile ==
  ASSUME SInv, NEW i \in Inodes, Used(i)
  PROVE  /\ inodes[i].id \in FileIds /\ Existing = {inodes[i].id}
         /\ Only = inodes[i].id /\ Only # NULL /\ LookupFile(Only) = i
<1> DEFINE id == inodes[i].id
<1>1. id \in FileIds /\ id # NULL
  BY DEF SInv, FInv, TypeOK, Inode, Used
<1>2. \A j \in Inodes : Used(j) => j = i
  BY DEF SInv
<1>3. LookupFile(id) # NULL
  BY Found
<1>4. LookupFile(id) = i
  <2>1. LookupFile(id) \in Inodes /\ inodes[LookupFile(id)].id = id
    BY <1>3, Found
  <2>2. Used(LookupFile(id))
    BY <1>1, <2>1 DEF Used
  <2> QED
    BY <1>2, <2>1, <2>2
<1>5. ASSUME NEW e \in FileIds, LookupFile(e) # NULL
      PROVE  e = id
  <2>1. LookupFile(e) \in Inodes /\ inodes[LookupFile(e)].id = e
    BY <1>5, Found
  <2>2. Used(LookupFile(e))
    BY <2>1, FSAssumption DEF Used
  <2> QED
    BY <1>2, <2>1, <2>2
<1>6. Existing = {id}
  BY <1>1, <1>3, <1>5 DEF Existing
<1> HIDE DEF id
<1>7. Only = id
  BY <1>6 DEF Only
<1> QED
  BY <1>1, <1>4, <1>6, <1>7 DEF id

LEMMA FileView ==
  ASSUME SInv, NEW i \in Inodes, Used(i)
  PROVE  Data = Prefix(inodes[i].file_size, FirstBlock(Only))
<1> DEFINE n == inodes[i].file_size
           b == FirstBlock(Only)
<1>1. n \in Nat /\ n <= BLOCK_SIZE
  BY CapacityNat DEF SInv, FInv, TypeOK, Inode
<1>2. Data = [k \in 1 .. n |-> b[(k - 1) % BLOCK_SIZE]]
  <2>1. Only # NULL /\ LookupFile(Only) = i /\ i # NULL
    BY OneFile, FSAssumption
  <2> QED
    BY <2>1 DEF Data, DataOf
<1> HIDE DEF n, b
<1>3. ASSUME NEW k \in 1 .. n
      PROVE  (k - 1) % BLOCK_SIZE = k - 1
  <2>1. k - 1 \in Nat /\ k - 1 < BLOCK_SIZE /\ BLOCK_SIZE \in Nat \ {0}
    BY <1>1, <1>3, FSAssumption
  <2> QED
    BY <2>1, SmallMod
<1>4. Data = Prefix(n, b)
  BY <1>2, <1>3 DEF Prefix
<1> QED
  BY <1>4 DEF n, b

LEMMA ClosedView ==
  ASSUME SInv, NEW i \in Inodes, Used(i), \A h \in Handles : file[h] = NULL
  PROVE  Data = Prefix(inodes[i].file_size, disk[0]) /\ Position = 0
<1>1. OpenOf(Only) = {}
  BY DEF OpenOf
<1>2. FirstBlock(Only) = disk[0]
  <2>1. LookupFile(Only) = i /\ inodes[i].data_blocks[0] = 0
    BY OneFile, Zeros DEF SInv, FInv
  <2> QED
    BY <1>1, <2>1 DEF FirstBlock
<1> QED
  BY <1>1, <1>2, FileView DEF Position

LEMMA OpenView ==
  ASSUME SInv, NEW h \in Handles, file[h] # NULL
  PROVE  Data = Prefix(InodeOf(h).file_size, file[h].cache) /\ Position = file[h].pos
<1>1. file[h].inode \in Inodes /\ Used(file[h].inode)
  BY Handle DEF SInv, FInv, OneEach
<1>2. Only = InodeOf(h).id
  BY <1>1, OneFile DEF InodeOf
<1>3. OpenOf(Only) = {h}
  BY <1>2, OneOpen DEF OpenOf
<1>4. (CHOOSE g \in OpenOf(Only) : TRUE) = h /\ OpenOf(Only) # {}
  BY <1>3
<1>5. FirstBlock(Only) = file[h].cache /\ Position = file[h].pos
  BY <1>4 DEF FirstBlock, Position
<1> QED
  BY <1>1, <1>5, FileView DEF InodeOf

\* The same of every state and of the next one.
LEMMA Views ==
  SInv =>
    /\ (\A i \in Inodes : ~ Used(i)) => Data = <<>> /\ Position = 0
    /\ (\A h \in Handles : file[h] = NULL) =>
         \A i \in Inodes : Used(i) =>
           Data = Prefix(inodes[i].file_size, disk[0]) /\ Position = 0
    /\ \A h \in Handles : file[h] # NULL =>
         Data = Prefix(inodes[file[h].inode].file_size, file[h].cache)
         /\ Position = file[h].pos
BY NoFileView, ClosedView, OpenView DEF InodeOf

LEMMA ViewsNext ==
  ( SInv =>
    /\ (\A i \in Inodes : ~ Used(i)) => Data = <<>> /\ Position = 0
    /\ (\A h \in Handles : file[h] = NULL) =>
         \A i \in Inodes : Used(i) =>
           Data = Prefix(inodes[i].file_size, disk[0]) /\ Position = 0
    /\ \A h \in Handles : file[h] # NULL =>
         Data = Prefix(inodes[file[h].inode].file_size, file[h].cache)
         /\ Position = file[h].pos )'
BY Views, PTL

LEMMA PrefixSequence ==
  ASSUME NEW n \in 0 .. BLOCK_SIZE, NEW b \in Block
  PROVE  /\ Prefix(n, b) \in Seq(Bytes) /\ Len(Prefix(n, b)) = n
         /\ \A k \in 1 .. n : Prefix(n, b)[k] = b[k - 1]
<1>1. n \in Nat /\ BLOCK_SIZE \in Nat /\ n <= BLOCK_SIZE
  BY FSAssumption
<1>2. \A k \in 1 .. n : b[k - 1] \in Bytes
  BY <1>1 DEF Block, Offsets
<1>3. Prefix(n, b) \in [1 .. n -> Bytes]
  BY <1>2 DEF Prefix
<1> QED
  BY <1>1, <1>3 DEF Prefix

\* What a memcpy of k bytes from offset p copies.
CopyOf(b, p, k) == [i \in 1 .. k |-> b[p + i - 1]]

\* Bytes read from the cache are those the sequence has at the position.
LEMMA ReadSequence ==
  ASSUME NEW n \in 0 .. BLOCK_SIZE, NEW b \in Block, NEW p \in Nat, NEW k \in Nat, p + k <= n
  PROVE  CopyOf(b, p, k) = SubSeq(Prefix(n, b), p + 1, p + k)
<1> DEFINE D == Prefix(n, b)
           R == CopyOf(b, p, k)
           T == SubSeq(D, p + 1, p + k)
<1>1. D \in Seq(Bytes) /\ Len(D) = n /\ \A i \in 1 .. n : D[i] = b[i - 1]
  BY PrefixSequence
<1>2. n \in Nat /\ p + 1 \in Int /\ p + k \in Int
  BY FSAssumption
<1> HIDE DEF D
<1>3. \A i \in 1 .. n : D[i] \in Bytes
  BY <1>1, ElementOfSeq
<1>4. \A i \in p + 1 .. p + k : i \in 1 .. n
  BY <1>2
<1>5. \A i \in p + 1 .. p + k : D[i] \in Bytes
  BY <1>3, <1>4
<1>6. /\ T \in Seq(Bytes)
      /\ Len(T) = IF p + 1 <= p + k THEN (p + k) - (p + 1) + 1 ELSE 0
      /\ \A i \in 1 .. (p + k) - (p + 1) + 1 : T[i] = D[(p + 1) + i - 1]
  BY <1>2, <1>5, SubSeqProperties
<1> HIDE DEF T
<1>7. Len(T) = k
  BY <1>6
<1>8. \A i \in 1 .. k : T[i] = D[p + i]
  BY <1>6
<1>9. \A i \in 1 .. k : D[p + i] = b[p + i - 1] /\ p + i \in 1 .. n
  BY <1>1, <1>2
<1>10. \A i \in 1 .. k : R[i] = T[i]
  BY <1>8, <1>9 DEF CopyOf
<1>11. \A i \in 1 .. k : R[i] \in Bytes
  BY <1>3, <1>9 DEF CopyOf
<1>12. R \in Seq(Bytes) /\ Len(R) = k
  <2>1. R \in [1 .. k -> Bytes]
    BY <1>11 DEF CopyOf
  <2> HIDE DEF R
  <2> QED
    BY <2>1
<1> HIDE DEF R
<1>13. R = T
  BY <1>6, <1>7, <1>10, <1>12, SeqEqual
<1> QED
  BY <1>13 DEF R, T, D

\* A block with k bytes of buf copied to offset p, and the size of the file then.
Overwritten(b, p, k, buf) ==
  [i \in Offsets |-> IF i \in p .. p + k - 1 THEN buf[i - p + 1] ELSE b[i]]
Longer(m, n) == IF m > n THEN m ELSE n

\* The part of buf that fits replaces what follows the position, in the block
\* as in the sequence.
LEMMA WriteSequence ==
  ASSUME NEW n \in 0 .. BLOCK_SIZE, NEW b \in Block, NEW p \in 0 .. n,
         NEW buf \in Seq(Bytes), NEW k \in 0 .. Len(buf), p + k <= BLOCK_SIZE,
         Overwritten(b, p, k, buf) \in Block
  PROVE  Prefix(Longer(p + k, n), Overwritten(b, p, k, buf)) =
                        SubSeq(Prefix(n, b), 1, p) \o SubSeq(buf, 1, k)
                          \o SubSeq(Prefix(n, b), p + k + 1, Len(Prefix(n, b)))
<1> DEFINE c == Overwritten(b, p, k, buf)
           m == Longer(p + k, n)
<1>c. /\ c \in Block
      /\ \A i \in Offsets : c[i] = IF i \in p .. p + k - 1 THEN buf[i - p + 1] ELSE b[i]
  BY DEF Overwritten
<1>m. m = IF p + k > n THEN p + k ELSE n
  BY DEF Longer
<1> HIDE DEF c, m
<1> DEFINE D == Prefix(n, b)
           C == Prefix(m, c)
           X == SubSeq(D, 1, p)
           Y == SubSeq(buf, 1, k)
           Z == SubSeq(D, p + k + 1, n)
           XY == X \o Y
           W == XY \o Z
<1>1. /\ n \in Nat /\ p \in Nat /\ k \in Nat /\ p <= n /\ BLOCK_SIZE \in Nat
      /\ n <= BLOCK_SIZE /\ Len(buf) \in Nat /\ k <= Len(buf)
  BY FSAssumption
<1>2. m \in 0 .. BLOCK_SIZE /\ m \in Nat /\ p + k <= m /\ n <= m
  BY <1>1, <1>m
<1>3. D \in Seq(Bytes) /\ Len(D) = n /\ \A i \in 1 .. n : D[i] = b[i - 1]
  BY PrefixSequence
<1>4. C \in Seq(Bytes) /\ Len(C) = m /\ \A i \in 1 .. m : C[i] = c[i - 1]
  BY <1>2, <1>c, PrefixSequence
<1> HIDE DEF C, D
<1>5. \A i \in 1 .. n : D[i] \in Bytes
  BY <1>3, ElementOfSeq
<1>6. X \in Seq(Bytes) /\ Len(X) = p /\ \A i \in 1 .. p : X[i] = D[i]
  <2>1. \A i \in 1 .. p : D[i] \in Bytes
    BY <1>1, <1>5
  <2>2. /\ X \in Seq(Bytes)
        /\ Len(X) = IF 1 <= p THEN p - 1 + 1 ELSE 0
        /\ \A i \in 1 .. p - 1 + 1 : X[i] = D[1 + i - 1]
    BY <1>1, <2>1, SubSeqProperties
  <2> HIDE DEF X
  <2> QED
    BY <1>1, <2>2
<1>7. Y \in Seq(Bytes) /\ Len(Y) = k /\ \A i \in 1 .. k : Y[i] = buf[i]
  <2>1. \A i \in 1 .. k : buf[i] \in Bytes
    BY <1>1, ElementOfSeq
  <2>2. /\ Y \in Seq(Bytes)
        /\ Len(Y) = IF 1 <= k THEN k - 1 + 1 ELSE 0
        /\ \A i \in 1 .. k - 1 + 1 : Y[i] = buf[1 + i - 1]
    BY <1>1, <2>1, SubSeqProperties
  <2> HIDE DEF Y
  <2> QED
    BY <1>1, <2>2
<1>8. /\ Z \in Seq(Bytes) /\ Len(Z) = m - (p + k)
      /\ \A i \in 1 .. m - (p + k) : Z[i] = D[p + k + i]
  <2>1. \A i \in p + k + 1 .. n : D[i] \in Bytes
    BY <1>1, <1>5
  <2>2. p + k + 1 \in Int /\ n \in Int
    BY <1>1
  <2>3. /\ Z \in Seq(Bytes)
        /\ Len(Z) = IF p + k + 1 <= n THEN n - (p + k + 1) + 1 ELSE 0
        /\ \A i \in 1 .. n - (p + k + 1) + 1 : Z[i] = D[(p + k + 1) + i - 1]
    BY <2>1, <2>2, SubSeqProperties
  <2> HIDE DEF Z
  <2>4. CASE p + k > n
    BY <1>1, <1>m, <2>3, <2>4
  <2>5. CASE ~ (p + k > n)
    <3>1. m = n /\ p + k <= n
      BY <1>1, <1>m, <2>5
    <3> QED
      BY <1>1, <2>3, <3>1
  <2> QED
    BY <2>4, <2>5
<1> HIDE DEF X, Y, Z
<1>9. /\ XY \in Seq(Bytes) /\ Len(XY) = p + k
      /\ \A i \in 1 .. p + k : XY[i] = IF i <= p THEN X[i] ELSE Y[i - p]
  BY <1>6, <1>7, ConcatProperties
<1> HIDE DEF XY
<1>10. /\ W \in Seq(Bytes) /\ Len(W) = m
       /\ \A i \in 1 .. m : W[i] = IF i <= p + k THEN XY[i] ELSE Z[i - (p + k)]
  <2>1. /\ W \in Seq(Bytes) /\ Len(W) = Len(XY) + Len(Z)
        /\ \A i \in 1 .. Len(XY) + Len(Z) : W[i] = IF i <= Len(XY) THEN XY[i] ELSE Z[i - Len(XY)]
    BY <1>8, <1>9, ConcatProperties
  <2>2. Len(XY) + Len(Z) = m
    BY <1>1, <1>2, <1>8, <1>9
  <2> QED
    BY <1>9, <2>1, <2>2
<1> HIDE DEF W
<1>11. ASSUME NEW i \in 1 .. m
       PROVE  C[i] = W[i]
  <2>1. C[i] = c[i - 1] /\ i - 1 \in Offsets /\ i \in Nat
    BY <1>1, <1>2, <1>4 DEF Offsets
  <2>2. CASE i <= p
    <3>1. c[i - 1] = b[i - 1]
      BY <1>1, <1>c, <2>1, <2>2
    <3>2. W[i] = XY[i] /\ XY[i] = X[i] /\ X[i] = D[i] /\ D[i] = b[i - 1]
      BY <1>1, <1>3, <1>6, <1>9, <1>10, <2>2
    <3> QED
      BY <2>1, <3>1, <3>2
  <2>3. CASE i > p /\ i <= p + k
    <3>1. c[i - 1] = buf[(i - 1) - p + 1] /\ (i - 1) - p + 1 = i - p
      BY <1>1, <1>c, <2>1, <2>3
    <3>2. W[i] = XY[i] /\ XY[i] = Y[i - p] /\ Y[i - p] = buf[i - p]
      BY <1>1, <1>7, <1>9, <1>10, <2>3
    <3> QED
      BY <2>1, <3>1, <3>2
  <2>4. CASE i > p + k
    <3>1. c[i - 1] = b[i - 1]
      BY <1>1, <1>c, <2>1, <2>4
    <3>2. m = n
      BY <1>1, <1>2, <1>m, <2>4
    <3>3. W[i] = Z[i - (p + k)]
      BY <1>1, <1>10, <2>4
    <3>4. Z[i - (p + k)] = D[p + k + (i - (p + k))] /\ p + k + (i - (p + k)) = i
      BY <1>1, <1>2, <1>8, <2>4
    <3>5. D[i] = b[i - 1]
      BY <1>3, <3>2
    <3> QED
      BY <2>1, <3>1, <3>3, <3>4, <3>5
  <2> QED
    BY <1>1, <2>2, <2>3, <2>4
<1>12. C = W
  BY <1>4, <1>10, <1>11, SeqEqual
<1> QED
  BY <1>3, <1>12 DEF C, D, X, Y, Z, XY, W, c, m

\* With no file there is nothing to read before the step nor after it.
LEMMA EmptyStep ==
  ASSUME SInv, SInv', \A i \in Inodes : ~ Used(i), \A i \in Inodes : ~ Used(i)'
  PROVE  Data' = Data /\ Position' = Position
<1>1. Data = <<>> /\ Position = 0
  BY Views
<1>2. Data' = <<>> /\ Position' = 0
  BY ViewsNext
<1> QED
  BY <1>1, <1>2

LEMMA SetUpSees == ASSUME SInv, FInv', Format \/ Mount
                   PROVE  SInv' /\ Data' = Data /\ Position' = Position /\ result' = result
<1>1. \A i \in Inodes : ~ Used(i)
  BY DEF SInv, FInv, OneEach, Format, Mount
<1>2. \A h \in Handles : file[h] = NULL
  BY DEF SInv, FInv, OneEach, Format, Mount
<1>3. file' = file /\ result' = result
  BY DEF Format, Mount
<1>4. \A i \in Inodes : inodes'[i] = inodes[i] \/ inodes'[i] = NewInode(NULL)
  BY DEF Format, Mount
<1>5. \A i \in Inodes : ~ Used(i)'
  BY <1>1, <1>4 DEF Used, NewInode
<1>6. \A i \in Inodes : inodes'[i].file_size <= BLOCK_SIZE
  BY <1>4, FSAssumption DEF SInv, NewInode
<1>7. SInv'
  BY <1>2, <1>3, <1>5, <1>6 DEF SInv
<1> QED
  BY <1>1, <1>3, <1>5, <1>7, EmptyStep

LEMMA CreateSees ==
  ASSUME SInv, FInv', OneBlock, NEW id \in FileIds,
         Cardinality(Existing) < MaxFiles, CreateFile(id)
  PROVE  SInv' /\ Data' = Data /\ Position' = Position /\ result' = result
<1> DEFINE n == GetFreeInode
<1>1. ASSUME NEW i \in Inodes, Used(i)
      PROVE  FALSE
  <2>1. Existing = {inodes[i].id}
    BY <1>1, OneFile
  <2>2. Cardinality(Existing) = 1
    BY <2>1, FS_Singleton
  <2> QED
    BY <2>2 DEF OneBlock
<1>2. \A h \in Handles : file[h] = NULL
  BY <1>1, Handle DEF SInv, FInv, OneEach
<1>3. n \in Inodes
  BY Found DEF CreateFile, GetFreeInode
<1>4. /\ file' = file /\ result' = result
      /\ inodes' = [inodes EXCEPT ![n] = NewInode(id)]
  BY DEF CreateFile
<1> HIDE DEF n
<1>5. /\ inodes'[n].id = id /\ inodes'[n].file_size = 0
      /\ \A i \in Inodes \ {n} : inodes'[i] = inodes[i]
  BY <1>3, <1>4 DEF SInv, FInv, TypeOK, NewInode
<1>6. \A i \in Inodes : Used(i)' => i = n
  BY <1>1, <1>5 DEF Used
<1>7. \A i \in Inodes : inodes'[i].file_size <= BLOCK_SIZE
  BY <1>5, FSAssumption DEF SInv
<1>8. SInv'
  BY <1>2, <1>4, <1>6, <1>7 DEF SInv
<1>9. Data = <<>> /\ Position = 0
  BY <1>1, Views
<1>10. PICK i \in Inodes : i = n
  BY <1>3
<1>11. Data' = Prefix(0, disk'[0]) /\ Position' = 0
  <2>1. Used(i)'
    BY <1>5, <1>10, FSAssumption DEF Used
  <2> QED
    BY <1>2, <1>4, <1>5, <1>8, <1>10, <2>1, ViewsNext
<1>12. Prefix(0, disk'[0]) = <<>>
  BY DEF Prefix
<1> QED
  BY <1>4, <1>8, <1>9, <1>11, <1>12

LEMMA DeleteSees ==
  ASSUME SInv, FInv', NEW id \in FileIds, OpenOf(id) = {}, DeleteFile(id)
  PROVE  SInv' /\ Data' = <<>> /\ Position' = 0 /\ result' = result
<1> DEFINE n == LookupFile(id)
<1>1. n \in Inodes /\ Used(n)
  BY Found, FSAssumption DEF DeleteFile, Used
<1>2. /\ disk' = disk /\ file' = file /\ result' = result
      /\ inodes' = [inodes EXCEPT ![n].id = NULL]
  BY DEF DeleteFile
<1> HIDE DEF n
<1>3. /\ inodes'[n].id = NULL /\ inodes'[n].file_size = inodes[n].file_size
      /\ \A i \in Inodes \ {n} : inodes'[i] = inodes[i]
  BY <1>1, <1>2 DEF SInv, FInv, TypeOK, Inode
<1>4. \A i \in Inodes : ~ Used(i)'
  BY <1>1, <1>3 DEF SInv, Used
<1>5. \A i \in Inodes : inodes'[i].file_size <= BLOCK_SIZE
  BY <1>3 DEF SInv
<1>6. SInv'
  BY <1>2, <1>4, <1>5 DEF SInv
<1> QED
  BY <1>2, <1>4, <1>6, ViewsNext

LEMMA OpenSees ==
  ASSUME SInv, FInv', NEW id \in FileIds, NEW h \in Handles, OpenOf(id) = {}, Open(h, id)
  PROVE  SInv' /\ Data' = Data /\ Position' = Position /\ result' = result
<1> DEFINE i == LookupFile(id)
           f == [inode |-> i, pos |-> 0, dirty |-> FALSE, eof |-> FALSE,
                 cache |-> ReadBlock(inodes[i].data_blocks[0])]
<1>1. i \in Inodes /\ inodes[i].id = id /\ Used(i)
  BY Found, FSAssumption DEF Open, Used
<1>2. /\ disk' = disk /\ inodes' = inodes /\ result' = result
      /\ file' = [file EXCEPT ![h] = f]
  BY DEF Open
<1>3. f.cache = disk[0] /\ f.inode = i /\ f.pos = 0
  <2>1. inodes[i].data_blocks[0] = 0
    BY <1>1, Zeros DEF SInv, FInv
  <2> QED
    BY <2>1 DEF ReadBlock
<1>4. \A g \in Handles : file[g] = NULL
  <2> SUFFICES ASSUME NEW g \in Handles, file[g] # NULL
               PROVE  FALSE
    OBVIOUS
  <2>1. file[g].inode \in Inodes /\ Used(file[g].inode)
    BY Handle DEF SInv, FInv, OneEach
  <2>2. file[g].inode = i
    BY <1>1, <2>1 DEF SInv
  <2> QED
    BY <1>1, <2>2 DEF OpenOf, InodeOf
<1> HIDE DEF f, i
<1>5. /\ file'[h] = f
      /\ \A g \in Handles \ {h} : file'[g] = NULL
  BY <1>2, <1>4 DEF SInv, FInv, TypeOK
<1>6. SInv'
  BY <1>2, <1>3, <1>5 DEF SInv, Used
<1>7. Data = Prefix(inodes[i].file_size, disk[0]) /\ Position = 0
  BY <1>1, <1>4, Views
<1>8. f # NULL
  <2>1. ReadBlock(inodes[i].data_blocks[0]) \in Block
    BY <1>1, Zeros, FSAssumption DEF ReadBlock, SInv, FInv, TypeOK
  <2>2. f \in File
    BY <1>1, <2>1 DEF File, f
  <2> QED
    BY <2>2, FSAssumption
<1>9. Data' = Prefix(inodes'[f.inode].file_size, f.cache) /\ Position' = f.pos
  BY <1>5, <1>6, <1>8, ViewsNext
<1> QED
  BY <1>2, <1>3, <1>6, <1>7, <1>9

LEMMA CloseSees ==
  ASSUME SInv, FInv', NEW h \in Handles, Close(h)
  PROVE  SInv' /\ Data' = Data /\ Position' = 0 /\ result' = result
<1>1. /\ file[h] # NULL /\ inodes' = inodes /\ result' = result
      /\ file' = [file EXCEPT ![h] = NULL]
  BY DEF Close
<1>2. PICK i \in Inodes : i = file[h].inode /\ Used(i) /\ inodes[i].data_blocks[0] = 0
  BY <1>1, Handle, Zeros DEF SInv, FInv, OneEach
<1>3. disk'[0] = file[h].cache
  <2>1. CASE file[h].dirty
    <3>1. disk' = [disk EXCEPT ![0] = file[h].cache]
      BY <1>2, <2>1 DEF Close, WriteBlock, InodeOf
    <3> QED
      BY <3>1, FSAssumption DEF SInv, FInv, TypeOK
  <2>2. CASE ~ file[h].dirty
    BY <1>1, <2>2 DEF Close, SInv
  <2> QED
    BY <2>1, <2>2
<1>4. \A g \in Handles : file'[g] = NULL
  BY <1>1, OneOpen DEF SInv, FInv, TypeOK
<1>5. SInv'
  BY <1>1, <1>4 DEF SInv, Used
<1>6. Data = Prefix(inodes[i].file_size, file[h].cache)
  BY <1>1, <1>2, Views
<1>7. Used(i)'
  BY <1>1, <1>2 DEF Used
<1>8. Data' = Prefix(inodes'[i].file_size, disk'[0]) /\ Position' = 0
  BY <1>2, <1>4, <1>5, <1>7, ViewsNext
<1> QED
  BY <1>1, <1>3, <1>5, <1>6, <1>8

\* A change of the open File object and of the size of its inode.
LEMMA HandleSees ==
  ASSUME SInv, FInv', NEW h \in Handles, file[h] # NULL, NEW f \in File,
         NEW n \in 0 .. BLOCK_SIZE,
         f.inode = file[h].inode,
         file' = [file EXCEPT ![h] = f],
         inodes' = [inodes EXCEPT ![f.inode].file_size = n],
         ~ f.dirty => f.cache = disk'[0]
  PROVE  SInv' /\ Data' = Prefix(n, f.cache) /\ Position' = f.pos
<1> DEFINE i == f.inode
<1>1. i \in Inodes
  BY Handle DEF SInv
<1>2. /\ inodes'[i].id = inodes[i].id /\ inodes'[i].file_size = n
      /\ \A j \in Inodes \ {i} : inodes'[j] = inodes[j]
  BY <1>1 DEF SInv, FInv, TypeOK, Inode
<1>3. file'[h] = f /\ \A g \in Handles \ {h} : file'[g] = NULL
  BY OneOpen DEF SInv, FInv, TypeOK
<1>4. f # NULL
  BY FSAssumption
<1> HIDE DEF i
<1>5. \A j \in Inodes : Used(j)' => Used(j)
  BY <1>2 DEF Used
<1>6. \A j \in Inodes : inodes'[j].file_size <= BLOCK_SIZE
  <2>1. n <= BLOCK_SIZE
    BY FSAssumption
  <2> QED
    BY <1>2, <2>1 DEF SInv
<1>7. SInv'
  BY <1>3, <1>5, <1>6 DEF SInv
<1>8. Data' = Prefix(inodes'[f.inode].file_size, f.cache) /\ Position' = f.pos
  BY <1>3, <1>4, <1>7, ViewsNext
<1> QED
  BY <1>2, <1>7, <1>8 DEF i

\* The open File object h in terms of the sequence.
LEMMA OpenFile ==
  ASSUME SInv, NEW h \in Handles, file[h] # NULL
  PROVE  /\ file[h] \in File /\ file[h].cache \in Block /\ file[h].pos \in Nat
         /\ InodeOf(h).file_size \in 0 .. BLOCK_SIZE
         /\ file[h].pos <= InodeOf(h).file_size
         /\ Data = Prefix(InodeOf(h).file_size, file[h].cache) /\ Position = file[h].pos
         /\ Data \in Seq(Bytes) /\ Len(Data) = InodeOf(h).file_size
         /\ inodes = [inodes EXCEPT ![file[h].inode].file_size = InodeOf(h).file_size]
         /\ ~ file[h].dirty => file[h].cache = disk[0]
<1>1. /\ file[h] \in File /\ file[h].inode \in Inodes /\ file[h].cache \in Block
      /\ file[h].pos \in Nat /\ InodeOf(h).file_size \in 0 .. Capacity
      /\ file[h].pos <= InodeOf(h).file_size
      /\ inodes = [inodes EXCEPT ![file[h].inode].file_size = InodeOf(h).file_size]
  BY Handle DEF SInv
<1>2. InodeOf(h).file_size \in 0 .. BLOCK_SIZE
  <2>1. InodeOf(h).file_size <= BLOCK_SIZE
    BY <1>1 DEF SInv, InodeOf
  <2> QED
    BY <1>1, <2>1, CapacityNat, FSAssumption
<1>3. Data = Prefix(InodeOf(h).file_size, file[h].cache) /\ Position = file[h].pos
  BY Views DEF InodeOf
<1>4. Data \in Seq(Bytes) /\ Len(Data) = InodeOf(h).file_size
  BY <1>1, <1>2, <1>3, PrefixSequence
<1> QED
  BY <1>1, <1>2, <1>3, <1>4 DEF SInv

LEMMA ResetSees ==
  ASSUME SInv, FInv', NEW h \in Handles, Reset(h)
  PROVE  SInv' /\ Data' = Data /\ Position' = 0 /\ result' = result
<1> DEFINE f == [file[h] EXCEPT !.pos = 0, !.eof = FALSE]
           n == InodeOf(h).file_size
<1>1. /\ file[h] # NULL /\ disk' = disk /\ inodes' = inodes /\ result' = result
      /\ file' = [file EXCEPT ![h] = f]
  BY DEF Reset
<1>2. /\ f \in File /\ f.inode = file[h].inode /\ f.pos = 0
      /\ f.cache = file[h].cache /\ f.dirty = file[h].dirty
  BY <1>1, OpenFile DEF File
<1> HIDE DEF f, n
<1>3. /\ n \in 0 .. BLOCK_SIZE /\ Data = Prefix(n, f.cache)
      /\ inodes' = [inodes EXCEPT ![f.inode].file_size = n]
      /\ ~ f.dirty => f.cache = disk'[0]
  BY <1>1, <1>2, OpenFile DEF n
<1>4. SInv' /\ Data' = Prefix(n, f.cache) /\ Position' = f.pos
  BY <1>1, <1>2, <1>3, HandleSees
<1> QED
  BY <1>1, <1>2, <1>3, <1>4

LEMMA ReadAtEndSees ==
  ASSUME SInv, FInv', NEW h \in Handles, ReadAtEnd(h)
  PROVE  /\ SInv' /\ Data' = Data /\ Position' = Position /\ result' = <<>>
         /\ Position \in Nat /\ Len(Data) = Position
<1> DEFINE f == [file[h] EXCEPT !.eof = TRUE]
           n == InodeOf(h).file_size
<1>1. /\ file[h] # NULL /\ disk' = disk /\ inodes' = inodes /\ result' = <<>>
      /\ file' = [file EXCEPT ![h] = f]
      /\ file[h].pos >= n
  BY DEF ReadAtEnd
<1>2. /\ f \in File /\ f.inode = file[h].inode /\ f.pos = file[h].pos
      /\ f.cache = file[h].cache /\ f.dirty = file[h].dirty
  BY <1>1, OpenFile DEF File
<1> HIDE DEF f, n
<1>3. /\ n \in 0 .. BLOCK_SIZE /\ Data = Prefix(n, f.cache) /\ Position = f.pos
      /\ inodes' = [inodes EXCEPT ![f.inode].file_size = n]
      /\ ~ f.dirty => f.cache = disk'[0]
  BY <1>1, <1>2, OpenFile DEF n
<1>4. SInv' /\ Data' = Prefix(n, f.cache) /\ Position' = f.pos
  BY <1>1, <1>2, <1>3, HandleSees
<1>5. file[h].pos \in Nat /\ file[h].pos <= n /\ Len(Data) = n /\ n \in Nat
  <2>1. file[h].pos \in Nat /\ file[h].pos <= n /\ Len(Data) = n
    BY <1>1, OpenFile DEF n
  <2> QED
    BY <1>3, <2>1, FSAssumption
<1> QED
  BY <1>1, <1>2, <1>3, <1>4, <1>5

\* Never to the end of the block with more to read: no block is loaded.
LEMMA ReadSees ==
  ASSUME SInv, FInv', NEW h \in Handles, NEW n \in 1 .. BLOCK_SIZE, Read(h, n)
  PROVE  \E k \in Nat :
           /\ SInv' /\ Data' = Data /\ Position' = Position + k
           /\ Position \in Nat /\ Len(Data) \in Nat
           /\ k = Least(n, Len(Data) - Position)
           /\ result' = SubSeq(Data, Position + 1, Position + k)
<1> DEFINE f == file[h]
           size == InodeOf(h).file_size
           o == f.pos % BLOCK_SIZE
           k == Least(n, size - f.pos)
           pos == f.pos + k
           reload == pos % BLOCK_SIZE = 0 /\ pos < size
           g == [f EXCEPT !.pos = pos]
<1>1. /\ file[h] # NULL /\ f.pos < size /\ disk' = disk /\ inodes' = inodes
      /\ result' = [i \in 1 .. k |-> f.cache[o + i - 1]]
  BY DEF Read
<1>2. ~ reload => file' = [file EXCEPT ![h] = g]
  BY DEF Read
<1>3. BLOCK_SIZE \in Nat \ {0}
  BY FSAssumption
<1>4. /\ f \in File /\ f.cache \in Block /\ f.pos \in Nat
      /\ size \in 0 .. BLOCK_SIZE /\ Data = Prefix(size, f.cache)
      /\ Position = f.pos /\ Len(Data) = size
      /\ inodes = [inodes EXCEPT ![f.inode].file_size = size]
      /\ ~ f.dirty => f.cache = disk[0]
  BY <1>1, OpenFile
<1> HIDE DEF f, size
<1>5. k \in Nat /\ k >= 1 /\ k <= size - f.pos
  <2>1. size - f.pos \in Nat /\ size - f.pos >= 1 /\ n \in Nat /\ n >= 1
    BY <1>1, <1>3, <1>4
  <2> QED
    BY <2>1, LeastOf
<1>6. o = f.pos
  <2>1. f.pos < BLOCK_SIZE
    BY <1>1, <1>3, <1>4
  <2> QED
    BY <1>3, <1>4, <2>1, SmallMod
<1> HIDE DEF o, k
<1>7. pos \in Nat /\ pos >= 1 /\ pos <= size
  BY <1>3, <1>4, <1>5
<1> HIDE DEF pos
<1>8. ~ reload
  <2> SUFFICES ASSUME pos < size
               PROVE  pos % BLOCK_SIZE # 0
    OBVIOUS
  <2>1. pos < BLOCK_SIZE
    BY <1>3, <1>4, <1>7
  <2>2. pos % BLOCK_SIZE = pos
    BY <1>3, <1>7, <2>1, SmallMod
  <2> QED
    BY <1>7, <2>2
<1>9. g \in File /\ g.inode = f.inode /\ g.pos = pos /\ g.cache = f.cache /\ g.dirty = f.dirty
  BY <1>4, <1>7 DEF File
<1>10. file' = [file EXCEPT ![h] = g]
  BY <1>2, <1>8
<1> HIDE DEF g, reload
<1>11. SInv' /\ Data' = Prefix(size, g.cache) /\ Position' = g.pos
  <2>1. /\ g.inode = file[h].inode
        /\ inodes' = [inodes EXCEPT ![g.inode].file_size = size]
        /\ ~ g.dirty => g.cache = disk'[0]
    BY <1>1, <1>4, <1>9 DEF f
  <2> QED
    BY <1>1, <1>4, <1>9, <1>10, <2>1, HandleSees
<1>12. result' = SubSeq(Data, Position + 1, Position + k)
  <2>1. f.pos + k <= size
    BY <1>7 DEF pos
  <2>2. CopyOf(f.cache, f.pos, k) = SubSeq(Prefix(size, f.cache), f.pos + 1, f.pos + k)
    BY <1>4, <1>5, <2>1, ReadSequence
  <2>3. result' = CopyOf(f.cache, f.pos, k)
    BY <1>1, <1>6 DEF CopyOf
  <2> QED
    BY <1>4, <2>2, <2>3
<1>13. Data' = Data /\ Position' = Position + k
  BY <1>4, <1>9, <1>11 DEF pos
<1>14. k = Least(n, Len(Data) - Position) /\ Position \in Nat /\ Len(Data) \in Nat
  BY <1>3, <1>4 DEF k
<1> QED
  BY <1>5, <1>11, <1>12, <1>13, <1>14

LEMMA WriteSees ==
  ASSUME SInv, FInv', OneBlock, NEW h \in Handles, NEW n \in 1 .. BLOCK_SIZE,
         NEW buf \in [1 .. n -> Bytes], Write(h, buf)
  PROVE  \E k \in Nat :
           /\ SInv' /\ Position' = Position + k /\ result' = result
           /\ k = Least(Len(buf), BLOCK_SIZE - Position)
           /\ Data' = SubSeq(Data, 1, Position) \o SubSeq(buf, 1, k)
                        \o SubSeq(Data, Position + k + 1, Len(Data))
<1> DEFINE f == file[h]
           o == f.pos % BLOCK_SIZE
           k == Least(Len(buf), BLOCK_SIZE - o)
           pos == f.pos + k
           cache == [i \in Offsets |->
                       IF i \in o .. o + k - 1 THEN buf[i - o + 1] ELSE f.cache[i]]
           full == pos % BLOCK_SIZE = 0
           size == InodeOf(h).file_size
           m == IF pos > size THEN pos ELSE size
           g == [f EXCEPT !.pos = pos, !.cache = cache, !.dirty = ~ full]
           b == (pos \div BLOCK_SIZE) - 1
<1>1. /\ file[h] # NULL /\ f.pos < MaxLength /\ result' = result
      /\ file' = [file EXCEPT ![h] = g]
      /\ inodes' = [inodes EXCEPT ![f.inode].file_size = m]
  BY DEF Write
<1>2. full => WriteBlock(InodeOf(h).data_blocks[b], cache)
  BY DEF Write
<1>3. /\ BLOCK_SIZE \in Nat \ {0} /\ MaxLength <= BLOCK_SIZE /\ MaxLength \in Nat
      /\ Capacity = 8 * BLOCK_SIZE
  BY FSAssumption DEF OneBlock, Capacity, FS_DIRECT_BLOCKS
<1>4. /\ f \in File /\ f.cache \in Block /\ f.pos \in Nat
      /\ size \in 0 .. BLOCK_SIZE /\ Data = Prefix(size, f.cache)
      /\ f.pos <= size /\ Position = f.pos /\ Len(Data) = size
  BY <1>1, OpenFile
<1>5. InodeOf(h).data_blocks = ZeroBlocks
  BY <1>1, Handle DEF SInv
<1>6. buf \in Seq(Bytes) /\ Len(buf) = n /\ n \in Nat /\ n >= 1
  BY <1>3
<1> HIDE DEF f, size
<1>7. o = f.pos /\ f.pos < BLOCK_SIZE
  <2>1. f.pos < BLOCK_SIZE
    BY <1>1, <1>3, <1>4
  <2> QED
    BY <1>3, <1>4, <2>1, SmallMod
<1> HIDE DEF o
<1>8. k \in Nat /\ k >= 1 /\ k <= n /\ k <= BLOCK_SIZE - f.pos
  <2>1. BLOCK_SIZE - o \in Nat /\ BLOCK_SIZE - o >= 1 /\ o = f.pos
    BY <1>3, <1>4, <1>7
  <2> QED
    BY <1>6, <2>1, LeastOf
<1>9. k = Least(Len(buf), BLOCK_SIZE - Position)
  BY <1>4, <1>7
<1> HIDE DEF k
<1>10. pos \in Nat \ {0} /\ pos <= BLOCK_SIZE /\ pos > f.pos
  BY <1>3, <1>4, <1>8
<1>11. /\ cache \in Block
       /\ \A i \in Offsets :
            cache[i] = IF i \in f.pos .. f.pos + k - 1 THEN buf[i - f.pos + 1] ELSE f.cache[i]
  <2> SUFFICES ASSUME NEW i \in Offsets
               PROVE  (IF i \in o .. o + k - 1 THEN buf[i - o + 1] ELSE f.cache[i]) \in Bytes
    BY <1>7 DEF Block
  <2>1. CASE i \in o .. o + k - 1
    <3>1. i - o + 1 \in 1 .. n
      BY <1>4, <1>6, <1>7, <1>8, <2>1
    <3> QED
      BY <2>1, <3>1
  <2>2. CASE ~ (i \in o .. o + k - 1)
    BY <1>4, <2>2 DEF Block
  <2> QED
    BY <2>1, <2>2
<1> HIDE DEF pos, cache
<1>12. full => cache = disk'[0]
  <2> SUFFICES ASSUME full
               PROVE  cache = disk'[0]
    OBVIOUS
  <2>1. pos <= Capacity
    BY <1>3, <1>10
  <2>2. b \in 0 .. FS_DIRECT_BLOCKS - 1
    BY <1>10, <2>1, FullBlock
  <2> HIDE DEF b
  <2>3. InodeOf(h).data_blocks[b] = 0
    BY <1>5, <2>2 DEF ZeroBlocks
  <2>4. disk' = [disk EXCEPT ![0] = cache]
    BY <1>2, <2>3 DEF WriteBlock
  <2> QED
    BY <2>4, FSAssumption DEF SInv, FInv, TypeOK
<1>13. m \in 0 .. BLOCK_SIZE
  BY <1>3, <1>4, <1>10
<1> HIDE DEF full
<1>14. /\ g \in File /\ g.inode = f.inode /\ g.pos = pos /\ g.cache = cache
       /\ g.dirty = ~ full
  BY <1>4, <1>10, <1>11 DEF File, full
<1> HIDE DEF g
<1>15. SInv' /\ Data' = Prefix(m, cache) /\ Position' = pos
  <2> HIDE DEF m
  <2>1. /\ g.inode = file[h].inode
        /\ inodes' = [inodes EXCEPT ![g.inode].file_size = m]
        /\ ~ g.dirty => g.cache = disk'[0]
    BY <1>1, <1>12, <1>14 DEF f
  <2>2. SInv' /\ Data' = Prefix(m, g.cache) /\ Position' = g.pos
    BY <1>1, <1>13, <1>14, <2>1, HandleSees
  <2> QED
    BY <1>14, <2>2
<1>16. Prefix(m, cache) = SubSeq(Data, 1, Position) \o SubSeq(buf, 1, k)
                            \o SubSeq(Data, Position + k + 1, Len(Data))
  <2>1. f.pos \in 0 .. size /\ k \in 0 .. Len(buf) /\ f.pos + k <= BLOCK_SIZE
    BY <1>3, <1>4, <1>6, <1>8
  <2>2. m = Longer(f.pos + k, size)
    BY DEF pos, Longer
  <2>3. cache = Overwritten(f.cache, f.pos, k, buf)
    BY <1>7 DEF cache, Overwritten
  <2>4. Overwritten(f.cache, f.pos, k, buf) \in Block
    BY <1>11, <2>3
  <2> HIDE DEF m
  <2>5. Prefix(Longer(f.pos + k, size), Overwritten(f.cache, f.pos, k, buf)) =
          SubSeq(Prefix(size, f.cache), 1, f.pos) \o SubSeq(buf, 1, k)
            \o SubSeq(Prefix(size, f.cache), f.pos + k + 1, Len(Prefix(size, f.cache)))
    BY <1>4, <1>6, <2>1, <2>4, WriteSequence
  <2> QED
    BY <1>4, <2>2, <2>3, <2>5
<1>17. Position' = Position + k
  BY <1>4, <1>15 DEF pos
<1> QED
  BY <1>1, <1>8, <1>9, <1>15, <1>16, <1>17

LEMMA InitSees == Init => SInv /\ Data = <<>> /\ Position = 0 /\ result = <<>>
<1> SUFFICES ASSUME Init
             PROVE  SInv /\ Data = <<>> /\ Position = 0 /\ result = <<>>
  OBVIOUS
<1>1. \A i \in Inodes : ~ Used(i) /\ inodes[i].file_size = 0
  BY DEF Init, Used, NewInode
<1>2. SInv
  BY <1>1, InitFInv, FSAssumption DEF SInv, Init
<1> QED
  BY <1>1, <1>2, Views DEF Init

\* The steps of the sequence a step of the program can be.
Stutter == Data' = Data /\ Position' = Position /\ result' = result

LEMMA StepSees ==
  ASSUME SInv, OneBlock, [Next]_vars
  PROVE  SInv' /\ (Stutter \/ Promise!Next)
<1>1. FInv'
  BY NextFInv DEF SInv
<1>2. CASE Format \/ Mount
  BY <1>1, <1>2, SetUpSees DEF Stutter
<1>3. ASSUME NEW id \in FileIds, Cardinality(Existing) < MaxFiles, CreateFile(id)
      PROVE  SInv' /\ (Stutter \/ Promise!Next)
  BY <1>1, <1>3, CreateSees DEF Stutter
<1>4. ASSUME NEW id \in FileIds, OpenOf(id) = {}, DeleteFile(id)
      PROVE  SInv' /\ (Stutter \/ Promise!Next)
  <2>1. SInv' /\ Data' = <<>> /\ Position' = 0 /\ result' = result
    BY <1>1, <1>4, DeleteSees
  <2>2. Promise!Delete
    BY <2>1 DEF Promise!Delete, Data
  <2> QED
    BY <2>1, <2>2 DEF Promise!Next
<1>5. ASSUME NEW id \in FileIds, OpenOf(id) = {}, NEW h \in Handles, Open(h, id)
      PROVE  SInv' /\ (Stutter \/ Promise!Next)
  BY <1>1, <1>5, OpenSees DEF Stutter
<1>6. ASSUME NEW h \in Handles, Close(h) \/ Reset(h)
      PROVE  SInv' /\ (Stutter \/ Promise!Next)
  <2>1. SInv' /\ Data' = Data /\ Position' = 0 /\ result' = result
    BY <1>1, <1>6, CloseSees, ResetSees
  <2>2. Promise!Rewind
    BY <2>1 DEF Promise!Rewind, Data
  <2> QED
    BY <2>1, <2>2 DEF Promise!Next
<1>7. ASSUME NEW h \in Handles, ReadAtEnd(h)
      PROVE  SInv' /\ (Stutter \/ Promise!Next)
  <2>1. /\ SInv' /\ Data' = Data /\ Position' = Position /\ result' = <<>>
        /\ Position \in Nat /\ Len(Data) = Position
    BY <1>1, <1>7, ReadAtEndSees
  <2>2. Promise!Read(1)
    <3> DEFINE k == Promise!Least(1, Len(Data) - Position)
    <3>1. k = 0
      BY <2>1 DEF Promise!Least
    <3>2. SubSeq(Data, Position + 1, Position + k) = <<>>
      BY <2>1, <3>1, SubSeqEmpty
    <3>3. Position' = Position + k
      BY <2>1, <3>1
    <3> QED
      BY <2>1, <3>2, <3>3 DEF Promise!Read, Data
  <2>3. 1 \in 1 .. BLOCK_SIZE
    BY FSAssumption
  <2> QED
    BY <2>1, <2>2, <2>3 DEF Promise!Next
<1>8. ASSUME NEW h \in Handles, NEW n \in 1 .. BLOCK_SIZE, Read(h, n)
      PROVE  SInv' /\ (Stutter \/ Promise!Next)
  <2>1. PICK k \in Nat :
           /\ SInv' /\ Data' = Data /\ Position' = Position + k
           /\ k = Least(n, Len(Data) - Position)
           /\ result' = SubSeq(Data, Position + 1, Position + k)
    BY <1>1, <1>8, ReadSees
  <2>2. Promise!Read(n)
    BY <2>1 DEF Promise!Read, Promise!Least, Least, Data
  <2> QED
    BY <2>1, <2>2 DEF Promise!Next
<1>9. ASSUME NEW h \in Handles, NEW n \in 1 .. BLOCK_SIZE, NEW buf \in [1 .. n -> Bytes],
             Write(h, buf)
      PROVE  SInv' /\ (Stutter \/ Promise!Next)
  <2>1. PICK k \in Nat :
           /\ SInv' /\ Position' = Position + k /\ result' = result
           /\ k = Least(Len(buf), BLOCK_SIZE - Position)
           /\ Data' = SubSeq(Data, 1, Position) \o SubSeq(buf, 1, k)
                        \o SubSeq(Data, Position + k + 1, Len(Data))
    BY <1>1, <1>9, WriteSees
  <2>2. Promise!Write(buf)
    BY <2>1 DEF Promise!Write, Promise!Least, Least, Data
  <2> QED
    BY <2>1, <2>2 DEF Promise!Next
<1>10. CASE vars' = vars
  <2>1. disk' = disk /\ phase' = phase /\ inodes' = inodes /\ file' = file /\ result' = result
    BY <1>10 DEF vars
  <2>2. SInv'
    BY <1>1, <2>1 DEF SInv, Used
  <2>3. Data' = Data /\ Position' = Position
    BY <2>1 DEF Data, Position, Only, DataOf, Existing, LookupFile, Matches, OpenOf,
                InodeOf, FirstBlock
  <2> QED
    BY <2>1, <2>2, <2>3 DEF Stutter
<1> QED
  BY <1>2, <1>3, <1>4, <1>5, <1>6, <1>7, <1>8, <1>9, <1>10 DEF Next, Program

(* With one file at a time, of at most one block, the file system keeps the *)
(* promise of file.H: creating, opening, reading, writing, resetting,       *)
(* closing and deleting implement SequentialFile, a sequence of bytes with  *)
(* a position that no close and open loses.  For any block size, number of  *)
(* inodes, names and File objects.                                          *)
THEOREM OneFileIsSafe == OneBlock => (Spec => FileSafe)
<1> SUFFICES ASSUME OneBlock
             PROVE  Spec => FileSafe
  OBVIOUS
<1>1. Init => SInv
  BY InitSees
<1>2. SInv /\ [Next]_vars => SInv'
  BY StepSees
<1>3. Init => Promise!Init
  BY InitSees DEF Promise!Init, Data
<1>4. SInv /\ [Next]_vars => [Promise!Next]_(Promise!vars)
  <2> SUFFICES ASSUME SInv, [Next]_vars
               PROVE  [Promise!Next]_(Promise!vars)
    OBVIOUS
  <2>1. Stutter \/ Promise!Next
    BY StepSees
  <2>2. Stutter => UNCHANGED Promise!vars
    BY DEF Stutter, Promise!vars, Data
  <2> QED
    BY <2>1, <2>2
<1> QED
  BY <1>1, <1>2, <1>3, <1>4, PTL DEF Spec, FileSafe, Promise!Spec
=============================================================================
