----------------------------- MODULE FileSystem -----------------------------
(* The file system of MP7: an inode list, files with a cache of one block, *)
(* a disk of blocks, and a program that creates, opens, reads, writes,     *)
(* closes and deletes files as exercise_file_system does.  A block is a    *)
(* function from offsets to bytes.                                         *)
EXTENDS Naturals, Sequences, FiniteSets

CONSTANTS BLOCK_SIZE, Blocks, \* blocks are numbered from 0
          Bytes, Empty,       \* Empty: the byte of a cleared block
          MAX_INODES, FileIds,
          Handles,            \* the File objects of the program
          MaxFiles,           \* bound: files that exist at a time
          MaxLength,          \* bound: the program writes below this position
          NULL

Offsets == 0 .. BLOCK_SIZE - 1
Block == [Offsets -> Bytes]
Inodes == 0 .. MAX_INODES - 1
FS_DIRECT_BLOCKS == 8

(* class File *)
File == [inode : Inodes, pos : Nat, dirty : BOOLEAN, eof : BOOLEAN, cache : Block]

ASSUME FSAssumption ==
    /\ BLOCK_SIZE \in Nat \ {0} /\ MAX_INODES \in Nat \ {0}
    /\ 0 \in Blocks /\ Blocks \subseteq Nat
    /\ Empty \in Bytes
    /\ NULL \notin FileIds /\ NULL \notin Inodes /\ NULL \notin File
    /\ MaxFiles \in Nat
    /\ MaxLength \in 0 .. FS_DIRECT_BLOCKS * BLOCK_SIZE

VARIABLES disk,    \* disk[b]: contents of block b
          phase,   \* "raw", "formatted" or "mounted"
          inodes,  \* FileSystem::inodes
          free_blocks,
          file,    \* file[h]: the File object h, or NULL
          result   \* what the last call of File::Read copied

vars == <<disk, phase, inodes, free_blocks, file, result>>

Least(m, n) == IF m < n THEN m ELSE n

(* Inode::Inode; an inode without file has the id NULL. *)
NewInode(id) ==
    [id |-> id, file_size |-> 0,
     data_blocks |-> [i \in 0 .. FS_DIRECT_BLOCKS - 1 |-> 0]]

Init ==
    /\ disk \in [Blocks -> Block]
    /\ phase = "raw"
    /\ inodes = [i \in Inodes |-> NewInode(NULL)]
    /\ free_blocks = [b \in Blocks |-> 0]
    /\ file = [h \in Handles |-> NULL]
    /\ result = <<>>

(* SimpleDisk::read and SimpleDisk::write, which wait for the controller.  *)
ReadBlock(b) == disk[b]
WriteBlock(b, cache) == disk' = [disk EXCEPT ![b] = cache]

(* FileSystem::Format writes memory it has not initialised to block 0.     *)
Format ==
    /\ phase = "raw" /\ phase' = "formatted"
    /\ \E list \in Block :
         disk' = [b \in Blocks |->
                    IF b = 0 THEN list ELSE [o \in Offsets |-> Empty]]
    /\ UNCHANGED <<inodes, free_blocks, file, result>>

(* FileSystem::Mount reads nothing from the disk. *)
Mount ==
    /\ phase = "formatted" /\ phase' = "mounted"
    /\ inodes' = [i \in Inodes |-> NewInode(NULL)]
    /\ free_blocks' = [b \in Blocks |-> 1]
    /\ UNCHANGED <<disk, file, result>>

Matches(id) == { i \in Inodes : inodes[i].id = id }
LookupFile(id) ==
    IF Matches(id) = {} THEN NULL
    ELSE CHOOSE i \in Matches(id) : \A j \in Matches(id) : i <= j
GetFreeInode == LookupFile(NULL)
Existing == { id \in FileIds : LookupFile(id) # NULL }

CreateFile(id) ==
    /\ phase = "mounted" /\ LookupFile(id) = NULL /\ GetFreeInode # NULL
    /\ inodes' = [inodes EXCEPT ![GetFreeInode] = NewInode(id)]
    /\ UNCHANGED <<disk, phase, free_blocks, file, result>>

DeleteFile(id) ==
    /\ phase = "mounted" /\ LookupFile(id) # NULL
    /\ inodes' = [inodes EXCEPT ![LookupFile(id)].id = NULL]
    /\ UNCHANGED <<disk, phase, free_blocks, file, result>>

InodeOf(h) == inodes[file[h].inode]

(* File::File *)
Open(h, id) ==
    /\ phase = "mounted" /\ file[h] = NULL /\ LookupFile(id) # NULL
    /\ LET i == LookupFile(id)
       IN  file' = [file EXCEPT ![h] =
             [inode |-> i, pos |-> 0, dirty |-> FALSE, eof |-> FALSE,
              cache |-> ReadBlock(inodes[i].data_blocks[0])]]
    /\ UNCHANGED <<disk, phase, inodes, free_blocks, result>>

(* Seeded bug: the cache is not written back. *)
CloseWithoutWriting(h) ==
    /\ file[h] # NULL
    /\ file' = [file EXCEPT ![h] = NULL]
    /\ UNCHANGED <<disk, phase, inodes, free_blocks, result>>

(* File::~File *)
Close(h) ==
    /\ file[h] # NULL
    /\ \/ file[h].dirty /\ WriteBlock(InodeOf(h).data_blocks[0], file[h].cache)
       \/ ~file[h].dirty /\ UNCHANGED disk
    /\ file' = [file EXCEPT ![h] = NULL]
    /\ UNCHANGED <<phase, inodes, free_blocks, result>>

(* File::Read: at the end of the file; else from the cache, which is       *)
(* replaced by the next block when the position reaches a multiple of      *)
(* BLOCK_SIZE.                                                             *)
ReadAtEnd(h) ==
    /\ file[h] # NULL /\ file[h].pos >= InodeOf(h).file_size
    /\ file' = [file EXCEPT ![h].eof = TRUE]
    /\ result' = <<>>
    /\ UNCHANGED <<disk, phase, inodes, free_blocks>>

Read(h, n) ==
    /\ file[h] # NULL /\ file[h].pos < InodeOf(h).file_size
    /\ LET f == file[h]
           o == f.pos % BLOCK_SIZE
           k == Least(n, InodeOf(h).file_size - f.pos)
           pos == f.pos + k
           reload == pos % BLOCK_SIZE = 0 /\ pos < InodeOf(h).file_size
       IN  /\ o + k <= BLOCK_SIZE \* bound: inside the cache
           /\ result' = [i \in 1 .. k |-> f.cache[o + i - 1]]
           /\ file' = [file EXCEPT ![h] =
                IF reload
                THEN [f EXCEPT !.pos = pos, !.dirty = FALSE,
                       !.cache = ReadBlock(InodeOf(h).data_blocks[pos \div BLOCK_SIZE])]
                ELSE [f EXCEPT !.pos = pos]]
    /\ UNCHANGED <<disk, phase, inodes, free_blocks>>

(* File::Write: up to the end of the cache, which is then written back.    *)
Write(h, buf) ==
    /\ file[h] # NULL /\ file[h].pos < MaxLength
    /\ LET f == file[h]
           o == f.pos % BLOCK_SIZE
           k == Least(Len(buf), BLOCK_SIZE - o)
           pos == f.pos + k
           cache == [i \in Offsets |->
                       IF i \in o .. o + k - 1 THEN buf[i - o + 1] ELSE f.cache[i]]
           full == pos % BLOCK_SIZE = 0
           size == InodeOf(h).file_size
       IN  /\ file' = [file EXCEPT ![h] =
                [f EXCEPT !.pos = pos, !.cache = cache, !.dirty = ~full]]
           /\ IF full
              THEN WriteBlock(InodeOf(h).data_blocks[pos \div BLOCK_SIZE - 1], cache)
              ELSE UNCHANGED disk
           /\ inodes' = [inodes EXCEPT ![f.inode].file_size =
                            IF pos > size THEN pos ELSE size]
    /\ UNCHANGED <<phase, free_blocks, result>>

(* Seeded bug: eof stays set. *)
ResetPosition(h) ==
    /\ file[h] # NULL
    /\ file' = [file EXCEPT ![h].pos = 0]
    /\ UNCHANGED <<disk, phase, inodes, free_blocks, result>>

Reset(h) ==
    /\ file[h] # NULL
    /\ file' = [file EXCEPT ![h].pos = 0, ![h].eof = FALSE]
    /\ UNCHANGED <<disk, phase, inodes, free_blocks, result>>

EoF(h) == file[h].eof \/ file[h].pos = InodeOf(h).file_size

(* The program: at most MaxFiles files at a time, closed before they are   *)
(* deleted, one File object for each.                                      *)
OpenOf(id) == { h \in Handles : file[h] # NULL /\ InodeOf(h).id = id }

Program ==
    \/ \E id \in FileIds :
         \/ Cardinality(Existing) < MaxFiles /\ CreateFile(id)
         \/ OpenOf(id) = {} /\ DeleteFile(id)
         \/ OpenOf(id) = {} /\ \E h \in Handles : Open(h, id)
    \/ \E h \in Handles :
         \/ Close(h) \/ ReadAtEnd(h) \/ Reset(h)
         \/ \E n \in 1 .. BLOCK_SIZE :
              Read(h, n) \/ \E buf \in [1 .. n -> Bytes] : Write(h, buf)

Next == Format \/ Mount \/ Program

Spec == Init /\ [][Next]_vars

----------------------------------------------------------------------------
(* The bytes of a file as a reader will find them: in the cache while the  *)
(* file is open, else in its first block.                                  *)
FirstBlock(id) ==
    IF OpenOf(id) = {} THEN disk[inodes[LookupFile(id)].data_blocks[0]]
    ELSE file[CHOOSE h \in OpenOf(id) : TRUE].cache

DataOf(id) ==
    IF LookupFile(id) = NULL THEN <<>>
    ELSE [i \in 1 .. inodes[LookupFile(id)].file_size |->
            FirstBlock(id)[(i - 1) % BLOCK_SIZE]]

(* With one file at a time, of at most one block, File keeps the promise   *)
(* of file.H: block cache, inode and disk together are one sequence of     *)
(* bytes that closing, opening and partial reads and writes preserve.      *)
Only == IF Existing = {} THEN NULL ELSE CHOOSE id \in Existing : TRUE
Position ==
    IF OpenOf(Only) = {} THEN 0 ELSE file[CHOOSE h \in OpenOf(Only) : TRUE].pos

Promise == INSTANCE SequentialFile
    WITH Limit <- BLOCK_SIZE, pos <- Position,
         data <- IF Only = NULL THEN <<>> ELSE DataOf(Only)
FileSafe == Promise!Spec

(* EoF is reported exactly at the end of the file, although the flag and   *)
(* the position are set in different calls.                                *)
EofMeansEnd ==
    \A h \in Handles : file[h] # NULL =>
      (EoF(h) <=> file[h].pos >= InodeOf(h).file_size)

(* A file that nobody has open keeps its bytes, whatever happens to other  *)
(* files (the assertions of exercise_file_system on what it reads back).   *)
FilesApart ==
    [][\A id \in FileIds :
         (LookupFile(id) # NULL /\ OpenOf(id) = {})
         /\ (LookupFile(id) # NULL /\ OpenOf(id) = {})'
           => DataOf(id)' = DataOf(id)]_vars
=============================================================================
