--------------------------- MODULE VirtualMemory ---------------------------
(* The page table of MP4: a directory whose last entry refers to the       *)
(* directory itself, page tables filled by the page fault handler, and     *)
(* free_page.  A linear address without its offset is a pair of directory  *)
(* and table index; Translate is what the processor does with it.          *)
(* Physical memory is seen in two ways: entry reads a frame as a table,    *)
(* value as the data of the page mapped to it.                             *)
EXTENDS Naturals

CONSTANTS ENTRIES,     \* entries of a table (1024)
          Frames,      \* the frames of the process pool
          Directory,   \* the frame of the page directory (kernel pool)
          SharedTable, \* the frame of the table of the first 4 MB
          Absent,      \* a table entry without the present bit
          Stale,       \* frames that leftover entries of a fresh frame name
          Values, Zero

PAGE_SIZE == 4 * ENTRIES       \* an entry has four bytes
Index == 0 .. ENTRIES - 1
Last == ENTRIES - 1
UserDirs == 1 .. ENTRIES - 2
AllFrames == Frames \cup Index \* Index: the frames of the shared memory

ASSUME VMAssumption ==
    /\ ENTRIES \in Nat /\ ENTRIES > 2
    /\ Frames \cap Index = {}
    /\ Directory \in Index \ {0} /\ SharedTable \in Frames
    /\ Absent \notin AllFrames
    /\ Stale \subseteq AllFrames
    /\ Zero \in Values

VARIABLES free,   \* process_mem_pool: the frames not handed out
          entry,  \* entry[f][i]: entry i of the table in frame f
          value,  \* value[f]: the data in frame f
          failed  \* auxiliary: a page fault got no frame

vmvars == <<free, entry, value, failed>>

DirIndex(a) == a \div (PAGE_SIZE * ENTRIES)
TabIndex(a) == (a \div PAGE_SIZE) % ENTRIES

UserAddresses == { a \in Nat : DirIndex(a) \in UserDirs }

(* Two levels; both must be present. *)
Translate(e, d, i) ==
    IF e[Directory][d] = Absent THEN Absent ELSE e[e[Directory][d]][i]

(* PageTable::PageTable: the recursive entry, the identity table of the    *)
(* shared memory, all other directory entries not present.  The remaining  *)
(* frames hold what memory held before.                                    *)
Identity == [i \in Index |-> i]
EmptyDirectory ==
    [d \in Index |-> CASE d = 0 -> SharedTable
                       [] d = Last -> Directory
                       [] OTHER -> Absent]

InitVM ==
    /\ free = Frames \ {SharedTable}
    /\ \E old \in [AllFrames -> [Index -> Stale \cup {Absent}]] :
         entry = [old EXCEPT ![Directory] = EmptyDirectory,
                             ![SharedTable] = Identity]
    /\ value = [f \in AllFrames |-> Zero]
    /\ failed = FALSE

(* get_frames(1) of the pool: some free frame, 0 when there is none. *)
get_frames(pool) == IF pool = {} THEN 0 ELSE CHOOSE f \in pool : TRUE

(* Entry i of the table that is reached at page <<d, t>>. *)
Written(e, d, t, i, f) == [e EXCEPT ![Translate(e, d, t)][i] = f]

(* The fault handler writes the directory through <<Last, Last>> and the   *)
(* table through <<Last, odir>>.  It does not clear a new table and does   *)
(* not test what get_frames returns.                                       *)
WithTable(odir, t) ==
    IF entry[Directory][odir] = Absent
    THEN Written(entry, Last, Last, odir, t) ELSE entry

(* Seeded bug: the table and the page get the same frame. *)
HandleFaultOnce(a) ==
    LET odir == DirIndex(a)
        f == get_frames(free)
    IN  /\ Translate(entry, odir, TabIndex(a)) = Absent
        /\ free' = free \ {f}
        /\ entry' = Written(WithTable(odir, f), Last, odir, TabIndex(a), f)
        /\ failed' = (failed \/ free = {})
        /\ UNCHANGED value

handle_fault(a) ==
    LET odir == DirIndex(a)
        missing == entry[Directory][odir] = Absent
        t == get_frames(free)
        left == IF missing THEN free \ {t} ELSE free
        f == get_frames(left)
    IN  /\ Translate(entry, odir, TabIndex(a)) = Absent
        /\ free' = left \ {f}
        /\ entry' = Written(WithTable(odir, t), Last, odir, TabIndex(a), f)
        /\ failed' = (failed \/ left = {} \/ (missing /\ free = {}))
        /\ UNCHANGED value

(* A write by the program to a page that is mapped. *)
Store(a, v) ==
    LET f == Translate(entry, DirIndex(a), TabIndex(a))
    IN  /\ f # Absent
        /\ value' = [value EXCEPT ![f] = v]
        /\ UNCHANGED <<free, entry, failed>>

(* Seeded bug: the directory index is that of the address. *)
FreeDirIndexOfPage(a) == DirIndex(a)

(* free_page masks the address to its low bits and shifts afterwards. *)
FreeDirIndex(a) == (4 * ((a % PAGE_SIZE) \div 4)) \div (PAGE_SIZE * ENTRIES)
FreeTabIndex(a) == (a % ENTRIES) \div PAGE_SIZE

(* The frame free_page gives back; the bit it sets (2, not 1) leaves the   *)
(* entry present or absent as it was.  The pool takes back its own frames. *)
ReleasedFrame(a) ==
    entry[Translate(entry, Last, FreeDirIndex(a))][FreeTabIndex(a)]

free_pages(pages) ==
    /\ free' = free \cup (Frames \cap { ReleasedFrame(a) : a \in pages })
    /\ UNCHANGED <<entry, value, failed>>

NextVM ==
    \/ \E a \in UserAddresses : handle_fault(a) \/ \E v \in Values : Store(a, v)
    \/ \E pages \in SUBSET Nat : free_pages(pages)

SpecVM == InitVM /\ [][NextVM]_vmvars

----------------------------------------------------------------------------
UserPages == UserDirs \X Index
FrameOf(p) == Translate(entry, p[1], p[2])
MappedPages == { p \in UserPages : FrameOf(p) # Absent }
Tables == { entry[Directory][d] : d \in UserDirs } \ {Absent}

TypeVM ==
    /\ free \subseteq Frames
    /\ entry \in [AllFrames -> [Index -> AllFrames \cup {Absent}]]
    /\ value \in [AllFrames -> Values]
    /\ failed \in BOOLEAN

(* Until the pool runs out of frames, no two pages share a frame, no two   *)
(* directory entries share a table, and no page is mapped to a table, the  *)
(* directory, or a frame the pool may still hand out.  The handler and     *)
(* free_page decide this together: a frame that free_page returned while   *)
(* the page stays mapped would be given to the next page that faults.      *)
NoSharing ==
    ~failed =>
      /\ \A p, q \in MappedPages : FrameOf(p) = FrameOf(q) => p = q
      /\ \A d, e \in UserDirs :
           entry[Directory][d] = entry[Directory][e]
             /\ entry[Directory][d] # Absent => d = e
      /\ \A p \in MappedPages :
           FrameOf(p) \notin Tables \cup free \cup {Directory, SharedTable}

(* What the program sees: every page has its own data, zero until written. *)
DataOf(p) == IF FrameOf(p) = Absent THEN Zero ELSE value[FrameOf(p)]
Content == [p \in UserPages |-> DataOf(p)]

(* Demand paging is invisible: while frames last, each step changes what   *)
(* the program sees of at most the one page it writes, and mapping a page  *)
(* changes nothing.  (kernel.C expects to read back foo[i] = i.)           *)
Own == INSTANCE AddressSpace WITH Pages <- UserPages, content <- Content
PagesKeepData == [][failed' \/ Own!Next]_Content
=============================================================================
