------------------------------ MODULE VMPools ------------------------------
(* The virtual memory pools of MP4 over its page table, with the program   *)
(* that uses them: allocate, write to the region, release.  The region     *)
(* array of a pool lies in the first page of the pool.                     *)
EXTENDS VirtualMemory, Sequences

CONSTANTS PoolOrder,   \* the pools in the order main constructs them
          Base, Size,  \* Base[p], Size[p]: address and bytes of pool p
          RemsStart,   \* what rems may hold before it is first changed
          Requests,    \* sizes the program asks for
          Budget,      \* Budget[p]: bound on used, the bytes the program takes in all
          MaxRegions,  \* bound on c: the entries of the region array in use
          Direct       \* addresses accessed without a pool (FAULT_ADDR)

Pools == { PoolOrder[n] : n \in 1 .. Len(PoolOrder) }
Slots == 0 .. MaxRegions

WORD == ENTRIES * ENTRIES * PAGE_SIZE \* an unsigned long wraps around here
Wrapped(x) == x % WORD

(* An entry of the region array has two words and the array one page; a    *)
(* pool ends within the address space.                                     *)
ASSUME PoolAssumption ==
    /\ MaxRegions \in Nat \ {0} /\ 8 * (MaxRegions + 1) <= PAGE_SIZE
    /\ \A p \in Pools : /\ Base[p] \in Nat /\ Base[p] % PAGE_SIZE = 0
                        /\ Size[p] \in Nat /\ Size[p] % PAGE_SIZE = 0
                        /\ Base[p] + Size[p] <= WORD
    /\ RemsStart \subseteq 0 .. WORD - 1
    /\ Requests \subseteq Nat \ {0}
    /\ \A p \in Pools : Budget[p] \in Nat

(* All that main allocates from a pool, released or not, fits into it: 49  *)
(* regions of at most 5 pages into 65536 pages.                            *)
ClientFits == \A p \in Pools : PAGE_SIZE + Budget[p] <= Size[p]

VARIABLES built,     \* built[p]: "no", "registered" or "yes"
          head, vp,  \* PageTable::VMPoolList_HEAD and the links
          reg, c,    \* the region arrays and the numbers of entries in use
          rems,      \* the bytes a pool believes it has left
          held,      \* auxiliary: the regions the program has and not released
          used,      \* auxiliary: the bytes of all regions it has ever had
          halt       \* "no", or "assert" when an assertion failed

poolvars == <<built, head, vp, reg, c, rems, held, used, halt>>
vars == <<vmvars, poolvars>>

Mapped(a) == Translate(entry, DirIndex(a), TabIndex(a)) # Absent

Init ==
    /\ InitVM
    /\ built = [p \in Pools |-> "no"]
    /\ head = "NULL" /\ vp = [p \in Pools |-> "NULL"]
    /\ reg = [p \in Pools |-> [x \in Slots |-> [ba |-> 0, len |-> 0]]]
    /\ c = [p \in Pools |-> 0]
    /\ rems \in [Pools -> RemsStart] \* the constructor does not set it
    /\ held = [p \in Pools |-> {}] /\ used = [p \in Pools |-> 0]
    /\ halt = "no"

(* The constructor calls register_pool, whose loop sets the link inside    *)
(* its body, and the body runs only while there is a link ...              *)
register_pool(n) ==
    LET p == PoolOrder[n]
    IN  /\ built[p] = "no" /\ \A m \in 1 .. n - 1 : built[PoolOrder[m]] = "yes"
        /\ built' = [built EXCEPT ![p] = "registered"]
        /\ \/ head = "NULL" /\ head' = p /\ UNCHANGED vp
           \/ head # "NULL" /\ UNCHANGED head
              /\ vp' = IF vp[head] = "NULL" THEN vp ELSE [vp EXCEPT ![head] = p]
        /\ UNCHANGED <<vmvars, reg, c, rems, held, used, halt>>

(* ... and enters the page of the region array as the first region.        *)
Construct(p) ==
    /\ built[p] = "registered" /\ Mapped(Base[p])
    /\ built' = [built EXCEPT ![p] = "yes"]
    /\ reg' = [reg EXCEPT ![p][0] = [ba |-> Base[p], len |-> PAGE_SIZE]]
    /\ rems' = [rems EXCEPT ![p] = Wrapped(@ + WORD - PAGE_SIZE)]
    /\ c' = [c EXCEPT ![p] = 1]
    /\ UNCHANGED <<vmvars, head, vp, held, used, halt>>

(* VMPool::allocate *)
NumberOfPages(size) ==
    size \div PAGE_SIZE + (IF size % PAGE_SIZE > 0 THEN 1 ELSE 0)

allocate(p, size) ==
    LET len == NumberOfPages(size) * PAGE_SIZE
        last == reg[p][c[p] - 1]
        region == [ba |-> Wrapped(last.ba + last.len), len |-> len]
    IN  /\ built[p] = "yes" /\ c[p] < MaxRegions /\ used[p] + len <= Budget[p]
        /\ size <= rems[p]
        /\ reg' = [reg EXCEPT ![p][c[p]] = region]
        /\ c' = [c EXCEPT ![p] = @ + 1]
        /\ rems' = [rems EXCEPT ![p] = Wrapped(@ + WORD - len)]
        /\ held' = [held EXCEPT ![p] = @ \cup {region}]
        /\ used' = [used EXCEPT ![p] = @ + len]
        /\ UNCHANGED <<vmvars, built, head, vp, halt>>

allocate_fails(p, size) ==
    /\ built[p] = "yes" /\ size > rems[p]
    /\ halt' = "assert"
    /\ UNCHANGED <<vmvars, built, head, vp, reg, c, rems, held, used>>

PagesOf(r) == { Wrapped(r.ba + n * PAGE_SIZE) : n \in 0 .. r.len \div PAGE_SIZE - 1 }

(* Seeded bug: the entry behind the released one is dropped. *)
ShiftedFromNext(p, r) ==
    [x \in Slots |-> IF x \in r + 1 .. c[p] - 1 THEN reg[p][x + 1] ELSE reg[p][x]]

(* VMPool::release: the length added to rems is read after the entries     *)
(* behind r have been moved down, from the entry that is there now.        *)
Shifted(p, r) ==
    [x \in Slots |-> IF x \in r .. c[p] - 1 THEN reg[p][x + 1] ELSE reg[p][x]]

(* The last entry that starts at a; the code has no other case.            *)
EntryAt(p, a, r) ==
    /\ r \in 1 .. c[p] - 1 /\ reg[p][r].ba = a
    /\ \A x \in r + 1 .. c[p] - 1 : reg[p][x].ba # a

release(p, h) ==
    /\ built[p] = "yes" /\ h \in held[p]
    /\ \E r \in Slots :
         /\ EntryAt(p, h.ba, r)
         /\ free_pages(PagesOf(reg[p][r]))
         /\ reg' = [reg EXCEPT ![p] = Shifted(p, r)]
         /\ c' = [c EXCEPT ![p] = @ - 1]
         /\ rems' = [rems EXCEPT ![p] = Wrapped(@ + reg'[p][r].len)]
    /\ held' = [held EXCEPT ![p] = @ \ {h}]
    /\ UNCHANGED <<built, head, vp, used, halt>>

(* VMPool::is_legitimate *)
is_legitimate(p, a) == ~(a > Base[p] + Size[p] \/ a < Base[p])

(* The addresses the program touches: the array of a pool in construction, *)
(* the regions it holds, FAULT_ADDR.                                       *)
Touched ==
    UserAddresses \cap
      UNION { Direct, { Base[p] : p \in { q \in Pools : built[q] = "registered" } },
              UNION { PagesOf(r) : r \in UNION { held[p] : p \in Pools } } }

(* The search of the fault handler ends at a registered pool for which the *)
(* address is legitimate, else at NULL; the assertion wants neither.       *)
Found(a) == { p \in {head, vp[head]} \cap Pools : is_legitimate(p, a) }
SearchEnd(a) ==
    IF head = "NULL" \/ Found(a) = {} THEN "NULL" ELSE CHOOSE p \in Found(a) : TRUE

PageFault(a) ==
    /\ handle_fault(a)
    /\ halt' = IF SearchEnd(a) # "NULL" /\ Found(a) = {} THEN "assert" ELSE halt
    /\ UNCHANGED <<built, head, vp, reg, c, rems, held, used>>

(* GenerateVMPoolMemoryReferences and GeneratePageTableMemoryReferences.   *)
Write(a, v) ==
    /\ a \in Direct \cup UNION { PagesOf(r) : r \in UNION { held[p] : p \in Pools } }
    /\ Store(a, v)
    /\ UNCHANGED poolvars

Next ==
    /\ halt = "no"
    /\ \/ \E n \in 1 .. Len(PoolOrder) : register_pool(n)
       \/ \E p \in Pools : Construct(p)
       \/ \E p \in Pools, size \in Requests :
             allocate(p, size) \/ allocate_fails(p, size)
       \/ \E p \in Pools : \E h \in held[p] : release(p, h)
       \/ \E a \in Touched : PageFault(a) \/ \E v \in Values : Write(a, v)

Spec == Init /\ [][Next]_vars

----------------------------------------------------------------------------
Extent(r) == r.ba .. r.ba + r.len - 1
ArrayPage(p) == [ba |-> Base[p], len |-> PAGE_SIZE]
Regions(p) == held[p] \cup {ArrayPage(p)}

(* In whatever order regions are released and whatever rems held before    *)
(* its first change: the regions the program has and the page of the       *)
(* region array never overlap and lie inside the pool, so that the pool    *)
(* calls them legitimate, as kernel.C tests; and the array, moved by hand, *)
(* has an entry for each, so that it can be released.                      *)
RegionsSound ==
    \A p \in Pools : built[p] = "yes" =>
      /\ \A h, g \in Regions(p) : h # g => Extent(h) \cap Extent(g) = {}
      /\ \A h \in Regions(p) : Extent(h) \subseteq Base[p] .. Base[p] + Size[p] - 1
      /\ \A h \in held[p] : \E x \in 1 .. c[p] - 1 : reg[p][x] = h

(* free_page: "If page is valid, release frame and mark page invalid."     *)
(* A page of a pool is mapped only while a region of the pool contains it. *)
ReleasedUnmapped ==
    \A p \in Pools : built[p] = "yes" =>
      \A a \in { Base[p] + n * PAGE_SIZE : n \in 0 .. Size[p] \div PAGE_SIZE - 1 } :
        Mapped(a) => \E r \in Regions(p) : a \in Extent(r)
=============================================================================
