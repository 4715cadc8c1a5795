# A TLA+ model of the x86 mini-kernel

The repository holds seven stages, MP1 to MP7, of one small 32-bit kernel. The
stages share their low-level files (console, interrupt dispatch, timer,
keyboard, utilities) and each adds one subsystem: a contiguous frame pool
(MP2), paging (MP3), virtual memory pools (MP4), threads and a scheduler (MP5),
a blocking disk (MP6), a file system (MP7). This directory models, checks and
proves the parts that carry the kernel's own logic.

## 1. Inventory

| Component | State | Operations | Interacts with | Hard behaviour | What makes it correct | Module |
|---|---|---|---|---|---|---|
| MP5 `Scheduler`, `Thread`, `threads_low.asm` | linked ready list `top_q`/`bot_q`, `current_thread`, stacks with saved EFLAGS, interrupt flag | `add`, `resume`, `yield`, `terminate`, `dispatch_to`, `thread_start`, `thread_shutdown` | `kernel.C` threads, `Machine` flag functions and asserts, timer interrupt | list surgery, flag carried across switches, a thread destroying itself, the empty queue | no thread lost or queued twice, FIFO order, thread functions interruptible, no assert fails, deleted threads never run | `Scheduler` |
| MP5 `RRS` (round robin) | as above | as above, driven by its own timer | timer | preemption from the handler | never instantiated | none |
| MP2 `ContFramePool` | one byte per frame in the pool's own first frames | constructor, `get_frames`, `release_frames`, `mark_inaccessible`, `needed_info_frames` | `test_memory`, `main` | first-fit search at the end of the pool, the release loop, rounding of the bitmap | frames never handed out twice, released exactly, reserved frames stay | `ContFramePool`, `FramePoolClient` |
| MP2 `SimpleFramePool` | one bit per frame | `get_frame`, `release_frame`, `mark_inaccessible` | none | an example; nothing creates one | | none |
| MP2 `kernel.C` | nested calls that hold frames, patterns in memory | `test_memory`, `main` | the pool | overlap only shows when outer calls verify | patterns survive, everything is released | `TestMemory`, `Startup` |
| MP4 `PageTable` | recursive directory, tables, free frames, registered pools | constructor, `handle_fault`, `register_pool`, `free_page` | `VMPool`, frame pools, fault dispatch | tables reached through themselves, index computations, stale entries | a page is mapped to one frame; faults are invisible to the program | `VirtualMemory` |
| MP4 `VMPool` | array of regions, remaining size | `allocate`, `release`, `is_legitimate` | page table | the array lies in demand-paged memory and is shifted by hand | regions disjoint, inside the pool | `VMPools` |
| MP6 `Scheduler` | ready ring `rq` of `MAXV` slots, `hq`, `tq`, `tn` | `add`, `resume`, `yield` | blocked ring of the disk | four slots and no overflow check, unblocking in `yield` | each thread waits once, nobody starves | `BlockingDisk` |
| MP6 `BlockingDisk`, `SimpleDisk` | blocked ring, the controller's command | `read`, `write`, `is_ready`, `issue_operation` | scheduler, controller | disk ready early, late, or for someone else | a write reaches its block, no other block changes | `BlockingDisk` |
| MP7 `FileSystem`, `Inode`, `File` | inode list, one-block cache, position | `Format`, `Mount`, `CreateFile`, `DeleteFile`, `LookupFile`, `File::Read`/`Write`/`Reset`/`EoF` | `SimpleDisk` | cache, inode and block drift apart; end of the block and of the file | what was written is read, files do not touch each other | `FileSystem` |
| Interrupt and exception dispatch (`idt`, `irq`, `interrupts`, `exceptions`, `gdt`, stubs) | gates, handler tables, requests and interrupts in service at the two controllers | `init`, `register_handler`, `dispatch_interrupt`, `dispatch_exception` | every main, all handlers | an interrupt before its handler, end-of-interrupt order at two controllers | every interrupt captured and acknowledged | `Startup` |
| The seven `main` functions | the objects built so far | the calls in their order | everything | an object used before it exists, interrupts on too early | every main reaches its last call | `Startup` |
| `SimpleTimer` | `seconds`, `ticks`, `hz` | `handle_interrupt`, `current`, `wait` | interrupt, console | `current` reads two variables an interrupt changes | the time read is never in the future | `Devices` |
| `SimpleKeyboard` | `key_pressed`, `key_code` | `handle_interrupt`, `read`, `wait` | interrupt | key between clear, spin and return | a key read was pressed after the call | `Devices` |
| `Console` | cursor, screen | `putch`, `puts`, `scroll` | timer handler prints too | output from an interrupt inside `putch` | the cursor stays on the screen | `Devices` |
| `MemPool`, `FramePool` (MP5 to MP7) | `start_address`, `next_free_frame` | `allocate`, `get_frame` | every `new` | no release, no limit | | only its existence, `Startup` |
| MP3 frame pool and page table | a bitmap and tables behind pointers never set | as MP2 and MP4 | each other | no defined behaviour | | `main` in `Startup` |
| Linker scripts, `assert`, `utils` | none of their own | copying, formatting, ports | all | none | | none |

Two things run concurrently: the CPU, which executes one thread at a time and
changes threads only inside `yield`, and the devices (timer, keyboard, disk
controller), whose interrupts or status changes come at any moment. Nothing is
persistent except disk blocks, and `Mount` reads none of them back, so there is
no recovery to model.

Every hazard we know of, with the line where it bites, is in `PROJECT.json`
under `hazards`, together with the properties aimed at it or the reason why no
property covers it.

### Names the source leaves open

Several stages do not compile as they are. Where the intention is beyond doubt
the modules take the obvious reading:

| In the source | Read as |
|---|---|
| MP4 `page_table.C`: `v` in `register_pool`; `pt` and `page_table` in `handle_fault`; `PageTabble` | the parameter; the new page table; `PageTable` |
| MP4 `vm_pool.C`: `region`, which `release` uses undeclared; `reg` beside the declared `area` | the index `r` that `release` has just found; the region array |
| MP5 `scheduler.C`: `exterm Scheduler* sys_sch` and the use of it in `thread.C` | `SYSTEM_SCHEDULER` |
| MP5 `scheduler.H`: `struct queue* m` | the node type itself, `ready_queue*` |
| MP6 `scheduler.C`: `resume`, `add`, `terminate` without parameter | the parameter `_thread` they use |
| MP6 `rw` beside `rq`, `next_thread` beside `n` | the same variable |
| MP6 `kernel.C`: `SYSTEM_DISK = new SimpleDisk(...)` | the `BlockingDisk` its comment and type announce |
| MP6 `importw` | `inportw` |
| MP7: members called but not declared | what their names say; `GetFreeInode`, defined nowhere, is marked external and returns the first inode without a file |

The low-level files are the same, or nearly, from MP3 to MP7. The modules model
them once; `PROJECT.json` points different definitions of a module to different
copies.

## 2. Modules and how they correspond to the code

```
FifoScheduler  <---- implements ---- Scheduler       (MP5)  <- SchedulerProofs
FrameAllocator <---- implements ---- FramePoolClient (MP2)  <- FramePoolProofs
                                       |                            |
                     ContFramePool ----+---- TestMemory  <- TestMemoryProofs
AddressSpace   <---- implements ---- VirtualMemory <- VMPools (MP4) <- VMProofs
SequentialFile <---- implements ---- FileSystem      (MP7)  <- FileSystemProofs
BlockingDisk   (MP6: scheduler, threads, disk, timer)       <- BlockingDiskProofs
Startup        (MP1 to MP7: main, dispatch, controllers)    <- StartupProofs
Devices        (MP3 to MP7: console, timer, keyboard)       <- DevicesProofs
```

`MCScheduler`, `MCBlockingDisk`, `MCVMPools`, `MCDevices` only declare model
values and give constants their values. A definition whose comment begins with
"Seeded" is not part of a specification: it is a plausible wrong version of the
definition after it, and exists to show that the properties would notice.

### Scheduler (MP5)

One CPU executes the code of the actor `current`: a thread, or, while
`current_thread` is 0, `main` (written `NULL`). `pc` holds the place of each
actor. The critical sections are cut where the interrupt flag changes, which is
the only place where something else, the timer, can come between.

* `resume` is `ResumeMask`, `ResumeLink`, `ResumeUnmask`; `yield` is
  `YieldMask`, then `YieldDispatch` or `YieldEmpty`, then `YieldUnmask`. `ret`
  says where a pending `yield` returns, since `pass_on_CPU`, `terminate` and
  `thread_shutdown` all call it.
* The ready queue is the linked list itself: `top_q`, `bot_q`, fields `tid` and
  `m` of nodes, and the set `heap` of allocated nodes. In the code the memory
  pool never reuses memory; in the model a deleted node may be returned by the
  next `new`. That covers the code (reuse is never forced while a free node is
  left) and keeps the model finite without hiding a stale pointer.
* `SwitchTo` is `threads_low_switch_to`: the EFLAGS of the caller go to its
  stack, those of the next thread come from there. A new thread starts with all
  flags clear (`setup_context`), and `ThreadStart` enables interrupts.
* `EnableInterrupts` and `DisableInterrupts` contain the asserts of
  `machine.C`: `halt = "assert"` if they fail.
* `FunctionReturns` and the `Shutdown...` actions are the end of a thread:
  `thread_shutdown` calls `terminate(current_thread)`, which deletes and yields,
  then deletes and yields again and returns, to the word 0 that `setup_context`
  pushed; that return is `halt = "wild"`.
* `Kill` is `terminate` called for another thread. No thread of `kernel.C`
  does so, the interface offers it; the constant `Killable` switches it on.
* `main` creates the threads and adds all but `First` in any order (the code
  has one fixed order).

`FifoScheduler` is the promise: a sequence of ready threads, the CPU goes to
its front, the CPU is only taken from a thread that is ready again or has
ended. `Scheduler` implements it under `cpu <- current`, `ready <-` the list
walk `ReadyQueue`, `gone <- deleted`.

### ContFramePool, FramePoolClient, TestMemory (MP2)

`bitmap` has one cell per byte of the info frames, the bytes behind the last
frame of the pool included: `release_frames` may run into them, and they are
uninitialised, so the initial states take every content. `Constructed` marks
the info frames inaccessible; `get_frames` is the first-fit search with its
failure case, `release_frames` the loop that starts at a head and goes on while
cells are in use. The caller passes the base of the pool; with another base the
code works on other memory.

`FramePoolClient` is any client of the interface, in two disciplines:
`AnyOrder = FALSE` releases newest first, as the recursion of `test_memory`
does, `AnyOrder = TRUE` in any order. `TestMemory` is the one client in the
repository: `main` takes the info frames of the other pool, then `test_memory`
recurses. `FrameAllocator` is the promise of the header over a set of free
frames.

Requests of 0 frames, or of more frames than the pool has, are excluded by an
assumption: the code subtracts and indexes without a test, and no caller in the
repository makes such a request (`test_memory` limits its request to the size
of the pool).

### VirtualMemory, VMPools, AddressSpace (MP4)

`VirtualMemory` is the page table. Frames are model values or small numbers,
`entry[f]` reads a frame as a table, `value[f]` as the data of a page, and
`Translate` is the walk of the processor over the directory. The code changes
tables only through the recursive last entry, and so does the model: `Written`
stores at whatever frame the walk from `<<Last, Last>>` or `<<Last, odir>>`
ends. `handle_fault` takes a frame for a missing table, one for the page, tests
neither, and clears nothing; `failed` records that there was none.
`free_page` is translated with its masks and shifts (`FreeDirIndex`,
`FreeTabIndex`), and with what it does to the entry: it sets bit 2, which is
neither the present bit nor cleared.

`VMPools` adds the pools and the program of `main`. The constructor is two
steps, since it registers the pool and then writes to the first page of the
pool, which faults. `allocate`, `release` with `Shifted`, and `is_legitimate`
work on the region array; `rems` is an unsigned word that the constructor
decrements without having set it (`RemsStart` is any set of words).
`register_pool` keeps its loop as it is: with one pool in the list the body
never runs. The program keeps what `allocate` returned (`held`) and releases it
in any order, which includes that of `main`, where a region is released before
the next is allocated. `EntryAt` is the search of `release` for the address.
`used` counts the bytes of all regions a pool ever gave out, up to `Budget`.

What keeps regions inside the pool is not `rems`. `allocate` places a region
behind the last one of the array, and `release` adds the length of another entry
to `rems`. The condition is `ClientFits`: all that the program takes from a
pool, released or not, fits into it. `GenerateVMPoolMemoryReferences` satisfies
it by far: 49 allocations of at most 5 pages from pools of 65536 pages (`main` runs it
when `_TEST_PAGE_TABLE_` is not defined). Section 4 shows what happens without
the condition.

`AddressSpace` is the promise: a page holds what was last written to it, zero
before, and nothing but a write shows.

### BlockingDisk (MP6)

Both rings are records with slots, head, tail and count, and never check for
overflow, as the code. Here the scheduler and the driver disable interrupts and
nothing enables them again, so a call of them is one step, except that the disk
may answer between the parts of `read` and `write`: `ReadIssue`, then
`ReadTransfer` or `ReadEnqueue`; `WriteIssue`, `WriteYield`, then
`WriteTransfer` or `WriteGivesUp`. `Yield` first resumes the oldest blocked
thread if the disk is ready, then dispatches the oldest ready thread. An empty
slot of the ring is uninitialised memory in the code and `NULL` in the model.

The controller is modelled from how `simple_disk.C` drives it: `Issue` replaces
the command, `DiskReady` raises DRQ later; a prompt disk (`prompt`, chosen
initially) has the data of a read as soon as it is issued. A block is a pair,
its low and its high bytes, because the transfer loop of `read` treats them
differently. A switch of threads (`threads_low_switch_to`) leaves interrupts
disabled: the flags of a new thread are clear (`setup_context`), and all others
were saved inside the scheduler.

### FileSystem, SequentialFile (MP7)

The state is the disk, the inode list, and for each open `File` its inode,
position, flags and one-block cache. `Format` writes memory it has not
initialised to block 0; `Mount` reads nothing. `Read` and `Write` are the two
halves of the code's arithmetic modulo the block size: the part at the end of
the file, the reload at the end of a block, the write-back of a full block.
`Program` uses them as `exercise_file_system` does: one `File` for each file,
closed before the file is deleted. A read that would run over the end of the
cache is left out (the code copies what lies behind it).

`SequentialFile` is the promise of `file.H`: a sequence of bytes with a
position, which survives closing and opening.

### Startup (MP1 to MP7)

Each `main` is a sequence of calls (`Main1` to `Main7`), executed by `MainStep`;
the objects are names, and `Needs` says which of them a constructor uses. Around
it are the IDT, the two dispatchers with their tables, the stubs (`isr`,
`irq_stub`) and the two interrupt controllers with requests (`pending`) and
interrupts in service. `Raise` is a device, `Accept` the delivery of the most
urgent request the controllers let through, `dispatch_interrupt` the handler
with its end-of-interrupt commands, `Iret` the return. Handlers run with
interrupts disabled, as the gates demand. `trouble` and `dead` record what an
invariant must exclude. `Touch` is the access to an unmapped page of MP4; the
mapping itself is `VirtualMemory`'s.

### Devices (MP3 to MP7)

A program calls `putch`, `current`, `wait` and `read` one memory access at a
time: the makefiles do not optimise, so that `csr_x++` is a load and a store.
Between any two steps the handlers of timer and keyboard may run, each in one
step, and once a second the timer prints through the same console; `putch` as
one operator and `putch` as steps are both translated from the same lines. Of
the video memory only the lowest and the highest cell written are kept.
`elapsed`, `fresh` and `started` are auxiliary: they count real time and the
keys pressed since a call, for the properties.

## 3. The runs

| Run | Instance | What it shows |
|---|---|---|
| `Scheduler_kernel` | 4 threads as in `kernel.C`, two of which return after 2 bursts; 4 nodes | No thread is lost, thread functions are interruptible, no assert fails, terminating threads hand over and never run again, no thread starves, the timer lives, and the FIFO promise is implemented. |
| `Scheduler_terminate` | 4 threads, all return, two may be terminated by others | Also when deleted threads stay queued and when the queue runs empty, the list stays intact. |
| `FramePool_lifo` | 10 frames from frame 8, 6 bytes per frame, requests of 1 to 3, a hole of one frame | With releases newest first the pool is a contiguous allocator, next to the hole and at the end of the pool too. |
| `FramePool_any_order` (violation) | 8 frames, requests of 1 to 3 | The release of a sequence frees the sequence behind it. |
| `TestMemory_kernel_pool` | 14 frames from frame 14, up to 7 nested calls, a hole of two frames | Every pattern survives, every frame is free at the end, failed allocations included; the recursion ends. |
| `Disk_kernel` | 4 threads, one disk user, 3 blocks, 4 rounds, both kinds of disk | With a prompt disk: rings sound, no thread lost, every write delivers and ends, nobody starves. With either: no data reach a block they are not for. |
| `VM_pools` | tables of 8 entries, two pools of 4 and 2 pages, 7 frames, releases in any order | No two pages share a frame; the regions held are disjoint, inside the pool and in the array, whatever `rems` holds; faults and releases are invisible to the program. |
| `VM_free_page` (violation) | the same | A released region stays mapped. |
| `FS_one_file` | blocks of 3 bytes, one file at a time, two numbers | One file of one block behaves like a sequential file, and `EoF` means its end. |
| `FS_two_files` (violation) | the same, two files and two `File` objects | Closing one file changes the bytes of another. |
| `Startup` | all seven stages, interrupts of timer, keyboard and disk | Handlers, gates and objects are there before they are needed, every interrupt is acknowledged, every main reaches its last call. |
| `Devices` | 3 columns, 2 rows, tab 2, two messages of the timer, two keys | The cursor stays on the screen, writes stay next to it, the time read is right to a second, a key read was pressed after the call and ends the wait. |

**Bounds.** Four threads are what both kernels create; the MP6 rings have four
slots in the code (`MAXV`), so their limit is reached. Two bursts (the code has
ten) are enough for a thread to be queued again after it ran and to end with
others queued behind and before it. A node for each thread is all the code can
have in use at once. `FRAME_SIZE` of 6 for 10 frames leaves two cells behind
the bitmap and makes it span two frames; requests up to 3 give a head, an inner
and a last frame; the run starts in every content of the uninitialised cells.
For `TestMemory`, 7 nested calls go through all request sizes (1 to 4) and
exceed 14 frames, so the failing call occurs. Three blocks and four rounds let
the disk user wrap around and overwrite a block it has read before.

A table of 8 entries has 6 directories for the program; both pools and the
address of `FAULT_ADDR` have a page table of their own, as in `kernel.C`, and
the requests of 20 and 40 bytes take one and two pages of 32. Seven frames run
out, so that the failing `get_frames` occurs. `rems` starts as 0, which the
constructor makes nearly 2^w, so that nothing is refused, or as 96, less than
one pool has and more than the other, so that requests are refused for which
there is room, and accepted. `MaxRegions = 3` is the page of the array and two
regions: the older can be released first, its entry is moved, and an allocation
follows (`Budget` is 3 pages of the larger pool and 1 of the smaller). Blocks of 3 bytes have a first, an inner and a
last byte; every partial read and write inside them occurs, and a deleted
inode is used again. In `Devices`, 5 ticks at 2 per second are two messages,
one for each of two places in `putch` or `current`; each message ends a line
and on two rows scrolls. `Startup` has no bound: an interrupt line is pending
or not.

`TestMemory_kernel_pool` has base = size because the kernel pool has
(`KERNEL_POOL_START_FRAME` and `KERNEL_POOL_SIZE` are both 512): `test_memory`
passes the size where the base is expected. With `base_frame_no = 8`,
`n_frames = 10`, `FRAME_SIZE = 12`, `MaxTests = 4`, `InfoFrames = 2`, a hole of
length 0 at 18, TLC finds `AllReleased` violated: nothing is released.

**Fairness.** `Scheduler`: `WF_vars(Code)`, the CPU executes instructions,
whatever thread it runs; which thread that is is decided by the code, not by
fairness. `SF_vars(TimerInterrupt)`: the interrupt is level-held by the
controller, and a CPU that accepts interrupts again and again takes it; weak
fairness would not do, since interrupts are disabled inside every scheduler
call. `BlockingDisk` has both and `WF_vars(DiskReady)`: the controller answers
a command that stays. `TestMemory` has `WF_vars(Next)`: the single CPU goes on.
`Startup` has `WF_vars(Handle)`, `SF_vars(MainStep)` since interrupts come at a
bounded rate, far below that of instructions, so that main gets on between
them, and `SF_vars(Accept(n))` for each line. `Devices` has `WF_vars(Program)`
and `WF_vars(KeyboardInterrupt)`; nothing obliges anybody to press a key. The
frame pool, the page table and the file system have no liveness property and no
fairness.

**Deadlock** is checked except where the system really stops: the MP5 kernel
whose threads all end, the end of `test_memory`, the end of a `main` with
nothing left to interrupt it (`Startup`), the assertion in `allocate`
(`VM_pools`, `VM_free_page`), and `Disk_kernel` with a late disk, where an
overwritten slot makes `yield` dispatch to a null pointer.

## 4. Where the code differs from its documentation

Three runs show a violation:

* `cont_frame_pool.C:218` (MP2): the release loop does not stop at the next
  head of sequence (`FramePool_any_order`). The one client in the repository
  releases newest first and never meets the case.
* `page_table.C:161` (MP4): `free_page` computes index 0 for every page and
  leaves the page mapped (`VM_free_page`). That no frame is ever shared
  although pages are released depends on this: a version that computes the
  directory index as the comment suggests, and still does not clear the present
  bit, violates `PagesKeepData`.
* `file_system.H:64` (MP7): all files share disk block 0 (`FS_two_files`).

More follow from the same models; changing a constant shows them:

| Line | What happens | How to see it |
|---|---|---|
| MP5 `thread.C:79` | The last thread that ends returns to address 0, although `scheduler.H:98` promises to handle that case graciously. | `Scheduler_kernel` with `Returning = {t1, t2, t3, t4}`: `GracefulTermination` |
| MP5 `scheduler.C:112` | `terminate` for another thread deletes it but leaves it queued, and it is dispatched. | `Scheduler_kernel` with `Killable = {t3, t4}`: `NoResurrection` |
| MP4 `vm_pool.C:94` | Beyond `ClientFits`: after a release that is not of the newest region, `rems` may count room that lies in the middle, and `allocate` places the next region behind the end of the pool. | `VM_pools` with a first pool of 3 pages, `RemsStart = {96}` (its size), without the assumption of `MCVMPools`: `RegionsSound` |
| MP6 `blocking_disk.C:85` | Both bytes of each word are stored at the even address. | `Disk_kernel` with `Prompts = {TRUE}`: `ReadDelivers` |
| MP6 `blocking_disk.C:88` | A read that finds the disk not ready queues the thread and returns without data. | `Disk_kernel` with `Prompts = {FALSE}`: `ReadDelivers` |
| MP6 `scheduler.C:21` | Interrupts stay disabled after the first call of the scheduler. | `Disk_kernel`: `TimerLives` |
| MP6 `scheduler.C:24` | With two disk users the second command replaces the first. | `Disk_kernel` with `DiskUser = {t2, t3}`: `WriteDelivers` |

And one for which a run is out of reach, since the initial states are all
fillings of the frames: handle_fault (MP4 `page_table.C:123`) does not clear a
new page table. With two equal leftover entries (`Stale` not empty) two pages
are mapped to one frame as soon as the table is entered. `VM_pools` and the
theorems about it take `Stale = {}`, memory as it is after power-on, and frames
that are never used twice, as `free_page` sees to.

## 5. What is proved

TLAPS checks these for every value of the constants that satisfies the named
assumptions of the modules, and the conditions given here.

`SchedulerProofs` (MP5), any set of threads, any finite set of nodes:

* `TypeCorrect`: the type invariant.
* `FlagDiscipline`, with `QueueIsMasked` and `AssertsHold`:
  `FunctionsInterruptible`, `QueueMasked`, `NoAssertFails`. The invariant behind
  it relates the flag to the place in the code of the running actor *and* the
  saved flag of every thread to the place where it was switched out: a flag read
  back by a switch is only right if it was right when it was saved.
* `QueueIntact`: `QueueShape`, whoever terminates whom. The inductive invariant
  (`ListInv`) says that the list holds a sequence of nodes: there is a sequence
  of the allocated nodes, each once, that starts at `top_q`, ends at `bot_q`,
  and whose links are `m`. An append, a removal at the front and a removal of
  the last node each give the next sequence. What the walk of `QueueShape`
  reads is then that sequence (`Walk`, `Reads`), by an induction up to its
  length that is proved from a fact on cardinalities (`InductionUpTo`), since
  the induction theorems of the library take an operator.
* `ThreadsKept`: `NoThreadLost`, if no thread terminates another
  (`Killable = {}`). `PlaceInv` adds that exactly the live threads that do not
  run, and a running one that is about to yield, have a node, and each only one.
* `DeletedStayOff`: `NoResurrection` under the same condition: deleted threads
  have no node, and the CPU is only given to threads that have one.
* `ImplementsFifo`: the scheduler implements `FifoScheduler` under the same
  condition. What `resume` and `yield` do to the sequence of `ListInv` is what
  the abstract queue does, and the refinement mapping reads that sequence.
* `OthersKeepItGraceful`: `GracefulTermination` if in addition some thread never
  returns: then that thread is queued whenever another thread terminates, so the
  `yield` of `terminate` never comes back. This is the exact condition: if
  all threads return, TLC finds the wild return (section 4).

`FramePoolProofs` (MP2), any pool, hole and request bound:

* `PoolSafe`, releases newest first (`AnyOrder = FALSE`, the discipline of
  `test_memory`): `TypeOK`, `HeldIntact`, `NothingLeaks`, `ReservedStay` (every
  frame that a byte of the bitmap lies in is reserved: `needed_info_frames`
  rounds up, `BitmapReserved`). These are not inductive, because the release
  loop runs on until it meets a frame that is not in use. The invariant adds
  `NoGap`, no free frame is followed by a frame in use (first fit fills the pool
  without gaps up to reserved frames, and releases newest first keep it so), and
  `NewestLast`, no sequence ends where an older one begins. So no frame in use
  follows the newest sequence.
* `PoolRefines`, same discipline: every step of the pool is a step of
  `FrameAllocator` or leaves the free frames as they are.
* `NoFrameLeaks` and `ReservedNeverFreed`, releases in any order: the error of
  the release loop frees too much and never too little, and a reserved frame
  stops it. The invariant (`AInv`) says that every frame in use is covered by a
  held sequence or reserved, and no more, for `HeldIntact` is false here.

`TestMemoryProofs` (MP2), any pool, hole and depth of `test_memory`:

* `NoPatternOverwritten`: `MemoryIntact`, even for the base that `test_memory`
  gets wrong. Before the first release the frames of all active calls are in
  use (`Taken`), so that what first fit finds free meets none of them, and
  nothing is filled after it (`MInv`).
* `TestReleasesAll`: `AllReleased` if the pool has its size as its base, as the
  kernel pool has: a frame in use that the test has filled belongs to an active
  call of which no frame has been freed (`Covered`), and at the end there is
  none. Without the condition TLC finds a counterexample (section 3).

`BlockingDiskProofs` (MP6), any threads and slots, a prompt disk where said:

* `RingsNeverOverflow`, `NoThreadIsLost`, `WritesAreDelivered`: `RingsSound`,
  `NoThreadLost`, `WriteDelivers`, under `SystemSize`: at most one thread uses
  the disk (`OneUser`), there is another one to run while it waits (`Company`),
  and the rings have a slot for every thread (`EnoughSlots`). The three
  conditions hold in `kernel.C`. The properties speak of a prompt disk; with a
  late one the code violates them. The invariant says in which ring each thread
  waits, once (`PlaceInv`), so that an overflowing ring would hold more threads
  than there are; which command the controller has while `write` waits
  (`DiskInv`); and that the block is written once it returns (`WrittenInv`).
* `DataReachTheirBlock`: `OnlyOwnBlock` for one user and either kind of disk,
  with or without room in the rings.

`VMProofs` (MP4), any number of table entries, any frames, pools and programs:

* `PagesApart`: `NoSharing`, for frames without leftover entries (`Stale = {}`).
  The invariant `IInv` is the types and, until the pool of frames is exhausted,
  `Structure`: the recursive entry is there, every table and every mapped frame
  is of the pool, not free, and entered in one place only, and free frames are
  empty. Two things keep it. The fault handler reaches a fresh table through
  the recursive entry only after entering it (`FaultNewTable`). And `free_page`
  never gives back a frame that is mapped, whatever page it is called for: its
  indices are 0 by the order of mask and shift (`FreeDirZero`, `FreeTabZero`),
  and entry 0 of the first table is frame 0 of the identity mapping, which is
  not of the pool.
* `PagingInvisible`: `PagesKeepData`. A fault maps a page to a free frame, whose
  content is zero, as the page appeared before; a write shows in one page since
  no other shares its frame; a release changes no entry. So the page table with
  its pools implements `AddressSpace`, until the pool of frames is exhausted.
* `RegionsApart`: `RegionsSound` under `ClientFits` (section 2), whatever
  `rems` holds and in whatever order regions are released. The invariant
  (`RegionInv`) says that the entries in use are not empty, sorted by address,
  apart (`Packed`) and, but for the first, exactly the regions the program
  holds, and that the last ends at most `used` bytes behind the page of the
  array. An allocation appends, without wrapping around, since that end is in
  the pool (`PackedAppend`); a release moves the entries behind the gap and
  keeps their order (`PackedShift`). `rems` occurs nowhere in it: release adds
  the length of another entry to it, so nothing could rest on it.

`FileSystemProofs` (MP7), any block size, inodes, names and `File` objects:

* `EofReliable`: `EofMeansEnd`, for any number of files that share block 0. The
  flag and the position change in different calls; `FInv` says that the position
  stays within the file and the flag is only set at its end (`Within`), and,
  since the size belongs to the inode, that no inode has two open `File` objects
  and no file two inodes (`OneEach`).
* `OneFileIsSafe`: `FileSafe`, the refinement of `SequentialFile`, with one file
  at a time of at most one block (`OneBlock`, to which the submission limits
  itself). `SInv` says that the cache of a `File` is dirty or as block 0 is. Two
  files are the violation of section 4.

`DevicesProofs` (MP3 to MP7), any screen of two rows or more, any message:

* `CursorStays`, `VideoMemoryOnly`: `CursorOnScreen`, `WritesNear`. The
  invariant (`ConsoleInv`) bounds what `putch` has loaded and not yet stored, at
  each of its steps, for any output of the timer in between; a message is
  followed character by character. A tab is assumed to be at most a row.
* `TimeIsPast`: `TimeNeverAhead`: what `current` has read of the seconds is
  compared with real time when it reads the ticks (`TimeInv`).
* `KeyIsNew`: `KeyFresh` (`KeyInv`).

`StartupProofs` (MP1 to MP7), any set of stages (`StagesAssumption`: stages are
numbered 1 to 7), any arrival of interrupts:

* `NothingStaysInService`: `AllAcknowledged`. What is in service is the line of
  the running handler, and the input of the master it came by, until the handler
  sends its end-of-interrupt commands (`AckInv`).
* `HandlersBeforeInterrupts` and `KernelStaysUp`: `Captured` and `StaysUp`. The
  argument has two halves. `Registered` says what must precede a call in the
  sequence of its `main`, and what must not: no handler is registered after
  `enable_interrupts`, no dispatcher or IDT is initialised over entries made
  before, GDT, controllers and gates precede `enable_interrupts`, the page-fault
  handler precedes the first write to an unmapped page. `StagesRegistered`
  evaluates it on the seven sequences. `OrderInv` then speaks of the calls
  *made*: what they entered is still in the tables (`TableInv`), and interrupts
  are enabled, in the flag or in the flag an `iret` will restore, only after
  `enable_interrupts` (`EnabledInv`). With either half alone nothing follows: an
  interrupt may come between any two calls, and a handler may be registered and
  forgotten.
* `NothingUsedUnbuilt`: `BuiltBeforeUsed`. `Supplied` says the same of objects
  and is evaluated on the sequences of MP2 to MP7 (`StagesSupplied`); that of
  MP1 does not have it, since it prints before it initialises the console, and
  the property excepts it. `SupplyInv` adds that what was built is there.

**Model-checked only.** All liveness (`StarvationFree`, `ReturningEnd`,
`TimerLives`, `TestEnds`, `WriteEnds`, `BootEnds`, `KeyAnswered`), which is out
of the prover's reach. Every safety invariant, action property and refinement
that a passing run checks is also proved, under the conditions named above.

## 6. What could be added

* Files of more than one block, once blocks are allocated to inodes.
* The memory pool over the frame pool, with the scheduler's allocations as its
  client.
* A late disk under `Company` alone: which threads stay, once the code queues a
  thread that does not wait for anything.

## 7. Abstractions that matter

* Output, wording and the work a thread function does between two calls of the
  scheduler are left out; `bursts` counts the loop.
* A timer interrupt runs to its end in one step: its handler runs with
  interrupts disabled and touches nothing the modelled code reads.
* `delete` of a control block is membership of `deleted`: its memory is not
  reused by the code (`MemPool::release` is empty), so a deleted thread can go
  on running, and in the model it does.
* The stack of a thread is reduced to what decides where it goes on: `pc`,
  `ret`, `saved`.
* Frame contents are one value per frame in `TestMemory` (the pattern is the
  same in the whole frame).
* In `VMPools`, releases and allocations are one step each: they touch their own
  pool's array, whose page is mapped since the constructor, and nothing else
  runs. The flags of table entries are reduced to present or not.
* A block in `FileSystem` is a function from offsets to bytes; buffers are
  sequences.
* In `Startup` the call that prints is a use of `Console`, and the work of a
  handler is left out; what it does to its device is in `Devices`. The main of
  MP6 calls `Scheduler::add`, which masks interrupts before the threads run
  (`BlockingDisk` has that); `Main6` leaves the flag as it is and so has
  interrupts at more places than the code.
* In `Devices` a backspace is printed only by the kernels that leave interrupts
  off (`Printed`), as no other prints one: the `fun2` of MP6 prints what it read
  from the disk, but with interrupts masked. A character that `putch` cannot
  print, for which it tests the end of the row and scrolls, has no step.
* `File::Write` with the position at the end of a block, where it would start in
  the old cache, is left out (hazard at `file.C:70`): files keep within a block.

## 8. Not modelled

* `RRS` (MP5): nothing creates one, and the constructor shadows its timer;
  its `yield` tests `top_q` where it should test the new front, so a model would
  have to guess what was meant.
* `SimpleFramePool` (MP2): an example; nothing creates or includes it.
* MP3 `cont_frame_pool.C` and `page_table.C`: both work through pointers that
  are never set. `Startup` takes `main` of MP3 up to the constructor of the page
  table; what follows has no defined behaviour.
* MP4 `cont_frame_pool.C`: the empty templates of the assignment. `get_frames`
  in `VirtualMemory` is what its header says.
* MP6 `Scheduler::terminate`: its only caller would be `thread_shutdown`, which
  here is `assert(false)`; the thread functions never return.
* `MemPool`, `FramePool` (MP5 to MP7): they add to a pointer and never release;
  only their existence matters to `Startup`. Nothing tests their limit.
* `deregister_handler` (no caller), the programming of the timer's divisor, the
  hardware cursor (its registers are selected, never written), colours, the copy
  of the output on port 0xe9, the console of MP1, whose scroll counts bytes
  where the screen has two per cell.
* A second `Mount`, which would forget every file: no caller.
* `utils.C`: copies and formatting; no property depends on the text.
* Linker scripts, makefiles and emulator configuration.
