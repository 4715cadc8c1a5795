---------------------------- MODULE BlockingDisk ----------------------------
(***************************************************************************)
(* The kernel of MP6: threads that share one disk (blocking_disk.C) under  *)
(* a scheduler with a ready ring of MAXV slots (scheduler.C), the start-up *)
(* code and the thread functions (kernel.C), and the disk controller as    *)
(* simple_disk.C drives it.                                                *)
(*                                                                         *)
(* The scheduler and the disk driver disable interrupts and never enable   *)
(* them, and the timer handler does not touch their state: one call of     *)
(* them is one step, except that the disk may answer between its parts.    *)
(***************************************************************************)
EXTENDS Naturals, FiniteSets

CONSTANTS Thread,    \* the threads created by main
          First,     \* thread1: dispatched by main, never added
          DiskUser,  \* the threads that run fun2
          MAXV,      \* slots of the ready ring and of the blocked ring
          NBlocks,   \* blocks fun2 cycles through (10 in kernel.C)
          Rounds,    \* iterations a disk user makes; then it only passes on
          Prompts,   \* the kinds of disk: whether it has the data of a read
                     \* as soon as the command is issued
          NULL       \* the null pointer

ASSUME ThreadAssumption ==
  First \in Thread /\ DiskUser \subseteq Thread /\ NULL \notin Thread
ASSUME SizeAssumption ==
  MAXV \in Nat \ {0} /\ NBlocks \in Nat \ {0} /\ Rounds \in Nat /\ Prompts \subseteq BOOLEAN

VARIABLES
  current,  \* current_thread
  pc,       \* where each actor is
  intr,     \* the interrupt flag IF; every context switched to has it clear
  irq,      \* IRQ0 is pending at the interrupt controller
  toAdd,    \* the threads main has still to add
  rq,       \* the ready ring: rq, hq, tq and tn of Scheduler
  bq,       \* the blocked ring: bq, bh, bt and btn of BlockingDisk
  round,    \* the iterations each disk user has finished
  prompt,   \* the kind of this disk
  disk,     \* the controller: its command, its block, and DRQ
  content,  \* the low and the high bytes of each block
  buf       \* the even and the odd bytes of each disk user's buffer

vars == <<current, pc, intr, irq, toAdd, rq, bq, round, prompt, disk, content, buf>>
storage == <<prompt, disk, content, buf>>

Actor == Thread \cup {NULL}
Slots == 0 .. MAXV - 1
Block == 0 .. NBlocks - 1

At(label) == pc[current] = label
Goto(label) == pc' = [pc EXCEPT ![current] = label]

\* Both rings count their entries and never check for overflow.
EmptyRing == [slot |-> [s \in Slots |-> NULL], head |-> 0, tail |-> 0, n |-> 0]

Enqueued(ring, t) == [ring EXCEPT !.slot[ring.tail] = t,
                                  !.tail = (@ + 1) % MAXV, !.n = @ + 1]

\* Seeded bug: the count of entries is not decremented.
DequeuedKeepsCount(ring) == [ring EXCEPT !.head = (@ + 1) % MAXV]

Dequeued(ring) == [ring EXCEPT !.head = (@ + 1) % MAXV, !.n = @ - 1]

\* Seeded bug: the newest entry is taken.
Newest(ring) == ring.slot[(ring.tail + MAXV - 1) % MAXV]

Oldest(ring) == ring.slot[ring.head]

\* The blocks of iteration `round' of fun2.
ReadBlock(t) == (round[t] + 1) % NBlocks
WriteBlock(t) == round[t] % NBlocks

Issue(op, b) == disk' = [op |-> op, block |-> b, drq |-> prompt /\ op = "read"]
Idle == [op |-> "none", block |-> 0, drq |-> FALSE]
is_ready == disk.drq

\* What a buffer on the stack holds before it is written.
Junk == <<"junk", 0>>

\* Where the first switch to a new thread takes it, the empty thread_start
\* included; its flags are all clear.
setup_context == "function"

\* The flags come from the stack of t: all clear when t is new, and without
\* the interrupt flag when it was switched out, inside the scheduler.
threads_low_switch_to(t) == current' = t /\ intr' = FALSE

Init ==
  /\ current = NULL
  /\ pc = [a \in Actor |-> IF a = NULL THEN "main_enable" ELSE setup_context]
  /\ intr = FALSE
  /\ irq = FALSE
  /\ toAdd = Thread \ {First}
  /\ rq = EmptyRing
  /\ bq = EmptyRing
  /\ round = [t \in DiskUser |-> 0]
  /\ prompt \in Prompts
  /\ disk = Idle
  /\ content = [b \in Block |-> <<<<"low", b>>, <<"high", b>>>>]
  /\ buf = [t \in DiskUser |-> <<Junk, Junk>>]

-----------------------------------------------------------------------------
(* The start-up code.                                                      *)

MainEnable ==
  /\ At("main_enable")
  /\ intr' = TRUE
  /\ Goto("main_add")
  /\ UNCHANGED <<current, irq, toAdd, rq, bq, round, storage>>

\* Scheduler::add; main adds in any order.
MainAdd(t) ==
  /\ At("main_add")
  /\ t \in toAdd
  /\ toAdd' = toAdd \ {t}
  /\ intr' = FALSE
  /\ rq' = Enqueued(rq, t)
  /\ UNCHANGED <<current, pc, irq, bq, round, storage>>

MainDispatch ==
  /\ At("main_add")
  /\ toAdd = {}
  /\ Goto("main_assert")
  /\ threads_low_switch_to(First)
  /\ UNCHANGED <<irq, toAdd, rq, bq, round, storage>>

-----------------------------------------------------------------------------
(* Scheduler::yield.  If the disk is ready, the oldest blocked thread is   *)
(* resumed; then the CPU goes to the oldest ready thread.  Without one the *)
(* call returns to the caller.                                             *)

\* Seeded bug: a blocked thread is resumed whether the disk is ready or not.
UnblocksAtOnce == bq.n > 0

\* Seeded bug: the last blocked thread is never resumed.
UnblocksAllButOne == bq.n > 1 /\ is_ready

Unblocks == bq.n > 0 /\ is_ready

Ready == IF Unblocks THEN Enqueued(rq, Oldest(bq)) ELSE rq

Yield(back) ==
  /\ bq' = IF Unblocks THEN Dequeued(bq) ELSE bq
  /\ rq' = IF Ready.n > 0
             THEN [Dequeued(Ready) EXCEPT !.slot[Ready.head] = NULL]
             ELSE [Ready EXCEPT !.head = 0, !.tail = 0]
  /\ IF Ready.n > 0 THEN threads_low_switch_to(Oldest(Ready))
                    ELSE intr' = FALSE /\ UNCHANGED current
  /\ Goto(back)
  /\ UNCHANGED <<irq, toAdd, round, storage>>

PassOnYield == At("pass_on") /\ Yield("function")

WriteYield == At("blocking") /\ Yield("write_check")

\* pass_on_CPU: the running thread is resumed and then yields.
PassOn ==
  /\ intr' = FALSE
  /\ rq' = Enqueued(rq, current)
  /\ Goto("pass_on")
  /\ UNCHANGED <<current, irq, toAdd, bq, storage>>

\* An iteration of fun1, fun3 or fun4.
Compute ==
  /\ At("function")
  /\ current \in DiskUser => round[current] = Rounds
  /\ PassOn
  /\ UNCHANGED round

-----------------------------------------------------------------------------
(* fun2: BlockingDisk::read, then BlockingDisk::write, then pass_on_CPU.    *)

ReadIssue ==
  /\ At("function")
  /\ current \in DiskUser /\ round[current] < Rounds
  /\ intr' = FALSE
  /\ Issue("read", ReadBlock(current))
  /\ Goto("read_check")
  /\ UNCHANGED <<current, irq, toAdd, rq, bq, round, prompt, content, buf>>

\* Seeded bug: a thread that has read its data enters the blocked ring.
ReadTransferEnqueues ==
  /\ At("read_check")
  /\ is_ready
  /\ buf' = [buf EXCEPT ![current][1] = content[disk.block][2]]
  /\ disk' = Idle
  /\ bq' = Enqueued(bq, current)
  /\ Goto("read_done")
  /\ UNCHANGED <<current, intr, irq, toAdd, rq, round, prompt, content>>

\* Both bytes of each word are stored at the even address.
ReadTransfer ==
  /\ At("read_check")
  /\ is_ready
  /\ buf' = [buf EXCEPT ![current][1] = content[disk.block][2]]
  /\ disk' = Idle
  /\ Goto("read_done")
  /\ UNCHANGED <<current, intr, irq, toAdd, rq, bq, round, prompt, content>>

\* The thread enters the blocked ring and runs on.
ReadEnqueue ==
  /\ At("read_check")
  /\ ~is_ready
  /\ bq' = Enqueued(bq, current)
  /\ Goto("read_done")
  /\ UNCHANGED <<current, intr, irq, toAdd, rq, round, storage>>

\* Seeded bug: the data go to the block that was just read.
WriteIssueReadBlock ==
  /\ At("read_done")
  /\ intr' = FALSE
  /\ Issue("write", ReadBlock(current))
  /\ bq' = Enqueued(bq, current)
  /\ Goto("blocking")
  /\ UNCHANGED <<current, irq, toAdd, rq, round, prompt, content, buf>>

WriteIssue ==
  /\ At("read_done")
  /\ intr' = FALSE
  /\ Issue("write", WriteBlock(current))
  /\ bq' = Enqueued(bq, current)
  /\ Goto("blocking")
  /\ UNCHANGED <<current, irq, toAdd, rq, round, prompt, content, buf>>

\* The controller takes the data for the command it has; words written to it
\* while it has data of a read to deliver go nowhere.
WriteTransfer ==
  /\ At("write_check")
  /\ is_ready
  /\ IF disk.op = "write"
       THEN content' = [content EXCEPT ![disk.block] = buf[current]] /\ disk' = Idle
       ELSE UNCHANGED <<content, disk>>
  /\ Goto("written")
  /\ UNCHANGED <<current, intr, irq, toAdd, rq, bq, round, prompt, buf>>

\* The disk is not ready: write returns without having written.
WriteGivesUp ==
  /\ At("write_check")
  /\ ~is_ready
  /\ Goto("written")
  /\ UNCHANGED <<current, intr, irq, toAdd, rq, bq, round, storage>>

NextBlock ==
  /\ At("written")
  /\ round' = [round EXCEPT ![current] = @ + 1]
  /\ PassOn

-----------------------------------------------------------------------------
(* The disk and the timer.                                                 *)

DiskReady ==
  /\ disk.op # "none" /\ ~disk.drq
  /\ disk' = [disk EXCEPT !.drq = TRUE]
  /\ UNCHANGED <<current, pc, intr, irq, toAdd, rq, bq, round, prompt, content, buf>>

TimerRaise ==
  /\ ~irq
  /\ irq' = TRUE
  /\ UNCHANGED <<current, pc, intr, toAdd, rq, bq, round, storage>>

TimerInterrupt ==
  /\ irq /\ intr
  /\ irq' = FALSE
  /\ UNCHANGED <<current, pc, intr, toAdd, rq, bq, round, storage>>

Code ==
  \/ MainEnable \/ MainDispatch \/ \E t \in Thread : MainAdd(t)
  \/ PassOnYield \/ WriteYield \/ Compute
  \/ ReadIssue \/ ReadTransfer \/ ReadEnqueue
  \/ WriteIssue \/ WriteTransfer \/ WriteGivesUp \/ NextBlock

Next == Code \/ DiskReady \/ TimerRaise \/ TimerInterrupt

\* The CPU keeps executing, the disk answers a command that stays, and an
\* interrupt that can be taken again and again is taken.
Fairness == WF_vars(Code) /\ WF_vars(DiskReady) /\ SF_vars(TimerInterrupt)

Spec == Init /\ [][Next]_vars /\ Fairness

-----------------------------------------------------------------------------
\* The slots between head and tail, oldest first.
Position(ring, i) == (ring.head + i) % MAXV
Occupied(ring) == {Position(ring, i) : i \in 0 .. ring.n - 1}
Entries(ring, t) == {i \in 0 .. ring.n - 1 : ring.slot[Position(ring, i)] = t}
Waiting(t) == Entries(rq, t) # {}

\* With a prompt disk neither ring overflows, although nothing checks: the
\* indices and the count of each ring agree, and the threads of the ready ring
\* are exactly those between its head and its tail.
RingsSound ==
  prompt =>
  /\ \A ring \in {rq, bq} :
       /\ ring.n <= MAXV
       /\ ring.tail = Position(ring, ring.n)
  /\ Occupied(rq) = {s \in Slots : rq.slot[s] # NULL}

\* With a prompt disk no thread is lost and none waits twice: a thread that
\* does not have the CPU waits in exactly one place, once, for the CPU or for
\* the disk; the running thread does not wait until it is about to yield.
NoThreadLost ==
  prompt /\ current # NULL =>
    \A t \in Thread :
      Cardinality(Entries(rq, t)) + Cardinality(Entries(bq, t)) =
        IF t = current /\ pc[t] \notin {"pass_on", "blocking"} THEN 0 ELSE 1

\* When write returns from a prompt disk, the block holds the buffer
\* (blocking_disk.H: "Writes 512 Bytes from the buffer to the given block on
\* the disk").
WriteDelivers == prompt /\ At("written") => content[WriteBlock(current)] = buf[current]

\* A block changes only while its writer is in write: however late the disk
\* answers, no data reach the block of another command (issue_operation
\* replaces the command the controller has).
OnlyOwnBlock ==
  [][\A b \in Block : content'[b] # content[b] =>
       current \in DiskUser /\ b = WriteBlock(current)]_vars

\* With a prompt disk every write comes to its end, and with it the wait in
\* the blocked ring.
WriteEnds == \A t \in DiskUser : prompt /\ pc[t] = "blocking" ~> pc[t] = "written"

\* With a prompt disk no ready thread starves.
StarvationFree == \A t \in Thread : prompt /\ Waiting(t) ~> current = t

-----------------------------------------------------------------------------
(* Promises of the comments that the code does not keep; see the README.   *)

\* When read returns, the buffer holds the block (blocking_disk.H: "Reads 512
\* Bytes from the given block of the disk and copies them to the given buffer").
ReadDelivers == At("read_done") => buf[current] = content[ReadBlock(current)]

\* The timer never dies: a pending timer interrupt is taken (kernel.C: "If we
\* forget to do it, the timer dies").
TimerLives == irq ~> ~irq
=============================================================================
