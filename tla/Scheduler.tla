----------------------------- MODULE Scheduler -----------------------------
(***************************************************************************)
(* The FIFO thread scheduler of MP5: class Scheduler (scheduler.C), the    *)
(* start, switch and shutdown of threads (thread.C, threads_low.asm), the  *)
(* interrupt flag (machine.C), the start-up code and the thread functions  *)
(* (kernel.C), and the timer interrupt.                                    *)
(*                                                                         *)
(* One CPU executes the code of the actor `current': a thread, or, while   *)
(* current_thread is 0, the start-up code, written NULL.  pc holds where   *)
(* each actor is in the code.                                              *)
(*                                                                         *)
(* The ready queue is the singly linked list of the code.  `heap' is the   *)
(* set of list nodes that are allocated.  MemPool::release does nothing;   *)
(* the model lets `new' return a deleted node again, so that what holds    *)
(* here does not depend on the leak.                                       *)
(***************************************************************************)
EXTENDS Naturals, Sequences, FiniteSets

CONSTANTS Thread,     \* the threads created by main
          First,      \* thread1: dispatched by main, never added
          Returning,  \* the threads whose function returns (fun1, fun2)
          Bursts,     \* bursts a returning function runs (10 in kernel.C)
          Killable,   \* the threads other threads may call terminate on
          Node,       \* addresses of ready_queue nodes
          NULL        \* the null pointer

ASSUME FirstAssumption == First \in Thread
ASSUME NullAssumption == NULL \notin Thread /\ NULL \notin Node
ASSUME SubsetAssumption == Returning \subseteq Thread /\ Killable \subseteq Thread
ASSUME BurstsAssumption == Bursts \in Nat
ASSUME NodeAssumption == IsFiniteSet(Node)

VARIABLES
  current,       \* current_thread
  pc,            \* where each actor is
  ret,           \* where the pending call of yield returns to
  intr,          \* the interrupt flag IF of the CPU
  saved,         \* IF in the EFLAGS image on the stack of each thread
  top_q, bot_q,  \* the ends of the ready queue
  tid, m,        \* the fields of the nodes
  heap,          \* the nodes that are allocated
  param,         \* the parameter _thread of resume
  toAdd,         \* the threads main has still to add
  bursts,        \* the bursts each returning thread has run
  deleted,       \* the threads whose control block is deleted
  irq,           \* IRQ0 is pending at the interrupt controller
  halt           \* the CPU left the program: a failed assert, a wild jump

vars == <<current, pc, ret, intr, saved, top_q, bot_q, tid, m, heap, param,
          toAdd, bursts, deleted, irq, halt>>
queue == <<top_q, bot_q, tid, m, heap>>
threads == <<current, saved, deleted>>
progress == <<toAdd, bursts>>

Actor == Thread \cup {NULL}

At(label) == halt = "no" /\ pc[current] = label
Goto(label) == pc' = [pc EXCEPT ![current] = label]

\* Machine::enable_interrupts and disable_interrupts assert that the flag
\* changes; a failed assert aborts.
EnableInterrupts ==
  IF intr THEN halt' = "assert" /\ UNCHANGED intr
          ELSE intr' = TRUE /\ UNCHANGED halt
DisableInterrupts ==
  IF intr THEN intr' = FALSE /\ UNCHANGED halt
          ELSE halt' = "assert" /\ UNCHANGED intr

\* Seeded bug: interrupts are disabled without looking at the flag first.
MaskUnconditionally == DisableInterrupts

\* The scheduler's guarded forms.
MaskInterrupts == IF intr THEN DisableInterrupts ELSE UNCHANGED <<intr, halt>>

\* Seeded bug: the scheduler never enables interrupts again.
NeverUnmask == UNCHANGED <<intr, halt>>

UnmaskInterrupts == IF ~intr THEN EnableInterrupts ELSE UNCHANGED <<intr, halt>>

Init ==
  /\ current = NULL
  /\ pc = [a \in Actor |-> IF a = NULL THEN "main_enable" ELSE "absent"]
  /\ ret = [t \in Thread |-> "function"]
  /\ intr = FALSE
  /\ saved = [t \in Thread |-> FALSE]
  /\ top_q = NULL /\ bot_q = NULL
  /\ tid = [n \in Node |-> First]
  /\ m = [n \in Node |-> NULL]
  /\ heap = {}
  /\ param = First
  /\ toAdd = Thread \ {First}
  /\ bursts = [t \in Thread |-> 0]
  /\ deleted = {}
  /\ irq = FALSE
  /\ halt = "no"

-----------------------------------------------------------------------------
(* The start-up code.                                                      *)

MainEnable ==
  /\ At("main_enable")
  /\ EnableInterrupts
  /\ Goto("main_create")
  /\ UNCHANGED <<ret, queue, threads, progress, param, irq>>

\* `new Thread': setup_context prepares a stack that starts in thread_start
\* with the interrupt flag clear.
CreateThread(t) ==
  /\ At("main_create")
  /\ pc[t] = "absent"
  /\ pc' = [pc EXCEPT ![t] = "thread_start"]
  /\ saved' = [saved EXCEPT ![t] = FALSE]
  /\ UNCHANGED <<current, deleted, ret, intr, queue, progress, param, irq, halt>>

\* Scheduler::add calls resume and returns; main adds in any order.
MainAdd(t) ==
  /\ At("main_create")
  /\ \A u \in Thread : pc[u] # "absent"
  /\ t \in toAdd
  /\ toAdd' = toAdd \ {t}
  /\ param' = t
  /\ Goto("resume")
  /\ UNCHANGED <<ret, intr, queue, threads, bursts, irq, halt>>

\* main dispatches thread1; threads_low_switch_to finds current_thread = 0
\* and only loads the new context.
MainDispatch ==
  /\ At("main_create")
  /\ \A u \in Thread : pc[u] # "absent"
  /\ toAdd = {}
  /\ current' = First
  /\ intr' = saved[First]
  /\ Goto("main_assert")
  /\ UNCHANGED <<saved, deleted, ret, queue, progress, param, irq, halt>>

-----------------------------------------------------------------------------
(* Scheduler::resume                                                       *)

ResumeMask ==
  /\ At("resume")
  /\ MaskInterrupts
  /\ Goto("resume_link")
  /\ UNCHANGED <<ret, queue, threads, progress, param, irq>>

\* Seeded bug: a resumed thread goes to the front of the ready queue.
ResumePrepends(n) ==
  /\ At("resume_link")
  /\ n \in Node \ heap
  /\ heap' = heap \cup {n}
  /\ tid' = [tid EXCEPT ![n] = param]
  /\ m' = [m EXCEPT ![n] = top_q]
  /\ top_q' = n
  /\ bot_q' = IF bot_q = NULL THEN n ELSE bot_q
  /\ Goto("resume_unmask")
  /\ UNCHANGED <<ret, intr, threads, progress, param, irq, halt>>

ResumeLink(n) ==
  /\ At("resume_link")
  /\ n \in Node \ heap
  /\ heap' = heap \cup {n}
  /\ tid' = [tid EXCEPT ![n] = param]
  /\ IF top_q = NULL \/ bot_q = NULL
       THEN /\ top_q' = n
            /\ m' = [m EXCEPT ![n] = NULL]
       ELSE /\ m' = [m EXCEPT ![bot_q] = n, ![n] = NULL]
            /\ UNCHANGED top_q
  /\ bot_q' = n
  /\ Goto("resume_unmask")
  /\ UNCHANGED <<ret, intr, threads, progress, param, irq, halt>>

\* pass_on_CPU calls yield next; main goes on adding threads.
ResumeUnmask ==
  /\ At("resume_unmask")
  /\ UnmaskInterrupts
  /\ IF current = NULL
       THEN Goto("main_create") /\ UNCHANGED ret
       ELSE Goto("yield") /\ ret' = [ret EXCEPT ![current] = "function"]
  /\ UNCHANGED <<queue, threads, progress, param, irq>>

-----------------------------------------------------------------------------
(* Scheduler::yield                                                        *)

\* Seeded bug: yield works on the queue with interrupts enabled.
YieldUnprotected ==
  /\ At("yield")
  /\ Goto("yield_pick")
  /\ UNCHANGED <<ret, intr, queue, threads, progress, param, irq, halt>>

YieldMask ==
  /\ At("yield")
  /\ MaskInterrupts
  /\ Goto("yield_pick")
  /\ UNCHANGED <<ret, queue, threads, progress, param, irq>>

\* threads_low_switch_to for a running thread: the EFLAGS of the caller go to
\* its stack, those of the new thread come from its stack.
SwitchTo(t) ==
  /\ current' = t
  /\ saved' = [saved EXCEPT ![current] = intr]
  /\ intr' = saved'[t]

\* Seeded bug: bot_q still points to the node when the last one is taken.
YieldKeepsTail ==
  /\ At("yield_pick")
  /\ top_q # NULL
  /\ top_q' = m[top_q]
  /\ heap' = heap \ {top_q}
  /\ Goto("yield_unmask")
  /\ SwitchTo(tid[top_q])
  /\ UNCHANGED <<bot_q, deleted, ret, tid, m, progress, param, irq, halt>>

\* The front node is unlinked and deleted, and dispatch_to switches to its
\* thread.
YieldDispatch ==
  /\ At("yield_pick")
  /\ top_q # NULL
  /\ top_q' = m[top_q]
  /\ bot_q' = IF m[top_q] = NULL THEN NULL ELSE bot_q
  /\ heap' = heap \ {top_q}
  /\ Goto("yield_unmask")
  /\ SwitchTo(tid[top_q])
  /\ UNCHANGED <<deleted, ret, tid, m, progress, param, irq, halt>>

YieldEmpty ==
  /\ At("yield_pick")
  /\ top_q = NULL
  /\ Goto("yield_unmask")
  /\ UNCHANGED <<ret, intr, queue, threads, progress, param, irq, halt>>

\* Seeded bug: yield returns without enabling interrupts.
YieldStaysMasked ==
  /\ At("yield_unmask")
  /\ Goto(ret[current])
  /\ UNCHANGED <<ret, intr, queue, threads, progress, param, irq, halt>>

YieldUnmask ==
  /\ At("yield_unmask")
  /\ UnmaskInterrupts
  /\ Goto(ret[current])
  /\ UNCHANGED <<ret, queue, threads, progress, param, irq>>

-----------------------------------------------------------------------------
(* Threads                                                                 *)

\* Seeded bug: a thread starts without enabling interrupts.
ThreadStartMasked ==
  /\ At("thread_start")
  /\ Goto("function")
  /\ UNCHANGED <<ret, intr, queue, threads, progress, param, irq, halt>>

ThreadStart ==
  /\ At("thread_start")
  /\ EnableInterrupts
  /\ Goto("function")
  /\ UNCHANGED <<ret, queue, threads, progress, param, irq>>

\* Seeded bug: pass_on_CPU yields without resuming the running thread.
BurstWithoutResume ==
  /\ At("function")
  /\ current \in Returning => bursts[current] < Bursts
  /\ bursts' = IF current \in Returning
                 THEN [bursts EXCEPT ![current] = @ + 1] ELSE bursts
  /\ ret' = [ret EXCEPT ![current] = "function"]
  /\ Goto("yield")
  /\ UNCHANGED <<intr, queue, threads, toAdd, param, irq, halt>>

\* Seeded bug: the loop over the bursts runs once too often.
BurstOnceMore ==
  /\ At("function")
  /\ current \in Returning => bursts[current] <= Bursts
  /\ bursts' = IF current \in Returning
                 THEN [bursts EXCEPT ![current] = @ + 1] ELSE bursts
  /\ param' = current
  /\ Goto("resume")
  /\ UNCHANGED <<ret, intr, queue, threads, toAdd, irq, halt>>

\* One burst of a thread function, which ends in pass_on_CPU.
Burst ==
  /\ At("function")
  /\ current \in Returning => bursts[current] < Bursts
  /\ bursts' = IF current \in Returning
                 THEN [bursts EXCEPT ![current] = @ + 1] ELSE bursts
  /\ param' = current
  /\ Goto("resume")
  /\ UNCHANGED <<ret, intr, queue, threads, toAdd, irq, halt>>

\* The function returns into thread_shutdown.
FunctionReturns ==
  /\ At("function")
  /\ current \in Returning /\ bursts[current] = Bursts
  /\ Goto("shutdown")
  /\ UNCHANGED <<ret, intr, queue, threads, progress, param, irq, halt>>

ShutdownMask ==
  /\ At("shutdown")
  /\ DisableInterrupts
  /\ Goto("shutdown_terminate")
  /\ UNCHANGED <<ret, queue, threads, progress, param, irq>>

\* Scheduler::terminate deletes the thread and yields.
Terminate(t, back) ==
  /\ deleted' = deleted \cup {t}
  /\ ret' = [ret EXCEPT ![current] = back]
  /\ Goto("yield")
  /\ UNCHANGED <<current, saved, intr, queue, progress, param, irq, halt>>

\* Seeded bug: a thread that ends passes the CPU on as any other thread.
ShutdownPassesOn ==
  /\ At("shutdown_terminate")
  /\ deleted' = deleted \cup {current}
  /\ param' = current
  /\ Goto("resume")
  /\ UNCHANGED <<current, saved, ret, intr, queue, progress, irq, halt>>

ShutdownTerminate ==
  /\ At("shutdown_terminate")
  /\ Terminate(current, "shutdown_delete")

\* thread_shutdown deletes current_thread again and yields again ...
ShutdownDelete ==
  /\ At("shutdown_delete")
  /\ deleted' = deleted \cup {current}
  /\ ret' = [ret EXCEPT ![current] = "shutdown_return"]
  /\ Goto("yield")
  /\ UNCHANGED <<current, saved, intr, queue, progress, param, irq, halt>>

\* ... and returns to the 0 that setup_context pushed as the argument.
ShutdownReturn ==
  /\ At("shutdown_return")
  /\ halt' = "wild"
  /\ UNCHANGED <<pc, ret, intr, queue, threads, progress, param, irq>>

\* A thread calls terminate on another thread.
Kill(t) ==
  /\ At("function")
  /\ t \in Killable \ (deleted \cup {current})
  /\ Terminate(t, "function")

-----------------------------------------------------------------------------
(* The timer.  IRQ0 stays pending until the CPU accepts interrupts; the     *)
(* handler runs to its end with the flag clear and iret sets it again.     *)

TimerRaise ==
  /\ halt = "no" /\ ~irq
  /\ irq' = TRUE
  /\ UNCHANGED <<pc, ret, intr, queue, threads, progress, param, halt>>

TimerInterrupt ==
  /\ halt = "no" /\ irq /\ intr
  /\ irq' = FALSE
  /\ UNCHANGED <<pc, ret, intr, queue, threads, progress, param, halt>>

Code ==
  \/ MainEnable \/ MainDispatch
  \/ \E t \in Thread : CreateThread(t) \/ MainAdd(t) \/ Kill(t)
  \/ ResumeMask \/ ResumeUnmask \/ \E n \in Node : ResumeLink(n)
  \/ YieldMask \/ YieldDispatch \/ YieldEmpty \/ YieldUnmask
  \/ ThreadStart \/ Burst \/ FunctionReturns
  \/ ShutdownMask \/ ShutdownTerminate \/ ShutdownDelete \/ ShutdownReturn

Next == Code \/ TimerRaise \/ TimerInterrupt

\* The CPU keeps executing, and takes a pending interrupt at the latest when
\* it has accepted interrupts again and again.
Fairness == WF_vars(Code) /\ SF_vars(TimerInterrupt)

Spec == Init /\ [][Next]_vars /\ Fairness

-----------------------------------------------------------------------------
(* The ready queue as the list walk finds it.                              *)

\* Address reached from top_q over k links.
Nth == LET f[k \in 0 .. Cardinality(Node)] ==
             IF k = 0 THEN top_q
             ELSE IF f[k - 1] = NULL THEN NULL ELSE m[f[k - 1]]
       IN f

Reached == {k \in 0 .. Cardinality(Node) : Nth[k] # NULL}

ReadyQueue == [i \in 1 .. Cardinality(Reached) |-> tid[Nth[i - 1]]]

Queued(t) == \E n \in heap : tid[n] = t

-----------------------------------------------------------------------------
(* Properties                                                              *)

MainLabels == {"main_enable", "main_create", "main_assert", "resume",
               "resume_link", "resume_unmask"}
ThreadLabels == {"absent", "thread_start", "function", "resume",
                 "resume_link", "resume_unmask", "yield", "yield_pick",
                 "yield_unmask", "shutdown", "shutdown_terminate",
                 "shutdown_delete", "shutdown_return"}

\* Every variable has its type, and no actor is in code of the other kind.
TypeOK ==
  /\ current \in Actor
  /\ pc \in [Actor -> MainLabels \cup ThreadLabels]
  /\ pc[NULL] \in MainLabels /\ \A t \in Thread : pc[t] \in ThreadLabels
  /\ ret \in [Thread -> {"function", "shutdown_delete", "shutdown_return"}]
  /\ intr \in BOOLEAN
  /\ saved \in [Thread -> BOOLEAN]
  /\ {top_q, bot_q} \subseteq Node \cup {NULL}
  /\ tid \in [Node -> Thread]
  /\ m \in [Node -> Node \cup {NULL}]
  /\ heap \subseteq Node
  /\ param \in Thread
  /\ toAdd \subseteq Thread
  /\ bursts \in [Thread -> 0 .. Bursts]
  /\ deleted \subseteq Thread
  /\ irq \in BOOLEAN
  /\ halt \in {"no", "assert", "wild"}

\* The list is intact and nothing leaks: walking from top_q visits exactly the
\* allocated nodes, each once, and ends at bot_q (the pointer surgery of
\* resume and yield, in particular when the last node goes).
QueueShape ==
  /\ {Nth[k] : k \in Reached} = heap
  /\ Cardinality(Reached) = Cardinality(heap)
  /\ bot_q = IF Reached = {} THEN NULL ELSE Nth[Cardinality(Reached) - 1]

\* No thread is lost and none is queued twice: a thread that main has made
\* known to the scheduler and that has not ended has the CPU or has exactly
\* one node in the ready queue (pass_on_CPU, terminate).
NoThreadLost ==
  \A t \in Thread :
    /\ \A a, b \in heap : tid[a] = t /\ tid[b] = t => a = b
    /\ (current # NULL /\ t # current /\ t \notin deleted) => Queued(t)

\* A thread function runs with interrupts enabled, whatever path of enables,
\* disables, saved and restored flags led to it (kernel.C: the timer is there
\* "to make sure that we enable interrupts correctly").
FunctionsInterruptible == At("function") => intr

\* The asserts of enable_interrupts and disable_interrupts never fail.
NoAssertFails == halt # "assert"

\* Every access to the queue has interrupts disabled.
QueueMasked == pc[current] \in {"resume_link", "yield_pick"} => ~intr

\* A thread whose control block is deleted never gets the CPU back: terminate
\* has removed it from the scheduler (scheduler.H: "Remove the given thread
\* from the scheduler in preparation for destruction of the thread").
NoResurrection == [][current' # current => current' \notin deleted]_vars

\* No ready thread starves (yield takes the oldest, pass_on_CPU requeues).
StarvationFree == \A t \in Thread : Queued(t) ~> current = t

\* Every thread whose function returns is finally destroyed.
ReturningEnd == \A t \in Returning : <>(t \in deleted)

\* The timer never dies: a pending timer interrupt is taken.
TimerLives == irq ~> ~irq

\* thread_shutdown never comes back from yielding: a terminating thread hands
\* the CPU over and never executes the return to address 0 (scheduler.H:
\* "Graciously handle the case where the thread wants to terminate itself").
GracefulTermination == halt # "wild"

-----------------------------------------------------------------------------
(* The scheduler implements the FIFO promise.                              *)

Fifo == INSTANCE FifoScheduler
          WITH cpu <- current, ready <- ReadyQueue, gone <- deleted

FifoSafe == Fifo!Init /\ [][Fifo!Next]_(Fifo!vars)
=============================================================================
