--------------------------- MODULE FifoScheduler ---------------------------
(***************************************************************************)
(* What the FIFO scheduler promises to the threads of the kernel, without  *)
(* the linked list, the interrupt flag and the context switch: threads     *)
(* enter the ready queue at its end, the CPU goes to the thread at its     *)
(* front, and the CPU is taken only from a thread that is ready again or   *)
(* has ended.  Scheduler.tla (MP5) implements this module.                 *)
(***************************************************************************)
EXTENDS Naturals, Sequences

CONSTANTS Thread,  \* the threads of the kernel
          First,   \* the thread the start-up code dispatches directly
          NULL     \* no thread: the start-up code has the CPU

VARIABLES cpu,    \* the thread that has the CPU, or NULL
          ready,  \* the ready queue, longest waiting first
          gone    \* the threads that have ended

vars == <<cpu, ready, gone>>

Elements(q) == {q[i] : i \in DOMAIN q}

Init == cpu = NULL /\ ready = <<>> /\ gone = {}

\* A thread that is not queued and has not ended becomes ready.  Only the
\* start-up code makes a thread ready that is not running.
MakeReady(t) ==
  /\ t \notin Elements(ready) \cup gone
  /\ cpu \in {NULL, t}
  /\ cpu = NULL => t # First
  /\ ready' = Append(ready, t)
  /\ UNCHANGED <<cpu, gone>>

\* The start-up code starts the first thread.
Start ==
  /\ cpu = NULL
  /\ cpu' = First
  /\ UNCHANGED <<ready, gone>>

\* The CPU goes to the thread at the front of the queue.
Dispatch ==
  /\ ready # <<>>
  /\ cpu \in Elements(ready) \cup gone
  /\ cpu' = Head(ready)
  /\ ready' = Tail(ready)
  /\ UNCHANGED gone

\* The running thread ends; it keeps the CPU until the next dispatch.
End ==
  /\ cpu \in Thread \ (gone \cup Elements(ready))
  /\ gone' = gone \cup {cpu}
  /\ UNCHANGED <<cpu, ready>>

Next == Start \/ Dispatch \/ End \/ \E t \in Thread : MakeReady(t)
=============================================================================
