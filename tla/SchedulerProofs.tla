-------------------------- MODULE SchedulerProofs --------------------------
(***************************************************************************)
(* Proofs about Scheduler.tla, for every set of threads and of nodes.      *)
(*                                                                         *)
(* FlagInv ties the interrupt flag to the program counter across context   *)
(* switches; ListInv says that the linked list holds a sequence of nodes;  *)
(* PlaceInv says where each thread is.  With them the scheduler implements *)
(* FifoScheduler.tla.                                                      *)
(***************************************************************************)
EXTENDS Scheduler, Integers, FiniteSetTheorems, SequenceTheorems, TLAPS

-----------------------------------------------------------------------------
(* Type correctness                                                        *)

LEMMA InitType == Init => TypeOK
<1> SUFFICES ASSUME Init PROVE TypeOK
  OBVIOUS
<1> USE FirstAssumption, NullAssumption DEF Init, Actor
<1>1. pc \in [Actor -> MainLabels \cup ThreadLabels]
  BY DEF MainLabels, ThreadLabels
<1>2. pc[NULL] \in MainLabels /\ \A t \in Thread : pc[t] \in ThreadLabels
  BY DEF MainLabels, ThreadLabels
<1>3. bursts \in [Thread -> 0 .. Bursts]
  BY BurstsAssumption
<1> QED
  BY <1>1, <1>2, <1>3 DEF TypeOK

LEMMA StepType == TypeOK /\ [Next]_vars => TypeOK'
<1> SUFFICES ASSUME TypeOK, [Next]_vars PROVE TypeOK'
  OBVIOUS
<1> USE NullAssumption DEF TypeOK, Actor, MainLabels, ThreadLabels, At, Goto, queue, threads, progress
<1>1. CASE MainEnable
  BY <1>1 DEF MainEnable, EnableInterrupts
<1>2. CASE MainDispatch
  BY <1>2, FirstAssumption DEF MainDispatch
<1>3. ASSUME NEW t \in Thread, CreateThread(t) PROVE TypeOK'
  BY <1>3 DEF CreateThread
<1>4. ASSUME NEW t \in Thread, MainAdd(t) PROVE TypeOK'
  BY <1>4 DEF MainAdd
<1>5. ASSUME NEW t \in Thread, Kill(t) PROVE TypeOK'
  BY <1>5 DEF Kill, Terminate
<1>6. CASE ResumeMask
  BY <1>6 DEF ResumeMask, MaskInterrupts, DisableInterrupts
<1>7. CASE ResumeUnmask
  <2>1. intr' \in BOOLEAN /\ halt' \in {"no", "assert", "wild"}
    BY <1>7 DEF ResumeUnmask, UnmaskInterrupts, EnableInterrupts
  <2>2. CASE current = NULL
    BY <1>7, <2>1, <2>2 DEF ResumeUnmask
  <2>3. CASE current # NULL
    BY <1>7, <2>1, <2>3 DEF ResumeUnmask
  <2> QED
    BY <2>2, <2>3
<1>8. ASSUME NEW n \in Node, ResumeLink(n) PROVE TypeOK'
  BY <1>8 DEF ResumeLink
<1>9. CASE YieldMask
  BY <1>9 DEF YieldMask, MaskInterrupts, DisableInterrupts
<1>10. CASE YieldDispatch
  BY <1>10 DEF YieldDispatch, SwitchTo
<1>11. CASE YieldEmpty
  BY <1>11 DEF YieldEmpty
<1>12. CASE YieldUnmask
  BY <1>12 DEF YieldUnmask, UnmaskInterrupts, EnableInterrupts
<1>13. CASE ThreadStart
  BY <1>13 DEF ThreadStart, EnableInterrupts
<1>14. CASE Burst
  BY <1>14, BurstsAssumption, SubsetAssumption DEF Burst
<1>15. CASE FunctionReturns
  BY <1>15 DEF FunctionReturns
<1>16. CASE ShutdownMask
  BY <1>16 DEF ShutdownMask, DisableInterrupts
<1>17. CASE ShutdownTerminate
  BY <1>17 DEF ShutdownTerminate, Terminate
<1>18. CASE ShutdownDelete
  BY <1>18 DEF ShutdownDelete
<1>19. CASE ShutdownReturn
  BY <1>19 DEF ShutdownReturn
<1>20. CASE TimerRaise
  BY <1>20 DEF TimerRaise
<1>22. CASE TimerInterrupt
  BY <1>22 DEF TimerInterrupt
<1>21. CASE UNCHANGED vars
  BY <1>21 DEF vars
<1> QED
  BY <1>1, <1>2, <1>3, <1>4, <1>5, <1>6, <1>7, <1>8, <1>9, <1>10, <1>11,
     <1>12, <1>13, <1>14, <1>15, <1>16, <1>17, <1>18, <1>19, <1>20, <1>21, <1>22
  DEF Next, Code

\* Every reachable state is type correct.
THEOREM TypeCorrect == Spec => []TypeOK
BY InitType, StepType, PTL DEF Spec
-----------------------------------------------------------------------------
(* The interrupt flag                                                      *)

\* Where the flag is clear, apart from the entry of yield.
Masked == {"main_enable", "thread_start", "resume_link", "resume_unmask",
           "yield_pick", "yield_unmask", "shutdown_terminate"}

\* What the flag must be: yield is entered with interrupts disabled only by
\* the terminate that thread_shutdown calls.
Interruptible == IF pc[current] = "yield" THEN ret[current] # "shutdown_delete"
                                          ELSE pc[current] \notin Masked

\* Threads that do not run are at the one place where a switch leaves them, or
\* have not started, and will resume with interrupts disabled.
OffCpu ==
  \A t \in Thread \ {current} :
    pc[t] \in {"absent", "thread_start", "yield_unmask"} /\ ~saved[t]

FlagInv ==
  /\ halt # "assert"
  /\ current = NULL <=> pc[NULL] # "main_assert"
  /\ pc[NULL] \notin {"main_enable", "main_create"}
       => \A t \in Thread : pc[t] # "absent"
  /\ Interruptible => intr
  /\ ~Interruptible => ~intr
  /\ OffCpu

LEMMA InitFlag == Init => FlagInv
BY FirstAssumption, NullAssumption DEF Init, Actor, FlagInv, Interruptible, OffCpu, Masked

LEMMA StepFlag == TypeOK /\ FlagInv /\ [Next]_vars => FlagInv'
<1> SUFFICES ASSUME TypeOK, FlagInv, [Next]_vars PROVE FlagInv'
  OBVIOUS
<1> USE NullAssumption, FirstAssumption
    DEF TypeOK, Actor, MainLabels, ThreadLabels, At, Goto, queue, threads,
        progress, FlagInv, Interruptible, OffCpu, Masked
<1>1. CASE MainEnable
  BY <1>1 DEF MainEnable, EnableInterrupts
<1>2. CASE MainDispatch
  BY <1>2 DEF MainDispatch
<1>3. ASSUME NEW t \in Thread, CreateThread(t) PROVE FlagInv'
  BY <1>3 DEF CreateThread
<1>4. ASSUME NEW t \in Thread, MainAdd(t) PROVE FlagInv'
  BY <1>4 DEF MainAdd
<1>5. ASSUME NEW t \in Thread, Kill(t) PROVE FlagInv'
  BY <1>5 DEF Kill, Terminate
<1>6. CASE ResumeMask
  BY <1>6 DEF ResumeMask, MaskInterrupts, DisableInterrupts
<1>7. CASE ResumeUnmask
  BY <1>7 DEF ResumeUnmask, UnmaskInterrupts, EnableInterrupts
<1>8. ASSUME NEW n \in Node, ResumeLink(n) PROVE FlagInv'
  BY <1>8 DEF ResumeLink
<1>9. CASE YieldMask
  BY <1>9 DEF YieldMask, MaskInterrupts, DisableInterrupts
<1>10. CASE YieldDispatch
  BY <1>10 DEF YieldDispatch, SwitchTo
<1>11. CASE YieldEmpty
  BY <1>11 DEF YieldEmpty
<1>12. CASE YieldUnmask
  BY <1>12 DEF YieldUnmask, UnmaskInterrupts, EnableInterrupts
<1>13. CASE ThreadStart
  BY <1>13 DEF ThreadStart, EnableInterrupts
<1>14. CASE Burst
  BY <1>14 DEF Burst
<1>15. CASE FunctionReturns
  BY <1>15 DEF FunctionReturns
<1>16. CASE ShutdownMask
  BY <1>16 DEF ShutdownMask, DisableInterrupts
<1>17. CASE ShutdownTerminate
  BY <1>17 DEF ShutdownTerminate, Terminate
<1>18. CASE ShutdownDelete
  BY <1>18 DEF ShutdownDelete
<1>19. CASE ShutdownReturn
  BY <1>19 DEF ShutdownReturn
<1>20. CASE TimerRaise
  BY <1>20 DEF TimerRaise
<1>21. CASE TimerInterrupt
  BY <1>21 DEF TimerInterrupt
<1>22. CASE UNCHANGED vars
  BY <1>22 DEF vars
<1> QED
  BY <1>1, <1>2, <1>3, <1>4, <1>5, <1>6, <1>7, <1>8, <1>9, <1>10, <1>11,
     <1>12, <1>13, <1>14, <1>15, <1>16, <1>17, <1>18, <1>19, <1>20, <1>21, <1>22
  DEF Next, Code

LEMMA FlagInvariant == Spec => [](TypeOK /\ FlagInv)
BY InitType, StepType, InitFlag, StepFlag, PTL DEF Spec

\* Whatever the interleaving of threads, switches and timer interrupts, thread
\* functions run with interrupts enabled, the queue is touched with
\* interrupts disabled, and no assert of machine.C fails.
THEOREM FlagDiscipline ==
  Spec => [](FunctionsInterruptible /\ QueueMasked /\ NoAssertFails)
<1>1. TypeOK /\ FlagInv => FunctionsInterruptible /\ QueueMasked /\ NoAssertFails
  BY DEF FlagInv, Interruptible, Masked, FunctionsInterruptible, QueueMasked,
     NoAssertFails, At
<1> QED
  BY <1>1, FlagInvariant, PTL

\* No thread switch and no timer interrupt finds the queue in use.
THEOREM QueueIsMasked == Spec => []QueueMasked
BY FlagDiscipline, PTL

\* The asserts of enable_interrupts and disable_interrupts never fail.
THEOREM AssertsHold == Spec => []NoAssertFails
BY FlagDiscipline, PTL

-----------------------------------------------------------------------------
(* The linked list                                                         *)

\* The nodes of q, in this order, are the list from top_q to bot_q.
Lists(q) ==
  /\ \A i, j \in 1 .. Len(q) : q[i] = q[j] => i = j
  /\ heap = {q[i] : i \in 1 .. Len(q)}
  /\ q = <<>> => top_q = NULL /\ bot_q = NULL
  /\ q # <<>> => top_q = q[1] /\ bot_q = q[Len(q)]
  /\ \A i \in 1 .. Len(q) : m[q[i]] = IF i = Len(q) THEN NULL ELSE q[i + 1]

ListInv == \E q \in Seq(Node) : Lists(q)

LEMMA InitList == Init => ListInv
<1> SUFFICES ASSUME Init PROVE ListInv
  OBVIOUS
<1>1. <<>> \in Seq(Node) /\ Lists(<<>>)
  BY DEF Init, Lists
<1> QED
  BY <1>1 DEF ListInv

\* The end of the queue, as the code tests it.
LEMMA ListEnds ==
  ASSUME TypeOK, NEW q \in Seq(Node), Lists(q)
  PROVE  /\ top_q = NULL <=> q = <<>>
         /\ bot_q = NULL <=> q = <<>>
         /\ top_q = NULL <=> heap = {}
         /\ top_q # NULL => top_q \in heap /\ bot_q \in heap
<1>1. CASE q = <<>>
  BY <1>1 DEF Lists
<1>2. CASE q # <<>>
  <2>1. 1 \in 1 .. Len(q) /\ Len(q) \in 1 .. Len(q)
    BY <1>2
  <2>2. q[1] \in Node /\ q[Len(q)] \in Node
    BY <2>1
  <2>3. top_q = q[1] /\ bot_q = q[Len(q)] /\ q[1] \in heap /\ q[Len(q)] \in heap
    BY <1>2, <2>1 DEF Lists
  <2> QED
    BY <1>2, <2>2, <2>3, NullAssumption
<1> QED
  BY <1>1, <1>2

\* resume appends its node.
LEMMA ListAppend ==
  ASSUME TypeOK, NEW q \in Seq(Node), Lists(q), NEW n \in Node, ResumeLink(n)
  PROVE  \E p \in Seq(Node) : p = Append(q, n) /\ Lists(p)'
<1> USE NullAssumption
<1> PICK l \in Nat : l = Len(q)
  OBVIOUS
<1> PICK p \in Seq(Node) : p = Append(q, n)
  <2>1. Append(q, n) \in Seq(Node)
    OBVIOUS
  <2> QED
    BY <2>1
<1> SUFFICES Lists(p)'
  OBVIOUS
<1>1. /\ Len(p) = l + 1 /\ p[l + 1] = n /\ p # <<>>
      /\ \A i \in 1 .. l : p[i] = q[i] /\ q[i] \in Node /\ q[i] \in heap
  BY DEF Lists
<1>2. n \notin heap /\ heap' = heap \cup {n} /\ bot_q' = n
  BY DEF ResumeLink
<1>3. \A i, j \in 1 .. l + 1 : p[i] = p[j] => i = j
  <2>1. \A i \in 1 .. l : p[i] # n
    BY <1>1, <1>2
  <2>2. \A i, j \in 1 .. l : p[i] = p[j] => i = j
    BY <1>1 DEF Lists
  <2>3. \A i \in 1 .. l + 1 : i \in 1 .. l \/ i = l + 1
    OBVIOUS
  <2> QED
    BY <1>1, <2>1, <2>2, <2>3
<1>4. heap' = {p[i] : i \in 1 .. l + 1}
  BY <1>1, <1>2 DEF Lists
<1>5. CASE q = <<>>
  <2>1. top_q' = n /\ m' = [m EXCEPT ![n] = NULL] /\ l = 0
    BY <1>5, ListEnds DEF ResumeLink
  <2>2. m'[n] = NULL
    BY <2>1 DEF TypeOK
  <2> QED
    BY <1>1, <1>2, <1>3, <1>4, <2>1, <2>2 DEF Lists
<1>6. CASE q # <<>>
  <2>1. top_q' = top_q /\ m' = [m EXCEPT ![bot_q] = n, ![n] = NULL]
    BY <1>6, ListEnds DEF ResumeLink
  <2>2. l \in 1 .. l /\ 1 \in 1 .. l /\ bot_q = q[l] /\ top_q = p[1]
    BY <1>1, <1>6 DEF Lists
  <2>3. m'[n] = NULL /\ m'[q[l]] = n
    BY <1>1, <1>2, <2>1, <2>2 DEF TypeOK
  <2>4. \A i \in 1 .. l - 1 : m'[q[i]] = q[i + 1]
    <3> TAKE i \in 1 .. l - 1
    <3>1. i \in 1 .. l /\ q[i] # q[l] /\ q[i] # n
      BY <1>1, <1>2, <2>2 DEF Lists
    <3>2. m[q[i]] = q[i + 1]
      BY <3>1 DEF Lists
    <3> QED
      BY <1>1, <2>1, <2>2, <3>1, <3>2 DEF TypeOK
  <2>5. \A i \in 1 .. l + 1 : m'[p[i]] = IF i = l + 1 THEN NULL ELSE p[i + 1]
    <3> TAKE i \in 1 .. l + 1
    <3>1. CASE i = l + 1
      BY <1>1, <2>3, <3>1
    <3>2. CASE i = l
      BY <1>1, <2>2, <2>3, <3>2
    <3>3. CASE i \in 1 .. l - 1
      BY <1>1, <2>4, <3>3
    <3> QED
      BY <3>1, <3>2, <3>3
  <2>6. top_q' = p[1] /\ bot_q' = p[Len(p)]
    BY <1>1, <1>2, <2>1, <2>2
  <2> QED
    BY <1>1, <1>3, <1>4, <2>5, <2>6 DEF Lists
<1> QED
  BY <1>5, <1>6

\* yield removes the front node.
LEMMA ListPop ==
  ASSUME TypeOK, NEW q \in Seq(Node), Lists(q), YieldDispatch
  PROVE  q # <<>> /\ \E p \in Seq(Node) : p = Tail(q) /\ Lists(p)'
<1> USE NullAssumption
<1>1. q # <<>> /\ top_q = q[1] /\ heap' = heap \ {top_q} /\ m' = m
  BY ListEnds DEF YieldDispatch, SwitchTo, Lists
<1> PICK l \in Nat : l + 1 = Len(q)
  <2>1. Len(q) - 1 \in Nat
    BY <1>1
  <2> QED
    BY <2>1
<1> PICK p \in Seq(Node) : p = Tail(q)
  <2>1. Tail(q) \in Seq(Node)
    BY <1>1
  <2> QED
    BY <2>1
<1> SUFFICES Lists(p)'
  BY <1>1
<1>2. Len(p) = l /\ \A i \in 1 .. l : p[i] = q[i + 1] /\ p[i] \in Node
  BY <1>1
<1>3. \A i, j \in 1 .. l : p[i] = p[j] => i = j
  BY <1>2 DEF Lists
<1>4. heap' = {p[i] : i \in 1 .. l}
  <2>1. \A i \in 1 .. l : q[i + 1] \in heap /\ q[i + 1] # q[1]
    BY DEF Lists
  <2>2. ASSUME NEW n \in heap' PROVE \E i \in 1 .. l : n = q[i + 1]
    <3>1. PICK j \in 1 .. l + 1 : n = q[j]
      BY <1>1 DEF Lists
    <3>2. j - 1 \in 1 .. l
      BY <1>1, <3>1
    <3> QED
      BY <3>1, <3>2
  <2> QED
    BY <1>1, <1>2, <2>1, <2>2
<1>5. \A i \in 1 .. l : m'[p[i]] = IF i = l THEN NULL ELSE p[i + 1]
  BY <1>1, <1>2 DEF Lists
<1>6. CASE l = 0
  <2>1. m[top_q] = NULL
    BY <1>1, <1>6 DEF Lists
  <2>2. top_q' = NULL /\ bot_q' = NULL
    BY <2>1 DEF YieldDispatch, SwitchTo
  <2>3. p = <<>> /\ Len(p) = l
    BY <1>2, <1>6
  <2> QED
    BY <1>3, <1>4, <1>5, <2>2, <2>3 DEF Lists
<1>7. CASE l # 0
  <2>0. 1 \in 1 .. l /\ l \in 1 .. l /\ p # <<>>
    BY <1>2, <1>7
  <2>1. p[1] = q[1 + 1] /\ p[l] = q[l + 1] /\ p[1] \in Node
    BY <1>2, <2>0
  <2>2. m[top_q] = p[1] /\ bot_q = p[l]
    BY <1>1, <1>7, <2>1 DEF Lists
  <2>3. top_q' = p[1] /\ bot_q' = p[l]
    BY <2>1, <2>2 DEF YieldDispatch, SwitchTo
  <2> QED
    BY <1>2, <1>3, <1>4, <1>5, <2>0, <2>3 DEF Lists
<1> QED
  BY <1>6, <1>7

LEMMA StepList == TypeOK /\ ListInv /\ [Next]_vars => ListInv'
<1> SUFFICES ASSUME TypeOK, ListInv, [Next]_vars PROVE ListInv'
  OBVIOUS
<1>1. ASSUME UNCHANGED queue PROVE ListInv'
  BY <1>1 DEF queue, ListInv, Lists
<1>2. ASSUME NEW n \in Node, ResumeLink(n) PROVE ListInv'
  BY <1>2, ListAppend DEF ListInv
<1>3. CASE YieldDispatch
  BY <1>3, ListPop DEF ListInv
<1>4. \/ UNCHANGED queue
      \/ YieldDispatch
      \/ \E n \in Node : ResumeLink(n)
  BY DEF Next, Code, vars, queue, MainEnable, MainDispatch, CreateThread,
     MainAdd, Kill, Terminate, ResumeMask, ResumeUnmask, YieldMask, YieldEmpty,
     YieldUnmask, ThreadStart, Burst, FunctionReturns, ShutdownMask,
     ShutdownTerminate, ShutdownDelete, ShutdownReturn, TimerRaise, TimerInterrupt
<1> QED
  BY <1>1, <1>2, <1>3, <1>4
LEMMA ListInvariant == Spec => [](TypeOK /\ ListInv)
BY InitType, StepType, InitList, StepList, PTL DEF Spec

-----------------------------------------------------------------------------
(* What the walk along the list finds.  Nth is defined by recursion over    *)
(* the number of links: that the definition has a value is shown with a    *)
(* witness, and its values follow by induction up to a bound.              *)

\* Induction up to k.  A set that is closed under successor below k and does
\* not hold k would be mapped into itself without 0.
LEMMA InductionUpTo ==
  ASSUME NEW S, NEW k \in Nat, 0 \in S, \A n \in 0 .. k - 1 : n \in S => n + 1 \in S
  PROVE  k \in S
<1> SUFFICES ASSUME k \notin S PROVE FALSE
  OBVIOUS
<1>1. PICK T \in SUBSET (0 .. k) : T = S \cap (0 .. k)
  OBVIOUS
<1>2. PICK f \in [T -> T \ {0}] : \A n \in T : f[n] = n + 1
  <2>1. [n \in T |-> n + 1] \in [T -> T \ {0}]
    BY <1>1
  <2> QED
    BY <2>1
<1>3. f \in Injection(T, T \ {0})
  BY <1>1, <1>2 DEF Injection, IsInjective
<1>4. IsFiniteSet(0 .. k)
  BY FS_Interval
<1>5. IsFiniteSet(T)
  BY <1>4, FS_Subset
<1>6. IsFiniteSet(T \ {0}) /\ (0 \in T => Cardinality(T \ {0}) = Cardinality(T) - 1)
  BY <1>5, FS_RemoveElement
<1>7. Cardinality(T) <= Cardinality(T \ {0})
  BY <1>3, <1>6, FS_Injection
<1> QED
  BY <1>1, <1>5, <1>6, <1>7, FS_CardinalityType
LEMMA IndicesCount ==
  ASSUME NEW l \in Nat
  PROVE  /\ IsFiniteSet(1 .. l) /\ Cardinality(1 .. l) = l
         /\ IsFiniteSet(0 .. l - 1) /\ Cardinality(0 .. l - 1) = l
<1>1. l \in Int /\ l - 1 \in Int
  OBVIOUS
<1>2. IsFiniteSet(1 .. l) /\ Cardinality(1 .. l) = IF 1 > l THEN 0 ELSE l - 1 + 1
  BY <1>1, FS_Interval
<1>3. IsFiniteSet(0 .. l - 1) /\ Cardinality(0 .. l - 1) = IF 0 > l - 1 THEN 0 ELSE l - 1 - 0 + 1
  BY <1>1, FS_Interval
<1> QED
  BY <1>2, <1>3

\* A list has at most as many nodes as there are, and those of the heap.
LEMMA ListLength ==
  ASSUME NEW q \in Seq(Node), Lists(q)
  PROVE  Len(q) <= Cardinality(Node) /\ Len(q) = Cardinality(heap)
<1> PICK l \in Nat : l = Len(q)
  OBVIOUS
<1> DEFINE f == [i \in 1 .. l |-> q[i]]
<1>1. IsFiniteSet(1 .. l) /\ Cardinality(1 .. l) = l
  BY IndicesCount
<1>2. f \in [1 .. l -> Node] /\ f \in [1 .. l -> heap]
  BY DEF Lists
<1>3. f \in Injection(1 .. l, Node) /\ f \in Bijection(1 .. l, heap)
  BY <1>2 DEF Lists, Injection, IsInjective, Bijection, Surjection
<1> HIDE DEF f
<1>4. l <= Cardinality(Node)
  BY <1>1, <1>3, NodeAssumption, FS_Injection
<1>5. Cardinality(heap) = l
  BY <1>1, <1>3, FS_Bijection DEF ExistsBijection
<1> QED
  BY <1>4, <1>5

\* The definition of Nth by recursion defines it.
LEMMA NthRule ==
  ASSUME TypeOK, NEW q \in Seq(Node), Lists(q)
  PROVE  Nth = [k \in 0 .. Cardinality(Node) |->
                  IF k = 0 THEN top_q
                  ELSE IF Nth[k - 1] = NULL THEN NULL ELSE m[Nth[k - 1]]]
<1> PICK l \in Nat : l = Len(q)
  OBVIOUS
<1> PICK c \in Nat : c = Cardinality(Node)
  BY NodeAssumption, FS_CardinalityType
<1> DEFINE g == [k \in 0 .. c |-> IF k < l THEN q[k + 1] ELSE NULL]
<1>1. ASSUME NEW k \in 0 .. c
      PROVE  g[k] = IF k = 0 THEN top_q
                    ELSE IF g[k - 1] = NULL THEN NULL ELSE m[g[k - 1]]
  <2>1. CASE k = 0
    <3>1. l = 0 <=> q = <<>>
      OBVIOUS
    <3> QED
      BY <2>1, <3>1 DEF Lists
  <2>2. CASE k # 0 /\ k - 1 < l
    <3>1. k \in 1 .. l /\ g[k - 1] = q[k] /\ q[k] \in Node
      BY <2>2
    <3>2. m[q[k]] = IF k = l THEN NULL ELSE q[k + 1]
      BY <3>1 DEF Lists
    <3> QED
      BY <2>2, <3>1, <3>2, NullAssumption
  <2>3. CASE k # 0 /\ l <= k - 1
    BY <2>3
  <2> QED
    BY <2>1, <2>2, <2>3
<1>2. g = [k \in 0 .. c |-> IF k = 0 THEN top_q
                            ELSE IF g[k - 1] = NULL THEN NULL ELSE m[g[k - 1]]]
  <2>1. g = [k \in 0 .. c |-> g[k]]
    OBVIOUS
  <2> HIDE DEF g
  <2> QED
    BY <1>1, <2>1
<1> HIDE DEF g
<1>3. \E f : f = [k \in 0 .. c |-> IF k = 0 THEN top_q
                            ELSE IF f[k - 1] = NULL THEN NULL ELSE m[f[k - 1]]]
  BY <1>2
<1> QED
  BY <1>3 DEF Nth

\* The walk finds the list node by node, and nothing behind its end.
LEMMA Walk ==
  ASSUME TypeOK, NEW q \in Seq(Node), Lists(q), NEW k \in 0 .. Cardinality(Node)
  PROVE  Nth[k] = IF k < Len(q) THEN q[k + 1] ELSE NULL
<1> PICK l \in Nat : l = Len(q)
  OBVIOUS
<1> PICK c \in Nat : c = Cardinality(Node)
  BY NodeAssumption, FS_CardinalityType
<1> DEFINE S == {j \in 0 .. c : Nth[j] = IF j < l THEN q[j + 1] ELSE NULL}
<1>1. 0 \in S
  <2>1. Nth[0] = top_q
    BY NthRule
  <2>2. l = 0 <=> q = <<>>
    OBVIOUS
  <2> QED
    BY <2>1, <2>2 DEF Lists
<1>2. ASSUME NEW j \in 0 .. k - 1, j \in S
      PROVE  j + 1 \in S
  <2>1. Nth[j + 1] = IF Nth[j] = NULL THEN NULL ELSE m[Nth[j]]
    BY NthRule
  <2>2. CASE j < l
    <3>1. j + 1 \in 1 .. l /\ Nth[j] = q[j + 1] /\ q[j + 1] \in Node
      BY <1>2, <2>2
    <3>2. m[q[j + 1]] = IF j + 1 = l THEN NULL ELSE q[j + 1 + 1]
      BY <3>1 DEF Lists
    <3> QED
      BY <2>1, <2>2, <3>1, <3>2, NullAssumption
  <2>3. CASE l <= j
    BY <1>2, <2>1, <2>3
  <2> QED
    BY <2>2, <2>3
<1>3. k \in S
  <2> HIDE DEF S
  <2> QED
    BY <1>1, <1>2, InductionUpTo
<1> QED
  BY <1>3

ThreadsOf(q) == [i \in 1 .. Len(q) |-> tid[q[i]]]

\* What the walk reads off the list: its nodes, their number, their threads.
LEMMA Reads ==
  ASSUME TypeOK, NEW q \in Seq(Node), Lists(q)
  PROVE  /\ Reached = 0 .. Len(q) - 1
         /\ Cardinality(Reached) = Len(q)
         /\ ReadyQueue = ThreadsOf(q)
<1> PICK l \in Nat : l = Len(q)
  OBVIOUS
<1> PICK c \in Nat : c = Cardinality(Node)
  BY NodeAssumption, FS_CardinalityType
<1>1. l <= c
  BY ListLength
<1>2. \A k \in 0 .. c : Nth[k] = IF k < l THEN q[k + 1] ELSE NULL
  BY Walk
<1>3. \A k \in 0 .. l - 1 : k \in 0 .. c /\ Nth[k] = q[k + 1] /\ Nth[k] \in Node
  BY <1>1, <1>2
<1>4. Reached = 0 .. l - 1
  BY <1>1, <1>2, <1>3, NullAssumption DEF Reached
<1>5. Cardinality(Reached) = l
  BY <1>4, IndicesCount
<1>6. \A i \in 1 .. l : Nth[i - 1] = q[i]
  BY <1>3
<1>7. ReadyQueue = ThreadsOf(q)
  BY <1>5, <1>6 DEF ReadyQueue, ThreadsOf
<1> QED
  BY <1>4, <1>5, <1>7

\* The list of the ready queue is intact and nothing leaks.
THEOREM QueueIntact == Spec => []QueueShape
<1>1. TypeOK /\ ListInv => QueueShape
  <2> SUFFICES ASSUME TypeOK, NEW q \in Seq(Node), Lists(q)
               PROVE  QueueShape
    BY DEF ListInv
  <2> PICK l \in Nat : l = Len(q)
    OBVIOUS
  <2>1. Reached = 0 .. l - 1 /\ Cardinality(Reached) = l /\ Cardinality(heap) = l
    BY Reads, ListLength
  <2>2. \A k \in 0 .. l - 1 : Nth[k] = q[k + 1]
    <3>1. Cardinality(Node) \in Nat /\ l <= Cardinality(Node)
      BY NodeAssumption, FS_CardinalityType, ListLength
    <3> QED
      BY <3>1, Walk
  <2>3. {Nth[k] : k \in Reached} = {q[i] : i \in 1 .. l}
    <3>1. \A i \in 1 .. l : i - 1 \in 0 .. l - 1 /\ Nth[i - 1] = q[i]
      BY <2>2
    <3> QED
      BY <2>1, <2>2, <3>1
  <2>4. bot_q = IF Reached = {} THEN NULL ELSE Nth[l - 1]
    <3>1. CASE q = <<>>
      BY <2>1, <3>1 DEF Lists
    <3>2. CASE q # <<>>
      <4>1. l - 1 \in 0 .. l - 1 /\ l - 1 + 1 = l
        BY <3>2
      <4>2. Reached # {} /\ Nth[l - 1] = q[l]
        BY <2>1, <2>2, <4>1
      <4> QED
        BY <3>2, <4>2 DEF Lists
    <3> QED
      BY <3>1, <3>2
  <2> QED
    BY <2>1, <2>3, <2>4 DEF QueueShape, Lists
<1> QED
  BY <1>1, ListInvariant, PTL

-----------------------------------------------------------------------------
(* Where each thread is, when threads end only by returning                *)

\* pass_on_CPU has queued the running thread t and not yet switched away.
Leaving(t) ==
  \/ pc[t] = "resume_unmask"
  \/ pc[t] \in {"yield", "yield_pick"} /\ ret[t] = "function"

\* thread_shutdown has deleted the running thread t.
Ended(t) ==
  \/ pc[t] \in {"shutdown_delete", "shutdown_return"}
  \/ pc[t] \in {"yield", "yield_pick", "yield_unmask"} /\ ret[t] # "function"

\* While the start-up code runs: the threads it has already queued.
AddedByMain(t) ==
  t # First /\ t \notin toAdd /\ (pc[NULL] \in {"resume", "resume_link"} => t # param)

MainPlace ==
  current = NULL =>
    /\ deleted = {}
    /\ First \notin toAdd
    /\ pc[NULL] \in {"resume", "resume_link", "resume_unmask"} => param # First /\ param \notin toAdd
    /\ \A t \in Thread : Queued(t) <=> AddedByMain(t)

ThreadPlace ==
  current # NULL =>
    /\ \A t \in Thread : Queued(t) <=> t \notin deleted /\ (t = current => Leaving(t))
    /\ current \in deleted <=> Ended(current)
    /\ pc[current] \in {"resume", "resume_link"} => param = current

PlaceInv ==
  /\ \A a, b \in heap : tid[a] = tid[b] => a = b
  /\ \A t \in Thread \ {current} :
       t \notin deleted => (pc[t] = "yield_unmask" => ret[t] = "function")
  /\ MainPlace
  /\ ThreadPlace

LEMMA InitPlace == Init => PlaceInv
BY FirstAssumption, NullAssumption
DEF Init, Actor, PlaceInv, MainPlace, ThreadPlace, Queued, AddedByMain

\* A step that leaves the queue alone preserves Queued.
LEMMA QueuedSame == ASSUME UNCHANGED queue PROVE \A t : Queued(t)' <=> Queued(t)
BY DEF queue, Queued

LEMMA StepPlace ==
  ASSUME Killable = {}, TypeOK, FlagInv, ListInv, PlaceInv, [Next]_vars
  PROVE  PlaceInv'
<1> USE NullAssumption, FirstAssumption
    DEF TypeOK, Actor, MainLabels, ThreadLabels, At, Goto, threads, progress
<1>1. CASE MainEnable
  BY <1>1, QueuedSame DEF MainEnable, PlaceInv, MainPlace, ThreadPlace, AddedByMain, queue
<1>2. CASE MainDispatch
  <2>1. current = NULL /\ current' = First /\ UNCHANGED <<queue, deleted, ret>> /\ toAdd = {}
    BY <1>2 DEF MainDispatch, FlagInv
  <2>2. \A t \in Thread : pc'[t] = pc[t] /\ pc[t] \in {"thread_start", "yield_unmask"}
    BY <1>2, <2>1 DEF MainDispatch, FlagInv, OffCpu
  <2>3. deleted = {} /\ \A t \in Thread : Queued(t) <=> t # First
    BY <1>2, <2>1 DEF MainDispatch, PlaceInv, MainPlace, AddedByMain
  <2>4. \A t \in Thread : pc[t] = "yield_unmask" => ret[t] = "function"
    BY <2>1, <2>3 DEF PlaceInv
  <2>5. \A t \in Thread : Queued(t)' <=> t # First
    BY <2>1, <2>3, QueuedSame
  <2> QED
    BY <2>1, <2>2, <2>3, <2>4, <2>5 DEF PlaceInv, MainPlace, ThreadPlace, Leaving, Ended, queue
<1>3. ASSUME NEW t \in Thread, CreateThread(t) PROVE PlaceInv'
  <2>1. current = NULL
    BY <1>3 DEF CreateThread
  <2> QED
    BY <1>3, <2>1, QueuedSame DEF CreateThread, PlaceInv, MainPlace, ThreadPlace, AddedByMain, queue
<1>4. ASSUME NEW t \in Thread, MainAdd(t) PROVE PlaceInv'
  <2>1. current = NULL
    BY <1>4 DEF MainAdd
  <2> QED
    BY <1>4, <2>1, QueuedSame DEF MainAdd, PlaceInv, MainPlace, ThreadPlace, AddedByMain, queue
<1>5. ASSUME NEW t \in Thread, Kill(t) PROVE PlaceInv'
  BY <1>5 DEF Kill
<1>6. CASE ResumeMask
  BY <1>6, QueuedSame DEF ResumeMask, PlaceInv, MainPlace, ThreadPlace, AddedByMain,
     Leaving, Ended, queue
<1>7. CASE ResumeUnmask
  BY <1>7, QueuedSame DEF ResumeUnmask, PlaceInv, MainPlace, ThreadPlace, AddedByMain,
     Leaving, Ended, queue
<1>8. ASSUME NEW n \in Node, ResumeLink(n) PROVE PlaceInv'
  <2>1. n \notin heap /\ heap' = heap \cup {n} /\ tid' = [tid EXCEPT ![n] = param]
    BY <1>8 DEF ResumeLink
  <2>2. \A t \in Thread : Queued(t)' <=> Queued(t) \/ t = param
    BY <2>1 DEF Queued
  <2>3. ~Queued(param)
    BY <1>8 DEF ResumeLink, PlaceInv, MainPlace, ThreadPlace, AddedByMain, Leaving, Ended
  <2>4. \A a, b \in heap' : tid'[a] = tid'[b] => a = b
    BY <2>1, <2>3 DEF PlaceInv, Queued
  <2>5. CASE current = NULL
    BY <1>8, <2>2, <2>4, <2>5 DEF ResumeLink, PlaceInv, MainPlace, ThreadPlace, AddedByMain
  <2>6. CASE current # NULL
    BY <1>8, <2>2, <2>4, <2>6 DEF ResumeLink, PlaceInv, MainPlace, ThreadPlace, Leaving, Ended
  <2> QED
    BY <2>5, <2>6
<1>9. CASE YieldMask
  BY <1>9, QueuedSame DEF YieldMask, PlaceInv, MainPlace, ThreadPlace, Leaving, Ended, queue
<1>10. CASE YieldDispatch
  <2>1. current \in Thread /\ pc[current] = "yield_pick"
    BY <1>10 DEF YieldDispatch, SwitchTo
  <2>2. top_q \in heap
    BY <1>10, ListEnds DEF YieldDispatch, SwitchTo, ListInv
  <2> PICK x \in Thread : x = tid[top_q]
    BY <2>2
  <2>3. Queued(x) /\ x \notin deleted
    BY <2>1, <2>2 DEF Queued, PlaceInv, ThreadPlace
  <2>4. heap' = heap \ {top_q} /\ UNCHANGED <<tid, deleted, ret>> /\ current' = x
    BY <1>10 DEF YieldDispatch, SwitchTo
  <2>5. \A t \in Thread : Queued(t)' <=> Queued(t) /\ t # x
    BY <2>2, <2>4 DEF Queued, PlaceInv
  <2>6. pc' = [pc EXCEPT ![current] = "yield_unmask"]
    BY <1>10 DEF YieldDispatch, SwitchTo
  <2>7. pc'[x] \in {"thread_start", "yield_unmask"}
    BY <2>1, <2>3, <2>6 DEF FlagInv, OffCpu
  <2>8. current \notin deleted => ret[current] = "function"
    BY <2>1 DEF PlaceInv, ThreadPlace, Ended
  <2>9. x # current /\ pc[x] = "yield_unmask" => ret[x] = "function"
    BY <2>3 DEF PlaceInv
  <2>10. ~Leaving(x)' /\ ~Ended(x)'
    BY <2>1, <2>3, <2>4, <2>6, <2>7, <2>8, <2>9 DEF Leaving, Ended
  <2>11. \A t \in Thread : Queued(t) <=> t \notin deleted
    BY <2>1, <2>8 DEF PlaceInv, ThreadPlace, Leaving, Ended
  <2>12. ThreadPlace'
    BY <2>3, <2>4, <2>5, <2>7, <2>10, <2>11 DEF ThreadPlace
  <2>13. \A t \in Thread \ {x} : t \notin deleted => (pc'[t] = "yield_unmask" => ret[t] = "function")
    BY <2>1, <2>6, <2>8 DEF PlaceInv
  <2> QED
    BY <2>3, <2>4, <2>12, <2>13 DEF PlaceInv, MainPlace
<1>11. CASE YieldEmpty
  <2>1. heap = {}
    BY <1>11, ListEnds DEF YieldEmpty, ListInv
  <2>2. ret[current] # "function"
    BY <1>11, <2>1 DEF YieldEmpty, PlaceInv, ThreadPlace, Leaving, Ended, Queued
  <2> QED
    BY <1>11, <2>1, <2>2, QueuedSame DEF YieldEmpty, PlaceInv, MainPlace, ThreadPlace,
       Leaving, Ended, queue
<1>12. CASE YieldUnmask
  <2>1. current \in Thread /\ ret[current] \in {"function", "shutdown_delete", "shutdown_return"}
    BY <1>12 DEF YieldUnmask
  <2>2. pc' = [pc EXCEPT ![current] = ret[current]] /\ pc[current] = "yield_unmask"
    BY <1>12 DEF YieldUnmask
  <2>3. UNCHANGED <<queue, deleted, ret, current>>
    BY <1>12 DEF YieldUnmask
  <2>4. ~Leaving(current) /\ ~Leaving(current)' /\ (Ended(current)' <=> Ended(current))
    BY <2>1, <2>2, <2>3 DEF Leaving, Ended
  <2>5. ThreadPlace'
    BY <2>1, <2>2, <2>3, <2>4, QueuedSame DEF PlaceInv, ThreadPlace
  <2> QED
    BY <2>1, <2>2, <2>3, <2>5 DEF PlaceInv, MainPlace, queue
<1>13. CASE ThreadStart
  BY <1>13, QueuedSame DEF ThreadStart, PlaceInv, MainPlace, ThreadPlace, Leaving, Ended, queue
<1>14. CASE Burst
  BY <1>14, QueuedSame DEF Burst, PlaceInv, MainPlace, ThreadPlace, Leaving, Ended, queue
<1>15. CASE FunctionReturns
  BY <1>15, QueuedSame DEF FunctionReturns, PlaceInv, MainPlace, ThreadPlace, Leaving, Ended, queue
<1>16. CASE ShutdownMask
  BY <1>16, QueuedSame DEF ShutdownMask, PlaceInv, MainPlace, ThreadPlace, Leaving, Ended, queue
<1>17. CASE ShutdownTerminate
  BY <1>17, QueuedSame DEF ShutdownTerminate, Terminate, PlaceInv, MainPlace, ThreadPlace,
     Leaving, Ended, queue
<1>18. CASE ShutdownDelete
  BY <1>18, QueuedSame DEF ShutdownDelete, PlaceInv, MainPlace, ThreadPlace, Leaving, Ended, queue
<1>19. CASE ShutdownReturn
  BY <1>19, QueuedSame DEF ShutdownReturn, PlaceInv, MainPlace, ThreadPlace, AddedByMain,
     Leaving, Ended, queue
<1>20. CASE TimerRaise
  BY <1>20, QueuedSame DEF TimerRaise, PlaceInv, MainPlace, ThreadPlace, AddedByMain,
     Leaving, Ended, queue
<1>21. CASE TimerInterrupt
  BY <1>21, QueuedSame DEF TimerInterrupt, PlaceInv, MainPlace, ThreadPlace, AddedByMain,
     Leaving, Ended, queue
<1>22. CASE UNCHANGED vars
  BY <1>22, QueuedSame DEF vars, PlaceInv, MainPlace, ThreadPlace, AddedByMain,
     Leaving, Ended, queue
<1> QED
  BY <1>1, <1>2, <1>3, <1>4, <1>5, <1>6, <1>7, <1>8, <1>9, <1>10, <1>11,
     <1>12, <1>13, <1>14, <1>15, <1>16, <1>17, <1>18, <1>19, <1>20, <1>21, <1>22
  DEF Next, Code
\* The inductive invariant of the scheduler.
IInv == TypeOK /\ FlagInv /\ ListInv /\ PlaceInv

LEMMA Inductive == ASSUME Killable = {} PROVE Spec => []IInv
<1>1. Init => IInv
  BY InitType, InitFlag, InitList, InitPlace DEF IInv
<1>2. IInv /\ [Next]_vars => IInv'
  BY StepType, StepFlag, StepList, StepPlace DEF IInv
<1> QED
  BY <1>1, <1>2, PTL DEF Spec

\* No thread is lost and none is queued twice.
THEOREM ThreadsKept == ASSUME Killable = {} PROVE Spec => []NoThreadLost
<1>1. IInv => NoThreadLost
  BY DEF IInv, PlaceInv, ThreadPlace, NoThreadLost
<1> QED
  BY <1>1, Inductive, PTL

\* A deleted thread never gets the CPU back.
THEOREM DeletedStayOff == ASSUME Killable = {} PROVE Spec => NoResurrection
<1>1. IInv /\ [Next]_vars => [current' # current => current' \notin deleted]_vars
  <2> SUFFICES ASSUME IInv, [Next]_vars, current' # current PROVE current' \notin deleted
    OBVIOUS
  <2>1. CASE MainDispatch
    BY <2>1 DEF MainDispatch, At, IInv, TypeOK, FlagInv, PlaceInv, MainPlace,
       MainLabels, ThreadLabels, Actor
  <2>2. CASE YieldDispatch
    <3>1. top_q \in heap /\ current # NULL /\ current' = tid[top_q] /\ tid[top_q] \in Thread
      BY <2>2, ListEnds DEF YieldDispatch, SwitchTo, At, IInv, TypeOK, MainLabels, Actor, ListInv
    <3> QED
      BY <3>1 DEF IInv, PlaceInv, ThreadPlace, Queued
  <2>3. MainDispatch \/ YieldDispatch
    BY DEF Next, Code, vars, threads, MainEnable, CreateThread, MainAdd, Kill, Terminate,
       ResumeMask, ResumeLink, ResumeUnmask, YieldMask, YieldEmpty, YieldUnmask,
       ThreadStart, Burst, FunctionReturns, ShutdownMask, ShutdownTerminate,
       ShutdownDelete, ShutdownReturn, TimerRaise, TimerInterrupt
  <2> QED
    BY <2>1, <2>2, <2>3
<1> QED
  BY <1>1, Inductive, PTL DEF Spec, NoResurrection

-----------------------------------------------------------------------------
(* The scheduler implements FifoScheduler                                  *)

LEMMA ReadyIs ==
  \A q \in Seq(Node) : TypeOK /\ Lists(q) => ReadyQueue = ThreadsOf(q)
BY Reads

LEMMA ReadyIsNext ==
  \A q \in Seq(Node) : TypeOK' /\ Lists(q)' => ReadyQueue' = ThreadsOf(q)'
<1>1. (\A q \in Seq(Node) : TypeOK /\ Lists(q) => ReadyQueue = ThreadsOf(q))'
  BY ReadyIs, PTL
<1> QED
  BY <1>1

\* ThreadsOf(q) is a sequence of threads.
LEMMA ThreadsSeq ==
  \A q \in Seq(Node) : TypeOK => /\ ThreadsOf(q) \in Seq(Thread)
                                 /\ Len(ThreadsOf(q)) = Len(q)
                                 /\ \A i \in 1 .. Len(q) : ThreadsOf(q)[i] = tid[q[i]]
<1> SUFFICES ASSUME NEW q \in Seq(Node), TypeOK
             PROVE  /\ ThreadsOf(q) \in Seq(Thread)
                    /\ Len(ThreadsOf(q)) = Len(q)
                    /\ \A i \in 1 .. Len(q) : ThreadsOf(q)[i] = tid[q[i]]
  OBVIOUS
<1> PICK l \in Nat : l = Len(q)
  OBVIOUS
<1>1. \A i \in 1 .. l : tid[q[i]] \in Thread
  BY DEF TypeOK
<1>2. ThreadsOf(q) \in [1 .. l -> Thread] /\ \A i \in 1 .. l : ThreadsOf(q)[i] = tid[q[i]]
  BY <1>1 DEF ThreadsOf
<1>3. ThreadsOf(q) \in Seq(Thread)
  BY <1>2, SeqDef
<1>4. Len(ThreadsOf(q)) = l
  BY <1>2, <1>3, LenProperties
<1> QED
  BY <1>2, <1>3, <1>4

LEMMA ThreadsSeqNext ==
  \A q \in Seq(Node) : TypeOK' => /\ ThreadsOf(q)' \in Seq(Thread)
                                  /\ Len(ThreadsOf(q)') = Len(q)
                                  /\ \A i \in 1 .. Len(q) : ThreadsOf(q)'[i] = tid'[q[i]]
<1>1. (\A q \in Seq(Node) : TypeOK => /\ ThreadsOf(q) \in Seq(Thread)
                                      /\ Len(ThreadsOf(q)) = Len(q)
                                      /\ \A i \in 1 .. Len(q) : ThreadsOf(q)[i] = tid[q[i]])'
  BY ThreadsSeq, PTL
<1> QED
  BY <1>1

\* The abstract queue holds the threads that have a node.
LEMMA ReadyElements ==
  ASSUME TypeOK, ListInv
  PROVE  \A t \in Thread : t \in Fifo!Elements(ReadyQueue) <=> Queued(t)
<1>1. PICK q \in Seq(Node) : Lists(q)
  BY DEF ListInv
<1>2. ReadyQueue = ThreadsOf(q)
  BY <1>1, ReadyIs
<1>3. Fifo!Elements(ReadyQueue) = {tid[q[i]] : i \in 1 .. Len(q)}
  BY <1>2 DEF Fifo!Elements, ThreadsOf
<1> QED
  BY <1>1, <1>3 DEF Lists, Queued

LEMMA ReadySame ==
  ASSUME TypeOK, TypeOK', ListInv, UNCHANGED queue
  PROVE  ReadyQueue' = ReadyQueue
<1>1. PICK q \in Seq(Node) : Lists(q)
  BY DEF ListInv
<1>2. Lists(q)' /\ ThreadsOf(q)' = ThreadsOf(q)
  BY <1>1 DEF Lists, ThreadsOf, queue
<1> QED
  BY <1>1, <1>2, ReadyIs, ReadyIsNext

LEMMA ReadyAppends ==
  ASSUME TypeOK, TypeOK', ListInv, NEW n \in Node, ResumeLink(n)
  PROVE  ReadyQueue' = Append(ReadyQueue, param)
<1>1. PICK q \in Seq(Node) : Lists(q)
  BY DEF ListInv
<1>2. PICK p \in Seq(Node) : p = Append(q, n) /\ Lists(p)'
  BY <1>1, ListAppend
<1> PICK l \in Nat : l = Len(q)
  OBVIOUS
<1>3. Len(p) = l + 1 /\ p[l + 1] = n /\ \A i \in 1 .. l : p[i] = q[i] /\ q[i] \in heap /\ q[i] \in Node
  BY <1>1, <1>2 DEF Lists
<1>4. tid' = [tid EXCEPT ![n] = param] /\ n \notin heap
  BY DEF ResumeLink
<1>5. tid'[n] = param /\ \A i \in 1 .. l : tid'[q[i]] = tid[q[i]] /\ tid[q[i]] \in Thread
  BY <1>3, <1>4 DEF TypeOK
<1>6. \A i \in 1 .. l + 1 : tid'[p[i]] = IF i <= l THEN tid[q[i]] ELSE param
  BY <1>3, <1>5
<1> PICK s \in Seq(Thread) : s = ThreadsOf(q) /\ Len(s) = l /\ \A i \in 1 .. l : s[i] = tid[q[i]]
  BY ThreadsSeq
<1> PICK z \in Seq(Thread) : z = ThreadsOf(p)' /\ Len(z) = l + 1 /\ \A i \in 1 .. l + 1 : z[i] = tid'[p[i]]
  BY <1>3, ThreadsSeqNext
<1>7. /\ Append(s, param) \in Seq(Thread) /\ Len(Append(s, param)) = l + 1
      /\ Append(s, param)[l + 1] = param /\ \A i \in 1 .. l : Append(s, param)[i] = s[i]
  <2>1. param \in Thread /\ Len(s) = l
    BY DEF TypeOK
  <2> QED
    BY <2>1, AppendProperties
<1>8. \A i \in 1 .. l + 1 : z[i] = Append(s, param)[i]
  <2> TAKE i \in 1 .. l + 1
  <2> CASE i \in 1 .. l
    BY <1>6, <1>7
  <2> CASE i = l + 1
    BY <1>6, <1>7
  <2> QED
    OBVIOUS
<1>9. z = Append(s, param)
  BY <1>7, <1>8, SeqEqual
<1> QED
  BY <1>1, <1>2, <1>9, ReadyIs, ReadyIsNext

LEMMA ReadyPops ==
  ASSUME TypeOK, TypeOK', ListInv, YieldDispatch
  PROVE  /\ ReadyQueue # <<>>
         /\ current' = Head(ReadyQueue)
         /\ ReadyQueue' = Tail(ReadyQueue)
<1>1. PICK q \in Seq(Node) : Lists(q)
  BY DEF ListInv
<1>2. q # <<>> /\ \E p \in Seq(Node) : p = Tail(q) /\ Lists(p)'
  BY <1>1, ListPop
<1>3. PICK p \in Seq(Node) : p = Tail(q) /\ Lists(p)'
  BY <1>2
<1> PICK l \in Nat : l + 1 = Len(q)
  <2>1. Len(q) - 1 \in Nat
    BY <1>2
  <2> QED
    BY <2>1
<1>4. Len(p) = l /\ \A i \in 1 .. l : p[i] = q[i + 1]
  BY <1>2, <1>3
<1>5. tid' = tid /\ current' = tid[q[1]]
  BY <1>1, <1>2 DEF YieldDispatch, SwitchTo, Lists
<1> PICK s \in Seq(Thread) : s = ThreadsOf(q) /\ Len(s) = l + 1 /\ \A i \in 1 .. l + 1 : s[i] = tid[q[i]]
  BY ThreadsSeq
<1> PICK z \in Seq(Thread) : z = ThreadsOf(p)' /\ Len(z) = l /\ \A i \in 1 .. l : z[i] = tid'[p[i]]
  BY <1>4, ThreadsSeqNext
<1>6. s # <<>> /\ Head(s) = tid[q[1]]
  OBVIOUS
<1>7. Tail(s) \in Seq(Thread) /\ Len(Tail(s)) = l /\ \A i \in 1 .. l : Tail(s)[i] = s[i + 1]
  BY <1>6, HeadTailProperties
<1>8. \A i \in 1 .. l : z[i] = Tail(s)[i]
  BY <1>4, <1>5, <1>7
<1>9. z = Tail(s)
  BY <1>7, <1>8, SeqEqual
<1> QED
  BY <1>1, <1>3, <1>5, <1>6, <1>9, ReadyIs, ReadyIsNext

LEMMA InitFifo == Init => Fifo!Init
<1> SUFFICES ASSUME Init PROVE Fifo!Init
  OBVIOUS
<1>1. TypeOK /\ Lists(<<>>) /\ <<>> \in Seq(Node)
  BY InitType DEF Init, Lists
<1>2. ReadyQueue = ThreadsOf(<<>>)
  BY <1>1, ReadyIs
<1>3. ThreadsOf(<<>>) = <<>>
  BY DEF ThreadsOf
<1> QED
  BY <1>2, <1>3 DEF Init, Fifo!Init

LEMMA StepFifo ==
  ASSUME Killable = {}, IInv, IInv', [Next]_vars
  PROVE  [Fifo!Next]_(Fifo!vars)
<1> USE NullAssumption, FirstAssumption DEF IInv
<1>1. ASSUME UNCHANGED queue, UNCHANGED <<current, deleted>> PROVE [Fifo!Next]_(Fifo!vars)
  BY <1>1, ReadySame DEF Fifo!vars
<1>2. CASE MainDispatch
  <2>1. current = NULL /\ current' = First /\ UNCHANGED deleted /\ UNCHANGED queue
    BY <1>2 DEF MainDispatch, At, FlagInv, TypeOK, MainLabels, ThreadLabels, Actor, threads
  <2>2. Fifo!Start
    BY <2>1, ReadySame DEF Fifo!Start
  <2> QED
    BY <2>2 DEF Fifo!Next
<1>3. CASE ShutdownTerminate
  <2>1. /\ current \in Thread /\ pc[current] = "shutdown_terminate"
        /\ current' = current /\ deleted' = deleted \cup {current} /\ UNCHANGED queue
    BY <1>3 DEF ShutdownTerminate, Terminate, At, TypeOK, MainLabels, Actor
  <2>2. current \notin deleted /\ ~Queued(current)
    BY <2>1 DEF PlaceInv, ThreadPlace, Leaving, Ended
  <2>3. Fifo!End
    BY <2>1, <2>2, ReadyElements, ReadySame DEF Fifo!End
  <2> QED
    BY <2>3 DEF Fifo!Next
<1>4. CASE ShutdownDelete
  <2>1. /\ current \in Thread /\ pc[current] = "shutdown_delete"
        /\ current' = current /\ deleted' = deleted \cup {current} /\ UNCHANGED queue
    BY <1>4 DEF ShutdownDelete, At, TypeOK, MainLabels, Actor
  <2>2. current \in deleted
    BY <2>1 DEF PlaceInv, ThreadPlace, Ended
  <2> QED
    BY <1>1, <2>1, <2>2
<1>5. ASSUME NEW n \in Node, ResumeLink(n) PROVE [Fifo!Next]_(Fifo!vars)
  <2>1. /\ pc[current] = "resume_link" /\ current \in Actor /\ param \in Thread
        /\ current' = current /\ deleted' = deleted
    BY <1>5 DEF ResumeLink, At, TypeOK, threads
  <2>2. current = NULL => param # First /\ param \notin deleted /\ ~Queued(param)
    BY <2>1 DEF PlaceInv, MainPlace, AddedByMain
  <2>3. current # NULL => param = current /\ param \notin deleted /\ ~Queued(param)
    BY <2>1 DEF PlaceInv, ThreadPlace, Leaving, Ended, Actor
  <2>4. Fifo!MakeReady(param)
    BY <1>5, <2>1, <2>2, <2>3, ReadyElements, ReadyAppends DEF Fifo!MakeReady
  <2> QED
    BY <2>1, <2>4 DEF Fifo!Next
<1>6. CASE YieldDispatch
  <2>1. /\ current \in Thread /\ pc[current] = "yield_pick" /\ deleted' = deleted
    BY <1>6 DEF YieldDispatch, SwitchTo, At, TypeOK, MainLabels, Actor
  <2>2. Queued(current) \/ current \in deleted
    BY <2>1 DEF PlaceInv, ThreadPlace, Leaving, Ended
  <2>3. current \in Fifo!Elements(ReadyQueue) \cup deleted
    BY <2>1, <2>2, ReadyElements
  <2>4. Fifo!Dispatch
    BY <1>6, <2>1, <2>3, ReadyPops DEF Fifo!Dispatch
  <2> QED
    BY <2>4 DEF Fifo!Next
<1>7. \/ UNCHANGED queue /\ UNCHANGED <<current, deleted>>
      \/ MainDispatch \/ ShutdownTerminate \/ ShutdownDelete \/ YieldDispatch
      \/ \E n \in Node : ResumeLink(n)
  BY DEF Next, Code, vars, queue, threads, MainEnable, CreateThread,
     MainAdd, Kill, Terminate, ResumeMask, ResumeUnmask, YieldMask, YieldEmpty,
     YieldUnmask, ThreadStart, Burst, FunctionReturns, ShutdownMask,
     ShutdownReturn, TimerRaise, TimerInterrupt
<1> QED
  BY <1>1, <1>2, <1>3, <1>4, <1>5, <1>6, <1>7

\* The scheduler implements the FIFO promise, step by step: what the walk
\* along the linked list reads is the abstract queue.
THEOREM ImplementsFifo == ASSUME Killable = {} PROVE Spec => FifoSafe
<1>1. IInv /\ IInv' /\ [Next]_vars => [Fifo!Next]_(Fifo!vars)
  BY StepFifo
<1> QED
  BY <1>1, InitFifo, Inductive, PTL DEF Spec, FifoSafe

-----------------------------------------------------------------------------
(* Termination of single threads, when not every thread function returns   *)

\* No terminating thread comes back from its first yield.
HandOver ==
  /\ deleted \subseteq Returning
  /\ halt # "wild"
  /\ current # NULL =>
       /\ pc[current] \in {"shutdown", "shutdown_terminate"} => current \in Returning
       /\ pc[current] \notin {"shutdown_delete", "shutdown_return"}
       /\ pc[current] = "yield_unmask" => ret[current] = "function"

LEMMA StepHandOver ==
  ASSUME Killable = {}, Returning # Thread, IInv, HandOver, [Next]_vars
  PROVE  HandOver'
<1> USE NullAssumption, SubsetAssumption, FirstAssumption
    DEF TypeOK, Actor, MainLabels, ThreadLabels, At, Goto, queue, threads, progress,
        IInv, HandOver
<1>1. CASE MainEnable \/ \E t \in Thread : CreateThread(t) \/ MainAdd(t)
  BY <1>1 DEF MainEnable, CreateThread, MainAdd, EnableInterrupts, FlagInv
<1>2. CASE MainDispatch
  <2>1. pc'[First] \in {"thread_start", "yield_unmask"} /\ deleted = {}
    BY <1>2 DEF MainDispatch, FlagInv, OffCpu, PlaceInv, MainPlace
  <2>2. pc'[First] = "yield_unmask" => ret[First] = "function"
    BY <1>2, <2>1 DEF MainDispatch, FlagInv, PlaceInv
  <2> QED
    BY <1>2, <2>1, <2>2 DEF MainDispatch
<1>3. CASE ResumeMask \/ ResumeUnmask \/ \E n \in Node : ResumeLink(n)
  BY <1>3 DEF ResumeMask, ResumeUnmask, ResumeLink, MaskInterrupts, DisableInterrupts,
     UnmaskInterrupts, EnableInterrupts
<1>4. CASE YieldMask
  BY <1>4 DEF YieldMask, MaskInterrupts, DisableInterrupts
<1>5. CASE YieldDispatch
  <2>1. top_q \in heap /\ current \in Thread /\ tid[top_q] \in Thread
    BY <1>5, ListEnds DEF YieldDispatch, SwitchTo, ListInv
  <2>2. pc'[tid[top_q]] \in {"thread_start", "yield_unmask"}
    BY <1>5, <2>1 DEF YieldDispatch, SwitchTo, FlagInv, OffCpu
  <2>3. tid[top_q] \notin deleted
    BY <2>1 DEF Queued, PlaceInv, ThreadPlace
  <2>4. pc'[tid[top_q]] = "yield_unmask" => ret[tid[top_q]] = "function"
    BY <1>5, <2>1, <2>3 DEF YieldDispatch, SwitchTo, PlaceInv, ThreadPlace, Ended
  <2> QED
    BY <1>5, <2>1, <2>2, <2>4 DEF YieldDispatch, SwitchTo
<1>6. CASE YieldEmpty
  <2>1. heap = {} /\ current \in Thread
    BY <1>6, ListEnds DEF YieldEmpty, ListInv
  <2>2. PICK t \in Thread : t \notin Returning
    BY SubsetAssumption
  <2>3. t \notin deleted /\ ~Queued(t)
    BY <2>1, <2>2 DEF Queued
  <2>4. t = current /\ Ended(t)
    BY <1>6, <2>1, <2>3 DEF YieldEmpty, PlaceInv, ThreadPlace, Leaving, Ended
  <2> QED
    BY <2>1, <2>3, <2>4 DEF PlaceInv, ThreadPlace
<1>7. CASE YieldUnmask
  <2>1. current \in Thread /\ pc[current] = "yield_unmask"
    BY <1>7 DEF YieldUnmask
  <2> QED
    BY <1>7, <2>1 DEF YieldUnmask, UnmaskInterrupts, EnableInterrupts
<1>8. CASE ThreadStart \/ Burst \/ FunctionReturns
  BY <1>8 DEF ThreadStart, Burst, FunctionReturns, EnableInterrupts
<1>9. CASE ShutdownMask \/ ShutdownTerminate
  BY <1>9 DEF ShutdownMask, ShutdownTerminate, Terminate, DisableInterrupts
<1>10. CASE TimerRaise \/ TimerInterrupt \/ UNCHANGED vars
  BY <1>10 DEF TimerRaise, TimerInterrupt, vars
<1> QED
  BY <1>1, <1>2, <1>3, <1>4, <1>5, <1>6, <1>7, <1>8, <1>9, <1>10
  DEF Next, Code, Kill, ShutdownDelete, ShutdownReturn
\* If some thread function never returns, as fun3 and fun4, a terminating
\* thread always hands over the CPU for good: the return to address 0 at the
\* end of thread_shutdown is not reached.
THEOREM OthersKeepItGraceful ==
  ASSUME Killable = {}, Returning # Thread
  PROVE  Spec => []GracefulTermination
<1>1. Init => HandOver
  BY DEF Init, HandOver
<1>2. IInv /\ HandOver /\ [Next]_vars => HandOver'
  BY StepHandOver
<1>3. HandOver => GracefulTermination
  BY DEF HandOver, GracefulTermination
<1> QED
  BY <1>1, <1>2, <1>3, Inductive, PTL DEF Spec
=============================================================================
