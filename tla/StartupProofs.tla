--------------------------- MODULE StartupProofs ---------------------------
(***************************************************************************)
(* Proofs about Startup.tla, for every set of stages and every arrival of  *)
(* interrupts.  The order of the calls of each main is a fact about its    *)
(* sequence (Registered, Supplied); the invariants (OrderInv, SupplyInv)   *)
(* say what the calls before pc have put into the tables.                  *)
(***************************************************************************)
EXTENDS Startup, Integers, TLAPS

-----------------------------------------------------------------------------
(* Acknowledgement of interrupts                                           *)

Activity == [kind : {"main", "exception", "interrupt"}, no : Int,
             done : BOOLEAN, flag : BOOLEAN]

Handling == running.kind = "interrupt" /\ ~running.done

\* The controllers hold an interrupt in service exactly while its handler has
\* not acknowledged it: the line, and the input of the master it came by.
AckInv ==
    /\ running = NoHandler => ~Handling
    /\ Handling => running.no \in Lines
    /\ inService = IF Handling THEN {running.no, Input(running.no)} ELSE {}
    /\ running \in Activity
    /\ flag \in BOOLEAN

\* One end of interrupt at each controller concerned acknowledges a line.
LEMMA EndsAll ==
    ASSUME NEW n \in Lines
    PROVE  Ended(IF generated_by_slave_PIC(n) THEN Ended({n, Input(n)}, 8 .. 15)
                                              ELSE {n, Input(n)}, 0 .. 7) = {}
BY DEF Lines, Timer, Keyboard, Disk, Ended, generated_by_slave_PIC, Input, Cascade

LEMMA Idle == NoHandler \in Activity /\ NoHandler.kind = "main" /\ NoHandler.done
BY DEF NoHandler, Activity

LEMMA Entered ==
    ASSUME NEW k \in {"exception", "interrupt"}, NEW n \in Int, NEW b \in BOOLEAN,
           NEW r, r = [kind |-> k, no |-> n, done |-> FALSE, flag |-> b]
    PROVE  /\ r \in Activity /\ r # NoHandler
           /\ r.kind = k /\ r.no = n /\ r.done = FALSE /\ r.flag = b
BY DEF NoHandler, Activity

LEMMA Finished ==
    ASSUME NEW r \in Activity
    PROVE  /\ [r EXCEPT !.done = TRUE] \in Activity
           /\ [r EXCEPT !.done = TRUE].done
           /\ [r EXCEPT !.done = TRUE].kind = r.kind
           /\ [r EXCEPT !.done = TRUE].flag = r.flag
BY DEF Activity

LEMMA InitAck == Init => AckInv
BY Idle DEF Init, AckInv, Handling

LEMMA StepAck == AckInv /\ [Next]_vars => AckInv'
<1> SUFFICES ASSUME AckInv, [Next]_vars PROVE AckInv'
  OBVIOUS
<1> USE DEF AckInv, Handling
<1>1. CASE Build \/ Use \/ GDTInit \/ IDTInit \/ init_exceptions \/ init_interrupts
           \/ register_exception \/ register_interrupt \/ issue_operation
  BY <1>1 DEF Build, Use, GDTInit, IDTInit, init_exceptions, init_interrupts,
     register_exception, register_interrupt, issue_operation
<1>2. CASE IRQInit
  BY <1>2 DEF IRQInit, Call
<1>3. CASE enable_interrupts
  BY <1>3 DEF enable_interrupts
<1>4. CASE Touch
  <2>1. CASE "paging" \in built
    <3>1. running = NoHandler /\ inService = {} /\ inService' = {} /\ flag' = FALSE
      BY <1>4, <2>1, Idle DEF Touch, Call, isr
    <3> PICK n \in Int : n = PageFaultNo
      BY DEF PageFaultNo
    <3>2. running' = [kind |-> "exception", no |-> n, done |-> FALSE, flag |-> flag]
      BY <1>4, <2>1 DEF Touch, isr
    <3>3. running' \in Activity /\ running' # NoHandler /\ running'.kind = "exception"
      BY <3>2 DEF Activity, NoHandler
    <3> QED
      BY <3>1, <3>3
  <2>2. CASE "paging" \notin built
    BY <1>4, <2>2 DEF Touch
  <2> QED
    BY <2>1, <2>2
<1>5. CASE dispatch_exception
  BY <1>5, Finished DEF dispatch_exception
<1>6. CASE dispatch_interrupt
  <2>1. running.no \in Lines /\ inService = {running.no, Input(running.no)}
    BY <1>6 DEF dispatch_interrupt
  <2>2. PICK n \in Lines : n = running.no
    BY <2>1
  <2>3. inService' = Ended(IF generated_by_slave_PIC(n) THEN Ended({n, Input(n)}, 8 .. 15)
                                                        ELSE {n, Input(n)}, 0 .. 7)
    BY <1>6, <2>1, <2>2 DEF dispatch_interrupt
  <2>4. inService' = {}
    BY <2>3, EndsAll
  <2> QED
    BY <1>6, <2>4, Finished DEF dispatch_interrupt
<1>7. CASE Iret
  BY <1>7, Idle DEF Iret, Activity
<1>8. ASSUME NEW n \in Lines, Raise(n) PROVE AckInv'
  BY <1>8 DEF Raise
<1>9. ASSUME NEW n \in Lines, Accept(n) PROVE AckInv'
  <2>1. running = NoHandler /\ inService = {} /\ inService' = {n, Input(n)} /\ flag' = FALSE
    BY <1>9, Idle DEF Accept, irq_stub
  <2>2. running' = [kind |-> "interrupt", no |-> n, done |-> FALSE, flag |-> flag] /\ n \in Int
    BY <1>9 DEF Accept, irq_stub, Lines, Timer, Keyboard, Disk
  <2> QED
    BY <2>1, <2>2, Entered
<1>10. CASE UNCHANGED vars
  BY <1>10 DEF vars
<1> QED
  BY <1>1, <1>2, <1>3, <1>4, <1>5, <1>6, <1>7, <1>8, <1>9, <1>10 DEF Next, MainStep, Handle

\* Whatever interrupts arrive in whatever order, no interrupt stays in service
\* behind its handler.
THEOREM NothingStaysInService == Spec => []AllAcknowledged
<1>1. AckInv => AllAcknowledged
  BY DEF AckInv, AllAcknowledged
<1> QED
  BY <1>1, InitAck, StepAck, PTL DEF Spec

-----------------------------------------------------------------------------
(* The order of the calls                                                  *)

Kind(call) == call[1]
Of(call) == call[2]

Before(prog, k, call) == \E j \in 1 .. k - 1 : prog[j] = call
NotYet(prog, k, op) == \A j \in 1 .. k - 1 : Kind(prog[j]) # op

\* Call k of a program finds the tables of interrupts and exceptions ready, and
\* does not undo what an earlier call has entered in them.
Registered(prog, k) ==
    LET op == Kind(prog[k])
    IN  /\ op = "IDT" => /\ NotYet(prog, k, "exception_dispatcher")
                         /\ NotYet(prog, k, "interrupt_dispatcher")
        /\ op = "exception_dispatcher" => NotYet(prog, k, "exception")
        /\ op = "interrupt_dispatcher" => NotYet(prog, k, "line")
        /\ op = "line" => NotYet(prog, k, "sti")
        /\ op = "sti" => /\ prog[k] = sti
                         /\ Before(prog, k, gdt) /\ Before(prog, k, pic)
                         /\ Before(prog, k, irq_init)
                         /\ NotYet(prog, k, "sti")
        /\ op = "touch" => /\ Before(prog, k, gdt)
                           /\ Before(prog, k, exc_init)
                           /\ Before(prog, k, exc(PageFaultNo))

\* Call k of a program finds the objects it uses.
Supplied(prog, k) ==
    LET op == Kind(prog[k])
        o  == Of(prog[k])
    IN  /\ op = "build" => /\ o \in DOMAIN Needs
                           /\ \A x \in Needs[o] : Before(prog, k, build(x))
        /\ op = "use" => Before(prog, k, build(o))
        /\ op \in {"exception_dispatcher", "interrupt_dispatcher", "exception", "line"}
             => Before(prog, k, build("Console"))
        /\ op = "command" => Before(prog, k, build("SYSTEM_DISK"))

LEMMA Calls ==
    /\ \A o : Kind(build(o)) = "build" /\ Of(build(o)) = o
    /\ \A o : Kind(use(o)) = "use" /\ Of(use(o)) = o
    /\ \A n : Kind(exc(n)) = "exception" /\ Of(exc(n)) = n
    /\ \A n : Kind(irq(n)) = "line" /\ Of(irq(n)) = n
    /\ Kind(gdt) = "GDT" /\ Kind(pic) = "PIC" /\ Kind(idt) = "IDT" /\ Kind(sti) = "sti"
    /\ Kind(exc_init) = "exception_dispatcher" /\ Kind(irq_init) = "interrupt_dispatcher"
    /\ Kind(touch) = "touch" /\ Kind(disk) = "command"
<1>1. \A o : Kind(build(o)) = "build" /\ Of(build(o)) = o
  BY DEF build, Kind, Of
<1>2. \A o : Kind(use(o)) = "use" /\ Of(use(o)) = o
  BY DEF use, Kind, Of
<1>3. \A n : Kind(exc(n)) = "exception" /\ Of(exc(n)) = n
  BY DEF exc, Kind, Of
<1>4. \A n : Kind(irq(n)) = "line" /\ Of(irq(n)) = n
  BY DEF irq, Kind, Of
<1>5. /\ Kind(gdt) = "GDT" /\ Kind(pic) = "PIC" /\ Kind(idt) = "IDT" /\ Kind(sti) = "sti"
      /\ Kind(exc_init) = "exception_dispatcher" /\ Kind(irq_init) = "interrupt_dispatcher"
      /\ Kind(touch) = "touch" /\ Kind(disk) = "command"
  BY DEF gdt, pic, idt, sti, exc_init, irq_init, touch, disk, Kind
<1> QED
  BY <1>1, <1>2, <1>3, <1>4, <1>5

LEMMA StagesRegistered ==
    /\ \A k \in 1 .. Len(Main1) : Registered(Main1, k)
    /\ \A k \in 1 .. Len(Main2) : Registered(Main2, k)
    /\ \A k \in 1 .. Len(Main3) : Registered(Main3, k)
    /\ \A k \in 1 .. Len(Main4) : Registered(Main4, k)
    /\ \A k \in 1 .. Len(Main5) : Registered(Main5, k)
    /\ \A k \in 1 .. Len(Main6) : Registered(Main6, k)
    /\ \A k \in 1 .. Len(Main7) : Registered(Main7, k)
<1> USE Calls DEF Registered, Before, NotYet
<1>1. \A k \in 1 .. Len(Main1) : Registered(Main1, k)
  BY DEF Main1
<1>2. \A k \in 1 .. Len(Main2) : Registered(Main2, k)
  BY DEF Main2
<1>3. \A k \in 1 .. Len(Main3) : Registered(Main3, k)
  BY DEF Main3
<1>4. \A k \in 1 .. Len(Main4) : Registered(Main4, k)
  BY DEF Main4
<1>5. \A k \in 1 .. Len(Main5) : Registered(Main5, k)
  BY DEF Main5
<1>6. \A k \in 1 .. Len(Main6) : Registered(Main6, k)
  BY DEF Main6
<1>7. \A k \in 1 .. Len(Main7) : Registered(Main7, k)
  BY DEF Main7, exercise_file_system
<1> QED
  BY <1>1, <1>2, <1>3, <1>4, <1>5, <1>6, <1>7

LEMMA StagesSupplied ==
    /\ \A k \in 1 .. Len(Main2) : Supplied(Main2, k)
    /\ \A k \in 1 .. Len(Main3) : Supplied(Main3, k)
    /\ \A k \in 1 .. Len(Main4) : Supplied(Main4, k)
    /\ \A k \in 1 .. Len(Main5) : Supplied(Main5, k)
    /\ \A k \in 1 .. Len(Main6) : Supplied(Main6, k)
    /\ \A k \in 1 .. Len(Main7) : Supplied(Main7, k)
<1> USE Calls DEF Supplied, Before, Needs
<1>2. \A k \in 1 .. Len(Main2) : Supplied(Main2, k)
  BY DEF Main2
<1>3. \A k \in 1 .. Len(Main3) : Supplied(Main3, k)
  BY DEF Main3
<1>4. \A k \in 1 .. Len(Main4) : Supplied(Main4, k)
  BY DEF Main4
<1>5. \A k \in 1 .. Len(Main5) : Supplied(Main5, k)
  BY DEF Main5
<1>6. \A k \in 1 .. Len(Main6) : Supplied(Main6, k)
  BY DEF Main6
<1>7. \A k \in 1 .. Len(Main7) : Supplied(Main7, k)
  BY DEF Main7, exercise_file_system
<1> QED
  BY <1>2, <1>3, <1>4, <1>5, <1>6, <1>7

-----------------------------------------------------------------------------
(* What the calls made so far have set up                                  *)

Made(call) == Before(Main, pc, call)

LEMMA Ordered ==
    stage \in 1 .. 7 =>
      \A k \in 1 .. Len(Main) : /\ Registered(Main, k)
                                /\ stage # 1 => Supplied(Main, k)
<1> SUFFICES ASSUME stage \in 1 .. 7, NEW k \in 1 .. Len(Main)
             PROVE  Registered(Main, k) /\ (stage # 1 => Supplied(Main, k))
  OBVIOUS
<1>1. CASE stage = 1
  <2>1. Main = Main1
    BY <1>1 DEF Main
  <2> QED
    BY <1>1, <2>1, StagesRegistered
<1>2. CASE stage = 2
  <2>1. Main = Main2
    BY <1>2 DEF Main
  <2> QED
    BY <2>1, StagesRegistered, StagesSupplied
<1>3. CASE stage = 3
  <2>1. Main = Main3
    BY <1>3 DEF Main
  <2> QED
    BY <2>1, StagesRegistered, StagesSupplied
<1>4. CASE stage = 4
  <2>1. Main = Main4
    BY <1>4 DEF Main
  <2> QED
    BY <2>1, StagesRegistered, StagesSupplied
<1>5. CASE stage = 5
  <2>1. Main = Main5
    BY <1>5 DEF Main
  <2> QED
    BY <2>1, StagesRegistered, StagesSupplied
<1>6. CASE stage = 6
  <2>1. Main = Main6
    BY <1>6 DEF Main
  <2> QED
    BY <2>1, StagesRegistered, StagesSupplied
<1>7. CASE stage = 7
  <2>1. Main = Main7
    BY <1>7 DEF Main
  <2> QED
    BY <2>1, StagesRegistered, StagesSupplied
<1> QED
  BY <1>1, <1>2, <1>3, <1>4, <1>5, <1>6, <1>7

LEMMA MainIsSequence ==
    stage \in 1 .. 7 => Len(Main) \in Nat /\ DOMAIN Main = 1 .. Len(Main)
<1> SUFFICES ASSUME stage \in 1 .. 7
             PROVE  Len(Main) \in Nat /\ DOMAIN Main = 1 .. Len(Main)
  OBVIOUS
<1>1. CASE stage = 1
  BY <1>1 DEF Main, Main1
<1>2. CASE stage = 2
  BY <1>2 DEF Main, Main2
<1>3. CASE stage = 3
  BY <1>3 DEF Main, Main3
<1>4. CASE stage = 4
  BY <1>4 DEF Main, Main4
<1>5. CASE stage = 5
  BY <1>5 DEF Main, Main5
<1>6. CASE stage = 6
  BY <1>6 DEF Main, Main6
<1>7. CASE stage = 7
  BY <1>7 DEF Main, Main7, exercise_file_system
<1> QED
  BY <1>1, <1>2, <1>3, <1>4, <1>5, <1>6, <1>7

\* pc stands at a call of a stage, or behind the last one.
Counted == stage \in 1 .. 7 /\ pc \in 1 .. Len(Main) + 1

\* What has been called is in the tables.
TableInv ==
    /\ Made(gdt) => "GDT" \in built
    /\ Made(pic) => "PIC" \in built
    /\ Made(exc_init) => 0 .. 31 \subseteq gates
    /\ Made(irq_init) => IRQ_BASE .. IRQ_BASE + 15 \subseteq gates
    /\ \A n : Made(exc(n)) => n \in exceptions
    /\ \A n : Made(irq(n)) => n \in handlers

\* Interrupts are enabled, now or for the return of a handler, only after
\* enable_interrupts was called; the one exception taken is the page fault.
EnabledInv ==
    /\ flag \/ running.flag => Made(sti)
    /\ Handling => Made(sti)
    /\ running.kind = "exception" /\ ~running.done =>
         running.no = PageFaultNo /\ Made(exc(PageFaultNo))

OrderInv == AckInv /\ Counted /\ TableInv /\ EnabledInv /\ StaysUp /\ Captured

LEMMA InitOrder == Init => OrderInv
<1> SUFFICES ASSUME Init PROVE OrderInv
  OBVIOUS
<1>1. \A call : ~Made(call)
  BY DEF Init, Made, Before
<1>2. Counted
  BY StagesAssumption, MainIsSequence DEF Init, Counted
<1>3. ~flag /\ ~running.flag /\ running.kind = "main" /\ running.done
  BY DEF Init, NoHandler
<1> QED
  BY <1>1, <1>2, <1>3, InitAck DEF Init, OrderInv, TableInv, EnabledInv, Handling, StaysUp, Captured

\* A call of main adds itself to the calls made.
LEMMA CallMade ==
    ASSUME Counted, NEW op, Call(op)
    PROVE  /\ Main' = Main /\ Counted'
           /\ pc \in 1 .. Len(Main) /\ Kind(Main[pc]) = op
           /\ Main[pc][2] = Of(Main[pc])
           /\ running = NoHandler
           /\ \A call : Made(call)' <=> Made(call) \/ Main[pc] = call
<1>1. stage' = stage /\ pc' = pc + 1 /\ pc <= Len(Main) /\ Main[pc][1] = op /\ running = NoHandler
  BY DEF Call
<1>2. Main' = Main
  BY <1>1 DEF Main
<1>3. pc \in 1 .. Len(Main) /\ Len(Main) \in Nat
  BY <1>1, MainIsSequence DEF Counted
<1>4. \A call : Before(Main, pc + 1, call) <=> Before(Main, pc, call) \/ Main[pc] = call
  BY DEF Counted, Before
<1> QED
  BY <1>1, <1>2, <1>3, <1>4 DEF Counted, Made, Kind, Of

\* The other steps leave them alone.
LEMMA MadeSame ==
    ASSUME UNCHANGED <<stage, pc>>
    PROVE  Main' = Main /\ (Counted => Counted') /\ \A call : Made(call)' <=> Made(call)
BY DEF Main, Counted, Made

\* Once interrupts are enabled, every line that main has a handler for has it.
LEMMA HandlersThere ==
    ASSUME Counted, Made(sti), NEW n, irq(n) \in Range(Main)
    PROVE  Made(irq(n))
<1>1. PICK k \in 1 .. Len(Main) : Main[k] = irq(n)
  BY MainIsSequence DEF Range, Counted
<1>2. PICK j \in 1 .. pc - 1 : Main[j] = sti
  BY DEF Made, Before
<1>3. NotYet(Main, k, "sti")
  BY <1>1, Ordered, Calls DEF Counted, Registered
<1>4. ~ (j < k)
  BY <1>1, <1>2, <1>3, Calls DEF NotYet, Counted
<1>5. Len(Main) \in Nat
  BY MainIsSequence DEF Counted
<1> QED
  BY <1>1, <1>2, <1>4, <1>5 DEF Made, Before, Counted

\* Once interrupts are enabled, the segments, the controllers and the gates of
\* the sixteen lines are set up.
LEMMA GatesThere ==
    ASSUME Counted, Made(sti)
    PROVE  Made(gdt) /\ Made(pic) /\ Made(irq_init)
<1>1. PICK j \in 1 .. pc - 1 : Main[j] = sti
  BY DEF Made, Before
<1>2. j \in 1 .. Len(Main) /\ Len(Main) \in Nat
  BY <1>1, MainIsSequence DEF Counted
<1>3. Before(Main, j, gdt) /\ Before(Main, j, pic) /\ Before(Main, j, irq_init)
  BY <1>1, <1>2, Ordered, Calls DEF Counted, Registered
<1>4. \A i \in 1 .. j - 1 : i \in 1 .. pc - 1
  BY <1>1, <1>2 DEF Counted
<1> QED
  BY <1>3, <1>4 DEF Made, Before

\* What a call finds missing is an object, never an interrupt.
LEMMA MissingObjects ==
    ASSUME NEW S
    PROVE  /\ \A n : <<"uncaptured", n>> \notin Missing(S)
           /\ S \subseteq built => Missing(S) = {}
<1>1. \A n, o : <<"uncaptured", n>> # <<"unbuilt", o>>
  OBVIOUS
<1> QED
  BY <1>1 DEF Missing

\* Which calls can become made by a call of kind op.
LEMMA CallAdds ==
    ASSUME Counted, NEW op, Call(op)
    PROVE  /\ \A call : Made(call) => Made(call)'
           /\ Made(gdt)' => Made(gdt) \/ op = "GDT"
           /\ Made(pic)' => Made(pic) \/ op = "PIC"
           /\ Made(exc_init)' => Made(exc_init) \/ op = "exception_dispatcher"
           /\ Made(irq_init)' => Made(irq_init) \/ op = "interrupt_dispatcher"
           /\ \A n : Made(exc(n))' => Made(exc(n)) \/ (op = "exception" /\ n = Main[pc][2])
           /\ \A n : Made(irq(n))' => Made(irq(n)) \/ (op = "line" /\ n = Main[pc][2])
           /\ \A o : Made(build(o))' => Made(build(o)) \/ (op = "build" /\ o = Main[pc][2])
           /\ op = "sti" => Made(sti)'
<1>1. /\ Kind(Main[pc]) = op /\ Main[pc][2] = Of(Main[pc])
      /\ \A call : Made(call)' <=> Made(call) \/ Main[pc] = call
  BY CallMade
<1>2. op = "sti" => Main[pc] = sti
  BY CallMade, Ordered DEF Counted, Registered
<1>3. \A call : Main[pc] = call => Kind(call) = op /\ Of(call) = Main[pc][2]
  BY <1>1
<1>4. \A call : Made(call)' => Made(call) \/ (Kind(call) = op /\ Of(call) = Main[pc][2])
  BY <1>1, <1>3
<1> QED
  BY <1>1, <1>2, <1>4, Calls

\* What the order of the calls gives a call of kind op.
LEMMA CallFinds ==
    ASSUME Counted, NEW op, Call(op)
    PROVE  /\ op = "IDT" => ~Made(exc_init) /\ ~Made(irq_init)
           /\ op = "exception_dispatcher" => \A n : ~Made(exc(n))
           /\ op = "interrupt_dispatcher" => \A n : ~Made(irq(n))
           /\ op = "sti" => ~Made(sti)
           /\ op = "touch" => Made(gdt) /\ Made(exc_init) /\ Made(exc(PageFaultNo))
<1>1. Kind(Main[pc]) = op /\ Registered(Main, pc)
  BY CallMade, Ordered DEF Counted
<1>2. \A o, call : (NotYet(Main, pc, o) /\ Kind(call) = o) => ~Made(call)
  BY DEF NotYet, Made, Before
<1>3. \A call : Before(Main, pc, call) => Made(call)
  BY DEF Made
<1> QED
  BY <1>1, <1>2, <1>3, Calls DEF Registered

LEMMA StepOrder == OrderInv /\ [Next]_vars => OrderInv'
<1> SUFFICES ASSUME OrderInv, [Next]_vars PROVE OrderInv'
  OBVIOUS
<1>a. AckInv /\ Counted /\ TableInv /\ EnabledInv /\ StaysUp /\ Captured
  BY DEF OrderInv
<1>b. AckInv'
  BY <1>a, StepAck
<1> SUFFICES Counted' /\ TableInv' /\ EnabledInv' /\ StaysUp' /\ Captured'
  BY <1>b DEF OrderInv
<1> USE <1>a
<1>1. CASE Build
  <2>1. Call("build")
    BY <1>1 DEF Build
  <2>2. Counted' /\ Main' = Main
    BY <2>1, CallMade
  <2>3. TableInv'
    BY <1>1, <2>1, CallAdds DEF Build, TableInv
  <2>4. EnabledInv' /\ StaysUp'
    BY <1>1, <2>1, CallAdds DEF Build, EnabledInv, StaysUp, Handling
  <2>5. Captured'
    BY <1>1, <2>2, MissingObjects DEF Build, Captured
  <2> QED
    BY <2>2, <2>3, <2>4, <2>5
<1>2. CASE Use
  <2>1. Call("use")
    BY <1>2 DEF Use
  <2>2. Counted' /\ Main' = Main
    BY <2>1, CallMade
  <2>3. TableInv'
    BY <1>2, <2>1, CallAdds DEF Use, TableInv
  <2>4. EnabledInv' /\ StaysUp'
    BY <1>2, <2>1, CallAdds DEF Use, EnabledInv, StaysUp, Handling
  <2>5. Captured'
    BY <1>2, <2>2, MissingObjects DEF Use, Captured
  <2> QED
    BY <2>2, <2>3, <2>4, <2>5
<1>3. CASE GDTInit
  <2>1. Call("GDT")
    BY <1>3 DEF GDTInit
  <2>2. Counted' /\ Main' = Main
    BY <2>1, CallMade
  <2>3. TableInv'
    BY <1>3, <2>1, CallAdds DEF GDTInit, TableInv
  <2>4. EnabledInv' /\ StaysUp' /\ Captured'
    BY <1>3, <2>1, <2>2, CallAdds DEF GDTInit, EnabledInv, StaysUp, Handling, Captured
  <2> QED
    BY <2>2, <2>3, <2>4
<1>4. CASE IRQInit
  <2>1. Call("PIC")
    BY <1>4 DEF IRQInit
  <2>2. Counted' /\ Main' = Main
    BY <2>1, CallMade
  <2>3. TableInv'
    BY <1>4, <2>1, CallAdds DEF IRQInit, TableInv
  <2>4. EnabledInv' /\ StaysUp' /\ Captured'
    BY <1>4, <2>1, <2>2, CallAdds DEF IRQInit, EnabledInv, StaysUp, Handling, Captured
  <2> QED
    BY <2>2, <2>3, <2>4
<1>5. CASE IDTInit
  <2>1. Call("IDT")
    BY <1>5 DEF IDTInit
  <2>2. Counted' /\ Main' = Main
    BY <2>1, CallMade
  <2>3. TableInv'
    <3>1. ~Made(exc_init)' /\ ~Made(irq_init)'
      BY <2>1, CallAdds, CallFinds
    <3> QED
      BY <1>5, <2>1, <3>1, CallAdds DEF IDTInit, TableInv
  <2>4. EnabledInv' /\ StaysUp' /\ Captured'
    BY <1>5, <2>1, <2>2, CallAdds DEF IDTInit, EnabledInv, StaysUp, Handling, Captured
  <2> QED
    BY <2>2, <2>3, <2>4
<1>6. CASE init_exceptions
  <2>1. Call("exception_dispatcher")
    BY <1>6 DEF init_exceptions
  <2>2. Counted' /\ Main' = Main
    BY <2>1, CallMade
  <2>3. TableInv'
    <3>1. \A n : ~Made(exc(n))'
      BY <2>1, CallAdds, CallFinds
    <3> QED
      BY <1>6, <2>1, <3>1, CallAdds DEF init_exceptions, SetGates, TableInv
  <2>4. EnabledInv' /\ StaysUp'
    BY <1>6, <2>1, CallAdds DEF init_exceptions, EnabledInv, StaysUp, Handling
  <2>5. Captured'
    BY <1>6, <2>2, MissingObjects DEF init_exceptions, SetGates, Captured
  <2> QED
    BY <2>2, <2>3, <2>4, <2>5
<1>7. CASE init_interrupts
  <2>1. Call("interrupt_dispatcher")
    BY <1>7 DEF init_interrupts
  <2>2. Counted' /\ Main' = Main
    BY <2>1, CallMade
  <2>3. TableInv'
    <3>1. \A n : ~Made(irq(n))'
      BY <2>1, CallAdds, CallFinds
    <3> QED
      BY <1>7, <2>1, <3>1, CallAdds DEF init_interrupts, SetGates, TableInv
  <2>4. EnabledInv' /\ StaysUp'
    BY <1>7, <2>1, CallAdds DEF init_interrupts, EnabledInv, StaysUp, Handling
  <2>5. Captured'
    BY <1>7, <2>2, MissingObjects DEF init_interrupts, SetGates, Captured
  <2> QED
    BY <2>2, <2>3, <2>4, <2>5
<1>8. CASE register_exception
  <2>1. Call("exception")
    BY <1>8 DEF register_exception
  <2>2. Counted' /\ Main' = Main
    BY <2>1, CallMade
  <2>3. TableInv'
    BY <1>8, <2>1, CallAdds DEF register_exception, TableInv
  <2>4. EnabledInv' /\ StaysUp'
    BY <1>8, <2>1, CallAdds DEF register_exception, EnabledInv, StaysUp, Handling
  <2>5. Captured'
    BY <1>8, <2>2, MissingObjects DEF register_exception, Captured
  <2> QED
    BY <2>2, <2>3, <2>4, <2>5
<1>9. CASE register_interrupt
  <2>1. Call("line")
    BY <1>9 DEF register_interrupt
  <2>2. Counted' /\ Main' = Main
    BY <2>1, CallMade
  <2>3. TableInv'
    BY <1>9, <2>1, CallAdds DEF register_interrupt, TableInv
  <2>4. EnabledInv' /\ StaysUp'
    BY <1>9, <2>1, CallAdds DEF register_interrupt, EnabledInv, StaysUp, Handling
  <2>5. Captured'
    BY <1>9, <2>2, MissingObjects DEF register_interrupt, Captured
  <2> QED
    BY <2>2, <2>3, <2>4, <2>5
<1>10. CASE enable_interrupts
  <2>1. Call("sti")
    BY <1>10 DEF enable_interrupts
  <2>2. Counted' /\ Main' = Main /\ running = NoHandler
    BY <2>1, CallMade
  <2>3. TableInv'
    BY <1>10, <2>1, CallAdds DEF enable_interrupts, TableInv
  <2>4. flag = FALSE
    BY <2>1, CallFinds DEF EnabledInv, AckInv
  <2>5. StaysUp'
    BY <1>10, <2>4 DEF enable_interrupts, StaysUp
  <2>6. EnabledInv'
    BY <1>10, <2>1, CallAdds DEF enable_interrupts, EnabledInv, Handling
  <2>7. Captured'
    BY <1>10, <2>2 DEF enable_interrupts, Captured
  <2> QED
    BY <2>2, <2>3, <2>5, <2>6, <2>7
<1>11. CASE issue_operation
  <2>1. Call("command")
    BY <1>11 DEF issue_operation
  <2>2. Counted' /\ Main' = Main
    BY <2>1, CallMade
  <2>3. TableInv'
    BY <1>11, <2>1, CallAdds DEF issue_operation, TableInv
  <2>4. EnabledInv' /\ StaysUp'
    BY <1>11, <2>1, CallAdds DEF issue_operation, EnabledInv, StaysUp, Handling
  <2>5. Captured'
    BY <1>11, <2>2, MissingObjects DEF issue_operation, Captured
  <2> QED
    BY <2>2, <2>3, <2>4, <2>5
<1>12. CASE Touch
  <2>1. Call("touch")
    BY <1>12 DEF Touch
  <2>2. Counted' /\ Main' = Main
    BY <2>1, CallMade
  <2>3. TableInv'
    BY <1>12, <2>1, CallAdds DEF Touch, TableInv
  <2>4. Captured'
    BY <1>12, <2>2 DEF Touch, Captured
  <2>5. CASE "paging" \in built
    <3>1. Made(gdt) /\ Made(exc_init) /\ Made(exc(PageFaultNo))
      BY <2>1, CallFinds
    <3>2. "GDT" \in built /\ PageFaultNo \in gates
      BY <3>1 DEF TableInv, PageFaultNo
    <3>3. StaysUp'
      BY <1>12, <2>5, <3>2 DEF Touch, StaysUp
    <3>4. /\ running'.kind = "exception" /\ running'.no = PageFaultNo /\ running'.flag = flag
          /\ flag' = FALSE
      BY <1>12, <2>5 DEF Touch, isr
    <3>5. EnabledInv'
      BY <2>1, <3>1, <3>4, CallAdds DEF EnabledInv, Handling
    <3> QED
      BY <2>2, <2>3, <2>4, <3>3, <3>5
  <2>6. CASE "paging" \notin built
    BY <1>12, <2>1, <2>2, <2>3, <2>4, <2>6, CallAdds DEF Touch, EnabledInv, StaysUp, Handling
  <2> QED
    BY <2>5, <2>6
<1>13. CASE dispatch_exception
  <2>1. Main' = Main /\ Counted' /\ \A call : Made(call)' <=> Made(call)
    BY <1>13, MadeSame DEF dispatch_exception
  <2>2. TableInv'
    BY <1>13, <2>1 DEF dispatch_exception, TableInv
  <2>3. running.no \in exceptions
    BY <1>13 DEF dispatch_exception, EnabledInv, TableInv
  <2>4. running'.done /\ running'.flag = running.flag
    BY <1>13, Finished DEF dispatch_exception, AckInv
  <2>5. EnabledInv'
    BY <1>13, <2>1, <2>4 DEF dispatch_exception, EnabledInv, Handling
  <2>6. StaysUp' /\ Captured'
    BY <1>13, <2>1, <2>3 DEF dispatch_exception, StaysUp, Captured
  <2> QED
    BY <2>1, <2>2, <2>5, <2>6
<1>14. CASE dispatch_interrupt
  <2>1. Main' = Main /\ Counted' /\ \A call : Made(call)' <=> Made(call)
    BY <1>14, MadeSame DEF dispatch_interrupt
  <2>2. TableInv'
    BY <1>14, <2>1 DEF dispatch_interrupt, TableInv
  <2>3. running'.done /\ running'.flag = running.flag
    BY <1>14, Finished DEF dispatch_interrupt, AckInv
  <2>4. EnabledInv' /\ StaysUp'
    BY <1>14, <2>1, <2>3 DEF dispatch_interrupt, EnabledInv, Handling, StaysUp
  <2>5. Made(sti)
    BY <1>14 DEF dispatch_interrupt, Handling, EnabledInv
  <2>6. irq(running.no) \in Range(Main) => running.no \in handlers
    BY <2>5, HandlersThere DEF TableInv
  <2>7. Captured'
    <3>1. CASE running.no \in handlers
      BY <1>14, <2>1, <3>1 DEF dispatch_interrupt, Captured
    <3>2. CASE running.no \notin handlers
      <4>1. trouble' = trouble \union {<<"uncaptured", running.no>>}
        BY <1>14, <3>2 DEF dispatch_interrupt
      <4>2. irq(running.no) \notin Range(Main)
        BY <2>6, <3>2
      <4>3. \A n : <<"uncaptured", n>> = <<"uncaptured", running.no>> => n = running.no
        OBVIOUS
      <4> QED
        BY <2>1, <4>1, <4>2, <4>3 DEF Captured
    <3> QED
      BY <3>1, <3>2
  <2> QED
    BY <2>1, <2>2, <2>4, <2>7
<1>15. CASE Iret
  <2>1. Main' = Main /\ Counted' /\ \A call : Made(call)' <=> Made(call)
    BY <1>15, MadeSame DEF Iret
  <2>2. running'.kind = "main" /\ ~running'.flag
    BY <1>15 DEF Iret, NoHandler
  <2>3. TableInv'
    BY <1>15, <2>1 DEF Iret, TableInv
  <2>4. EnabledInv'
    BY <1>15, <2>1, <2>2 DEF Iret, EnabledInv, Handling
  <2> QED
    BY <1>15, <2>1, <2>3, <2>4 DEF Iret, StaysUp, Captured
<1>16. ASSUME NEW n \in Lines, Raise(n)
       PROVE  Counted' /\ TableInv' /\ EnabledInv' /\ StaysUp' /\ Captured'
  <2>1. Main' = Main /\ Counted' /\ \A call : Made(call)' <=> Made(call)
    BY <1>16, MadeSame DEF Raise
  <2> QED
    BY <1>16, <2>1 DEF Raise, TableInv, EnabledInv, Handling, StaysUp, Captured
<1>17. ASSUME NEW n \in Lines, Accept(n)
       PROVE  Counted' /\ TableInv' /\ EnabledInv' /\ StaysUp' /\ Captured'
  <2>1. Main' = Main /\ Counted' /\ \A call : Made(call)' <=> Made(call)
    BY <1>17, MadeSame DEF Accept, irq_stub
  <2>2. Made(sti)
    BY <1>17 DEF Accept, EnabledInv
  <2>3. n + IRQ_BASE \in IRQ_BASE .. IRQ_BASE + 15
    BY DEF IRQ_BASE, Lines, Timer, Keyboard, Disk
  <2>4. {"PIC", "GDT"} \subseteq built /\ n + IRQ_BASE \in gates
    BY <2>2, <2>3, GatesThere DEF TableInv
  <2>5. StaysUp'
    BY <1>17, <2>4 DEF Accept, StaysUp
  <2>6. TableInv'
    BY <1>17, <2>1 DEF Accept, TableInv
  <2>7. running'.kind = "interrupt"
    BY <1>17 DEF Accept, irq_stub
  <2>8. EnabledInv'
    BY <2>1, <2>2, <2>7 DEF EnabledInv, Handling
  <2>9. Captured'
    BY <1>17, <2>1 DEF Accept, Captured
  <2> QED
    BY <2>1, <2>5, <2>6, <2>8, <2>9
<1>18. CASE UNCHANGED vars
  <2>1. Main' = Main /\ Counted' /\ \A call : Made(call)' <=> Made(call)
    BY <1>18, MadeSame DEF vars
  <2> QED
    BY <1>18, <2>1 DEF vars, TableInv, EnabledInv, Handling, StaysUp, Captured
<1> QED
  BY <1>1, <1>2, <1>3, <1>4, <1>5, <1>6, <1>7, <1>8, <1>9, <1>10, <1>11, <1>12,
     <1>13, <1>14, <1>15, <1>16, <1>17, <1>18 DEF Next, MainStep, Handle

\* Whatever interrupts arrive between the calls of main, a line main has a
\* handler for is dispatched only after register_handler entered it: all seven
\* mains register their handlers before enable_interrupts, as kernel.C wants.
THEOREM HandlersBeforeInterrupts == Spec => []Captured
<1>1. OrderInv => Captured
  BY DEF OrderInv
<1> QED
  BY <1>1, InitOrder, StepOrder, PTL DEF Spec

\* The CPU never finds an interrupt or the page fault without a gate, no
\* exception reaches the dispatcher without a handler (abort), and the assertion
\* of enable_interrupts holds.
THEOREM KernelStaysUp == Spec => []StaysUp
<1>1. OrderInv => StaysUp
  BY DEF OrderInv
<1> QED
  BY <1>1, InitOrder, StepOrder, PTL DEF Spec

-----------------------------------------------------------------------------
(* What the constructors and calls use                                     *)

\* What main has built is there, and nothing was found missing.
SupplyInv ==
    /\ \A o : Made(build(o)) => o \in built
    /\ BuiltBeforeUsed

LEMMA InitSupply == Init => SupplyInv
<1> SUFFICES ASSUME Init PROVE SupplyInv
  OBVIOUS
<1>1. \A call : ~Made(call)
  BY DEF Init, Made, Before
<1> QED
  BY <1>1 DEF Init, SupplyInv, BuiltBeforeUsed

\* What a call uses is built.
LEMMA CallSupplied ==
    ASSUME SupplyInv, Counted, NEW op, Call(op), stage # 1
    PROVE  /\ op = "build" => Needs[Main[pc][2]] \subseteq built
           /\ op = "use" => Main[pc][2] \in built
           /\ op \in {"exception_dispatcher", "interrupt_dispatcher", "exception", "line"}
                => "Console" \in built
           /\ op = "command" => "SYSTEM_DISK" \in built
<1>1. Kind(Main[pc]) = op /\ Of(Main[pc]) = Main[pc][2] /\ Supplied(Main, pc)
  BY CallMade, Ordered DEF Counted
<1>2. \A o : Before(Main, pc, build(o)) => o \in built
  BY DEF SupplyInv, Made
<1> QED
  BY <1>1, <1>2 DEF Supplied

LEMMA StepSupply == OrderInv /\ SupplyInv /\ [Next]_vars => SupplyInv'
<1> SUFFICES ASSUME OrderInv, SupplyInv, [Next]_vars PROVE SupplyInv'
  OBVIOUS
<1>a. Counted
  BY DEF OrderInv
<1> DEFINE Finds(S) == trouble' = trouble \union Missing(S) /\ (stage # 1 => S \subseteq built)
\* A call that builds nothing and finds what it uses.
<1>b. ASSUME NEW op, Call(op), op # "build", built \subseteq built',
             trouble' = trouble \/ \E S : Finds(S)
      PROVE  SupplyInv'
  <2>1. stage' = stage
    BY <1>b DEF Call
  <2>2. stage # 1 => trouble' = trouble
    BY <1>b, MissingObjects
  <2>3. \A o : Made(build(o))' => Made(build(o))
    BY <1>a, <1>b, CallAdds
  <2> QED
    BY <1>b, <2>1, <2>2, <2>3 DEF SupplyInv, BuiltBeforeUsed
<1>1. CASE Build
  <2>1. Call("build") /\ stage' = stage
    BY <1>1 DEF Build, Call
  <2>2. stage # 1 => Needs[Main[pc][2]] \subseteq built
    BY <1>a, <2>1, CallSupplied
  <2>3. stage # 1 => trouble' = trouble
    BY <1>1, <2>2, MissingObjects DEF Build
  <2>4. \A o : Made(build(o))' => Made(build(o)) \/ o = Main[pc][2]
    BY <1>a, <2>1, CallAdds
  <2>5. built' = built \union {Main[pc][2]}
    BY <1>1 DEF Build
  <2> QED
    BY <2>1, <2>3, <2>4, <2>5 DEF SupplyInv, BuiltBeforeUsed
<1>2. CASE Use
  <2>1. Call("use") /\ built' = built
    BY <1>2 DEF Use
  <2>2. Finds({Main[pc][2]})
    BY <1>2, <1>a, <2>1, CallSupplied DEF Use
  <2> QED
    BY <1>b, <2>1, <2>2
<1>3. CASE GDTInit
  <2>1. Call("GDT") /\ built \subseteq built' /\ trouble' = trouble
    BY <1>3 DEF GDTInit
  <2> QED
    BY <1>b, <2>1
<1>4. CASE IRQInit
  <2>1. Call("PIC") /\ built \subseteq built' /\ trouble' = trouble
    BY <1>4 DEF IRQInit
  <2> QED
    BY <1>b, <2>1
<1>5. CASE IDTInit
  <2>1. Call("IDT") /\ built \subseteq built' /\ trouble' = trouble
    BY <1>5 DEF IDTInit
  <2> QED
    BY <1>b, <2>1
<1>6. CASE init_exceptions
  <2>1. Call("exception_dispatcher") /\ built' = built
    BY <1>6 DEF init_exceptions
  <2>2. Finds({"Console"})
    BY <1>6, <1>a, <2>1, CallSupplied DEF init_exceptions, SetGates
  <2> QED
    BY <1>b, <2>1, <2>2
<1>7. CASE init_interrupts
  <2>1. Call("interrupt_dispatcher") /\ built' = built
    BY <1>7 DEF init_interrupts
  <2>2. Finds({"Console"})
    BY <1>7, <1>a, <2>1, CallSupplied DEF init_interrupts, SetGates
  <2> QED
    BY <1>b, <2>1, <2>2
<1>8. CASE register_exception
  <2>1. Call("exception") /\ built' = built
    BY <1>8 DEF register_exception
  <2>2. Finds({"Console"})
    BY <1>8, <1>a, <2>1, CallSupplied DEF register_exception
  <2> QED
    BY <1>b, <2>1, <2>2
<1>9. CASE register_interrupt
  <2>1. Call("line") /\ built' = built
    BY <1>9 DEF register_interrupt
  <2>2. Finds({"Console"})
    BY <1>9, <1>a, <2>1, CallSupplied DEF register_interrupt
  <2> QED
    BY <1>b, <2>1, <2>2
<1>10. CASE enable_interrupts
  <2>1. Call("sti") /\ built \subseteq built' /\ trouble' = trouble
    BY <1>10 DEF enable_interrupts
  <2> QED
    BY <1>b, <2>1
<1>11. CASE issue_operation
  <2>1. Call("command") /\ built' = built
    BY <1>11 DEF issue_operation
  <2>2. Finds({"SYSTEM_DISK"})
    BY <1>11, <1>a, <2>1, CallSupplied DEF issue_operation
  <2> QED
    BY <1>b, <2>1, <2>2
<1>12. CASE Touch
  <2>1. Call("touch") /\ built \subseteq built' /\ trouble' = trouble
    BY <1>12 DEF Touch
  <2> QED
    BY <1>b, <2>1
<1>13. CASE dispatch_interrupt
  <2>1. Main' = Main /\ \A call : Made(call)' <=> Made(call)
    BY <1>13, MadeSame DEF dispatch_interrupt
  <2>2. stage' = stage /\ built' = built
    BY <1>13 DEF dispatch_interrupt
  <2>3. trouble' \subseteq trouble \union {<<"uncaptured", running.no>>}
    BY <1>13 DEF dispatch_interrupt
  <2>4. \A o : <<"unbuilt", o>> # <<"uncaptured", running.no>>
    OBVIOUS
  <2> QED
    BY <2>1, <2>2, <2>3, <2>4 DEF SupplyInv, BuiltBeforeUsed
<1>14. ASSUME UNCHANGED <<stage, pc, built, trouble>> PROVE SupplyInv'
  <2>1. \A call : Made(call)' <=> Made(call)
    BY <1>14, MadeSame
  <2> QED
    BY <1>14, <2>1 DEF SupplyInv, BuiltBeforeUsed
<1>15. CASE dispatch_exception \/ Iret
  BY <1>14, <1>15 DEF dispatch_exception, Iret
<1>16. ASSUME NEW n \in Lines, Raise(n) \/ Accept(n) PROVE SupplyInv'
  BY <1>14, <1>16 DEF Raise, Accept
<1>17. CASE UNCHANGED vars
  BY <1>14, <1>17 DEF vars
<1> QED
  BY <1>1, <1>2, <1>3, <1>4, <1>5, <1>6, <1>7, <1>8, <1>9, <1>10, <1>11, <1>12,
     <1>13, <1>15, <1>16, <1>17 DEF Next, MainStep, Handle

\* In every main but that of MP1, each constructor and each call finds the
\* objects it relies on built: nothing is allocated before the memory pool and
\* nothing printed before the console.
THEOREM NothingUsedUnbuilt == Spec => []BuiltBeforeUsed
<1>1. SupplyInv => BuiltBeforeUsed
  BY DEF SupplyInv
<1> QED
  BY <1>1, InitOrder, StepOrder, InitSupply, StepSupply, PTL DEF Spec

=============================================================================
