------------------------------ MODULE Startup ------------------------------
(***************************************************************************)
(* The main function of every stage, from the start code to its last call, *)
(* interleaved with the interrupts of timer, keyboard and disk: GDT, IDT,  *)
(* interrupt controllers, the two dispatchers and the order in which main  *)
(* sets them up.  Objects are names: only when they exist matters here.    *)
(***************************************************************************)
EXTENDS Naturals, Sequences, FiniteSets, Functions

CONSTANT Stages    \* the stages that are started

ASSUME StagesAssumption == Stages \subseteq 1 .. 7

Timer == 0
Keyboard == 1
Disk == 14
Lines == {Timer, Keyboard, Disk}
PageFaultNo == 14
IRQ_BASE == 32
Cascade == 2       \* the input of the master that the slave is wired to

VARIABLES
    stage,         \* the kernel that was started
    pc,            \* index of the next call of main
    built,         \* the objects and tables that exist
    gates,         \* vectors with a gate in the IDT
    exceptions,    \* exception numbers with an entry in handler_table
    handlers,      \* interrupt lines with an entry in handler_table
    flag,          \* the interrupt flag
    command,       \* a disk command is under way
    pending,       \* lines with a request at their controller
    inService,     \* controller inputs with an interrupt not acknowledged yet
    running,       \* what the CPU runs instead of main
    trouble,       \* what went wrong without stopping the CPU
    dead           \* abort, or a fault without a gate
vars == <<stage, pc, built, gates, exceptions, handlers, flag, command,
          pending, inService, running, trouble, dead>>

NoHandler == [kind |-> "main", no |-> 0, done |-> TRUE, flag |-> FALSE]

-----------------------------------------------------------------------------
(***************************************************************************)
(* The seven programs, one entry per call.                                 *)
(***************************************************************************)
\* What the constructor or initialisation of an object relies on.
Needs ==
    [Console |-> {}, frame_pool |-> {},
     kernel_mem_pool |-> {}, process_mem_pool |-> {"kernel_mem_pool"},
     MEMORY_POOL |-> {"Console", "frame_pool"},
     SYSTEM_SCHEDULER |-> {"MEMORY_POOL", "Console"},
     SYSTEM_DISK |-> {"MEMORY_POOL"},
     FILE_SYSTEM |-> {"MEMORY_POOL", "Console"},
     thread1 |-> {"MEMORY_POOL"}, others |-> {"MEMORY_POOL", "thread1"},
     paging_pools |-> {"kernel_mem_pool", "process_mem_pool", "Console"},
     pt |-> {"paging_pools"}, loaded |-> {"pt"}, paging |-> {"loaded"},
     format |-> {"SYSTEM_DISK"}, mounted |-> {"FILE_SYSTEM", "format"},
     files |-> {"mounted"}, queue |-> {"SYSTEM_SCHEDULER", "others"}]

build(o) == <<"build", o>>
use(o) == <<"use", o>>
gdt == <<"GDT">>
pic == <<"PIC">>
idt == <<"IDT">>
exc_init == <<"exception_dispatcher">>
irq_init == <<"interrupt_dispatcher">>
exc(n) == <<"exception", n>>
irq(n) == <<"line", n>>
sti == <<"sti">>
touch == <<"touch">>
disk == <<"command">>

Main1 == << use("Console"), use("Console"), build("Console"), use("Console") >>

Main2 == << build("Console"), build("kernel_mem_pool"),
            use("kernel_mem_pool"), build("process_mem_pool"),
            use("process_mem_pool"), use("Console"), use("kernel_mem_pool"),
            use("Console") >>

\* Seeded bug: interrupts enabled before the handlers are there.
Main3StiFirst == << gdt, build("Console"), idt, exc_init,
    pic, irq_init, sti, exc(0), irq(Timer), irq(Keyboard),
    build("kernel_mem_pool") >>

\* Up to the constructor of the page table, which writes through an
\* uninitialised pointer.
Main3 == << gdt, build("Console"), idt, exc_init, pic,
            irq_init, exc(0), irq(Timer), irq(Keyboard), sti,
            build("kernel_mem_pool"), use("kernel_mem_pool"),
            build("process_mem_pool"), use("process_mem_pool"),
            exc(PageFaultNo), build("paging_pools") >>

\* Seeded bug: paging used before the page-fault handler is registered.
Main4HandlerLast == << gdt, build("Console"), idt, exc_init,
    pic, irq_init, exc(0), irq(Timer), sti, build("kernel_mem_pool"),
    build("process_mem_pool"), build("paging_pools"), build("pt"),
    build("loaded"), build("paging"), touch, exc(PageFaultNo) >>

Main4 == << gdt, build("Console"), idt, exc_init, pic,
            irq_init, exc(0), irq(Timer), irq(Keyboard), use("Console"), sti,
            build("kernel_mem_pool"), use("kernel_mem_pool"),
            build("process_mem_pool"), use("process_mem_pool"),
            exc(PageFaultNo), build("paging_pools"), build("pt"),
            build("loaded"), build("paging"), use("Console"), touch,
            use("Console") >>

Main5 == << gdt, build("Console"), idt, exc_init, pic,
            irq_init, exc(0), build("frame_pool"), build("MEMORY_POOL"),
            irq(Timer), build("SYSTEM_SCHEDULER"), sti, use("Console"),
            build("thread1"), build("others"), build("queue"),
            use("thread1") >>

\* The last entry is the first read of fun2.
Main6 == << gdt, build("Console"), idt, exc_init, pic,
            irq_init, exc(0), build("frame_pool"), build("MEMORY_POOL"),
            irq(Timer), build("SYSTEM_SCHEDULER"), build("SYSTEM_DISK"), sti,
            use("Console"), build("thread1"), build("others"),
            build("queue"), use("thread1"), disk >>

exercise_file_system == << build("files"), disk, use("files"), disk,
                           use("files"), use("mounted") >>

\* Seeded bug: objects on the heap before the memory pool.
Main7DiskFirst == << gdt, build("Console"), idt, exc_init,
    pic, irq_init, build("SYSTEM_DISK"), build("frame_pool"),
    build("MEMORY_POOL"), irq(Timer), sti >>

Main7 == << gdt, build("Console"), idt, exc_init, pic,
            irq_init, exc(0), build("frame_pool"), build("MEMORY_POOL"),
            irq(Timer), build("SYSTEM_DISK"), irq(Disk),
            build("FILE_SYSTEM"), sti, use("Console"), build("format"), disk,
            build("mounted"), disk >> \o exercise_file_system

Main == CASE stage = 1 -> Main1 [] stage = 2 -> Main2 [] stage = 3 -> Main3
          [] stage = 4 -> Main4 [] stage = 5 -> Main5 [] stage = 6 -> Main6
          [] stage = 7 -> Main7

-----------------------------------------------------------------------------
\* The start code: interrupts are disabled, static constructors have run.
Init ==
    /\ stage \in Stages
    /\ pc = 1
    /\ built = {} /\ gates = {} /\ exceptions = {} /\ handlers = {}
    /\ flag = FALSE
    /\ command = FALSE
    /\ pending = {} /\ inService = {}
    /\ running = NoHandler
    /\ trouble = {}
    /\ dead = FALSE

\* main makes its next call, which is of kind op.
Call(op) ==
    /\ ~dead
    /\ running = NoHandler
    /\ pc <= Len(Main)
    /\ Main[pc][1] = op
    /\ pc' = pc + 1
    /\ UNCHANGED stage

Missing(objects) == {<<"unbuilt", o>> : o \in objects \ built}

\* The constructor runs on memory the object is given, from the memory pool
\* if it is made by new.
Build ==
    /\ Call("build")
    /\ LET o == Main[pc][2]
       IN  /\ built' = built \union {o}
           /\ trouble' = trouble \union Missing(Needs[o])
    /\ UNCHANGED <<gates, exceptions, handlers, flag, command, pending,
                   inService, running, dead>>

GDTInit ==
    /\ Call("GDT")
    /\ built' = built \union {"GDT"}
    /\ UNCHANGED <<gates, exceptions, handlers, flag, command, pending,
                   inService, running, trouble, dead>>

\* The sequence of commands resets both controllers and unmasks every line.
IRQInit ==
    /\ Call("PIC")
    /\ built' = built \union {"PIC"}
    /\ pending' = {} /\ inService' = {}
    /\ UNCHANGED <<gates, exceptions, handlers, flag, command, running,
                   trouble, dead>>

Use ==
    /\ Call("use")
    /\ trouble' = trouble \union Missing({Main[pc][2]})
    /\ UNCHANGED <<built, gates, exceptions, handlers, flag, command, pending,
                   inService, running, dead>>

IDTInit ==
    /\ Call("IDT")
    /\ gates' = {}
    /\ built' = built \union {"IDT"}
    /\ UNCHANGED <<exceptions, handlers, flag, command, pending, inService,
                   running, trouble, dead>>

\* set_gate announces every gate on the console.
SetGates(vectors) ==
    /\ gates' = gates \union vectors
    /\ trouble' = trouble \union Missing({"Console"})

init_exceptions ==
    /\ Call("exception_dispatcher")
    /\ SetGates(0 .. 31)
    /\ exceptions' = {}
    /\ UNCHANGED <<built, handlers, flag, command, pending, inService, running,
                   dead>>

init_interrupts ==
    /\ Call("interrupt_dispatcher")
    /\ SetGates(IRQ_BASE .. IRQ_BASE + 15)
    /\ handlers' = {}
    /\ UNCHANGED <<built, exceptions, flag, command, pending, inService,
                   running, dead>>

register_exception ==
    /\ Call("exception")
    /\ exceptions' = exceptions \union {Main[pc][2]}
    /\ trouble' = trouble \union Missing({"Console"})
    /\ UNCHANGED <<built, gates, handlers, flag, command, pending, inService,
                   running, dead>>

register_interrupt ==
    /\ Call("line")
    /\ handlers' = handlers \union {Main[pc][2]}
    /\ trouble' = trouble \union Missing({"Console"})
    /\ UNCHANGED <<built, gates, exceptions, flag, command, pending, inService,
                   running, dead>>

enable_interrupts ==
    /\ Call("sti")
    /\ flag' = TRUE
    /\ dead' = flag
    /\ UNCHANGED <<built, gates, exceptions, handlers, command, pending,
                   inService, running, trouble>>

issue_operation ==
    /\ Call("command")
    /\ command' = TRUE
    /\ trouble' = trouble \union Missing({"SYSTEM_DISK"})
    /\ UNCHANGED <<built, gates, exceptions, handlers, flag, pending,
                   inService, running, dead>>

\* The stub of an exception and that of an interrupt: push the number, save
\* the registers and call the dispatcher.  The gates are interrupt gates.
isr(no) == /\ running' = [kind |-> "exception", no |-> no, done |-> FALSE, flag |-> flag]
           /\ flag' = FALSE
irq_stub(no) == /\ running' = [kind |-> "interrupt", no |-> no, done |-> FALSE, flag |-> flag]
                /\ flag' = FALSE

\* The write to a page that is not mapped.  The instruction
\* is repeated when the handler returns.
Touch ==
    /\ Call("touch")
    /\ IF "paging" \in built
       THEN /\ dead' = ~ (PageFaultNo \in gates /\ "GDT" \in built)
            /\ isr(PageFaultNo)
       ELSE UNCHANGED <<dead, running, flag>>
    /\ UNCHANGED <<built, gates, exceptions, handlers, command, pending,
                   inService, trouble>>

dispatch_exception ==
    /\ ~dead
    /\ running.kind = "exception" /\ ~running.done
    /\ dead' = (running.no \notin exceptions)
    /\ running' = [running EXCEPT !.done = TRUE]
    /\ UNCHANGED <<stage, pc, built, gates, exceptions, handlers, flag,
                   command, pending, inService, trouble>>

-----------------------------------------------------------------------------
(***************************************************************************)
(* Devices and interrupt controllers.                                      *)
(***************************************************************************)
Raise(n) ==
    /\ n \notin pending
    /\ n = Disk => command
    /\ pending' = pending \union {n}
    /\ command' = IF n = Disk THEN FALSE ELSE command
    /\ UNCHANGED <<stage, pc, built, gates, exceptions, handlers, flag,
                   inService, running, trouble, dead>>

\* Lines 8 to 15 reach the CPU through an input of the master.
Input(n) == IF n > 7 THEN Cascade ELSE n

\* The controllers offer a line when nothing of its priority or above is in
\* service; out of reset they use the vectors of the exceptions.
Accept(n) ==
    /\ ~dead
    /\ flag
    /\ running = NoHandler
    /\ n \in pending
    /\ \A i \in inService : i \in 0 .. 7 => i > Input(n)
    /\ n > 7 => ~ \E i \in inService : i \in 8 .. n
    /\ pending' = pending \ {n}
    /\ inService' = inService \union {n, Input(n)}
    /\ dead' = ~ ({"PIC", "GDT"} \subseteq built /\ n + IRQ_BASE \in gates)
    /\ irq_stub(n)
    /\ UNCHANGED <<stage, pc, built, gates, exceptions, handlers, command,
                   trouble>>

\* Seeded bug: off by seven.
SlaveAbove14(int_no) == int_no > 14

generated_by_slave_PIC(int_no) == int_no > 7

\* A non-specific end of interrupt resets the highest input in service.
Ended(set, inputs) ==
    {i \in set : i \in inputs => \E j \in set \intersect inputs : j < i}

dispatch_interrupt ==
    /\ ~dead
    /\ running.kind = "interrupt" /\ ~running.done
    /\ LET n == running.no
           atSlave == IF generated_by_slave_PIC(n)
                      THEN Ended(inService, 8 .. 15) ELSE inService
       IN  /\ trouble' = IF n \in handlers THEN trouble
                         ELSE trouble \union {<<"uncaptured", n>>}
           /\ inService' = Ended(atSlave, 0 .. 7)
    /\ running' = [running EXCEPT !.done = TRUE]
    /\ UNCHANGED <<stage, pc, built, gates, exceptions, handlers, flag,
                   command, pending, dead>>

\* The stubs restore the registers; iret takes EFLAGS from the stack.
Iret ==
    /\ ~dead
    /\ running.kind # "main" /\ running.done
    /\ running' = NoHandler
    /\ flag' = running.flag
    /\ UNCHANGED <<stage, pc, built, gates, exceptions, handlers, command,
                   pending, inService, trouble, dead>>

-----------------------------------------------------------------------------
MainStep == \/ Build \/ Use \/ GDTInit \/ IRQInit \/ IDTInit
            \/ init_exceptions \/ init_interrupts \/ register_exception
            \/ register_interrupt \/ enable_interrupts \/ issue_operation
            \/ Touch
Handle == dispatch_exception \/ dispatch_interrupt \/ Iret
Next == \/ MainStep \/ Handle
        \/ \E n \in Lines : Raise(n) \/ Accept(n)

(***************************************************************************)
(* The CPU goes on.  Interrupts come at a bounded rate, far below that of  *)
(* instructions: main is not kept waiting by handlers for ever.            *)
(***************************************************************************)
Fairness == /\ SF_vars(MainStep) /\ WF_vars(Handle)
            /\ \A n \in Lines : SF_vars(Accept(n))
Spec == Init /\ [][Next]_vars /\ Fairness

-----------------------------------------------------------------------------
\* An interrupt of a line main has a handler for never reaches the dispatcher
\* before that handler is registered (kernel.C: "we would get a lot of
\* uncaptured interrupts otherwise").
Captured ==
    \A n \in Lines : irq(n) \in Range(Main) => <<"uncaptured", n>> \notin trouble

\* No call uses an object, or prints, before what it relies on exists.  The
\* main of MP1 is the exception: it prints before it initialises the console.
BuiltBeforeUsed ==
    stage # 1 => \A o \in DOMAIN Needs : <<"unbuilt", o>> \notin trouble

\* No interrupt or exception arrives without a gate, none ends in abort, and
\* enable_interrupts finds the interrupts disabled.
StaysUp == ~dead

\* When no handler runs, both controllers have been told so: no line stays
\* blocked by an interrupt that has been handled.
AllAcknowledged == running = NoHandler => inService = {}

\* Every main comes to its last call, whatever interrupts arrive.
BootEnds == <>(pc > Len(Main))

=============================================================================
