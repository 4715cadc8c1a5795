------------------------------ MODULE Devices ------------------------------
(***************************************************************************)
(* Console, interval timer and keyboard.  A program prints, asks for the   *)
(* time and waits, one memory access at a time; the interrupt handlers of  *)
(* timer and keyboard run between any two of its steps, and the timer      *)
(* prints.  Without optimisation x++ is a load and a store.  What a cell   *)
(* of the screen holds is left out, and so is the hardware cursor, whose   *)
(* two registers are selected but never written.                           *)
(***************************************************************************)
EXTENDS Integers, Sequences, FiniteSetsExt

CONSTANTS
    Columns, Rows,   \* 80 and 25 in the code
    Tab,             \* 8 in the code
    Chars,           \* what is printed: "char" stands for printable ones
    Message,         \* what the timer prints once a second
    HZ,              \* timer interrupts per second
    MaxTime,         \* bound on the timer interrupts
    MaxWait,         \* bound on the argument of wait
    Keys

ASSUME DevicesAssumption ==
    /\ Columns \in Nat \ {0} /\ Rows \in Nat \ {0, 1} /\ Tab \in 1 .. Columns
    /\ HZ \in Nat \ {0} /\ MaxTime \in Nat /\ MaxWait \in Nat
    /\ Chars \subseteq {"char", "BS", "TAB", "CR", "NL"}
    /\ Message \in Seq(Chars)

VARIABLES
    pc, arg, acc,    \* the step of the program, its argument, its register
    csr_x, csr_y,    \* the cursor
    low, high,       \* lowest and highest cell of video memory written so far
    seconds, ticks,  \* the clock
    elapsed,         \* how many timer interrupts there were
    started, got,    \* elapsed when current was called; what it read
    key_pressed, key_code,
    byte,            \* what the keyboard controller holds
    fresh,           \* keys reported pressed since the last call of wait or read
    enabled          \* interrupts; MP1 and MP2, which never enable them, have
                     \* neither timer nor keyboard
console == <<csr_x, csr_y, low, high>>
clock == <<seconds, ticks, elapsed>>
keyboard == <<key_pressed, key_code, byte, fresh>>
vars == <<pc, arg, acc, console, clock, started, got, keyboard, enabled>>

None == "none"
NoByte == [key |-> None, up |-> FALSE]

-----------------------------------------------------------------------------
(***************************************************************************)
(* putch in one piece, as the timer handler runs it.                       *)
(***************************************************************************)
Cell(x, y) == y * Columns + x

Written(cur, from, to) ==
    [cur EXCEPT !.low = Min({@, from}), !.high = Max({@, to})]

\* csr_x after a tab, a printable character or a backspace.
Moved(c, x) ==
    CASE c = "char"  -> x + 1
      [] c = "TAB" -> ((x + Tab) \div Tab) * Tab
      [] c = "BS" -> x - 1

scroll(cur) ==
    LET temp == cur.y - Rows + 1
    IN  IF cur.y >= Rows
        THEN [Written(cur, 0, Cell(Columns - 1, Rows - temp)) EXCEPT !.y = Rows - 1]
        ELSE cur

putch(cur, c) ==
    LET drawn == IF c = "char" THEN Written(cur, Cell(cur.x, cur.y), Cell(cur.x, cur.y))
                 ELSE cur
        moved == CASE c = "NL" -> [drawn EXCEPT !.x = 0, !.y = @ + 1]
                   [] c = "CR" -> [drawn EXCEPT !.x = 0]
                   [] c = "BS" /\ cur.x = 0 -> drawn
                   [] OTHER -> [drawn EXCEPT !.x = Moved(c, @)]
    IN  scroll(IF moved.x >= Columns
               THEN [moved EXCEPT !.x = 0, !.y = @ + 1] ELSE moved)

puts(cur, s) ==
    LET after[n \in 0 .. Len(s)] == IF n = 0 THEN cur ELSE putch(after[n - 1], s[n])
    IN  after[Len(s)]

cursor == [x |-> csr_x, y |-> csr_y, low |-> low, high |-> high]

SetCursor(cur) == /\ csr_x' = cur.x /\ csr_y' = cur.y
                  /\ low' = cur.low /\ high' = cur.high

-----------------------------------------------------------------------------
\* After Console::init and the constructors of timer and keyboard.
Init ==
    /\ pc = "ready" /\ arg = None /\ acc = 0
    /\ csr_x = 0 /\ csr_y = 0
    /\ low = 0 /\ high = Cell(Columns - 1, Rows - 1)
    /\ seconds = 0 /\ ticks = 0 /\ elapsed = 0
    /\ started = 0 /\ got = [seconds |-> 0, ticks |-> 0]
    /\ key_pressed = FALSE /\ key_code = None
    /\ byte = NoByte /\ fresh = {}
    /\ enabled \in BOOLEAN

Goto(from, to) == pc = from /\ pc' = to

\* The kernels that run with interrupts print no backspace.
Printed == IF enabled THEN Chars \ {"BS"} ELSE Chars

(***************************************************************************)
(* putch, as the program runs it.                                          *)
(***************************************************************************)
Put(c) ==
    /\ c \in Printed
    /\ Goto("ready", CASE c = "char" -> "row" [] c = "TAB" -> "load x"
                       [] c = "BS" -> "test x" [] OTHER -> "margin")
    /\ arg' = c
    /\ UNCHANGED <<acc, console, clock, started, got, keyboard, enabled>>

WhereRow ==
    /\ Goto("row", "column")
    /\ acc' = csr_y * Columns
    /\ UNCHANGED <<arg, console, clock, started, got, keyboard, enabled>>

WhereColumn ==
    /\ Goto("column", "draw")
    /\ acc' = acc + csr_x
    /\ UNCHANGED <<arg, console, clock, started, got, keyboard, enabled>>

Draw ==
    /\ Goto("draw", "load x")
    /\ SetCursor(Written(cursor, acc, acc))
    /\ UNCHANGED <<arg, acc, clock, started, got, keyboard, enabled>>

TestX ==
    /\ Goto("test x", IF csr_x # 0 THEN "load x" ELSE "wrap")
    /\ UNCHANGED <<arg, acc, console, clock, started, got, keyboard, enabled>>

LoadX ==
    /\ Goto("load x", "store x")
    /\ acc' = csr_x
    /\ UNCHANGED <<arg, console, clock, started, got, keyboard, enabled>>

StoreX ==
    /\ Goto("store x", "wrap")
    /\ SetCursor([cursor EXCEPT !.x = Moved(arg, acc)])
    /\ UNCHANGED <<arg, acc, clock, started, got, keyboard, enabled>>

Margin ==
    /\ Goto("margin", IF arg = "CR" THEN "wrap" ELSE "load y")
    /\ SetCursor([cursor EXCEPT !.x = 0])
    /\ UNCHANGED <<arg, acc, clock, started, got, keyboard, enabled>>

LoadY ==
    /\ Goto("load y", "store y")
    /\ acc' = csr_y
    /\ UNCHANGED <<arg, console, clock, started, got, keyboard, enabled>>

StoreY ==
    /\ Goto("store y", IF arg = "NL" THEN "wrap" ELSE "scroll")
    /\ SetCursor([cursor EXCEPT !.y = acc + 1])
    /\ arg' = None
    /\ UNCHANGED <<acc, clock, started, got, keyboard, enabled>>

\* Seeded bug: one column too many.
WrapLate ==
    /\ Goto("wrap", IF csr_x > Columns THEN "margin" ELSE "scroll")
    /\ arg' = None
    /\ UNCHANGED <<acc, console, clock, started, got, keyboard, enabled>>

Wrap ==
    /\ Goto("wrap", IF csr_x >= Columns THEN "margin" ELSE "scroll")
    /\ arg' = None
    /\ UNCHANGED <<acc, console, clock, started, got, keyboard, enabled>>

\* A register nobody reads any more is cleared, here and below.
ScrollTest ==
    /\ Goto("scroll", IF csr_y >= Rows THEN "scroll temp" ELSE "ready")
    /\ acc' = 0 /\ arg' = None
    /\ UNCHANGED <<console, clock, started, got, keyboard, enabled>>

ScrollTemp ==
    /\ Goto("scroll temp", "scroll copy")
    /\ acc' = csr_y - Rows + 1
    /\ UNCHANGED <<arg, console, clock, started, got, keyboard, enabled>>

\* The rows move up by temp, the row behind them is cleared.
ScrollCopy ==
    /\ Goto("scroll copy", "scroll y")
    /\ SetCursor(Written(cursor, 0, Cell(Columns - 1, Rows - acc)))
    /\ UNCHANGED <<arg, acc, clock, started, got, keyboard, enabled>>

\* Seeded bug: the cursor stays behind the screen.
ScrollForgetsRow ==
    /\ Goto("scroll y", "ready")
    /\ acc' = 0
    /\ UNCHANGED <<arg, console, clock, started, got, keyboard, enabled>>

ScrollEnd ==
    /\ Goto("scroll y", "ready")
    /\ SetCursor([cursor EXCEPT !.y = Rows - 1])
    /\ acc' = 0
    /\ UNCHANGED <<arg, clock, started, got, keyboard, enabled>>

-----------------------------------------------------------------------------
(***************************************************************************)
(* The timer: current, and wait that calls it.                             *)
(***************************************************************************)
Current(call) ==
    /\ enabled
    /\ Goto("ready", "current")
    /\ arg' = call
    /\ started' = elapsed
    /\ UNCHANGED <<acc, console, clock, got, keyboard, enabled>>

\* Seeded bug: ticks read first.
TicksFirst == <<"ticks", "seconds">>

\* The order in which current reads the clock.
CurrentOrder == <<"seconds", "ticks">>

Read(field) == got' = [got EXCEPT ![field] = [seconds |-> seconds, ticks |-> ticks][field]]

CurrentFirst ==
    /\ Goto("current", "current again")
    /\ Read(CurrentOrder[1])
    /\ UNCHANGED <<arg, acc, console, clock, started, keyboard, enabled>>

CurrentSecond ==
    /\ Goto("current again", "got time")
    /\ Read(CurrentOrder[2])
    /\ UNCHANGED <<arg, acc, console, clock, started, keyboard, enabled>>

CurrentReturns ==
    /\ arg = "current"
    /\ Goto("got time", "ready")
    /\ arg' = None /\ started' = 0
    /\ got' = [seconds |-> 0, ticks |-> 0]
    /\ UNCHANGED <<acc, console, clock, keyboard, enabled>>

\* then_seconds, in acc.
WaitStarts(n) ==
    /\ arg = "wait"
    /\ Goto("got time", "wait seconds")
    /\ acc' = got.seconds + n
    /\ arg' = None /\ started' = 0
    /\ UNCHANGED <<console, clock, got, keyboard, enabled>>

WaitSeconds ==
    /\ Goto("wait seconds", IF seconds <= acc THEN "wait ticks" ELSE "ready")
    /\ UNCHANGED <<arg, acc, console, clock, started, got, keyboard, enabled>>

WaitTicks ==
    /\ Goto("wait ticks", IF ticks < got.ticks THEN "wait seconds" ELSE "ready")
    /\ UNCHANGED <<arg, acc, console, clock, started, got, keyboard, enabled>>

(***************************************************************************)
(* The keyboard: wait and read differ in their result only.                *)
(***************************************************************************)
\* Seeded bug: an old key is taken for a new one.
ReadKeepsKey ==
    /\ enabled
    /\ Goto("ready", "key")
    /\ fresh' = {}
    /\ arg' = "key"
    /\ UNCHANGED <<acc, console, clock, started, got, key_pressed, key_code,
                   byte, enabled>>

KeyCleared ==
    /\ enabled
    /\ Goto("ready", "key")
    /\ key_pressed' = FALSE
    /\ fresh' = {}
    /\ arg' = "key"
    /\ UNCHANGED <<acc, console, clock, started, got, key_code, byte, enabled>>

KeySpin ==
    /\ key_pressed
    /\ Goto("key", "key code")
    /\ UNCHANGED <<arg, acc, console, clock, started, got, keyboard, enabled>>

\* The program has the code.
KeyReturned ==
    /\ Goto("key code", "got key")
    /\ arg' = key_code
    /\ UNCHANGED <<acc, console, clock, started, got, keyboard, enabled>>

KeyUsed ==
    /\ Goto("got key", "ready")
    /\ arg' = None
    /\ UNCHANGED <<acc, console, clock, started, got, keyboard, enabled>>

-----------------------------------------------------------------------------
(***************************************************************************)
(* Interrupt handlers, which run with interrupts disabled, and the devices.*)
(***************************************************************************)
TimerInterrupt ==
    /\ enabled
    /\ elapsed < MaxTime
    /\ elapsed' = elapsed + 1
    /\ IF ticks + 1 >= HZ
       THEN /\ seconds' = seconds + 1
            /\ ticks' = 0
            /\ SetCursor(puts(cursor, Message))
       ELSE /\ ticks' = ticks + 1
            /\ UNCHANGED <<seconds, console>>
    /\ UNCHANGED <<pc, arg, acc, started, got, keyboard, enabled>>

\* The controller holds one byte and raises its line with it.
KeyMoves(k, released) ==
    /\ byte = NoByte
    /\ byte' = [key |-> k, up |-> released]
    /\ UNCHANGED <<pc, arg, acc, console, clock, started, got, key_pressed,
                   key_code, fresh, enabled>>

\* Seeded bug: the sign test turned round.
Released(b) == b.up

\* The code of a released key has bit 7 set: it is negative as a char.
Pressed(b) == ~b.up

KeyboardInterrupt ==
    /\ enabled
    /\ byte # NoByte
    /\ IF Pressed(byte)
       THEN key_pressed' = TRUE /\ key_code' = byte.key
       ELSE UNCHANGED <<key_pressed, key_code>>
    /\ fresh' = IF byte.up THEN fresh ELSE fresh \union {byte.key}
    /\ byte' = NoByte
    /\ UNCHANGED <<pc, arg, acc, console, clock, started, got, enabled>>

-----------------------------------------------------------------------------
Putch == \/ \E c \in Chars : Put(c)
         \/ WhereRow \/ WhereColumn \/ Draw \/ TestX \/ LoadX \/ StoreX
         \/ Margin \/ LoadY \/ StoreY \/ Wrap
         \/ ScrollTest \/ ScrollTemp \/ ScrollCopy \/ ScrollEnd
Time == \/ \E call \in {"current", "wait"} : Current(call)
        \/ CurrentFirst \/ CurrentSecond \/ CurrentReturns
        \/ \E n \in 0 .. MaxWait : WaitStarts(n)
        \/ WaitSeconds \/ WaitTicks
Key == KeyCleared \/ KeySpin \/ KeyReturned \/ KeyUsed
Program == Putch \/ Time \/ Key
Environment == \/ TimerInterrupt \/ KeyboardInterrupt
               \/ \E k \in Keys, up \in BOOLEAN : KeyMoves(k, up)
Next == Program \/ Environment

\* The CPU runs the program between interrupts, and takes the interrupts.
Fairness == WF_vars(Program) /\ WF_vars(KeyboardInterrupt)
Spec == Init /\ [][Next]_vars /\ Fairness

-----------------------------------------------------------------------------
\* Whatever the timer printed in between, putch leaves the cursor on the
\* screen.
CursorOnScreen ==
    pc = "ready" => csr_x \in 0 .. Columns - 1 /\ csr_y \in 0 .. Rows - 1

\* Printing writes to the screen or, when the timer prints or scrolls in the
\* middle of a scroll, to the one row behind it: never in front of the video
\* memory and never further.
WritesNear == low >= 0 /\ high < Cell(0, Rows + 1)

\* The time current reads in two steps is never in the future, and less than
\* a second before the call.
TimeNeverAhead ==
    pc = "got time" =>
        LET t == got.seconds * HZ + got.ticks
        IN  t <= elapsed /\ t > started - HZ

\* read returns a key that was pressed after the call: not an earlier one, and
\* not one that was only released.
KeyFresh == pc = "got key" => arg \in fresh

\* A key reported while the program waits ends the wait.
KeyAnswered == (pc = "key" /\ fresh # {}) ~> (pc = "got key")
=============================================================================
