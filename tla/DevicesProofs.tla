--------------------------- MODULE DevicesProofs ---------------------------
(***************************************************************************)
(* Proofs about Devices.tla for every screen, tab width not wider than the *)
(* screen, timer frequency, message of the timer and set of keys.          *)
(*                                                                         *)
(* The cursor: between two steps of putch it may be off the screen, in one *)
(* of the two ways of Near, and from either of them the putch of the timer *)
(* ends on the screen (PutchLands).  What the program then stores from its *)
(* register is within the screen as well.                                  *)
(* The time: the seconds are read before the ticks, so a second that       *)
(* passes in between makes the time too old, never too new.                *)
(***************************************************************************)
EXTENDS Devices, TLAPS, WellFoundedInduction

Columned == Columns \in Nat /\ Columns >= 1 /\ Rows \in Nat /\ Rows >= 2
            /\ Tab \in Nat /\ Tab >= 1 /\ Tab <= Columns

Cursors == [x : Nat, y : Nat, low : Nat, high : Int]

OnScreen(cur) == cur.x < Columns /\ cur.y < Rows

\* Behind the last column before the wrap, or below the last row before the
\* scroll, but not both.
Near(cur) == /\ cur.x < Columns + Tab /\ cur.y <= Rows
             /\ cur.y = Rows => cur.x < Columns

\* What the console and its users keep true of the cursor and of the cells
\* written.
Sound(cur) == cur \in Cursors /\ Near(cur) /\ cur.high < Cell(0, Rows + 1)

-----------------------------------------------------------------------------
(* Arithmetic of the screen                                                *)

LEMMA Parameters == Columned
BY DevicesAssumption DEF Columned

LEMMA Product ==
  ASSUME NEW a \in Nat, NEW b \in Nat, NEW c \in Nat, a <= b
  PROVE  a * c <= b * c /\ a * c \in Nat
OBVIOUS

\* A cell of the screen or of the row behind it.
LEMMA CellNear ==
  ASSUME NEW x \in Nat, NEW y \in Nat,
         x < Columns + Tab, y <= Rows, y = Rows => x < Columns
  PROVE  Cell(x, y) \in Nat /\ Cell(x, y) < Cell(0, Rows + 1)
<1> USE Parameters DEF Columned
<1>1. Cell(0, Rows + 1) = Rows * Columns + Columns
  BY DEF Cell
<1>2. y * Columns \in Nat
  BY Product
<1>3. CASE x < Columns /\ y <= Rows
  <2>1. y * Columns <= Rows * Columns
    BY <1>3, Product
  <2> QED
    BY <1>1, <1>2, <1>3, <2>1 DEF Cell
<1>4. CASE x < Columns + Tab /\ y < Rows
  <2>1. (y + 1) * Columns <= Rows * Columns
    BY <1>4, Product
  <2>2. (y + 1) * Columns = y * Columns + Columns
    OBVIOUS
  <2> QED
    BY <1>1, <1>2, <1>4, <2>1, <2>2 DEF Cell
<1> QED
  BY <1>3, <1>4

LEMMA MinMax ==
  ASSUME NEW a \in Int, NEW b \in Int
  PROVE  /\ Min({a, b}) = IF a <= b THEN a ELSE b
         /\ Max({a, b}) = IF a >= b THEN a ELSE b
<1>1. \E e \in {a, b} : \A y \in {a, b} : e <= y
  OBVIOUS
<1>2. \E e \in {a, b} : \A y \in {a, b} : e >= y
  OBVIOUS
<1> QED
  BY <1>1, <1>2 DEF Min, Max

\* Writing cells next to the screen keeps the cursor and the bounds.
LEMMA WrittenNear ==
  ASSUME NEW cur \in Cursors, cur.high < Cell(0, Rows + 1),
         NEW f \in Nat, NEW l \in Int, l < Cell(0, Rows + 1)
  PROVE  /\ Written(cur, f, l) \in Cursors
         /\ Written(cur, f, l).x = cur.x /\ Written(cur, f, l).y = cur.y
         /\ Written(cur, f, l).high < Cell(0, Rows + 1)
BY MinMax, f \in Int, cur.low \in Int DEF Written, Cursors

\* A tab moves to the right, by Tab columns at most.
LEMMA TabMoves ==
  ASSUME NEW x \in Nat, NEW t \in Nat \ {0}
  PROVE  /\ ((x + t) \div t) * t \in Nat
         /\ ((x + t) \div t) * t > x
         /\ ((x + t) \div t) * t <= x + t
<1> DEFINE q == (x + t) \div t
           r == (x + t) % t
<1>1. q \in Nat /\ r \in 0 .. t - 1 /\ x + t = q * t + r
  BY SMT
<1>2. q * t \in Nat
  BY <1>1, Product
<1> HIDE DEF q, r
<1>3. q * t > x /\ q * t <= x + t
  BY <1>1, <1>2
<1> QED
  BY <1>2, <1>3 DEF q

\* Scrolling ends on the screen, wherever the cursor was up to two rows
\* behind the last one.
LEMMA ScrollLands ==
  ASSUME NEW cur \in Cursors, cur.x < Columns, cur.y <= Rows + 1,
         cur.high < Cell(0, Rows + 1)
  PROVE  /\ scroll(cur) \in Cursors /\ OnScreen(scroll(cur))
         /\ scroll(cur).high < Cell(0, Rows + 1)
         /\ cur.y >= Rows - 1 => scroll(cur).y >= Rows - 1
<1> USE Parameters DEF Columned
<1>1. CASE cur.y >= Rows
  <2> DEFINE l == Cell(Columns - 1, Rows - (cur.y - Rows + 1))
             w == Written(cur, 0, l)
  <2>0. cur.y \in Nat
    BY DEF Cursors
  <2>1. l \in Nat /\ l < Cell(0, Rows + 1)
    <3>1. Rows - (cur.y - Rows + 1) \in Nat /\ Rows - (cur.y - Rows + 1) <= Rows
      BY <1>1, <2>0
    <3>2. Columns - 1 \in Nat
      OBVIOUS
    <3> QED
      BY <3>1, <3>2, CellNear
  <2>2. scroll(cur) = [w EXCEPT !.y = Rows - 1]
    BY <1>1 DEF scroll
  <2> HIDE DEF l
  <2>3. w \in Cursors /\ w.x = cur.x /\ w.high < Cell(0, Rows + 1)
    BY <2>1, WrittenNear
  <2> HIDE DEF w
  <2>4. Rows - 1 \in Nat
    OBVIOUS
  <2> QED
    BY <2>2, <2>3, <2>4 DEF OnScreen, Cursors
<1>2. CASE ~ cur.y >= Rows
  <2>1. scroll(cur) = cur /\ cur.y \in Nat
    BY <1>2 DEF scroll, Cursors
  <2> QED
    BY <1>2, <2>1 DEF OnScreen
<1> QED
  BY <1>1, <1>2

LEMMA NewLine ==
  ASSUME NEW cur \in Cursors
  PROVE  LET n == [cur EXCEPT !.x = 0, !.y = @ + 1]
         IN  n \in Cursors /\ n.x = 0 /\ n.y = cur.y + 1 /\ n.high = cur.high
<1>1. cur.y \in Nat /\ cur.low \in Nat /\ cur.high \in Int
  BY DEF Cursors
<1> DEFINE a == [cur EXCEPT !.x = 0]
<1>2. a \in Cursors /\ a.x = 0 /\ a.y = cur.y /\ a.high = cur.high
  BY DEF Cursors
<1>3. [cur EXCEPT !.x = 0, !.y = @ + 1] = [a EXCEPT !.y = cur.y + 1]
  BY <1>2
<1> HIDE DEF a
<1> QED
  BY <1>1, <1>2, <1>3 DEF Cursors

\* A whole putch ends on the screen, even from between two steps of another
\* one, and goes up no further than the last row.
LEMMA PutchLands ==
  ASSUME NEW cur, Sound(cur), NEW c \in {"char", "BS", "TAB", "CR", "NL"}
  PROVE  /\ Sound(putch(cur, c)) /\ OnScreen(putch(cur, c))
         /\ cur.y >= Rows - 1 => putch(cur, c).y >= Rows - 1
<1> USE Parameters DEF Columned
<1> DEFINE drawn == IF c = "char" THEN Written(cur, Cell(cur.x, cur.y), Cell(cur.x, cur.y))
                    ELSE cur
           moved == CASE c = "NL" -> [drawn EXCEPT !.x = 0, !.y = @ + 1]
                      [] c = "CR" -> [drawn EXCEPT !.x = 0]
                      [] c = "BS" /\ cur.x = 0 -> drawn
                      [] OTHER -> [drawn EXCEPT !.x = Moved(c, @)]
           wrapped == IF moved.x >= Columns
                      THEN [moved EXCEPT !.x = 0, !.y = @ + 1] ELSE moved
<1>1. putch(cur, c) = scroll(wrapped)
  BY DEF putch
<1>2. /\ cur \in Cursors /\ cur.x \in Nat /\ cur.y \in Nat
      /\ cur.high < Cell(0, Rows + 1) /\ Near(cur)
  BY DEF Sound, Cursors
<1>3. /\ drawn \in Cursors /\ drawn.x = cur.x /\ drawn.y = cur.y
      /\ drawn.high < Cell(0, Rows + 1)
  <2>1. Cell(cur.x, cur.y) \in Nat /\ Cell(cur.x, cur.y) < Cell(0, Rows + 1)
    BY <1>2, CellNear DEF Near
  <2>2. ASSUME NEW l \in Nat, l < Cell(0, Rows + 1)
        PROVE  /\ Written(cur, l, l) \in Cursors
               /\ Written(cur, l, l).x = cur.x /\ Written(cur, l, l).y = cur.y
               /\ Written(cur, l, l).high < Cell(0, Rows + 1)
    BY <1>2, <2>2, WrittenNear
  <2> QED
    BY <1>2, <2>1, <2>2
<1> HIDE DEF drawn
<1>4. /\ moved \in Cursors /\ moved.high < Cell(0, Rows + 1)
      /\ moved.y >= cur.y
      /\ moved.x >= Columns => moved.y <= Rows
      /\ moved.x < Columns => moved.y <= Rows + 1
  <2>1. CASE c = "NL"
    <3>1. moved = [drawn EXCEPT !.x = 0, !.y = @ + 1]
      BY <2>1
    <3>2. /\ moved \in Cursors /\ moved.x = 0 /\ moved.y = cur.y + 1
          /\ moved.high = drawn.high
      <4> HIDE DEF moved
      <4> QED
        BY <1>3, <3>1, NewLine
    <3> HIDE DEF moved
    <3> QED
      BY <1>2, <1>3, <3>2 DEF Near
  <2>2. CASE c = "CR"
    <3>1. moved = [drawn EXCEPT !.x = 0]
      BY <2>2
    <3> QED
      BY <1>2, <1>3, <3>1 DEF Near, Cursors
  <2>3. CASE c = "BS" /\ cur.x = 0
    <3>1. moved = drawn
      BY <2>3
    <3> QED
      BY <1>2, <1>3, <2>3, <3>1 DEF Near
  <2>4. CASE c = "BS" /\ cur.x # 0
    <3>1. moved = [drawn EXCEPT !.x = @ - 1]
      BY <2>4 DEF Moved
    <3> QED
      BY <1>2, <1>3, <2>4, <3>1 DEF Near, Cursors
  <2>5. CASE c = "char"
    <3>1. moved = [drawn EXCEPT !.x = @ + 1]
      BY <2>5 DEF Moved
    <3> QED
      BY <1>2, <1>3, <3>1 DEF Near, Cursors
  <2>6. CASE c = "TAB"
    <3> DEFINE to == ((cur.x + Tab) \div Tab) * Tab
    <3>1. moved = [drawn EXCEPT !.x = to]
      BY <1>3, <2>6 DEF Moved
    <3>2. to \in Nat /\ to > cur.x
      <4>1. Tab \in Nat \ {0}
        OBVIOUS
      <4> QED
        BY <1>2, <4>1, TabMoves
    <3> HIDE DEF to
    <3> QED
      BY <1>2, <1>3, <3>1, <3>2 DEF Near, Cursors
  <2> QED
    BY <2>1, <2>2, <2>3, <2>4, <2>5, <2>6
<1> HIDE DEF moved
<1>5. /\ wrapped \in Cursors /\ wrapped.x < Columns /\ wrapped.y <= Rows + 1
      /\ wrapped.y >= cur.y /\ wrapped.high < Cell(0, Rows + 1)
  <2>1. moved.x \in Nat /\ moved.y \in Nat
    BY <1>4 DEF Cursors
  <2>2. CASE moved.x >= Columns
    <3>1. wrapped = [moved EXCEPT !.x = 0, !.y = @ + 1]
      BY <2>2
    <3>2. /\ wrapped \in Cursors /\ wrapped.x = 0 /\ wrapped.y = moved.y + 1
          /\ wrapped.high = moved.high
      BY <1>4, <3>1, NewLine
    <3> HIDE DEF wrapped
    <3> QED
      BY <1>2, <1>4, <2>1, <2>2, <3>2
  <2>3. CASE ~ moved.x >= Columns
    BY <1>2, <1>4, <2>1, <2>3
  <2> QED
    BY <2>2, <2>3
<1> HIDE DEF wrapped
<1>6. wrapped.y \in Nat
  BY <1>5 DEF Cursors
<1>7. /\ scroll(wrapped) \in Cursors /\ OnScreen(scroll(wrapped))
      /\ scroll(wrapped).high < Cell(0, Rows + 1)
      /\ wrapped.y >= Rows - 1 => scroll(wrapped).y >= Rows - 1
  BY <1>5, ScrollLands
<1>8. Near(scroll(wrapped))
  <2>1. scroll(wrapped).x \in Nat /\ scroll(wrapped).y \in Nat
    BY <1>7 DEF Cursors
  <2> QED
    BY <1>7, <2>1 DEF Near, OnScreen
<1> QED
  BY <1>1, <1>2, <1>5, <1>6, <1>7, <1>8 DEF Sound

-----------------------------------------------------------------------------
(* A message of any length.  puts is defined by recursion over the message, *)
(* so its function has to be shown to exist, and then followed character   *)
(* by character.                                                           *)

LEMMA LeastNatural ==
  ASSUME NEW T \in SUBSET Nat, T # {}
  PROVE  \E n \in T : \A k \in T : n <= k
<1> DEFINE R == {p \in Nat \X Nat : p[1] < p[2]}
<1>1. IsWellFoundedOn(R, Nat)
  <2>1. OpToRel(<, Nat) = R
    BY DEF OpToRel
  <2> QED
    BY <2>1, NatLessThanWellFounded
<1>2. PICK n \in T : \A k \in T : ~ (<<k, n>> \in R)
  <2> HIDE DEF R
  <2> QED
    BY <1>1, WFMin
<1>3. ASSUME NEW k \in T
      PROVE  n <= k
  <2>1. ~ (<<k, n>> \in R)
    BY <1>2
  <2> QED
    BY <2>1
<1> QED
  BY <1>3

LEMMA Induction ==
  ASSUME NEW S \in SUBSET Nat, 0 \in S, \A n \in S : n + 1 \in S
  PROVE  S = Nat
<1> SUFFICES ASSUME Nat \ S # {}
             PROVE  FALSE
  OBVIOUS
<1>1. PICK n \in Nat \ S : \A k \in Nat \ S : n <= k
  BY LeastNatural
<1>2. n - 1 \in Nat
  BY <1>1
<1>3. n - 1 \in S
  BY <1>1, <1>2
<1> QED
  BY <1>1, <1>3

\* f holds the cursor after each of the first l characters of s.
Prints(cur, s, l, f) ==
  f = [n \in 0 .. l |-> IF n = 0 THEN cur ELSE putch(f[n - 1], s[n])]

LEMMA PrintingExists ==
  ASSUME NEW cur, NEW s, NEW l \in Nat
  PROVE  \E f : Prints(cur, s, l, f)
<1> DEFINE S == {k \in Nat : \E f : Prints(cur, s, k, f)}
<1>1. 0 \in S
  <2> DEFINE f == [n \in 0 .. 0 |-> cur]
  <2>1. Prints(cur, s, 0, f)
    BY DEF Prints
  <2> QED
    BY <2>1
<1>2. ASSUME NEW k \in S
      PROVE  k + 1 \in S
  <2>1. PICK f : Prints(cur, s, k, f)
    OBVIOUS
  <2> DEFINE g == [n \in 0 .. k + 1 |-> IF n <= k THEN f[n] ELSE putch(f[k], s[k + 1])]
  <2>2. \A n \in 0 .. k + 1 :
          g[n] = IF n = 0 THEN cur ELSE putch(g[n - 1], s[n])
    <3> TAKE n \in 0 .. k + 1
    <3>1. CASE n = 0
      BY <2>1, <3>1 DEF Prints
    <3>2. CASE n # 0 /\ n <= k
      <4>1. g[n] = f[n] /\ g[n - 1] = f[n - 1]
        BY <3>2
      <4>2. f[n] = putch(f[n - 1], s[n])
        BY <2>1, <3>2 DEF Prints
      <4> QED
        BY <3>2, <4>1, <4>2
    <3>3. CASE n = k + 1
      <4>1. g[n] = putch(f[k], s[n]) /\ g[n - 1] = f[k]
        BY <3>3
      <4> QED
        BY <3>3, <4>1
    <3> QED
      BY <3>1, <3>2, <3>3
  <2>3. Prints(cur, s, k + 1, g)
    <3>1. g = [n \in 0 .. k + 1 |-> g[n]]
      OBVIOUS
    <3> HIDE DEF g
    <3> QED
      BY <2>2, <3>1 DEF Prints
  <2> QED
    BY <2>3
<1> HIDE DEF S
<1>3. S \in SUBSET Nat
  BY DEF S
<1>4. S = Nat
  BY <1>1, <1>2, <1>3, Induction
<1> QED
  BY <1>4 DEF S

\* What the timer prints leaves the cursor alone or puts it on the screen.
LEMMA PutsLands ==
  ASSUME NEW cur, Sound(cur), NEW s \in Seq(Chars)
  PROVE  /\ Sound(puts(cur, s))
         /\ puts(cur, s) = cur \/ OnScreen(puts(cur, s))
         /\ cur.y >= Rows - 1 => puts(cur, s).y >= Rows - 1
<1> DEFINE f == CHOOSE g : Prints(cur, s, Len(s), g)
           Fine(c) == /\ Sound(c)
                      /\ c = cur \/ OnScreen(c)
                      /\ cur.y >= Rows - 1 => c.y >= Rows - 1
           S == {n \in Nat : n <= Len(s) => Fine(f[n])}
<1>1. Prints(cur, s, Len(s), f)
  <2>1. \E g : Prints(cur, s, Len(s), g)
    <3>1. Len(s) \in Nat
      OBVIOUS
    <3> QED
      BY <3>1, PrintingExists
  <2> QED
    BY <2>1
<1>2. puts(cur, s) = f[Len(s)]
  BY DEF puts, Prints
<1> HIDE DEF f
<1>3. \A n \in 0 .. Len(s) : f[n] = IF n = 0 THEN cur ELSE putch(f[n - 1], s[n])
  BY <1>1 DEF Prints
<1>4. 0 \in S
  BY <1>3
<1>5. ASSUME NEW n \in S
      PROVE  n + 1 \in S
  <2> SUFFICES ASSUME n + 1 <= Len(s)
               PROVE  Fine(f[n + 1])
    OBVIOUS
  <2>1. Fine(f[n])
    OBVIOUS
  <2>2. s[n + 1] \in {"char", "BS", "TAB", "CR", "NL"}
    <3>1. n + 1 \in 1 .. Len(s)
      OBVIOUS
    <3>2. s[n + 1] \in Chars
      BY <3>1
    <3> QED
      BY <3>2, DevicesAssumption
  <2>3. f[n + 1] = putch(f[n], s[n + 1])
    BY <1>3
  <2>4. /\ Sound(putch(f[n], s[n + 1])) /\ OnScreen(putch(f[n], s[n + 1]))
        /\ f[n].y >= Rows - 1 => putch(f[n], s[n + 1]).y >= Rows - 1
    BY <2>1, <2>2, PutchLands
  <2> QED
    BY <2>1, <2>3, <2>4
<1>6. S = Nat
  <2>1. S \in SUBSET Nat
    OBVIOUS
  <2> HIDE DEF S
  <2> QED
    BY <1>4, <1>5, <2>1, Induction
<1>7. Fine(f[Len(s)])
  BY <1>6
<1> QED
  BY <1>2, <1>7

-----------------------------------------------------------------------------
(* The invariant of the console                                            *)

\* Steps of the program between which the cursor may be off the screen.
Unsettled == {"margin", "wrap", "scroll", "scroll temp", "scroll copy", "scroll y"}

\* What the program holds in its register, and for which character.
RegisterInv ==
  /\ pc \in {"row", "column", "draw"} => arg = "char"
  /\ pc = "column" => acc \in Nat /\ acc <= Cell(0, Rows - 1)
  /\ pc = "draw" => acc \in Nat /\ acc < Cell(0, Rows)
  /\ pc \in {"test x", "load x", "store x"} => arg \in {"char", "TAB", "BS"}
  /\ pc \in {"test x", "load x", "store x"} /\ arg = "BS" => ~ enabled
  /\ pc = "load x" /\ arg = "BS" => csr_x >= 1
  /\ pc = "store x" => /\ acc \in Nat /\ acc < Columns
                       /\ arg = "BS" => acc >= 1
  /\ pc = "store y" => acc \in Nat /\ acc < Rows
  /\ pc = "scroll copy" => acc \in {0, 1}

\* Sound(cursor), spelled out.
Placed(x, y, l, h) ==
  /\ x \in Nat /\ y \in Nat /\ l \in Nat /\ h \in Int
  /\ x < Columns + Tab /\ y <= Rows
  /\ y = Rows => x < Columns
  /\ h < Cell(0, Rows + 1)

CursorInv ==
  /\ Placed(csr_x, csr_y, low, high)
  /\ pc \notin Unsettled => csr_x < Columns /\ csr_y < Rows
  /\ pc = "margin" => csr_y < Rows
  /\ pc \in {"scroll", "scroll temp", "scroll copy", "scroll y"} => csr_x < Columns
  /\ pc = "scroll temp" => csr_y >= Rows - 1

ConsoleInv == CursorInv /\ RegisterInv

LEMMA SoundPlaced ==
  ASSUME NEW x, NEW y, NEW l, NEW h
  PROVE  Placed(x, y, l, h) <=> Sound([x |-> x, y |-> y, low |-> l, high |-> h])
BY DEF Placed, Sound, Near, Cursors

LEMMA PlacedAbove ==
  ASSUME NEW x \in Nat, NEW y \in Nat, NEW l \in Nat, NEW h \in Int,
         h < Cell(0, Rows + 1), x < Columns + Tab, y < Rows
  PROVE  Placed(x, y, l, h)
<1>1. y <= Rows /\ y # Rows
  BY Parameters DEF Columned
<1> QED
  BY <1>1 DEF Placed

LEMMA PlacedLeft ==
  ASSUME NEW x \in Nat, NEW y \in Nat, NEW l \in Nat, NEW h \in Int,
         h < Cell(0, Rows + 1), x < Columns, y <= Rows
  PROVE  Placed(x, y, l, h)
<1>1. x < Columns + Tab
  BY Parameters DEF Columned
<1> QED
  BY <1>1 DEF Placed

LEMMA InitConsole == Init => ConsoleInv
<1> SUFFICES ASSUME Init
             PROVE  ConsoleInv
  OBVIOUS
<1> USE Parameters DEF Columned
<1>1. Columns - 1 \in Nat /\ Rows - 1 \in Nat
  OBVIOUS
<1>2. Cell(Columns - 1, Rows - 1) \in Nat /\ Cell(Columns - 1, Rows - 1) < Cell(0, Rows + 1)
  BY <1>1, CellNear
<1> QED
  BY <1>1, <1>2
  DEF Init, ConsoleInv, CursorInv, RegisterInv, Placed

LEMMA CursorSet ==
  ASSUME NEW cur \in Cursors, SetCursor(cur)
  PROVE  cursor' = cur
BY DEF SetCursor, cursor, Cursors

\* The timer prints at any step of the program.
LEMMA TimerConsole == ConsoleInv /\ TimerInterrupt => ConsoleInv'
<1> SUFFICES ASSUME ConsoleInv, TimerInterrupt
             PROVE  ConsoleInv'
  OBVIOUS
<1> USE Parameters DEF Columned
<1>1. pc' = pc /\ arg' = arg /\ acc' = acc /\ enabled /\ enabled'
  BY DEF TimerInterrupt
<1>2. \/ cursor' = cursor
      \/ cursor' = puts(cursor, Message)
  <2>1. CASE ticks + 1 >= HZ
    <3>1. SetCursor(puts(cursor, Message))
      BY <2>1 DEF TimerInterrupt
    <3>2. puts(cursor, Message) \in Cursors
      <4>1. Sound(cursor)
        BY SoundPlaced DEF ConsoleInv, CursorInv, cursor
      <4> QED
        BY <4>1, PutsLands, DevicesAssumption DEF Sound
    <3> QED
      BY <3>1, <3>2, CursorSet
  <2>2. CASE ~ ticks + 1 >= HZ
    BY <2>2 DEF TimerInterrupt, console, cursor
  <2> QED
    BY <2>1, <2>2
<1>3. /\ Sound(cursor')
      /\ cursor' = cursor \/ OnScreen(cursor')
      /\ cursor.y >= Rows - 1 => cursor'.y >= Rows - 1
  <2>1. Sound(cursor)
    BY SoundPlaced DEF ConsoleInv, CursorInv, cursor
  <2>2. Message \in Seq(Chars)
    BY DevicesAssumption
  <2> QED
    BY <1>2, <2>1, <2>2, PutsLands
<1>4. CursorInv'
  <2>1. Placed(csr_x', csr_y', low', high')
    BY <1>3, SoundPlaced DEF cursor
  <2>2. \/ csr_x' = csr_x /\ csr_y' = csr_y
        \/ csr_x' < Columns /\ csr_y' < Rows
    BY <1>3 DEF OnScreen, cursor
  <2>3. csr_y >= Rows - 1 => csr_y' >= Rows - 1
    BY <1>3 DEF cursor
  <2> QED
    BY <1>1, <2>1, <2>2, <2>3 DEF ConsoleInv, CursorInv
<1>5. RegisterInv'
  BY <1>1, <1>3 DEF ConsoleInv, RegisterInv
<1> QED
  BY <1>4, <1>5 DEF ConsoleInv

LEMMA PutchConsole == ConsoleInv /\ Putch => ConsoleInv'
<1> SUFFICES ASSUME ConsoleInv, Putch
             PROVE  ConsoleInv'
  OBVIOUS
<1> USE Parameters DEF Columned
<1> DEFINE H == Cell(0, Rows + 1)
<1>0. /\ csr_x \in Nat /\ csr_y \in Nat /\ low \in Nat /\ high \in Int /\ high < H
      /\ csr_x < Columns + Tab /\ csr_y <= Rows
  BY DEF ConsoleInv, CursorInv, Placed
<1>n. csr_y = Rows => csr_x < Columns
  BY <1>0 DEF ConsoleInv, CursorInv, Placed
<1>c. /\ cursor \in Cursors /\ cursor.high < H
      /\ cursor.x = csr_x /\ cursor.y = csr_y
  BY <1>0 DEF Cursors, cursor
<1>1. ASSUME NEW c \in Chars, Put(c)
      PROVE  ConsoleInv'
  <2>1. c \in {"char", "BS", "TAB", "CR", "NL"}
    BY DevicesAssumption
  <2>2. c = "BS" => ~ enabled
    BY <1>1 DEF Put, Printed
  <2>3. csr_x' = csr_x /\ csr_y' = csr_y /\ low' = low /\ high' = high /\ acc' = acc /\ enabled' = enabled /\ arg' = c /\ pc = "ready"
    BY <1>1 DEF Put, Goto, console, cursor
  <2>4. /\ c = "char" => pc' = "row"
        /\ c = "TAB" => pc' = "load x"
        /\ c = "BS" => pc' = "test x"
        /\ c \in {"CR", "NL"} => pc' = "margin"
    BY <1>1 DEF Put, Goto
  <2>5. CursorInv'
    BY <2>1, <2>3, <2>4 DEF ConsoleInv, CursorInv, Unsettled
  <2>6. RegisterInv'
    BY <2>1, <2>2, <2>3, <2>4 DEF RegisterInv
  <2> QED
    BY <2>5, <2>6 DEF ConsoleInv
<1>2. CASE WhereRow
  <2>1. csr_x' = csr_x /\ csr_y' = csr_y /\ low' = low /\ high' = high /\ arg' = arg /\ enabled' = enabled /\ pc = "row" /\ pc' = "column"
        /\ acc' = csr_y * Columns
    BY <1>2 DEF WhereRow, Goto, console, cursor
  <2>2. acc' \in Nat /\ acc' <= Cell(0, Rows - 1)
    <3>1. csr_y <= Rows - 1
      BY <1>0, <1>n, <2>1 DEF ConsoleInv, CursorInv, Unsettled
    <3>2. Rows - 1 \in Nat
      OBVIOUS
    <3>3. csr_y * Columns <= (Rows - 1) * Columns /\ csr_y * Columns \in Nat
      BY <1>0, <3>1, <3>2, Product
    <3>4. Cell(0, Rows - 1) = (Rows - 1) * Columns
      BY DEF Cell
    <3> QED
      BY <2>1, <3>3, <3>4
  <2> QED
    BY <2>1, <2>2 DEF ConsoleInv, CursorInv, RegisterInv, Unsettled, Placed
<1>3. CASE WhereColumn
  <2>1. csr_x' = csr_x /\ csr_y' = csr_y /\ low' = low /\ high' = high /\ arg' = arg /\ enabled' = enabled /\ pc = "column" /\ pc' = "draw"
        /\ acc' = acc + csr_x
    BY <1>3 DEF WhereColumn, Goto, console, cursor
  <2>2. acc' \in Nat /\ acc' < Cell(0, Rows)
    <3>1. csr_x < Columns /\ acc \in Nat /\ acc <= Cell(0, Rows - 1)
      BY <2>1 DEF ConsoleInv, CursorInv, RegisterInv, Unsettled
    <3>2. Cell(0, Rows) = Cell(0, Rows - 1) + Columns /\ Cell(0, Rows - 1) \in Int
      BY DEF Cell
    <3> QED
      BY <1>0, <1>n, <2>1, <3>1, <3>2
  <2> QED
    BY <2>1, <2>2 DEF ConsoleInv, CursorInv, RegisterInv, Unsettled, Placed
<1>4. CASE Draw
  <2>1. arg' = arg /\ acc' = acc /\ enabled' = enabled /\ pc = "draw" /\ pc' = "load x"
        /\ SetCursor(Written(cursor, acc, acc))
    BY <1>4 DEF Draw, Goto
  <2>2. acc \in Nat /\ acc < H
    <3>1. Cell(0, Rows + 1) = Cell(0, Rows) + Columns /\ Cell(0, Rows) \in Int
      BY DEF Cell
    <3>2. acc \in Nat /\ acc < Cell(0, Rows)
      BY <2>1 DEF ConsoleInv, RegisterInv
    <3> QED
      BY <3>1, <3>2
  <2> DEFINE w == Written(cursor, acc, acc)
  <2>3. w \in Cursors /\ w.x = csr_x /\ w.y = csr_y /\ w.high < H
    <3>1. /\ cursor \in Cursors /\ cursor.high < Cell(0, Rows + 1)
          /\ acc \in Nat /\ acc \in Int /\ acc < Cell(0, Rows + 1)
      BY <1>c, <2>2
    <3>2. /\ w \in Cursors /\ w.x = cursor.x /\ w.y = cursor.y
          /\ w.high < Cell(0, Rows + 1)
      BY <3>1, WrittenNear
    <3> QED
      BY <1>c, <3>2
  <2> HIDE DEF w
  <2>4. cursor' = w
    BY <2>1, <2>3, CursorSet DEF w
  <2>5. csr_x < Columns /\ csr_y < Rows /\ arg = "char"
    BY <1>0, <1>n, <2>1 DEF ConsoleInv, CursorInv, RegisterInv, Unsettled
  <2>6. CursorInv'
    <3>1. csr_x' = csr_x /\ csr_y' = csr_y
      BY <2>3, <2>4 DEF cursor
    <3>2. Sound(cursor')
      BY <1>0, <1>n, <2>3, <2>4 DEF Sound, Near
    <3>3. Placed(csr_x', csr_y', low', high')
      BY <3>2, SoundPlaced DEF cursor
    <3> QED
      BY <2>1, <2>5, <3>1, <3>3 DEF CursorInv, Unsettled
  <2> QED
    BY <2>1, <2>5, <2>6 DEF ConsoleInv, RegisterInv
<1>5. CASE TestX
  <2>1. /\ pc = "test x"
        /\ csr_x' = csr_x
        /\ csr_y' = csr_y
        /\ low' = low
        /\ high' = high
        /\ enabled' = enabled
        /\ arg' = arg
    BY <1>5 DEF TestX, Goto, SetCursor, console, cursor
  <2>5. Placed(csr_x, csr_y, low, high)
    BY DEF ConsoleInv, CursorInv
  <2>6. Placed(csr_x', csr_y', low', high')
    BY <1>0, <1>n, <2>1, <2>5
  <2>7. CASE csr_x # 0
    <3>1. pc' = "load x"
      BY <1>5, <2>7 DEF TestX, Goto
    <3>2. CursorInv'
      <4>1. csr_x' < Columns /\ csr_y' < Rows
        BY <2>1 DEF ConsoleInv, CursorInv, Unsettled
      <4> QED
        BY <2>6, <3>1, <4>1 DEF ConsoleInv, CursorInv, Unsettled
    <3>3. RegisterInv'
      <4>1. csr_x' = csr_x /\ csr_x \in Nat
        BY <1>0, <2>1
      <4>2. csr_x' >= 1
        BY <2>7, <4>1
      <4> QED
        BY <2>1, <3>1, <4>2 DEF ConsoleInv, RegisterInv
    <3> QED
      BY <3>2, <3>3 DEF ConsoleInv
  <2>8. CASE ~ (csr_x # 0)
    <3>1. pc' = "wrap"
      BY <1>5, <2>8 DEF TestX, Goto
    <3>2. CursorInv'
      BY <1>0, <1>n, <2>1, <2>6, <2>8, <3>1 DEF ConsoleInv, CursorInv, Unsettled
    <3>3. RegisterInv'
      BY <1>0, <2>1, <2>8, <3>1 DEF ConsoleInv, CursorInv, RegisterInv, Unsettled
    <3> QED
      BY <3>2, <3>3 DEF ConsoleInv
  <2> QED
    BY <2>7, <2>8
<1>6. CASE LoadX
  <2>1. /\ pc = "load x"
        /\ csr_x' = csr_x
        /\ csr_y' = csr_y
        /\ low' = low
        /\ high' = high
        /\ enabled' = enabled
        /\ arg' = arg
        /\ acc' = csr_x
    BY <1>6 DEF LoadX, Goto, SetCursor, console, cursor
  <2>5. Placed(csr_x, csr_y, low, high)
    BY DEF ConsoleInv, CursorInv
  <2>6. Placed(csr_x', csr_y', low', high')
    BY <1>0, <1>n, <2>1, <2>5
  <2>7. pc' = "store x"
    BY <1>6 DEF LoadX, Goto
  <2>8. CursorInv'
    BY <1>0, <1>n, <2>1, <2>6, <2>7 DEF ConsoleInv, CursorInv, Unsettled
  <2>9. RegisterInv'
    BY <1>0, <2>1, <2>7 DEF ConsoleInv, CursorInv, RegisterInv, Unsettled
  <2> QED
    BY <2>8, <2>9 DEF ConsoleInv
<1>7. CASE StoreX
  <2>1. /\ pc = "store x"
        /\ csr_y' = csr_y
        /\ low' = low
        /\ high' = high
        /\ enabled' = enabled
        /\ csr_x' = Moved(arg, acc)
    BY <1>7 DEF StoreX, Goto, SetCursor, console, cursor
  <2>2. /\ acc \in Nat /\ acc < Columns /\ arg \in {"char", "TAB", "BS"}
        /\ arg = "BS" => acc >= 1
        /\ csr_y < Rows
    BY <1>0, <1>n, <2>1 DEF ConsoleInv, CursorInv, RegisterInv, Unsettled
  <2>3. Moved(arg, acc) \in Nat /\ Moved(arg, acc) < Columns + Tab
    <3>1. CASE arg = "char"
      BY <2>2, <3>1 DEF Moved
    <3>2. CASE arg = "BS"
      BY <2>2, <3>2 DEF Moved
    <3>3. CASE arg = "TAB"
      <4>1. Moved(arg, acc) = ((acc + Tab) \div Tab) * Tab
        BY <3>3 DEF Moved
      <4>2. Tab \in Nat \ {0}
        OBVIOUS
      <4>3. Moved(arg, acc) \in Nat /\ Moved(arg, acc) <= acc + Tab
        BY <2>2, <4>1, <4>2, TabMoves
      <4> QED
        BY <2>2, <4>3
    <3> QED
      BY <2>2, <3>1, <3>2, <3>3
  <2>6. Placed(csr_x', csr_y', low', high')
    BY <1>0, <1>n, <2>1, <2>2, <2>3, PlacedAbove
  <2>7. pc' = "wrap"
    BY <1>7 DEF StoreX, Goto
  <2>8. CursorInv'
    BY <1>0, <1>n, <2>1, <2>6, <2>7, <2>2, <2>3 DEF ConsoleInv, CursorInv, Unsettled
  <2>9. RegisterInv'
    BY <1>0, <2>1, <2>7, <2>2, <2>3 DEF ConsoleInv, CursorInv, RegisterInv, Unsettled
  <2> QED
    BY <2>8, <2>9 DEF ConsoleInv
<1>8. CASE Margin
  <2>1. /\ pc = "margin"
        /\ csr_y' = csr_y
        /\ low' = low
        /\ high' = high
        /\ arg' = arg
        /\ acc' = acc
        /\ enabled' = enabled
        /\ csr_x' = 0
    BY <1>8 DEF Margin, Goto, SetCursor, console, cursor
  <2>2. csr_y < Rows
    BY <2>1 DEF ConsoleInv, CursorInv
  <2>6. Placed(csr_x', csr_y', low', high')
    BY <1>0, <1>n, <2>1, <2>2, PlacedAbove
  <2>7. CASE arg = "CR"
    <3>1. pc' = "wrap"
      BY <1>8, <2>7 DEF Margin, Goto
    <3>2. CursorInv'
      BY <1>0, <1>n, <2>1, <2>6, <2>7, <3>1, <2>2 DEF ConsoleInv, CursorInv, Unsettled
    <3>3. RegisterInv'
      BY <1>0, <2>1, <2>7, <3>1, <2>2 DEF ConsoleInv, CursorInv, RegisterInv, Unsettled
    <3> QED
      BY <3>2, <3>3 DEF ConsoleInv
  <2>8. CASE ~ (arg = "CR")
    <3>1. pc' = "load y"
      BY <1>8, <2>8 DEF Margin, Goto
    <3>2. CursorInv'
      <4>1. csr_x' < Columns /\ csr_y' < Rows
        BY <2>1, <2>2
      <4> QED
        BY <2>6, <3>1, <4>1 DEF ConsoleInv, CursorInv, Unsettled
    <3>3. RegisterInv'
      BY <1>0, <2>1, <2>8, <3>1, <2>2 DEF ConsoleInv, CursorInv, RegisterInv, Unsettled
    <3> QED
      BY <3>2, <3>3 DEF ConsoleInv
  <2> QED
    BY <2>7, <2>8
<1>9. CASE LoadY
  <2>1. /\ pc = "load y"
        /\ csr_x' = csr_x
        /\ csr_y' = csr_y
        /\ low' = low
        /\ high' = high
        /\ enabled' = enabled
        /\ arg' = arg
        /\ acc' = csr_y
    BY <1>9 DEF LoadY, Goto, SetCursor, console, cursor
  <2>5. Placed(csr_x, csr_y, low, high)
    BY DEF ConsoleInv, CursorInv
  <2>6. Placed(csr_x', csr_y', low', high')
    BY <1>0, <1>n, <2>1, <2>5
  <2>7. pc' = "store y"
    BY <1>9 DEF LoadY, Goto
  <2>8. CursorInv'
    BY <1>0, <1>n, <2>1, <2>6, <2>7 DEF ConsoleInv, CursorInv, Unsettled
  <2>9. RegisterInv'
    BY <1>0, <2>1, <2>7 DEF ConsoleInv, CursorInv, RegisterInv, Unsettled
  <2> QED
    BY <2>8, <2>9 DEF ConsoleInv
<1>10. CASE StoreY
  <2>1. /\ pc = "store y"
        /\ csr_x' = csr_x
        /\ low' = low
        /\ high' = high
        /\ acc' = acc
        /\ enabled' = enabled
        /\ csr_y' = acc + 1
    BY <1>10 DEF StoreY, Goto, SetCursor, console, cursor
  <2>2. acc \in Nat /\ acc < Rows /\ csr_x < Columns
    BY <2>1 DEF ConsoleInv, CursorInv, RegisterInv, Unsettled
  <2>3. csr_y' \in Nat /\ csr_y' <= Rows
    <3>1. csr_y' = acc + 1
      BY <2>1
    <3> QED
      BY <2>2, <3>1
  <2>6. Placed(csr_x', csr_y', low', high')
    BY <1>0, <1>n, <2>1, <2>2, <2>3, PlacedLeft
  <2>7. CASE arg = "NL"
    <3>1. pc' = "wrap"
      BY <1>10, <2>7 DEF StoreY, Goto
    <3>2. CursorInv'
      BY <1>0, <1>n, <2>1, <2>6, <2>7, <3>1, <2>2, <2>3 DEF ConsoleInv, CursorInv, Unsettled
    <3>3. RegisterInv'
      BY <1>0, <2>1, <2>7, <3>1, <2>2, <2>3 DEF ConsoleInv, CursorInv, RegisterInv, Unsettled
    <3> QED
      BY <3>2, <3>3 DEF ConsoleInv
  <2>8. CASE ~ (arg = "NL")
    <3>1. pc' = "scroll"
      BY <1>10, <2>8 DEF StoreY, Goto
    <3>2. CursorInv'
      BY <1>0, <1>n, <2>1, <2>6, <2>8, <3>1, <2>2, <2>3 DEF ConsoleInv, CursorInv, Unsettled
    <3>3. RegisterInv'
      BY <1>0, <2>1, <2>8, <3>1, <2>2, <2>3 DEF ConsoleInv, CursorInv, RegisterInv, Unsettled
    <3> QED
      BY <3>2, <3>3 DEF ConsoleInv
  <2> QED
    BY <2>7, <2>8
<1>11. CASE Wrap
  <2>1. /\ pc = "wrap"
        /\ csr_x' = csr_x
        /\ csr_y' = csr_y
        /\ low' = low
        /\ high' = high
        /\ enabled' = enabled
        /\ acc' = acc
    BY <1>11 DEF Wrap, Goto, SetCursor, console, cursor
  <2>5. Placed(csr_x, csr_y, low, high)
    BY DEF ConsoleInv, CursorInv
  <2>6. Placed(csr_x', csr_y', low', high')
    BY <1>0, <1>n, <2>1, <2>5
  <2>7. CASE csr_x >= Columns
    <3>1. pc' = "margin"
      BY <1>11, <2>7 DEF Wrap, Goto
    <3>2. CursorInv'
      BY <1>0, <1>n, <2>1, <2>6, <2>7, <3>1 DEF ConsoleInv, CursorInv, Unsettled
    <3>3. RegisterInv'
      BY <1>0, <2>1, <2>7, <3>1 DEF ConsoleInv, CursorInv, RegisterInv, Unsettled
    <3> QED
      BY <3>2, <3>3 DEF ConsoleInv
  <2>8. CASE ~ (csr_x >= Columns)
    <3>1. pc' = "scroll"
      BY <1>11, <2>8 DEF Wrap, Goto
    <3>2. CursorInv'
      BY <1>0, <1>n, <2>1, <2>6, <2>8, <3>1 DEF ConsoleInv, CursorInv, Unsettled
    <3>3. RegisterInv'
      BY <1>0, <2>1, <2>8, <3>1 DEF ConsoleInv, CursorInv, RegisterInv, Unsettled
    <3> QED
      BY <3>2, <3>3 DEF ConsoleInv
  <2> QED
    BY <2>7, <2>8
<1>12. CASE ScrollTest
  <2>1. /\ pc = "scroll"
        /\ csr_x' = csr_x
        /\ csr_y' = csr_y
        /\ low' = low
        /\ high' = high
        /\ enabled' = enabled
    BY <1>12 DEF ScrollTest, Goto, SetCursor, console, cursor
  <2>2. csr_x < Columns
    BY <2>1 DEF ConsoleInv, CursorInv
  <2>5. Placed(csr_x, csr_y, low, high)
    BY DEF ConsoleInv, CursorInv
  <2>6. Placed(csr_x', csr_y', low', high')
    BY <1>0, <1>n, <2>1, <2>2, <2>5
  <2>7. CASE csr_y >= Rows
    <3>1. pc' = "scroll temp"
      BY <1>12, <2>7 DEF ScrollTest, Goto
    <3>2. CursorInv'
      <4>1. csr_y' >= Rows - 1
        BY <1>0, <2>1, <2>7
      <4> QED
        BY <1>0, <1>n, <2>1, <2>2, <2>6, <3>1, <4>1 DEF ConsoleInv, CursorInv, Unsettled
    <3>3. RegisterInv'
      BY <1>0, <2>1, <2>7, <3>1, <2>2 DEF ConsoleInv, CursorInv, RegisterInv, Unsettled
    <3> QED
      BY <3>2, <3>3 DEF ConsoleInv
  <2>8. CASE ~ (csr_y >= Rows)
    <3>1. pc' = "ready"
      BY <1>12, <2>8 DEF ScrollTest, Goto
    <3>2. CursorInv'
      BY <1>0, <1>n, <2>1, <2>6, <2>8, <3>1, <2>2 DEF ConsoleInv, CursorInv, Unsettled
    <3>3. RegisterInv'
      BY <1>0, <2>1, <2>8, <3>1, <2>2 DEF ConsoleInv, CursorInv, RegisterInv, Unsettled
    <3> QED
      BY <3>2, <3>3 DEF ConsoleInv
  <2> QED
    BY <2>7, <2>8
<1>13. CASE ScrollTemp
  <2>1. /\ pc = "scroll temp"
        /\ csr_x' = csr_x
        /\ csr_y' = csr_y
        /\ low' = low
        /\ high' = high
        /\ enabled' = enabled
        /\ acc' = csr_y - Rows + 1
    BY <1>13 DEF ScrollTemp, Goto, SetCursor, console, cursor
  <2>2. csr_x < Columns
    BY <2>1 DEF ConsoleInv, CursorInv
  <2>3. acc' \in {0, 1}
    <3>1. csr_y >= Rows - 1 /\ csr_y <= Rows
      BY <1>0, <2>1 DEF ConsoleInv, CursorInv
    <3>2. acc' = csr_y - Rows + 1
      BY <2>1
    <3> QED
      BY <1>0, <3>1, <3>2
  <2>5. Placed(csr_x, csr_y, low, high)
    BY DEF ConsoleInv, CursorInv
  <2>6. Placed(csr_x', csr_y', low', high')
    BY <1>0, <1>n, <2>1, <2>2, <2>3, <2>5
  <2>7. pc' = "scroll copy"
    BY <1>13 DEF ScrollTemp, Goto
  <2>8. CursorInv'
    BY <1>0, <1>n, <2>1, <2>6, <2>7, <2>2, <2>3 DEF ConsoleInv, CursorInv, Unsettled
  <2>9. RegisterInv'
    BY <1>0, <2>1, <2>7, <2>2, <2>3 DEF ConsoleInv, CursorInv, RegisterInv, Unsettled
  <2> QED
    BY <2>8, <2>9 DEF ConsoleInv
<1>14. CASE ScrollCopy
  <2> DEFINE l == Cell(Columns - 1, Rows - acc)
             w == Written(cursor, 0, l)
  <2>1. /\ arg' = arg /\ acc' = acc /\ enabled' = enabled /\ pc = "scroll copy" /\ pc' = "scroll y"
        /\ SetCursor(w)
    BY <1>14 DEF ScrollCopy, Goto
  <2>2. acc \in {0, 1} /\ csr_x < Columns
    BY <2>1 DEF ConsoleInv, CursorInv, RegisterInv
  <2>3. l \in Nat /\ l < Cell(0, Rows + 1)
    <3>1. Rows - acc \in Nat /\ Rows - acc <= Rows /\ Columns - 1 \in Nat
      BY <2>2
    <3> QED
      BY <3>1, CellNear
  <2> HIDE DEF l
  <2>4. w \in Cursors /\ w.x = csr_x /\ w.y = csr_y /\ w.high < Cell(0, Rows + 1)
    <3>1. 0 \in Nat /\ l \in Int
      BY <2>3
    <3>2. /\ w \in Cursors /\ w.x = cursor.x /\ w.y = cursor.y
          /\ w.high < Cell(0, Rows + 1)
      BY <1>c, <2>3, <3>1, WrittenNear
    <3> QED
      BY <1>c, <3>2
  <2> HIDE DEF w
  <2>5. cursor' = w
    BY <2>1, <2>4, CursorSet
  <2>6. csr_x' = csr_x /\ csr_y' = csr_y
    BY <2>4, <2>5 DEF cursor
  <2>7. CursorInv'
    <3>1. Sound(cursor')
      BY <1>0, <1>n, <2>4, <2>5 DEF Sound, Near
    <3>2. Placed(csr_x', csr_y', low', high')
      BY <3>1, SoundPlaced DEF cursor
    <3> QED
      BY <2>1, <2>2, <2>6, <3>2 DEF CursorInv, Unsettled
  <2> QED
    BY <2>1, <2>7 DEF ConsoleInv, RegisterInv
<1>15. CASE ScrollEnd
  <2>1. /\ pc = "scroll y"
        /\ csr_x' = csr_x
        /\ low' = low
        /\ high' = high
        /\ enabled' = enabled
        /\ csr_y' = Rows - 1
    BY <1>15 DEF ScrollEnd, Goto, SetCursor, console, cursor
  <2>2. csr_x < Columns
    BY <2>1 DEF ConsoleInv, CursorInv
  <2>3. csr_y' \in Nat /\ csr_y' < Rows
    <3>1. csr_y' = Rows - 1
      BY <2>1
    <3> QED
      BY <3>1
  <2>6. Placed(csr_x', csr_y', low', high')
    BY <1>0, <1>n, <2>1, <2>2, <2>3, PlacedAbove
  <2>7. pc' = "ready"
    BY <1>15 DEF ScrollEnd, Goto
  <2>8. CursorInv'
    BY <1>0, <1>n, <2>1, <2>6, <2>7, <2>2, <2>3 DEF ConsoleInv, CursorInv, Unsettled
  <2>9. RegisterInv'
    BY <1>0, <2>1, <2>7, <2>2, <2>3 DEF ConsoleInv, CursorInv, RegisterInv, Unsettled
  <2> QED
    BY <2>8, <2>9 DEF ConsoleInv
<1> QED
  BY <1>1, <1>2, <1>3, <1>4, <1>5, <1>6, <1>7, <1>8, <1>9, <1>10, <1>11, <1>12,
     <1>13, <1>14, <1>15
  DEF Putch

\* current, wait, read and the keyboard leave the console alone.
LEMMA RestConsole == ConsoleInv /\ (Time \/ Key \/ KeyboardInterrupt
                                      \/ (\E k \in Keys, up \in BOOLEAN : KeyMoves(k, up))
                                      \/ UNCHANGED vars)
                       => ConsoleInv'
<1> DEFINE Registers == {"row", "column", "draw", "test x", "load x", "store x", "store y"}
           Elsewhere == {"ready", "current", "current again", "got time", "wait seconds",
                         "wait ticks", "key", "key code", "got key"}
<1> SUFFICES ASSUME ConsoleInv
             PROVE  (Time \/ Key \/ KeyboardInterrupt
                      \/ (\E k \in Keys, up \in BOOLEAN : KeyMoves(k, up))
                      \/ UNCHANGED vars)
                       => ConsoleInv'
  OBVIOUS
<1>1. ASSUME Time \/ Key
      PROVE  ConsoleInv'
  <2>1. pc \in Elsewhere /\ pc' \in Elsewhere /\ UNCHANGED console
    BY <1>1, Zenon
    DEF Time, Key, Current, CurrentFirst, CurrentSecond, CurrentReturns, WaitStarts,
        WaitSeconds, WaitTicks, KeyCleared, KeySpin, KeyReturned, KeyUsed, Goto, console
  <2>2. csr_x' = csr_x /\ csr_y' = csr_y /\ low' = low /\ high' = high
    BY <2>1 DEF console
  <2>3. csr_x < Columns /\ csr_y < Rows /\ Placed(csr_x, csr_y, low, high)
    BY <2>1 DEF ConsoleInv, CursorInv, Unsettled
  <2>4. CursorInv'
    BY <2>1, <2>2, <2>3 DEF CursorInv, Unsettled
  <2>5. RegisterInv'
    BY <2>1 DEF RegisterInv
  <2> QED
    BY <2>4, <2>5 DEF ConsoleInv
<1>2. ASSUME pc' = pc, arg' = arg, acc' = acc, enabled' = enabled, UNCHANGED console
      PROVE  ConsoleInv'
  BY <1>2 DEF ConsoleInv, CursorInv, RegisterInv, console
<1>3. KeyboardInterrupt => ConsoleInv'
  BY <1>2 DEF KeyboardInterrupt
<1>4. ASSUME NEW k \in Keys, NEW up \in BOOLEAN
      PROVE  KeyMoves(k, up) => ConsoleInv'
  BY <1>2 DEF KeyMoves
<1>5. UNCHANGED vars => ConsoleInv'
  BY <1>2 DEF vars
<1> QED
  BY <1>1, <1>3, <1>4, <1>5

LEMMA StepConsole == ConsoleInv /\ [Next]_vars => ConsoleInv'
BY TimerConsole, PutchConsole, RestConsole DEF Next, Program, Environment

LEMMA ConsoleInvariant == Spec => []ConsoleInv
BY InitConsole, StepConsole, PTL DEF Spec

\* Whatever the timer prints between two steps of putch, putch leaves the
\* cursor on the screen: no load that the timer's handler outdates makes it
\* store a place off the screen.
THEOREM CursorStays == Spec => []CursorOnScreen
<1>1. ConsoleInv => CursorOnScreen
  <2> SUFFICES ASSUME ConsoleInv, pc = "ready"
               PROVE  csr_x \in 0 .. Columns - 1 /\ csr_y \in 0 .. Rows - 1
    BY DEF CursorOnScreen
  <2>1. csr_x \in Nat /\ csr_y \in Nat
    BY DEF ConsoleInv, CursorInv, Placed
  <2>2. csr_x < Columns /\ csr_y < Rows
    BY DEF ConsoleInv, CursorInv, Unsettled
  <2> QED
    BY <2>1, <2>2, Parameters DEF Columned
<1> QED
  BY <1>1, ConsoleInvariant, PTL

\* Neither putch nor the scrolling, interrupted anywhere by the printing
\* timer, writes in front of the video memory or behind the row that follows
\* the screen.
THEOREM VideoMemoryOnly == Spec => []WritesNear
<1>1. ConsoleInv => WritesNear
  <2>1. ConsoleInv => low \in Nat /\ high < Cell(0, Rows + 1)
    BY DEF ConsoleInv, CursorInv, Placed
  <2>2. low \in Nat => low >= 0
    OBVIOUS
  <2> QED
    BY <2>1, <2>2 DEF WritesNear
<1> QED
  BY <1>1, ConsoleInvariant, PTL

-----------------------------------------------------------------------------
(* The time.  elapsed, seconds and ticks tell the same time, and the time  *)
(* current is about to return lies between the last full second before its *)
(* call and now.                                                           *)

Clocked ==
  /\ seconds \in Nat /\ ticks \in 0 .. HZ - 1
  /\ elapsed = seconds * HZ + ticks

Half == got.seconds \in Nat /\ got.seconds <= seconds /\ got.seconds * HZ + HZ > started

TimeInv ==
  /\ Clocked
  /\ got \in [seconds : Nat, ticks : Nat]
  /\ started \in Nat
  /\ pc = "current" => started <= elapsed
  /\ pc = "current again" => Half
  /\ TimeNeverAhead

LEMMA ClockType == Clocked => elapsed \in Nat
BY DevicesAssumption, Product DEF Clocked

LEMMA TickClock == ASSUME Clocked, TimerInterrupt
                   PROVE  /\ Clocked'
                          /\ elapsed' = elapsed + 1
                          /\ seconds' \in Nat /\ seconds <= seconds'
<1> USE DevicesAssumption
<1>1. elapsed' = elapsed + 1 /\ HZ \in Nat \ {0}
  BY DEF TimerInterrupt
<1>2. CASE ticks + 1 >= HZ
  <2>1. seconds' = seconds + 1 /\ ticks' = 0
    BY <1>2 DEF TimerInterrupt
  <2>2. ticks = HZ - 1 /\ seconds \in Nat
    BY <1>1, <1>2 DEF Clocked
  <2>3. (seconds + 1) * HZ = seconds * HZ + HZ /\ seconds * HZ \in Nat
    BY <1>1, <2>2, Product
  <2> QED
    BY <1>1, <2>1, <2>2, <2>3 DEF Clocked
<1>3. CASE ~ ticks + 1 >= HZ
  <2>1. seconds' = seconds /\ ticks' = ticks + 1
    BY <1>3 DEF TimerInterrupt
  <2>2. ticks \in 0 .. HZ - 1 /\ seconds \in Nat /\ elapsed = seconds * HZ + ticks
    BY DEF Clocked
  <2>3. seconds * HZ \in Nat
    BY <1>1, <2>2, Product
  <2> QED
    BY <1>1, <1>3, <2>1, <2>2, <2>3 DEF Clocked
<1> QED
  BY <1>2, <1>3

LEMMA InitTime == Init => TimeInv
BY DevicesAssumption DEF Init, TimeInv, Clocked, TimeNeverAhead

LEMMA TimerTime == TimeInv /\ TimerInterrupt => TimeInv'
<1> SUFFICES ASSUME TimeInv, TimerInterrupt
             PROVE  TimeInv'
  OBVIOUS
<1>1. Clocked' /\ elapsed' = elapsed + 1 /\ seconds' \in Nat /\ seconds <= seconds'
  BY TickClock DEF TimeInv
<1>2. pc' = pc /\ got' = got /\ started' = started
  BY DEF TimerInterrupt
<1>3. elapsed \in Nat /\ started \in Nat /\ seconds \in Nat
  BY ClockType DEF TimeInv, Clocked
<1>4. pc = "current" => started <= elapsed'
  <2>1. pc = "current" => started <= elapsed
    BY DEF TimeInv
  <2> QED
    BY <1>1, <1>3, <2>1
<1>5. pc = "current again" => Half'
  <2>1. pc = "current again" => Half
    BY DEF TimeInv
  <2>2. Half => got.seconds \in Nat /\ got.seconds <= seconds'
    BY <1>1, <1>3 DEF Half
  <2>3. Half => got.seconds * HZ + HZ > started
    BY DEF Half
  <2> QED
    BY <1>2, <2>1, <2>2, <2>3 DEF Half
<1>6. pc = "got time" =>
        got.seconds * HZ + got.ticks <= elapsed' /\ got.seconds * HZ + got.ticks > started - HZ
  <2>1. pc = "got time" =>
          got.seconds * HZ + got.ticks <= elapsed /\ got.seconds * HZ + got.ticks > started - HZ
    BY DEF TimeInv, TimeNeverAhead
  <2>2. got.seconds * HZ + got.ticks \in Int
    <3>1. got.seconds \in Nat /\ got.ticks \in Nat
      BY DEF TimeInv
    <3>2. HZ \in Nat
      BY DevicesAssumption
    <3> QED
      BY <3>1, <3>2, Product
  <2> DEFINE t == got.seconds * HZ + got.ticks
  <2> HIDE DEF t
  <2>3. t <= elapsed => t <= elapsed'
    BY <1>1, <1>3, <2>2 DEF t
  <2> QED
    BY <2>1, <2>3 DEF t
<1> QED
  BY <1>1, <1>2, <1>3, <1>4, <1>5, <1>6 DEF TimeInv, TimeNeverAhead

LEMMA TimeTime == TimeInv /\ Time => TimeInv'
<1> SUFFICES ASSUME TimeInv, Time
             PROVE  TimeInv'
  OBVIOUS
<1>1. Clocked' /\ elapsed' = elapsed /\ seconds' = seconds /\ ticks' = ticks
  <2>1. UNCHANGED clock
    BY Zenon DEF Time, Current, CurrentFirst, CurrentSecond, CurrentReturns, WaitStarts,
       WaitSeconds, WaitTicks
  <2> QED
    BY <2>1 DEF clock, TimeInv, Clocked
<1>2. /\ elapsed \in Nat /\ elapsed = seconds * HZ + ticks /\ seconds \in Nat
      /\ ticks \in 0 .. HZ - 1 /\ HZ \in Nat \ {0} /\ seconds * HZ \in Nat
      /\ started \in Nat /\ got \in [seconds : Nat, ticks : Nat]
  <2>1. HZ \in Nat \ {0}
    BY DevicesAssumption
  <2>2. /\ elapsed = seconds * HZ + ticks /\ seconds \in Nat
        /\ ticks \in 0 .. HZ - 1
        /\ started \in Nat /\ got \in [seconds : Nat, ticks : Nat]
    BY DEF TimeInv, Clocked
  <2>3. seconds * HZ \in Nat
    BY <2>1, <2>2, Product
  <2>4. elapsed \in Nat
    BY ClockType DEF TimeInv
  <2> QED
    BY <2>1, <2>2, <2>3, <2>4
<1>3. ASSUME NEW call \in {"current", "wait"}, Current(call)
      PROVE  TimeInv'
  <2>1. pc' = "current" /\ started' = elapsed /\ got' = got
    BY <1>3 DEF Current, Goto
  <2>2. started' \in Nat /\ started' <= elapsed'
    BY <1>1, <1>2, <2>1
  <2> QED
    BY <1>1, <1>2, <2>1, <2>2 DEF TimeInv, TimeNeverAhead
<1>4. CASE CurrentFirst
  <2>1. pc = "current" /\ pc' = "current again" /\ started' = started
    BY <1>4 DEF CurrentFirst, Goto
  <2>2. got' = [got EXCEPT !.seconds = seconds]
    BY <1>4 DEF CurrentFirst, Read, CurrentOrder
  <2>3. got' \in [seconds : Nat, ticks : Nat] /\ got'.seconds = seconds
    BY <1>2, <2>2
  <2>4. seconds * HZ + HZ > started
    <3>1. started <= elapsed
      BY <2>1 DEF TimeInv
    <3> QED
      BY <1>2, <3>1
  <2>5. Half'
    <3>1. got'.seconds \in Nat /\ got'.seconds <= seconds'
      BY <1>1, <1>2, <2>3
    <3> QED
      BY <2>1, <2>3, <2>4, <3>1 DEF Half
  <2> QED
    BY <1>1, <1>2, <2>1, <2>3, <2>5 DEF TimeInv, TimeNeverAhead
<1>5. CASE CurrentSecond
  <2>1. pc = "current again" /\ pc' = "got time" /\ started' = started
    BY <1>5 DEF CurrentSecond, Goto
  <2>2. got' = [got EXCEPT !.ticks = ticks]
    BY <1>5 DEF CurrentSecond, Read, CurrentOrder
  <2>3. got' \in [seconds : Nat, ticks : Nat] /\ got'.seconds = got.seconds /\ got'.ticks = ticks
    <3>1. ticks \in Nat
      BY <1>2
    <3> QED
      BY <1>2, <2>2, <3>1
  <2> DEFINE f == got.seconds * HZ
  <2>4. f \in Nat /\ f <= seconds * HZ /\ f + HZ > started
    <3>1. got.seconds \in Nat /\ got.seconds <= seconds /\ got.seconds * HZ + HZ > started
      BY <2>1 DEF TimeInv, Half
    <3> QED
      BY <1>2, <3>1, Product
  <2> HIDE DEF f
  <2>5. f + ticks <= elapsed /\ f + ticks > started - HZ
    BY <1>2, <2>4
  <2>6. TimeNeverAhead'
    BY <1>1, <2>1, <2>3, <2>5 DEF TimeNeverAhead, f
  <2> QED
    BY <1>1, <1>2, <2>1, <2>3, <2>6 DEF TimeInv
<1>6. CASE CurrentReturns
  <2>1. pc' = "ready" /\ started' = 0 /\ got' = [seconds |-> 0, ticks |-> 0]
    BY <1>6 DEF CurrentReturns, Goto
  <2> QED
    BY <1>1, <2>1 DEF TimeInv, TimeNeverAhead
<1>7. ASSUME NEW n \in 0 .. MaxWait, WaitStarts(n)
      PROVE  TimeInv'
  <2>1. pc' = "wait seconds" /\ started' = 0 /\ got' = got
    BY <1>7 DEF WaitStarts, Goto
  <2> QED
    BY <1>1, <1>2, <2>1 DEF TimeInv, TimeNeverAhead
<1>8. ASSUME WaitSeconds \/ WaitTicks
      PROVE  TimeInv'
  <2>1. pc' \in {"wait ticks", "wait seconds", "ready"} /\ started' = started /\ got' = got
    BY <1>8 DEF WaitSeconds, WaitTicks, Goto
  <2> QED
    BY <1>1, <1>2, <2>1 DEF TimeInv, TimeNeverAhead
<1> QED
  BY <1>3, <1>4, <1>5, <1>6, <1>7, <1>8 DEF Time

\* The other steps change none of the clock and start no call of current.
LEMMA RestTime ==
  ASSUME TimeInv, UNCHANGED <<clock, started, got>>,
         pc' = pc \/ pc' \notin {"current", "current again", "got time"}
  PROVE  TimeInv'
BY DEF TimeInv, Clocked, Half, TimeNeverAhead, clock

LEMMA StepTime == TimeInv /\ [Next]_vars => TimeInv'
<1> SUFFICES ASSUME TimeInv, [Next]_vars
             PROVE  TimeInv'
  OBVIOUS
<1>1. CASE Putch \/ Key
  <2>1. UNCHANGED <<clock, started, got>>
    BY <1>1, Zenon DEF Putch, Key, Put, WhereRow, WhereColumn, Draw, TestX, LoadX, StoreX,
       Margin, LoadY, StoreY, Wrap, ScrollTest, ScrollTemp, ScrollCopy, ScrollEnd,
       KeyCleared, KeySpin, KeyReturned, KeyUsed
  <2>2. pc' \notin {"current", "current again", "got time"}
    BY <1>1 DEF Putch, Key, Put, WhereRow, WhereColumn, Draw, TestX, LoadX, StoreX,
       Margin, LoadY, StoreY, Wrap, ScrollTest, ScrollTemp, ScrollCopy, ScrollEnd,
       KeyCleared, KeySpin, KeyReturned, KeyUsed, Goto
  <2> QED
    BY <2>1, <2>2, RestTime
<1>2. CASE KeyboardInterrupt \/ \E k \in Keys, up \in BOOLEAN : KeyMoves(k, up)
  <2>1. UNCHANGED <<clock, started, got>> /\ pc' = pc
    BY <1>2 DEF KeyboardInterrupt, KeyMoves
  <2> QED
    BY <2>1, RestTime
<1>3. CASE UNCHANGED vars
  BY <1>3, RestTime DEF vars
<1> QED
  BY <1>1, <1>2, <1>3, TimeTime, TimerTime DEF Next, Program, Environment

\* current reads the clock in two steps with timer interrupts in between:
\* what it returns is never in the future, and less than a second before the
\* call.
THEOREM TimeIsPast == Spec => []TimeNeverAhead
<1>1. TimeInv => TimeNeverAhead
  BY DEF TimeInv
<1> QED
  BY <1>1, InitTime, StepTime, PTL DEF Spec

-----------------------------------------------------------------------------
(* The keyboard.  The code is stored together with the flag, and the flag  *)
(* was cleared by the call: behind it the code is a key pressed since.     *)

KeyInv ==
  /\ pc = "key" /\ key_pressed => key_code \in fresh
  /\ pc = "key code" => key_code \in fresh
  /\ KeyFresh

LEMMA KeyStep ==
  ASSUME KeyInv, Key
  PROVE  KeyInv'
<1>1. CASE KeyCleared
  <2>1. pc' = "key" /\ ~ key_pressed'
    BY <1>1 DEF KeyCleared, Goto
  <2> QED
    BY <2>1 DEF KeyInv, KeyFresh
<1>2. CASE KeySpin
  <2>1. /\ pc = "key" /\ pc' = "key code" /\ key_pressed
        /\ key_code' = key_code /\ fresh' = fresh
    BY <1>2 DEF KeySpin, Goto, keyboard
  <2> QED
    BY <2>1 DEF KeyInv, KeyFresh
<1>3. CASE KeyReturned
  <2>1. /\ pc = "key code" /\ pc' = "got key"
        /\ arg' = key_code /\ fresh' = fresh
    BY <1>3 DEF KeyReturned, Goto, keyboard
  <2> QED
    BY <2>1 DEF KeyInv, KeyFresh
<1>4. CASE KeyUsed
  <2>1. pc' = "ready"
    BY <1>4 DEF KeyUsed, Goto
  <2> QED
    BY <2>1 DEF KeyInv, KeyFresh
<1> QED
  BY <1>1, <1>2, <1>3, <1>4 DEF Key

LEMMA InterruptKey ==
  ASSUME KeyInv, KeyboardInterrupt
  PROVE  KeyInv'
<1>1. pc' = pc /\ arg' = arg
  BY DEF KeyboardInterrupt
<1>2. CASE byte.up
  <2>1. key_pressed' = key_pressed /\ key_code' = key_code /\ fresh' = fresh
    BY <1>2 DEF KeyboardInterrupt, Pressed
  <2> QED
    BY <1>1, <2>1 DEF KeyInv, KeyFresh
<1>3. CASE ~ byte.up
  <2>1. key_code' = byte.key /\ fresh' = fresh \union {byte.key}
    BY <1>3 DEF KeyboardInterrupt, Pressed
  <2> QED
    BY <1>1, <2>1 DEF KeyInv, KeyFresh
<1> QED
  BY <1>2, <1>3

LEMMA RestKey ==
  ASSUME KeyInv, key_pressed' = key_pressed, key_code' = key_code, fresh' = fresh,
         (pc' = pc /\ arg' = arg) \/ pc' \notin {"key", "key code", "got key"}
  PROVE  KeyInv'
BY DEF KeyInv, KeyFresh

LEMMA StepKey == KeyInv /\ [Next]_vars => KeyInv'
<1> SUFFICES ASSUME KeyInv, [Next]_vars
             PROVE  KeyInv'
  OBVIOUS
<1>1. CASE Putch \/ Time
  <2>1. UNCHANGED keyboard
    BY <1>1, Zenon DEF Putch, Time, Put, WhereRow, WhereColumn, Draw, TestX, LoadX, StoreX,
       Margin, LoadY, StoreY, Wrap, ScrollTest, ScrollTemp, ScrollCopy, ScrollEnd,
       Current, CurrentFirst, CurrentSecond, CurrentReturns, WaitStarts, WaitSeconds, WaitTicks
  <2>2. pc' \notin {"key", "key code", "got key"}
    BY <1>1 DEF Putch, Time, Put, WhereRow, WhereColumn, Draw, TestX, LoadX, StoreX,
       Margin, LoadY, StoreY, Wrap, ScrollTest, ScrollTemp, ScrollCopy, ScrollEnd,
       Current, CurrentFirst, CurrentSecond, CurrentReturns, WaitStarts, WaitSeconds,
       WaitTicks, Goto
  <2> QED
    BY <2>1, <2>2, RestKey DEF keyboard
<1>2. CASE TimerInterrupt
  <2>1. UNCHANGED keyboard /\ pc' = pc /\ arg' = arg
    BY <1>2 DEF TimerInterrupt
  <2> QED
    BY <2>1, RestKey DEF keyboard
<1>3. CASE \E k \in Keys, up \in BOOLEAN : KeyMoves(k, up)
  BY <1>3, RestKey DEF KeyMoves
<1>4. CASE UNCHANGED vars
  BY <1>4, RestKey DEF vars, keyboard
<1> QED
  BY <1>1, <1>2, <1>3, <1>4, KeyStep, InterruptKey DEF Next, Program, Environment

\* read returns a key that was pressed after the call, whenever the keyboard
\* interrupts come and whatever was pressed or released before.
THEOREM KeyIsNew == Spec => []KeyFresh
<1>1. Init => KeyInv
  BY DEF Init, KeyInv, KeyFresh
<1>2. KeyInv => KeyFresh
  BY DEF KeyInv
<1> QED
  BY <1>1, <1>2, StepKey, PTL DEF Spec
=============================================================================
