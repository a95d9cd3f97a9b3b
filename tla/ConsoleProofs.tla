--------------------------- MODULE ConsoleProofs ---------------------------
(***************************************************************************)
(* Theorems about Console, for every width of at least 13 pixels, with or  *)
(* without a keyboard, and for every bound.                                *)
(***************************************************************************)
EXTENDS Console, TLAPS

USE WidthAssumption, MaxYAssumption

\* Where kmain is in the middle of VBE_put, its registers are in use.
Inside == pc \notin {"start", "clear", "ready"}

\* Left of the wrap limit, for the cursor and for kmain's copy of it: only
\* between the advance and the wrap test may either be beyond it, and then a
\* test of the copy still covers the cursor.
Margin ==
    ~early =>
        /\ pc # "wrap_x" => x < Limit
        /\ Inside /\ pc # "wrap_x" => rx < Limit
        /\ pc = "wrap_x" => x < Limit + 8 /\ rx < Limit + 8 /\ (x < Limit \/ x = rx)

\* kmain's copy of cursor_y is no lower than the text may be.
Rows == y <= budget /\ (Inside => ry <= budget)

IInv == TypeOK /\ OnGrid /\ Margin /\ RightMargin /\ Rows

\* The console starts within the invariant.
LEMMA InitInv == Init => IInv
<1> SUFFICES ASSUME Init PROVE IInv
  OBVIOUS
<1>1. ink \in [by : {"none", "blank", "kmain", "key"}, x : Nat, y : Nat]
  BY DEF Init
<1>2. early \in BOOLEAN /\ TypeOK
  BY <1>1 DEF Init, TypeOK, Pcs, Chars
<1> QED
  BY <1>2 DEF Init, IInv, OnGrid, Margin, RightMargin, Rows, Inside, Limit

\* The keyboard's VBE_put, from any point of kmain's.
LEMMA KeyInv ==
    ASSUME IInv, Key
    PROVE  IInv'
<1>. USE DEF IInv
<1>1. /\ x \in Nat /\ y \in Nat /\ rx \in Nat /\ ry \in Nat /\ budget \in Nat
      /\ UNCHANGED <<keys, pc, c, rx, ry, inked>> /\ early' = (early \/ pc = "start")
  BY DEF Key, regs, TypeOK
<1>2. \/ \E cost \in {0, 20} : \E column \in {5, x} : KeyGlyph(column, y + cost, cost)
      \/ /\ ink' = [by |-> "blank", x |-> x - 1, y |-> y]
         /\ UNCHANGED <<x, y, budget>>
  BY <1>1 DEF Key, cursor
<1>3. ASSUME NEW cost \in {0, 20}, NEW column \in {5, x}, KeyGlyph(column, y + cost, cost)
      PROVE  IInv'
  <2>1. PICK wraps \in BOOLEAN :
          /\ pc # "start" => (wraps <=> column + 8 >= Limit)
          /\ x' = IF wraps THEN 5 ELSE column + 8
          /\ y' = IF wraps THEN y + cost + 10 ELSE y + cost
          /\ budget' = budget + cost + (IF wraps THEN 10 ELSE 0)
    BY <1>3 DEF KeyGlyph
  <2>2. ink' = [by |-> "key", x |-> column, y |-> y + cost]
    BY <1>3 DEF KeyGlyph
  <2>3. column \in Nat /\ column % 8 = 5 /\ (y + cost) % 10 = 5
    BY <1>1 DEF OnGrid
  <2>4. TypeOK'
    BY <1>1, <2>1, <2>2, <2>3 DEF TypeOK
  <2>5. OnGrid'
    BY <1>1, <2>1, <2>2, <2>3 DEF OnGrid
  <2>6. Margin' /\ RightMargin'
    <3>1. CASE early'
      BY <3>1 DEF Margin, RightMargin
    <3>2. CASE ~early'
      <4>1. ~early /\ pc # "start"
        BY <1>1, <3>2
      <4>2. column < Limit + 8 /\ x' < Limit
        BY <1>1, <2>1, <2>3, <4>1 DEF Margin, Limit
      <4>3. ink'.by = "key" /\ ink'.x = column
        BY <2>2
      <4> QED
        BY <1>1, <2>4, <4>1, <4>2, <4>3 DEF TypeOK, Margin, RightMargin, Inside, Limit
    <3> QED
      BY <3>1, <3>2
  <2>7. Rows'
    BY <1>1, <2>1 DEF Rows, Inside
  <2> QED
    BY <2>4, <2>5, <2>6, <2>7
<1>4. ASSUME ink' = [by |-> "blank", x |-> x - 1, y |-> y], UNCHANGED <<x, y, budget>>
      PROVE  IInv'
  <2>1. x >= 5
    BY <1>1 DEF OnGrid
  <2> QED
    BY <1>1, <1>4, <2>1 DEF TypeOK, OnGrid, Margin, RightMargin, Rows, Inside
<1> QED
  BY <1>2, <1>3, <1>4

\* Every step of VBE_put, kmain's or a key's, keeps the invariant.
LEMMA StepInv == IInv /\ [Next]_vars => IInv'
<1> SUFFICES ASSUME IInv, [Next]_vars PROVE IInv'
  OBVIOUS
<1>. USE DEF IInv, TypeOK, Pcs, Chars, OnGrid, Margin, RightMargin, Rows, Inside, Limit
<1>1. CASE VBE_init
  BY <1>1 DEF VBE_init, cursor, regs, history
<1>2. CASE VBE_clear_screen
  BY <1>2 DEF VBE_clear_screen, regs
<1>3. CASE Begin
  BY <1>3 DEF Begin, cursor, history
<1>4. CASE ReloadX
  BY <1>4 DEF ReloadX, cursor, history
<1>5. CASE ReloadY
  BY <1>5 DEF ReloadY, cursor, history
<1>6. CASE NewlineX
  BY <1>6 DEF NewlineX, history
<1>7. CASE NewlineY
  BY <1>7 DEF NewlineY
<1>8. CASE Draw
  BY <1>8 DEF Draw, cursor, regs
<1>9. CASE Advance
  BY <1>9 DEF Advance, history
<1>10. CASE WrapX
  BY <1>10 DEF WrapX, history
<1>11. CASE WrapY
  BY <1>11 DEF WrapY
<1>12. CASE Key
  BY <1>12, KeyInv
<1>13. CASE Quiet \/ UNCHANGED vars
  BY <1>13 DEF Quiet, vars, cursor, regs, history
<1> QED
  BY <1>1, <1>2, <1>3, <1>4, <1>5, <1>6, <1>7, <1>8, <1>9, <1>10, <1>11, <1>12,
     <1>13 DEF Next, Put

\* The invariant holds throughout.
LEMMA AlwaysIInv == Spec => []IInv
<1>1. Init => IInv
  BY InitInv
<1>2. IInv /\ [Next]_vars => IInv'
  BY StepInv
<1> QED
  BY <1>1, <1>2, PTL DEF Spec

\* The cursor of vbe.c and the registers that hold it are never negative and
\* kmain is always at one of the points of VBE_put.
THEOREM TypeCorrect == Spec => []TypeOK
BY AlwaysIInv, PTL DEF IInv

\* However often the keyboard interrupts VBE_put, all glyphs are on one grid.
THEOREM GridKept == Spec => []OnGrid
BY AlwaysIInv, PTL DEF IInv

\* On every screen wide enough, kmain's glyphs stay left of the wrap limit and
\* the keyboard's at most one cell beyond it.
THEOREM MarginKept == Spec => []RightMargin
BY AlwaysIInv, PTL DEF IInv

\* The races on cursor_y can lose rows and cannot add any.
THEOREM RowsKept == Spec => []RowsNeverInvented
<1>1. IInv => RowsNeverInvented
  BY DEF IInv, Rows, RowsNeverInvented
<1> QED
  BY <1>1, AlwaysIInv, PTL

----------------------------------------------------------------------------
(* Nobody types *)

\* Cell p comes before column, row in the order of reading.
Before(p, column, row) == p[2] < row \/ (p[2] = row /\ p[1] < column)

\* Without keys kmain's registers are the cursor, and its glyphs come before it:
\* the one just drawn is at it, and a line left behind may be as long as it was.
Text ==
    ~keys =>
        /\ pc \notin {"start", "clear", "ready"} => rx = x /\ ry = y
        /\ inked \subseteq Nat \X Nat
        /\ \A p \in inked :
              /\ pc \in {"newline_y", "wrap_y"} => p[2] <= y
              /\ pc = "advance" => Before(p, x + 1, y)
              /\ pc \notin {"newline_y", "wrap_y", "advance"} => Before(p, x, y)

\* Every step of kmain's VBE_put keeps its glyphs before the cursor.
LEMMA TextStep == IInv /\ Text /\ [Next]_vars => Text'
<1> SUFFICES ASSUME IInv, Text, [Next]_vars, ~keys PROVE Text'
  BY DEF Text, Next, VBE_init, VBE_clear_screen, Begin, ReloadX, ReloadY, Put, NewlineX,
     NewlineY, Draw, Advance, WrapX, WrapY, Quiet, Key, vars
<1>1. /\ x \in Nat /\ y \in Nat /\ rx \in Nat /\ ry \in Nat
      /\ inked \subseteq Nat \X Nat
      /\ pc \notin {"start", "clear", "ready"} => rx = x /\ ry = y
  BY DEF IInv, TypeOK, Text
<1>2. \A p \in inked :
          /\ p[1] \in Nat /\ p[2] \in Nat
          /\ pc \in {"newline_y", "wrap_y"} => p[2] <= y
          /\ pc = "advance" => Before(p, x + 1, y)
          /\ pc \notin {"newline_y", "wrap_y", "advance"} => Before(p, x, y)
  BY <1>1 DEF Text
<1> USE DEF Before
<1>3. CASE VBE_init
  BY <1>1, <1>2, <1>3 DEF Text, VBE_init, cursor, history
<1>4. CASE VBE_clear_screen
  BY <1>4 DEF Text, VBE_clear_screen
<1>5. CASE Begin
  BY <1>1, <1>2, <1>5 DEF Text, Begin, cursor, history
<1>6. CASE NewlineX
  BY <1>1, <1>2, <1>6 DEF Text, NewlineX, history
<1>7. CASE NewlineY
  BY <1>1, <1>2, <1>7 DEF Text, NewlineY
<1>8. CASE Draw
  <2>1. CASE c = "nul"
    BY <1>1, <1>2, <1>8, <2>1 DEF Text, Draw, cursor, regs
  <2>2. CASE c # "nul"
    <3>1. /\ inked' = inked \cup {<<x, y>>} /\ pc = "draw" /\ pc' = "advance"
          /\ x' = x /\ y' = y /\ rx' = rx /\ ry' = ry
      BY <1>1, <1>8, <2>2 DEF Draw, cursor, regs
    <3>2. \A p \in inked' : p \in Nat \X Nat /\ Before(p, x' + 1, y')
      BY <1>1, <1>2, <3>1
    <3>. QED
      BY <1>1, <3>1, <3>2 DEF Text
  <2>. QED
    BY <2>1, <2>2
<1>9. CASE Advance
  BY <1>1, <1>2, <1>9 DEF Text, Advance, history
<1>10. CASE WrapX
  BY <1>1, <1>2, <1>10 DEF Text, WrapX, history
<1>11. CASE WrapY
  BY <1>1, <1>2, <1>11 DEF Text, WrapY
<1>12. CASE UNCHANGED vars
  BY <1>1, <1>2, <1>12 DEF Text, vars, cursor, regs, history
<1>13. ~ReloadX /\ ~ReloadY /\ ~Key
  BY <1>1 DEF ReloadX, ReloadY, Key
<1>. QED
  BY <1>3, <1>4, <1>5, <1>6, <1>7, <1>8, <1>9, <1>10, <1>11, <1>12, <1>13
  DEF Next, Put, Quiet

\* While nobody types, no glyph kmain draws covers an earlier one, on a screen of
\* any width: line feeds and wraps only move on, though cursor_x survives the
\* clearing of the screen.
THEOREM TextUncovered == Spec => TextNeverCovered
<1>1. Init => Text
  BY DEF Init, Text
<1>2. IInv /\ Text /\ [Next]_vars =>
         [~keys /\ pc = "draw" /\ pc' = "advance" => <<rx, ry>> \notin inked]_vars
  <2> SUFFICES ASSUME IInv, Text, ~keys, pc = "draw" PROVE <<rx, ry>> \notin inked
    OBVIOUS
  <2>1. rx = x /\ ry = y /\ x \in Nat /\ y \in Nat
    BY DEF IInv, TypeOK, Text
  <2>. QED
    BY <2>1 DEF Text, Before
<1>. QED
  BY <1>1, <1>2, TextStep, AlwaysIInv, PTL DEF Spec, TextNeverCovered
=============================================================================
