------------------------- MODULE FramebufferProofs -------------------------
(***************************************************************************)
(* Theorems about Framebuffer, for every screen and font that fit each     *)
(* other.                                                                  *)
(***************************************************************************)
EXTENDS Framebuffer, TLAPS

USE ScreenAssumption

\* y is the first pixel row of a text row.
OnRow(y) == \E row \in Nat : y = 1 + row * glyphHeight

\* The cursor is on the screen and on a text row.
Cursor == cursor_x < width - 1 /\ cursor_y < height - 1 /\ OnRow(cursor_y)

InkPlaced ==
    \A p \in inked : p[1] < width - 1 /\ p[2] < height - 1 /\ OnRow(p[2])

\* Glyphs are above the cursor's row, or left of the cursor on it.
InkBefore ==
    \/ scrolled \/ returned
    \/ /\ \A p \in inked : \/ p[2] + glyphHeight <= cursor_y
                           \/ p[2] = cursor_y /\ p[1] + glyphWidth <= cursor_x
       /\ ~covered

Inv == TypeOK /\ Cursor /\ InkPlaced /\ InkBefore

\* _Framebuffer leaves the cursor within the invariant.
LEMMA InitInv == Init => Inv
<1> SUFFICES ASSUME Init PROVE Inv
  OBVIOUS
<1>1. OnRow(1)
  <2>1. 1 = 1 + 0 * glyphHeight
    OBVIOUS
  <2> QED
    BY <2>1 DEF OnRow
<1>2. TypeOK
  BY DEF Init, TypeOK
<1>3. Cursor
  <2>1. cursor_x < width - 1 /\ cursor_y < height - 1
    BY DEF Init
  <2> QED
    BY <1>1, <2>1 DEF Init, Cursor
<1>4. InkPlaced /\ InkBefore
  BY DEF Init, InkPlaced, InkBefore
<1> QED
  BY <1>2, <1>3, <1>4 DEF Inv

\* The rows above and below a text row.
LEMMA Rows ==
    ASSUME NEW y \in Nat, OnRow(y)
    PROVE  /\ OnRow(y + glyphHeight)
           /\ y >= height - 1 => y - glyphHeight \in Nat /\ OnRow(y - glyphHeight)
<1>1. PICK row \in Nat : y = 1 + row * glyphHeight
  BY DEF OnRow
<1>2. (row + 1) * glyphHeight = row * glyphHeight + glyphHeight
  OBVIOUS
<1>3. OnRow(y + glyphHeight)
  <2>1. y + glyphHeight = 1 + (row + 1) * glyphHeight
    BY <1>1, <1>2
  <2> QED
    BY <2>1 DEF OnRow
<1>4. ASSUME y >= height - 1
      PROVE  y - glyphHeight \in Nat /\ OnRow(y - glyphHeight)
  <2>1. row # 0
    <3> SUFFICES ASSUME row = 0 PROVE FALSE
      OBVIOUS
    <3>1. y = 1
      BY <1>1
    <3> QED
      BY <1>4, <3>1
  <2>2. row - 1 \in Nat /\ (row - 1) * glyphHeight = row * glyphHeight - glyphHeight
    BY <2>1
  <2>3. (row - 1) * glyphHeight \in Nat
    BY <2>2
  <2>4. y - glyphHeight = 1 + (row - 1) * glyphHeight
    BY <1>1, <2>2
  <2> QED
    BY <2>2, <2>3, <2>4 DEF OnRow
<1> QED
  BY <1>3, <1>4

\* What the two tests at the end of put make of a cursor one row or glyph on.
LEMMA Moved ==
    ASSUME NEW x \in Nat, NEW y \in Nat, OnRow(y), y < height - 1 + glyphHeight,
           y >= height - 1 => x < width - 1,
           Move(x, y), scrolled \in BOOLEAN
    PROVE  /\ cursor_x' \in Nat /\ cursor_y' \in Nat /\ Cursor'
           /\ scrolled' \in BOOLEAN
           /\ ~scrolled' =>
                 /\ ~scrolled
                 /\ \/ cursor_x' = x /\ cursor_y' = y
                    \/ cursor_y' = y + glyphHeight
<1> DEFINE p == Wrapped(x, y)
           q == AboveBottom(p)
<1>1. /\ p \in Nat \X Nat /\ OnRow(p[2]) /\ p[1] < width - 1
      /\ p[2] < height - 1 + glyphHeight
      /\ p = <<x, y>> \/ p[2] = y + glyphHeight
  BY Rows DEF Wrapped
<1>2. /\ q \in Nat \X Nat /\ OnRow(q[2]) /\ q[1] < width - 1 /\ q[2] < height - 1
  <2>1. CASE p[2] >= height - 1
    BY <1>1, <2>1, Rows DEF AboveBottom
  <2>2. CASE p[2] < height - 1
    BY <1>1, <2>2 DEF AboveBottom
  <2> QED
    BY <1>1, <2>1, <2>2
<1>3. /\ cursor_x' = q[1] /\ cursor_y' = q[2]
      /\ scrolled' = (scrolled \/ q # p)
  BY DEF Move
<1>4. Cursor'
  BY <1>2, <1>3 DEF Cursor, OnRow
<1>5. scrolled' \in BOOLEAN /\ (~scrolled' => ~scrolled /\ q = p)
  BY <1>3
<1> QED
  BY <1>1, <1>2, <1>3, <1>4, <1>5

----------------------------------------------------------------------------
(* One character *)

\* A glyph, or the carriage return drawn as one at the left edge.
LEMMA DrawnInv ==
    ASSUME Inv, NEW x \in Nat, x < width - 1,
           putchar(x, cursor_y), Move(x + glyphWidth, cursor_y),
           x = cursor_x \/ returned', returned => returned', returned' \in BOOLEAN
    PROVE  Inv'
<1>1. /\ cursor_y \in Nat /\ OnRow(cursor_y) /\ cursor_y < height - 1
      /\ x + glyphWidth \in Nat /\ cursor_y < height - 1 + glyphHeight
      /\ inked \subseteq Nat \X Nat /\ scrolled \in BOOLEAN
  BY DEF Inv, TypeOK, Cursor
<1>2. /\ cursor_x' \in Nat /\ cursor_y' \in Nat /\ Cursor'
      /\ scrolled' \in BOOLEAN
      /\ ~scrolled' =>
            /\ ~scrolled
            /\ \/ cursor_x' = x + glyphWidth /\ cursor_y' = cursor_y
               \/ cursor_y' = cursor_y + glyphHeight
  BY <1>1, Moved
<1>3. /\ inked' = inked \cup {<<x, cursor_y>>}
      /\ covered' = (covered \/ \E p \in inked : Overlap(p, <<x, cursor_y>>))
  BY DEF putchar
<1>4. TypeOK'
  <2>1. covered' \in BOOLEAN
    BY <1>3 DEF Inv, TypeOK
  <2>2. inked' \subseteq Nat \X Nat
    BY <1>1, <1>3
  <2> QED
    BY <1>2, <2>1, <2>2 DEF TypeOK
<1>5. InkPlaced'
  <2>1. ASSUME NEW p \in inked'
        PROVE  p[1] < width - 1 /\ p[2] < height - 1 /\ OnRow(p[2])
    <3>1. CASE p \in inked
      BY <3>1 DEF Inv, InkPlaced
    <3>2. CASE p = <<x, cursor_y>>
      BY <1>1, <3>2
    <3> QED
      BY <1>3, <3>1, <3>2
  <2> QED
    BY <2>1 DEF InkPlaced, OnRow
<1>6. InkBefore'
  <2> SUFFICES ASSUME ~scrolled', ~returned' PROVE InkBefore'
    BY DEF InkBefore
  <2>1. /\ x = cursor_x /\ ~scrolled /\ ~returned
        /\ \/ cursor_x' = x + glyphWidth /\ cursor_y' = cursor_y
           \/ cursor_y' = cursor_y + glyphHeight
    BY <1>2
  <2>2. /\ ~covered
        /\ \A p \in inked : \/ p[2] + glyphHeight <= cursor_y
                            \/ p[2] = cursor_y /\ p[1] + glyphWidth <= x
    BY <2>1 DEF Inv, InkBefore
  <2>3. ASSUME NEW p \in inked PROVE ~Overlap(p, <<x, cursor_y>>)
    <3>1. p[1] \in Nat /\ p[2] \in Nat
      BY <1>1
    <3> QED
      BY <1>1, <2>2, <3>1 DEF Overlap
  <2>4. ~covered'
    BY <1>3, <2>2, <2>3
  <2>5. ASSUME NEW p \in inked'
        PROVE  \/ p[2] + glyphHeight <= cursor_y'
               \/ p[2] = cursor_y' /\ p[1] + glyphWidth <= cursor_x'
    <3>1. CASE p \in inked
      <4>1. p[1] \in Nat /\ p[2] \in Nat
        BY <1>1, <3>1
      <4> QED
        BY <1>1, <2>1, <2>2, <3>1, <4>1
    <3>2. CASE p = <<x, cursor_y>>
      BY <1>1, <2>1, <3>2
    <3> QED
      BY <1>3, <3>1, <3>2
  <2> QED
    BY <2>4, <2>5 DEF InkBefore
<1> QED
  BY <1>2, <1>4, <1>5, <1>6 DEF Inv

\* A NUL or a line feed: the cursor moves right of and below what it was.
LEMMA MovedInv ==
    ASSUME Inv, NEW x \in Nat, NEW y \in Nat, x < width - 1,
           (x = cursor_x /\ y = cursor_y) \/ y = cursor_y + glyphHeight,
           Move(x, y), UNCHANGED <<inked, covered>>, returned' = returned
    PROVE  Inv'
<1>1. /\ cursor_y \in Nat /\ OnRow(cursor_y) /\ cursor_y < height - 1
      /\ inked \subseteq Nat \X Nat /\ scrolled \in BOOLEAN
  BY DEF Inv, TypeOK, Cursor
<1>2. OnRow(y) /\ y < height - 1 + glyphHeight
  BY <1>1, Rows
<1>3. /\ cursor_x' \in Nat /\ cursor_y' \in Nat /\ Cursor'
      /\ scrolled' \in BOOLEAN
      /\ ~scrolled' =>
            /\ ~scrolled
            /\ \/ cursor_x' = x /\ cursor_y' = y
               \/ cursor_y' = y + glyphHeight
  BY <1>1, <1>2, Moved
<1>4. TypeOK' /\ InkPlaced'
  BY <1>3 DEF Inv, TypeOK, InkPlaced, OnRow
<1>5. InkBefore'
  <2> SUFFICES ASSUME ~scrolled', ~returned' PROVE InkBefore'
    BY DEF InkBefore
  <2>1. ~covered' /\ \A p \in inked : \/ p[2] + glyphHeight <= cursor_y
                                      \/ p[2] = cursor_y /\ p[1] + glyphWidth <= cursor_x
    <3>1. ~scrolled /\ ~returned
      BY <1>3
    <3>2. ~covered /\ \A p \in inked : \/ p[2] + glyphHeight <= cursor_y
                                       \/ p[2] = cursor_y /\ p[1] + glyphWidth <= cursor_x
      BY <3>1 DEF Inv, InkBefore
    <3>3. covered' = covered
      OBVIOUS
    <3> QED
      BY <3>2, <3>3
  <2>2. ASSUME NEW p \in inked
        PROVE  \/ p[2] + glyphHeight <= cursor_y'
               \/ p[2] = cursor_y' /\ p[1] + glyphWidth <= cursor_x'
    <3>1. p[1] \in Nat /\ p[2] \in Nat
      BY <1>1
    <3> QED
      BY <1>1, <1>3, <2>1, <3>1
  <2> QED
    BY <2>1, <2>2 DEF InkBefore
<1> QED
  BY <1>3, <1>4, <1>5 DEF Inv

\* put keeps the invariant whatever the character.
LEMMA PutInv ==
    ASSUME Inv, NEW c \in Chars, put(c)
    PROVE  Inv'
<1>1. /\ cursor_x \in Nat /\ cursor_y \in Nat /\ returned \in BOOLEAN
      /\ cursor_x < width - 1
  BY DEF Inv, TypeOK, Cursor
<1>2. /\ returned' \in BOOLEAN /\ (returned => returned')
      /\ c = "return" => returned'
      /\ c # "return" => returned' = returned
  BY <1>1 DEF put
<1>3. CASE c = "nul"
  BY <1>1, <1>2, <1>3, MovedInv DEF put
<1>4. CASE c = "newline"
  BY <1>1, <1>2, <1>4, MovedInv DEF put
<1>5. CASE c = "return"
  BY <1>1, <1>2, <1>5, DrawnInv DEF put
<1>6. CASE c = "glyph"
  BY <1>1, <1>2, <1>6, DrawnInv DEF put
<1> QED
  BY <1>3, <1>4, <1>5, <1>6 DEF Chars

\* The invariant holds throughout.
LEMMA Invariance == Spec => []Inv
<1>1. Inv /\ [Next]_vars => Inv'
  <2>1. Inv /\ Next => Inv'
    BY PutInv DEF Next
  <2>2. Inv /\ UNCHANGED vars => Inv'
    BY DEF vars, Inv, TypeOK, Cursor, InkPlaced, InkBefore, OnRow
  <2> QED
    BY <2>1, <2>2
<1> QED
  BY InitInv, <1>1, PTL DEF Spec

----------------------------------------------------------------------------
(* The theorems *)

\* The cursor never leaves the natural numbers: the size_t that the bottom test
\* subtracts from does not wrap around.
THEOREM TypeCorrect == Spec => []TypeOK
<1>1. Inv => TypeOK
  BY DEF Inv
<1> QED
  BY Invariance, <1>1, PTL

\* On every screen, however long the text, every glyph starts on the screen and
\* on a text row.
THEOREM GlyphsStayOnScreen == Spec => []GlyphsStartOnScreen
<1>1. Inv => GlyphsStartOnScreen
  <2> SUFFICES ASSUME Inv, NEW p \in inked
               PROVE  /\ p[1] < width - 1 /\ p[2] < height - 1
                      /\ \E row \in 0..height : p[2] = 1 + row * glyphHeight
    BY DEF GlyphsStartOnScreen
  <2>1. p[1] < width - 1 /\ p[2] < height - 1 /\ p[2] \in Nat
    BY DEF Inv, InkPlaced, TypeOK
  <2>2. PICK row \in Nat : p[2] = 1 + row * glyphHeight
    BY DEF Inv, InkPlaced, OnRow
  <2>3. row * glyphHeight \in Nat /\ row * glyphHeight >= row
    OBVIOUS
  <2>4. row \in 0..height
    BY <2>1, <2>2, <2>3
  <2> QED
    BY <2>1, <2>2, <2>4
<1> QED
  BY Invariance, <1>1, PTL

\* On every screen, until the bottom is reached and carriage returns aside, no
\* glyph covers another.
THEOREM TextKept == Spec => []NothingCovered
<1>1. Inv => NothingCovered
  BY DEF Inv, InkBefore, NothingCovered
<1> QED
  BY Invariance, <1>1, PTL
=============================================================================
