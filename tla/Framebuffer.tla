---------------------------- MODULE Framebuffer ----------------------------
(***************************************************************************)
(* The console of framebuffer.c with its own cursor and a PSF font: put of *)
(* one character after the other.  Only kmain prints through it, so put is *)
(* one step.                                                               *)
(***************************************************************************)
EXTENDS Integers

CONSTANTS
    width, height,              \* of the framebuffer
    glyphWidth, glyphHeight     \* of the font

\* The screen has room for a glyph below the first row.
ASSUME ScreenAssumption ==
    /\ width \in Nat /\ height \in Nat
    /\ glyphWidth \in Nat \ {0} /\ glyphHeight \in Nat \ {0}
    /\ height > glyphHeight + 1 /\ width > 2

VARIABLES
    cursor_x, cursor_y,
    inked,      \* (history) where glyphs were drawn
    covered,    \* (history) a glyph was drawn over another
    returned,   \* (history) a carriage return was printed
    scrolled    \* (history) the bottom was reached

vars == <<cursor_x, cursor_y, inked, covered, returned, scrolled>>

Chars == {"nul", "newline", "return", "glyph"}

Init ==
    /\ cursor_x = 1 /\ cursor_y = 1
    /\ inked = {} /\ covered = FALSE /\ returned = FALSE /\ scrolled = FALSE

Overlap(p, q) ==
    /\ p[1] - q[1] < glyphWidth /\ q[1] - p[1] < glyphWidth
    /\ p[2] - q[2] < glyphHeight /\ q[2] - p[2] < glyphHeight

\* putchar of a glyph at <<x, y>>.
putchar(x, y) ==
    /\ covered' = (covered \/ \E p \in inked : Overlap(p, <<x, y>>))
    /\ inked' = inked \cup {<<x, y>>}

\* A wrap onto the same row.
WrappedSameRow(x, y) ==
    IF x >= width - 1 THEN <<1, y>> ELSE <<x, y>>

\* The wrap test, which leaves the last column alone.
Wrapped(x, y) ==
    IF x >= width - 1 THEN <<1, y + glyphHeight>> ELSE <<x, y>>

\* The bottom test for equality; the subtraction the other way round.
AboveBottomEqual(p) ==
    IF p[2] = height - 1 THEN <<0, p[2] - glyphHeight>> ELSE p

AboveBottomSwapped(p) ==
    IF p[2] >= height - 1 THEN <<0, glyphHeight - p[2]>> ELSE p

\* The bottom test, which moves the cursor up and the text not at all.
AboveBottom(p) ==
    IF p[2] >= height - 1 THEN <<0, p[2] - glyphHeight>> ELSE p

\* The end of put, the cursor being at <<x, y>>.
Move(x, y) ==
    LET p == Wrapped(x, y)
        q == AboveBottom(p)
    IN  /\ cursor_x' = q[1] /\ cursor_y' = q[2]
        /\ scrolled' = (scrolled \/ q # p)

\* A carriage return goes on to the default case: its glyph is drawn.
put(c) ==
    /\ returned' = (returned \/ c = "return")
    /\ \/ /\ c = "nul"
          /\ Move(cursor_x, cursor_y)
          /\ UNCHANGED <<inked, covered>>
       \/ /\ c = "newline"
          /\ Move(0, cursor_y + glyphHeight)
          /\ UNCHANGED <<inked, covered>>
       \/ /\ c = "return"
          /\ putchar(0, cursor_y)
          /\ Move(glyphWidth, cursor_y)
       \/ /\ c = "glyph"
          /\ putchar(cursor_x, cursor_y)
          /\ Move(cursor_x + glyphWidth, cursor_y)

Next == \E c \in Chars : put(c)

Spec == Init /\ [][Next]_vars

----------------------------------------------------------------------------
(* Properties *)

TypeOK ==
    /\ cursor_x \in Nat /\ cursor_y \in Nat /\ inked \subseteq Nat \X Nat
    /\ covered \in BOOLEAN /\ returned \in BOOLEAN /\ scrolled \in BOOLEAN

\* However long the text, every glyph starts on the screen, on a text row (its
\* lower rows and right columns may still be outside).
GlyphsStartOnScreen ==
    \A p \in inked :
        /\ p[1] < width - 1 /\ p[2] < height - 1
        /\ \E row \in 0..height : p[2] = 1 + row * glyphHeight

\* Until the bottom is reached no glyph covers another, carriage returns aside.
NothingCovered == covered => scrolled \/ returned

\* "scroll" (framebuffer.c:150): at the bottom, too, the text already printed
\* makes room for the next line.  The code moves the cursor up and no text.
ScrollKeepsText == covered => returned
=============================================================================
