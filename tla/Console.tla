------------------------------ MODULE Console ------------------------------
(***************************************************************************)
(* The VBE text console and its two writers.  kmain prints through         *)
(* VBE_put, which interrupts may suspend between any two of its accesses   *)
(* to cursor_x and cursor_y; Keyboard_main prints through the same         *)
(* function with the interrupt flag clear, so its whole VBE_put is one     *)
(* step here.  Nothing locks the cursor.                                   *)
(*                                                                         *)
(* kmain's accesses go through the registers rx and ry: the compiler may   *)
(* read a variable once or again before each use (Reload).                 *)
(***************************************************************************)
EXTENDS Integers

CONSTANTS
    Width,      \* framebuffer_width
    MaxY        \* bound: nobody starts a character below this row

\* Below 13 pixels no character fits between the margins (below 5 the wrap
\* limit, an unsigned difference, would be huge).
ASSUME WidthAssumption == Width \in Nat /\ Width >= 13
ASSUME MaxYAssumption == MaxY \in Nat

VARIABLES
    keys,       \* whether the keyboard types at all (constant)
    pc,         \* where kmain is in VBE_put, or before it
    c,          \* the character kmain puts
    x, y,       \* cursor_x, cursor_y
    rx, ry,     \* kmain's registers for them
    ink,        \* the last glyph drawn: by whom and where
    inked,      \* (history) cells of kmain's glyphs, kept when nobody types
    early,      \* (history) a key was typed before VBE_init
    budget      \* (history) 5 + 20 * newlines + 10 * wraps

cursor == <<x, y>>
regs == <<rx, ry>>
history == <<ink, inked, early, budget>>
vars == <<keys, pc, c, cursor, regs, history>>

\* A character is a line feed, a NUL (the map's backspace) or a glyph.
Chars == {"newline", "nul", "glyph"}
Pcs == {"start", "clear", "ready", "newline_x", "newline_y", "draw",
        "advance", "wrap_x", "wrap_y"}

Limit == Width - 5      \* the wrap test: cursor_x >= framebuffer_width - 5
MaxX == Width           \* bound: nobody types to the right of this column

----------------------------------------------------------------------------

Init ==
    /\ keys \in BOOLEAN
    /\ pc = "start" /\ c = "glyph"
    /\ x = 5 /\ y = 5
    /\ rx = 5 /\ ry = 5
    /\ ink = [by |-> "none", x |-> 5, y |-> 5]
    /\ inked = {} /\ early = FALSE /\ budget = 5

\* VBE_init finds the framebuffer: from here on fb_info is set.
VBE_init ==
    /\ pc = "start" /\ pc' = "clear"
    /\ UNCHANGED <<keys, c, cursor, regs, history>>

\* VBE_clear_screen moves the cursor up and not left, then erases.
VBE_clear_screen ==
    /\ pc = "clear" /\ pc' = "ready"
    /\ y' = 5
    /\ inked' = {} /\ budget' = 5
    /\ UNCHANGED <<keys, c, x, regs, ink, early>>

----------------------------------------------------------------------------
(* VBE_put in kmain *)

Begin ==
    /\ pc = "ready" /\ y <= MaxY
    /\ c' \in Chars
    /\ pc' = IF c' = "newline" THEN "newline_x" ELSE "draw"
    /\ rx' = x /\ ry' = y
    /\ UNCHANGED <<keys, cursor, history>>

ReloadX ==
    /\ pc \notin {"start", "clear", "ready"} /\ rx # x
    /\ rx' = x
    /\ UNCHANGED <<keys, pc, c, cursor, ry, history>>

ReloadY ==
    /\ pc \notin {"start", "clear", "ready"} /\ ry # y
    /\ ry' = y
    /\ UNCHANGED <<keys, pc, c, cursor, rx, history>>

\* cursor_x = 5.
NewlineX ==
    /\ pc = "newline_x" /\ pc' = "newline_y"
    /\ x' = 5 /\ rx' = 5
    /\ UNCHANGED <<keys, c, y, ry, history>>

\* The cursor goes back to the margin only.
NewlineYStays ==
    /\ pc = "newline_y" /\ pc' = "draw"
    /\ budget' = budget + 20
    /\ UNCHANGED <<keys, c, cursor, regs, ink, inked, early>>

\* cursor_y += 20.
NewlineY ==
    /\ pc = "newline_y" /\ pc' = "draw"
    /\ y' = ry + 20 /\ ry' = ry + 20
    /\ budget' = budget + 20
    /\ UNCHANGED <<keys, c, x, rx, ink, inked, early>>

\* VBE_putchar at the cursor; for a NUL, a blank one pixel to its left, and
\* the cursor stays.
Draw ==
    /\ pc = "draw"
    /\ IF c = "nul"
       THEN /\ ink' = [by |-> "blank", x |-> rx - 1, y |-> ry]
            /\ pc' = "ready"
            /\ UNCHANGED inked
       ELSE /\ ink' = [by |-> "kmain", x |-> rx, y |-> ry]
            /\ pc' = "advance"
            /\ inked' = IF keys THEN {} ELSE inked \cup {<<rx, ry>>}
    /\ UNCHANGED <<keys, c, cursor, regs, early, budget>>

\* cursor_x += 8.
Advance ==
    /\ pc = "advance" /\ pc' = "wrap_x"
    /\ x' = rx + 8 /\ rx' = rx + 8
    /\ UNCHANGED <<keys, c, y, ry, history>>

\* The wrap test without the margin of 5.
WrapXAtEdge ==
    /\ pc = "wrap_x"
    /\ IF rx >= Width
       THEN x' = 5 /\ rx' = 5 /\ pc' = "wrap_y"
       ELSE pc' = "ready" /\ UNCHANGED <<x, rx>>
    /\ UNCHANGED <<keys, c, y, ry, history>>

\* The wrap test; the line ends where no glyph of 8 pixels fits any more.
WrapX ==
    /\ pc = "wrap_x"
    /\ IF rx >= Limit
       THEN x' = 5 /\ rx' = 5 /\ pc' = "wrap_y"
       ELSE pc' = "ready" /\ UNCHANGED <<x, rx>>
    /\ UNCHANGED <<keys, c, y, ry, history>>

\* A wrap as deep as a line feed.
WrapYDeep ==
    /\ pc = "wrap_y" /\ pc' = "ready"
    /\ y' = ry + 20 /\ ry' = ry + 20
    /\ budget' = budget + 10
    /\ UNCHANGED <<keys, c, x, rx, ink, inked, early>>

\* cursor_y += 10.
WrapY ==
    /\ pc = "wrap_y" /\ pc' = "ready"
    /\ y' = ry + 10 /\ ry' = ry + 10
    /\ budget' = budget + 10
    /\ UNCHANGED <<keys, c, x, rx, ink, inked, early>>

----------------------------------------------------------------------------
(* VBE_put in Keyboard_main, uninterrupted *)

\* The left margin forgotten after a wrap.
KeyGlyphNoMargin(column, row, cost) ==
    /\ ink' = [by |-> "key", x |-> column, y |-> row]
    /\ \E wraps \in BOOLEAN :
          /\ pc # "start" => (wraps <=> column + 8 >= Limit)
          /\ x' = IF wraps THEN 0 ELSE column + 8
          /\ y' = IF wraps THEN row + 10 ELSE row
          /\ budget' = budget + cost + (IF wraps THEN 10 ELSE 0)

\* A glyph drawn at column and row, then the wrap test; before VBE_init
\* fb_info is NULL and the width is whatever memory holds there.
KeyGlyph(column, row, cost) ==
    /\ ink' = [by |-> "key", x |-> column, y |-> row]
    /\ \E wraps \in BOOLEAN :
          /\ pc # "start" => (wraps <=> column + 8 >= Limit)
          /\ x' = IF wraps THEN 5 ELSE column + 8
          /\ y' = IF wraps THEN row + 10 ELSE row
          /\ budget' = budget + cost + (IF wraps THEN 10 ELSE 0)

\* A line feed, another glyph, or a NUL; the keys that map to 0 print nothing.
Key ==
    /\ keys /\ y <= MaxY /\ x <= MaxX
    /\ early' = (early \/ pc = "start")
    /\ \/ KeyGlyph(5, y + 20, 20)
       \/ KeyGlyph(x, y, 0)
       \/ /\ ink' = [by |-> "blank", x |-> x - 1, y |-> y]
          /\ UNCHANGED <<cursor, budget>>
    /\ UNCHANGED <<keys, pc, c, regs, inked>>

\* kmain has nothing to print, or nothing more: it waits, or idles for ever.
Quiet == pc = "ready" /\ UNCHANGED vars

Put == NewlineX \/ NewlineY \/ Draw \/ Advance \/ WrapX \/ WrapY

Next == VBE_init \/ VBE_clear_screen \/ Begin \/ ReloadX \/ ReloadY \/ Put \/ Quiet
        \/ Key

Spec == Init /\ [][Next]_vars

----------------------------------------------------------------------------
(* Properties *)

TypeOK ==
    /\ keys \in BOOLEAN /\ pc \in Pcs /\ c \in Chars
    /\ x \in Nat /\ y \in Nat /\ rx \in Nat /\ ry \in Nat
    /\ ink \in [by : {"none", "blank", "kmain", "key"}, x : Nat, y : Nat]
    /\ early \in BOOLEAN /\ budget \in Nat

\* However the two writers interleave in VBE_put, the cursor and kmain's copies
\* of it stay on the grid of 8 by 10 pixels that starts at (5, 5): two glyphs
\* are the same cell or do not touch.
OnGrid ==
    /\ x % 8 = 5 /\ rx % 8 = 5
    /\ y % 10 = 5 /\ ry % 10 = 5
    /\ ink.by # "blank" => ink.x % 8 = 5 /\ ink.y % 10 = 5

\* Unless a key was typed before VBE_init, kmain draws before the right margin
\* only, and a key pressed between kmain's advance and its wrap test draws at
\* most one cell beyond it.
RightMargin ==
    ~early => /\ ink.by = "kmain" => ink.x < Limit
              /\ ink.by = "key" => ink.x < Limit + 8

\* A race may lose a line feed or a wrap; it never moves the text further down
\* than the line feeds and wraps executed.
RowsNeverInvented == y <= budget

\* When nobody types, no character kmain prints covers an earlier one.
TextNeverCovered ==
    [][~keys /\ pc = "draw" /\ pc' = "advance" => <<rx, ry>> \notin inked]_vars
=============================================================================
