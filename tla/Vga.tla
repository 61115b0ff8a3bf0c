-------------------------------- MODULE Vga --------------------------------
(***************************************************************************)
(* The VGA text console of src/src/stage0/vga: a screen of Height rows of  *)
(* Width cells, the software cursor vga_col/vga_row, and the cursor        *)
(* registers of the CRT controller.                                        *)
(*                                                                         *)
(* Every routine of the driver is an operator from a console state to a    *)
(* console state, a record with the fields                                 *)
(*     col, row   the globals vga_col and vga_row                          *)
(*     cells      the text page, one character per cell (colours left out) *)
(*     crtc       the CRTC index register and the two cursor registers     *)
(* so that a routine calling others is the composition of theirs.          *)
(***************************************************************************)
EXTENDS Integers

CONSTANTS
  Width,    \* VGA_WIDTH, 80 in the code
  Height,   \* VGA_HEIGHT, 25 in the code
  ByteMod,  \* number of values of an unsigned char, 256 in the code
  Chars,    \* the printable characters
  Nul       \* '\0', the character of an empty cell

ASSUME VgaAssumption ==
  /\ Width \in Nat /\ Height \in Nat /\ ByteMod \in Nat
  /\ Width >= 2 /\ Height >= 2
  /\ ByteMod >= Width /\ ByteMod >= Height
  /\ Nul \notin Chars

\* Wrong variants, each put in the place of the definition after it to see
\* that a property notices: operators named Bug... here and in the other
\* modules.
BugByte(n) == n % (ByteMod * ByteMod)  \* the cursor kept in 16 bits

\* The conversion to unsigned char of every argument of vga_pos and vga_set.
Byte(n) == n % ByteMod

\* The cells of the page, and the cell tbuffer_set and tbuffer_get address.
\* They do not check their arguments: an index may lie outside Addr.
Addr == 0 .. (Width * Height - 1)
CellIndex(c, r) == r * Width + c

\* The three CRTC registers the driver uses: index port 0x3D4, and the low
\* and high byte of the cursor location behind data port 0x3D5.
Crtc == [index : {"lo", "hi"}, lo : 0 .. ByteMod - 1, hi : 0 .. ByteMod - 1]

LowByte(pos)  == pos % ByteMod
BugHighByte(pos) == pos % ByteMod  \* the shift by 8 forgotten
HighByte(pos) == (pos \div ByteMod) % ByteMod

\* vga_cursor_pos, run to its end: select and write the low byte, then the
\* high byte.
vga_cursor_pos(x, y) ==
  [index |-> "hi", lo |-> LowByte(y * Width + x), hi |-> HighByte(y * Width + x)]

vga_pos(s, c, r) ==
  [s EXCEPT !.col = Byte(c), !.row = Byte(r),
            !.crtc = vga_cursor_pos(Byte(c), Byte(r))]

\* A store outside the page changes memory this model does not hold.
vga_set(s, ch, c, r) ==
  [s EXCEPT !.cells = [i \in Addr |->
      IF i = CellIndex(Byte(c), Byte(r)) THEN ch ELSE s.cells[i]]]

\* The memmove without the blanks.
BugScroll(s) ==
  [s EXCEPT !.cells = [i \in Addr |->
      IF i + Width \in Addr THEN s.cells[i + Width] ELSE s.cells[i]]]

\* vga_scroll(1), the only call of it: a memmove of all rows but the first,
\* then blanks in the last.
vga_scroll(s) ==
  [s EXCEPT !.cells = [i \in Addr |->
      IF i + Width \in Addr THEN s.cells[i + Width] ELSE Nul]]

\* A test that scrolls one row too late, and no scrolling at all.
BugNewlineLate(s) ==
  LET t == vga_pos(s, 0, s.row + 1)
  IN  IF t.row > Height THEN vga_pos(vga_scroll(t), 0, t.row - 1) ELSE t
BugNewlineNoScroll(s) == vga_pos(s, 0, s.row + 1)

vga_newline(s) ==
  LET t == vga_pos(s, 0, s.row + 1)
  IN  IF t.row > Height - 1 THEN vga_pos(vga_scroll(t), 0, t.row - 1) ELSE t

vga_put(s, ch) ==
  LET t == IF s.col + 1 >= Width THEN vga_newline(s) ELSE s
      u == vga_set(t, ch, t.col, t.row)
  IN  vga_pos(u, u.col + 1, u.row)

(***************************************************************************)
(* The cursor keys of keyboard_get_char.                                   *)
(***************************************************************************)

\* What a read of the cursor's row may return: the row itself, or anything
\* when the row lies below the page (other video memory, the VGA BIOS).
RowViews(s) ==
  IF s.row < Height
  THEN {[c \in 0 .. Width - 1 |-> s.cells[CellIndex(c, s.row)]]}
  ELSE [0 .. Width - 1 -> Chars \cup {Nul}]

\* The scan stops on the last character instead of after it.
BugLandsAt(view, c) ==
  LET tested == {d \in 1 .. Width - 1 : view[d] # Nul}
  IN  \/ tested = {} /\ c = 0
      \/ c \in tested /\ \A d \in tested : d <= c

\* The scan of the row above leaves the cursor in column c: on its last cell
\* when that one holds a character, else right after its last character, the
\* scan never testing column 0 (col = 255 and then col + 1 = 0 there).
LandsAt(view, c) ==
  LET tested == {d \in 1 .. Width - 2 : view[d] # Nul}
  IN  IF view[Width - 1] # Nul THEN c = Width - 1
      ELSE \/ tested = {} /\ c = 0
           \/ c - 1 \in tested /\ \A d \in tested : d < c

Erase(s) == vga_set(s, Nul, s.col, s.row)

\* Backspace: the set of outcomes, one unless memory outside the page is
\* read.
Backspace(s) ==
  IF s.col > 0
  THEN {Erase(vga_pos(s, s.col - 1, s.row))}
  ELSE LET up == vga_pos(s, Width - 1, s.row - 1)
           landings == {c \in 0 .. Width - 1 :
                          \E view \in RowViews(up) : LandsAt(view, c)}
       IN  {Erase(vga_pos(up, c, up.row)) : c \in landings}

CursorKeys == {"enter", "backspace", "up", "down", "left", "right"}

KeyOutcomes(s, key) ==
  CASE key = "enter"     -> {vga_newline(s)}
    [] key = "backspace" -> Backspace(s)
    [] key = "up"        -> {vga_pos(s, s.col, s.row - 1)}
    [] key = "down"      -> {vga_pos(s, s.col, s.row + 1)}
    [] key = "left"      -> {vga_pos(s, s.col - 1, s.row)}
    [] key = "right"     -> {vga_pos(s, s.col + 1, s.row)}

\* vga_init, vga_clear and vga_pos(0, 0), the first lines of kmain.
Cleared ==
  [col |-> 0, row |-> 0, cells |-> [i \in Addr |-> Nul],
   crtc |-> vga_cursor_pos(0, 0)]

Consoles ==
  [col : 0 .. ByteMod - 1, row : 0 .. ByteMod - 1,
   cells : [Addr -> Chars \cup {Nul}], crtc : Crtc]
=============================================================================
