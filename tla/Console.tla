------------------------------ MODULE Console ------------------------------
(***************************************************************************)
(* The console used by one caller at a time: the kernel prints characters  *)
(* and the user presses cursor keys, each routine running to its end.      *)
(* This is how the console is used while interrupts are off, and by the    *)
(* keyboard interrupt once kmain has returned and the machine is halted.   *)
(* Module Kernel interleaves the two.                                      *)
(***************************************************************************)
EXTENDS Vga, Sequences, FiniteSets

CONSTANT
  Users  \* what users do: the cursor keys one presses, the characters that
         \* are printed, and whether Backspace is pressed in the top left cell

ASSUME ConsoleAssumption ==
  Users \subseteq [keys : SUBSET CursorKeys, chars : SUBSET Chars,
                  origin : BOOLEAN]

VARIABLES
  user,  \* the user at the console
  vga

vars == <<user, vga>>

Init == user \in Users /\ vga = Cleared

\* printf of one character other than a line end (vga_put).
Put(ch) == vga' = vga_put(vga, ch)

\* printf of a line end.
NewLine == vga' = vga_newline(vga)

AtOrigin == vga.col = 0 /\ vga.row = 0

Press(key) ==
  /\ key = "backspace" /\ AtOrigin => user.origin
  /\ vga' \in KeyOutcomes(vga, key)

Next ==
  /\ \/ \E ch \in user.chars : Put(ch)
     \/ NewLine
     \/ \E key \in user.keys : Press(key)
  /\ UNCHANGED user

Spec == Init /\ [][Next]_vars

-----------------------------------------------------------------------------

\* Every field of the console keeps its range, whatever is typed.
TypeOK == user \in Users /\ vga \in Consoles

\* A user whose only cursor keys are Enter and Backspace, the latter not in
\* the top left cell.
Plain == user.keys \subseteq {"enter", "backspace"} /\ ~ user.origin

OnPage == vga.col < Width /\ vga.row < Height

\* Printing, Enter and Backspace keep the cursor on the page, so that every
\* store of vga_put and of the Backspace key hits a cell of the page.  The
\* other cursor keys, and Backspace in the top left cell, do not: they move
\* the cursor without a test, and vga_put then stores where it stands.
CursorOnScreen == Plain => OnPage

CellAt(c, r) == vga.cells[CellIndex(c, r)]

\* The text of a row is a prefix of the row, every row above the cursor's
\* has its text left of the last column, the cursor stands right after the
\* text of its row, and nothing is left below: scrolling, wrapping and the
\* Backspace scan over the row above leave no hole and no stale character.
PageShape ==
  Plain /\ OnPage =>
    \A r \in 0 .. Height - 1 :
      LET text == {c \in 0 .. Width - 1 : CellAt(c, r) # Nul}
      IN  /\ text = 0 .. Cardinality(text) - 1
          /\ Cardinality(text) < Width
          /\ r = vga.row => Cardinality(text) = vga.col
          /\ r > vga.row => text = {}

(***************************************************************************)
(* The refinement of Terminal: the page is the rows down to the cursor's,  *)
(* each cut after its text.  Nothing is promised to the other users.       *)
(***************************************************************************)
LineOf(r) ==
  [c \in 1 .. Cardinality({d \in 0 .. Width - 1 : CellAt(d, r) # Nul}) |->
     CellAt(c - 1, r)]

PageOf ==
  IF Plain /\ OnPage THEN [i \in 1 .. vga.row + 1 |-> LineOf(i - 1)]
                     ELSE << << >> >>

Text == INSTANCE Terminal
          WITH Rows <- Height, LineLength <- Width - 1, page <- PageOf

\* The console of a plain user implements the terminal: what is on the screen
\* is the tail of what was printed and typed, in order.
ImplementsTerminal == Text!Spec

Shown == Cardinality({i \in Addr : vga.cells[i] # Nul})

\* Once a cursor key has moved the cursor below the page, printing never
\* brings it back and shows nothing more: every line end scrolls the page and
\* keeps the row (that of the last row of the byte range excepted, which wraps
\* to row 0).
PrintsBelowPageAreLost ==
  [][ vga.row >= Height /\ vga.row + 1 < ByteMod
        /\ (NewLine \/ \E ch \in Chars : Put(ch))
      => vga'.row = vga.row /\ Shown' <= Shown ]_vars
=============================================================================
