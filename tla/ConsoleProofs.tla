---------------------------- MODULE ConsoleProofs ----------------------------
(***************************************************************************)
(* Proofs about Console, for every size of the page and every width of a   *)
(* byte that holds its columns and rows: the cursor stays on the page, the *)
(* page keeps its shape and implements Terminal, and what is printed below *)
(* it is lost.  The lemmas on the routines of the driver are in VgaProofs. *)
(***************************************************************************)
EXTENDS Console, VgaProofs, FiniteSetTheorems, SequenceTheorems

\* Every step of the console keeps the ranges of its fields.
LEMMA TypeStep == TypeOK /\ [Next]_vars => TypeOK'
<1> SUFFICES ASSUME TypeOK, [Next]_vars PROVE TypeOK' OBVIOUS
<1>1. user' = user BY DEF Next, vars
<1>2. vga' \in Consoles
  <2>1. ASSUME NEW ch \in user.chars, Put(ch) PROVE vga' \in Consoles
    <3>1. ch \in Chars BY ConsoleAssumption DEF TypeOK
    <3> QED BY <2>1, <3>1, PutEffect DEF Put, TypeOK
  <2>2. CASE NewLine BY <2>2, NewlineEffect DEF NewLine, TypeOK
  <2>3. ASSUME NEW key \in user.keys, Press(key) PROVE vga' \in Consoles
    <3>1. key \in CursorKeys BY ConsoleAssumption DEF TypeOK
    <3> QED BY <2>3, <3>1, KeyType DEF Press, TypeOK
  <2>4. CASE UNCHANGED vars BY <2>4 DEF TypeOK, vars
  <2> QED BY <2>1, <2>2, <2>3, <2>4 DEF Next
<1> QED BY <1>1, <1>2 DEF TypeOK

-----------------------------------------------------------------------------

\* The console keeps its ranges whatever is printed and typed: the CRTC is
\* never handed more than bytes.
THEOREM ConsoleType == Spec => []TypeOK
<1>1. Init => TypeOK BY ClearedType DEF Init, TypeOK
<1> QED BY <1>1, TypeStep, PTL DEF Spec

\* With Enter and Backspace the only cursor keys, and Backspace not pressed in
\* the top left cell, the cursor never leaves the page (put.c, newline.c,
\* kbd_mouse.c:161-183).
THEOREM CursorStaysOnScreen == Spec => []CursorOnScreen
<1> DEFINE Inv == TypeOK /\ CursorOnScreen
<1>1. Init => Inv
  BY ClearedType DEF Init, TypeOK, CursorOnScreen, OnPage, OnScreen
<1>2. Inv /\ [Next]_vars => Inv'
  <2> SUFFICES ASSUME TypeOK, CursorOnScreen, [Next]_vars
               PROVE  CursorOnScreen'
    BY TypeStep
  <2>0. user' = user BY DEF Next, vars
  <2> SUFFICES ASSUME Plain PROVE OnPage'
    BY <2>0 DEF CursorOnScreen, Plain
  <2>1. vga \in Consoles /\ OnScreen(vga)
    BY DEF TypeOK, CursorOnScreen, OnPage, OnScreen
  <2> USE DEF OnPage, OnScreen
  <2>2. ASSUME NEW ch \in user.chars, Put(ch) PROVE OnPage'
    <3>1. ch \in Chars BY ConsoleAssumption DEF TypeOK
    <3> QED BY <2>1, <2>2, <3>1, PutEffect DEF Put
  <2>3. CASE NewLine
    BY <2>1, <2>3, NewlineEffect, VgaAssumption DEF NewLine
  <2>4. ASSUME NEW key \in user.keys, Press(key) PROVE OnPage'
    <3>1. CASE key = "enter"
      <4>1. vga' = vga_newline(vga) BY <2>4, <3>1 DEF Press, KeyOutcomes
      <4> QED BY <2>1, <4>1, NewlineEffect, VgaAssumption
    <3>2. CASE key = "backspace"
      <4>1. vga' \in Backspace(vga) /\ ~ (vga.col = 0 /\ vga.row = 0)
        BY <2>4, <3>2 DEF Press, KeyOutcomes, AtOrigin, Plain
      <4> QED BY <2>1, <4>1, BackspaceEffect
    <3> QED BY <2>4, <3>1, <3>2 DEF Plain
  <2>5. CASE UNCHANGED vars BY <2>1, <2>5 DEF vars
  <2> QED BY <2>2, <2>3, <2>4, <2>5 DEF Next
<1>3. Inv => CursorOnScreen OBVIOUS
<1> QED BY <1>1, <1>2, <1>3, PTL DEF Spec

-----------------------------------------------------------------------------
(* The page: what each routine does to the cells, by column and row. *)

\* A row below the last one can be told from row 0 (25 < 256 in the code): else
\* a line end at the bottom would wrap around instead of scrolling.
RowsFitByte == Height < ByteMod

Columns == 0 .. Width - 1
Rows == 0 .. Height - 1

At(s, c, r) == s.cells[CellIndex(c, r)]

\* Every column and row has a cell of its own, rows are Width cells apart, and
\* a row below the page has no cells.
LEMMA CellOf ==
  ASSUME NEW c \in Columns, NEW r \in Nat
  PROVE  /\ CellIndex(c, r) \in Nat
         /\ CellIndex(c, r) \in Addr <=> r < Height
         /\ CellIndex(c, r) + Width = CellIndex(c, r + 1)
<1>0. /\ Width \in Nat /\ Width >= 2 /\ Height \in Nat /\ Height >= 2
      /\ c \in Nat /\ c < Width
  BY VgaAssumption DEF Columns
<1>1. r * Width \in Nat BY <1>0
<1>2. (r + 1) * Width = r * Width + Width BY <1>0
<1>3. CASE r < Height
  <2>1. (r + 1) * Width <= Height * Width BY <1>0, <1>3
  <2>2. Height * Width = Width * Height /\ Width * Height \in Nat BY <1>0
  <2> QED BY <1>0, <1>1, <1>2, <1>3, <2>1, <2>2 DEF CellIndex, Addr
<1>4. CASE r >= Height
  <2>1. r * Width >= Height * Width BY <1>0, <1>4
  <2>2. Height * Width = Width * Height /\ Width * Height \in Nat BY <1>0
  <2> QED BY <1>0, <1>1, <1>2, <1>4, <2>1, <2>2 DEF CellIndex, Addr
<1> QED BY <1>0, <1>3, <1>4

LEMMA CellsDiffer ==
  ASSUME NEW c \in Columns, NEW r \in Nat, NEW d \in Columns, NEW q \in Nat,
         CellIndex(c, r) = CellIndex(d, q)
  PROVE  c = d /\ r = q
<1>0. /\ Width \in Nat /\ Width >= 2
      /\ c \in Nat /\ c < Width /\ d \in Nat /\ d < Width
  BY VgaAssumption DEF Columns
<1>1. r * Width \in Nat /\ q * Width \in Nat BY <1>0
<1>2. r * Width + c = q * Width + d BY DEF CellIndex
<1>3. ~ r < q
  <2> SUFFICES ASSUME r < q PROVE FALSE OBVIOUS
  <2>1. (r + 1) * Width <= q * Width BY <1>0
  <2>2. (r + 1) * Width = r * Width + Width BY <1>0
  <2> QED BY <1>0, <1>1, <1>2, <2>1, <2>2
<1>4. ~ q < r
  <2> SUFFICES ASSUME q < r PROVE FALSE OBVIOUS
  <2>1. (q + 1) * Width <= r * Width BY <1>0
  <2>2. (q + 1) * Width = q * Width + Width BY <1>0
  <2> QED BY <1>0, <1>1, <1>2, <2>1, <2>2
<1>5. r = q BY <1>3, <1>4
<1> QED BY <1>0, <1>1, <1>2, <1>5

\* vga_set on the page changes one cell.
LEMMA SetCells ==
  ASSUME NEW s \in Consoles, NEW ch \in Chars \cup {Nul},
         NEW c \in Columns, NEW r \in Rows
  PROVE  \A d \in Columns, q \in Rows :
           At(vga_set(s, ch, c, r), d, q)
             = IF d = c /\ q = r THEN ch ELSE At(s, d, q)
<1> SUFFICES ASSUME NEW d \in Columns, NEW q \in Rows
             PROVE  At(vga_set(s, ch, c, r), d, q)
                      = IF d = c /\ q = r THEN ch ELSE At(s, d, q)
  OBVIOUS
<1>1. Byte(c) = c /\ Byte(r) = r
  <2>1. c \in 0 .. ByteMod - 1 /\ r \in 0 .. ByteMod - 1
    BY VgaAssumption DEF Columns, Rows
  <2> QED BY <2>1, ByteSmall
<1>2. r \in Nat /\ q \in Nat /\ q < Height BY VgaAssumption DEF Rows
<1>3. CellIndex(d, q) \in Addr BY <1>2, CellOf
<1>4. vga_set(s, ch, c, r).cells[CellIndex(d, q)]
        = IF CellIndex(d, q) = CellIndex(c, r) THEN ch
                                               ELSE s.cells[CellIndex(d, q)]
  BY <1>1, <1>3 DEF vga_set, Consoles
<1>5. CellIndex(d, q) = CellIndex(c, r) <=> d = c /\ q = r
  BY <1>2, CellsDiffer
<1> QED BY <1>4, <1>5 DEF At

\* vga_scroll moves every row up and leaves the last one blank.
LEMMA ScrollCells ==
  ASSUME NEW s \in Consoles
  PROVE  \A d \in Columns, q \in Rows :
           At(vga_scroll(s), d, q)
             = IF q + 1 < Height THEN At(s, d, q + 1) ELSE Nul
<1> SUFFICES ASSUME NEW d \in Columns, NEW q \in Rows
             PROVE  At(vga_scroll(s), d, q)
                      = IF q + 1 < Height THEN At(s, d, q + 1) ELSE Nul
  OBVIOUS
<1>1. q \in Nat /\ q < Height /\ q + 1 \in Nat BY VgaAssumption DEF Rows
<1>2. /\ CellIndex(d, q) \in Addr
      /\ CellIndex(d, q) + Width = CellIndex(d, q + 1)
      /\ CellIndex(d, q + 1) \in Addr <=> q + 1 < Height
  BY <1>1, CellOf
<1>3. vga_scroll(s).cells[CellIndex(d, q)]
        = IF CellIndex(d, q) + Width \in Addr
          THEN s.cells[CellIndex(d, q) + Width] ELSE Nul
  BY <1>2 DEF vga_scroll, Consoles
<1> QED BY <1>2, <1>3 DEF At

\* A line end on the page goes on to the next row, or scrolls and stays on the
\* last one.
LEMMA NewlineCells ==
  ASSUME RowsFitByte, NEW s \in Consoles, OnScreen(s)
  PROVE  IF s.row + 1 < Height
         THEN /\ vga_newline(s).row = s.row + 1
              /\ vga_newline(s).cells = s.cells
         ELSE /\ vga_newline(s).row = s.row
              /\ vga_newline(s).cells = vga_scroll(s).cells
<1> DEFINE t == vga_pos(s, 0, s.row + 1)
<1>1. s.row \in 0 .. ByteMod - 1 /\ s.row < Height /\ s.row + 1 \in Int
  BY VgaAssumption DEF Consoles, OnScreen
<1>2. t \in Consoles /\ t.row = Byte(s.row + 1) /\ t.cells = s.cells
  BY <1>1, PosEffect
<1>3. t.row = s.row + 1
  <2>1. s.row + 1 \in 0 .. ByteMod - 1
    BY <1>1, VgaAssumption DEF RowsFitByte
  <2> QED BY <2>1, <1>2, ByteSmall
<1>4. vga_newline(s)
        = IF t.row > Height - 1 THEN vga_pos(vga_scroll(t), 0, t.row - 1)
                                ELSE t
  BY DEF vga_newline
<1> HIDE DEF t
<1>5. CASE s.row + 1 < Height
  BY <1>1, <1>2, <1>3, <1>4, <1>5, VgaAssumption
<1>6. CASE ~ s.row + 1 < Height
  <2>1. vga_newline(s) = vga_pos(vga_scroll(t), 0, t.row - 1)
    BY <1>1, <1>3, <1>4, <1>6, VgaAssumption
  <2>2. t.row - 1 = s.row BY <1>1, <1>3
  <2>3. vga_scroll(t) \in Consoles BY <1>2, ScrollEffect
  <2>4. /\ vga_newline(s).row = Byte(s.row)
        /\ vga_newline(s).cells = vga_scroll(t).cells
    BY <1>1, <2>1, <2>2, <2>3, PosEffect
  <2>5. vga_scroll(t).cells = vga_scroll(s).cells
    BY <1>2 DEF vga_scroll, Consoles
  <2> QED BY <1>1, <1>6, <2>4, <2>5, ByteSmall
<1> QED BY <1>5, <1>6

\* The console that vga_put stores the character on: a full row is left first.
Room(s) == IF s.col + 1 >= Width THEN vga_newline(s) ELSE s

\* vga_put stores one character where the cursor stands and steps over it.
LEMMA PutCells ==
  ASSUME NEW s \in Consoles, OnScreen(s), NEW ch \in Chars
  PROVE  /\ Room(s) \in Consoles /\ OnScreen(Room(s)) /\ Room(s).col + 1 < Width
         /\ vga_put(s, ch).col = Room(s).col + 1
         /\ vga_put(s, ch).row = Room(s).row
         /\ \A d \in Columns, q \in Rows :
              At(vga_put(s, ch), d, q)
                = IF d = Room(s).col /\ q = Room(s).row THEN ch
                                                        ELSE At(Room(s), d, q)
<1> DEFINE t == Room(s)
           u == vga_set(t, ch, t.col, t.row)
<1>1. t \in Consoles /\ OnScreen(t) /\ t.col + 1 < Width
  <2>1. CASE s.col + 1 >= Width
    <3>1. t = vga_newline(s) BY <2>1 DEF Room
    <3> QED BY <3>1, NewlineEffect, VgaAssumption DEF OnScreen
  <2>2. CASE ~ s.col + 1 >= Width
    <3>1. t = s BY <2>2 DEF Room
    <3>2. s.col \in Int BY DEF Consoles
    <3> QED BY <2>2, <3>1, <3>2, VgaAssumption
  <2> QED BY <2>1, <2>2
<1>2. vga_put(s, ch) = vga_pos(u, u.col + 1, u.row) BY DEF vga_put, Room
<1> HIDE DEF t
<1>3. t.col \in Columns /\ t.row \in Rows
  BY <1>1, VgaAssumption DEF Consoles, OnScreen, Columns, Rows
<1>4. t.col \in Int /\ t.row \in Int BY <1>1 DEF Consoles
<1>5. /\ u \in Consoles /\ u.col = t.col /\ u.row = t.row
  BY <1>1, <1>4, SetEffect
<1>6. \A d \in Columns, q \in Rows :
        At(u, d, q) = IF d = t.col /\ q = t.row THEN ch ELSE At(t, d, q)
  BY <1>1, <1>3, SetCells
<1> HIDE DEF u
<1>7. /\ vga_put(s, ch).col = Byte(t.col + 1)
      /\ vga_put(s, ch).row = Byte(t.row)
      /\ vga_put(s, ch).cells = u.cells
  BY <1>2, <1>4, <1>5, PosEffect
<1>8. Byte(t.col + 1) = t.col + 1 /\ Byte(t.row) = t.row
  <2>1. t.col + 1 \in 0 .. ByteMod - 1 /\ t.row \in 0 .. ByteMod - 1
    BY <1>1, <1>3, VgaAssumption DEF Columns, Rows
  <2> QED BY <2>1, ByteSmall
<1>9. \A d \in Columns, q \in Rows : At(vga_put(s, ch), d, q) = At(u, d, q)
  BY <1>7 DEF At
<1>10. QED BY <1>1, <1>6, <1>7, <1>8, <1>9 DEF t

\* A row that holds k characters and nothing behind them.
RowHolds(s, r, k) ==
  /\ k \in Columns
  /\ \A c \in Columns : At(s, c, r) # Nul <=> c < k

\* PageShape without cardinalities.
Shaped(s) ==
  /\ OnScreen(s)
  /\ \A r \in Rows :
       \E k \in Columns : /\ RowHolds(s, r, k)
                          /\ r = s.row => k = s.col
                          /\ r > s.row => k = 0

\* Where the scan over a row that holds k characters lands.
LEMMA ScanLands ==
  ASSUME NEW s \in Consoles, NEW r \in Rows, s.row = r,
         NEW k \in Columns, RowHolds(s, r, k),
         NEW view \in RowViews(s), NEW c \in Columns, LandsAt(view, c)
  PROVE  c = IF k <= 1 THEN 0 ELSE k
<1>0. /\ Width \in Nat /\ Width >= 2 /\ k \in Nat /\ k < Width
      /\ c \in Nat /\ c < Width
  BY VgaAssumption DEF Columns
<1>1. \A d \in Columns : view[d] = At(s, d, r)
  <2>1. s.row < Height BY VgaAssumption DEF Rows
  <2> QED BY <2>1 DEF RowViews, At, Columns
<1>2. \A d \in Columns : view[d] # Nul <=> d < k BY <1>1 DEF RowHolds
<1>3. Width - 1 \in Columns BY <1>0 DEF Columns
<1>4. view[Width - 1] = Nul BY <1>0, <1>2, <1>3
<1> DEFINE tested == {d \in 1 .. Width - 2 : view[d] # Nul}
<1>5. \A d \in 1 .. Width - 2 : d \in tested <=> d < k
  <2>1. \A d \in 1 .. Width - 2 : d \in Columns BY <1>0 DEF Columns
  <2> QED BY <1>2, <2>1
<1>6. \/ tested = {} /\ c = 0
      \/ c - 1 \in tested /\ \A d \in tested : d < c
  BY <1>4 DEF LandsAt
<1>7. tested \subseteq 1 .. Width - 2 OBVIOUS
<1> HIDE DEF tested
<1>8. CASE tested = {} /\ c = 0
  <2>1. k > 1 => 1 \in tested BY <1>0, <1>5
  <2> QED BY <1>0, <1>8, <2>1
<1>9. CASE c - 1 \in tested /\ \A d \in tested : d < c
  <2>1. c - 1 \in 1 .. Width - 2 /\ c - 1 < k BY <1>5, <1>7, <1>9
  <2>2. c < k => c \in tested BY <1>0, <1>5, <2>1
  <2>3. ~ c < k BY <1>0, <1>9, <2>2
  <2> QED BY <1>0, <2>1, <2>3
<1> QED BY <1>6, <1>8, <1>9

\* Backspace blanks the cell before the cursor, or goes back to the row above
\* and blanks the cell behind its text, or its only character.
LEMMA BackspaceCells ==
  ASSUME NEW s \in Consoles, Shaped(s), ~ (s.col = 0 /\ s.row = 0),
         NEW t \in Backspace(s)
  PROVE  /\ t \in Consoles /\ OnScreen(t)
         /\ \A d \in Columns, q \in Rows :
              At(t, d, q) = IF d = t.col /\ q = t.row THEN Nul ELSE At(s, d, q)
         /\ s.col > 0 => t.col = s.col - 1 /\ t.row = s.row
         /\ s.col = 0 => /\ t.row = s.row - 1
                         /\ \A k \in Columns :
                              RowHolds(s, s.row - 1, k)
                                => t.col = IF k <= 1 THEN 0 ELSE k
<1>1. t \in Consoles /\ OnScreen(t) BY BackspaceEffect DEF Shaped
<1>2. /\ s.col \in 0 .. ByteMod - 1 /\ s.row \in 0 .. ByteMod - 1
      /\ s.col < Width /\ s.row < Height
  BY DEF Consoles, Shaped, OnScreen
<1>3. ASSUME NEW u \in Consoles, OnScreen(u)
      PROVE  /\ Erase(u).col = u.col /\ Erase(u).row = u.row
             /\ \A d \in Columns, q \in Rows :
                  At(Erase(u), d, q)
                    = IF d = u.col /\ q = u.row THEN Nul ELSE At(u, d, q)
  <2>1. u.col \in Int /\ u.row \in Int BY DEF Consoles
  <2>2. u.col \in Columns /\ u.row \in Rows
    BY <1>3, VgaAssumption DEF Consoles, OnScreen, Columns, Rows
  <2> QED BY <2>1, <2>2, SetEffect, SetCells DEF Erase
<1>4. CASE s.col > 0
  <2> DEFINE u == vga_pos(s, s.col - 1, s.row)
  <2>1. /\ u \in Consoles /\ u.col = Byte(s.col - 1) /\ u.row = Byte(s.row)
        /\ u.cells = s.cells
    BY <1>2, PosEffect
  <2>2. Byte(s.col - 1) = s.col - 1 /\ Byte(s.row) = s.row
    <3>1. s.col - 1 \in 0 .. ByteMod - 1 BY <1>2, <1>4, VgaAssumption
    <3> QED BY <3>1, <1>2, ByteSmall
  <2>3. t = Erase(u) BY <1>4 DEF Backspace
  <2> HIDE DEF u
  <2>4. OnScreen(u) BY <1>2, <2>1, <2>2, VgaAssumption DEF OnScreen
  <2>5. /\ t.col = u.col /\ t.row = u.row
        /\ \A d \in Columns, q \in Rows :
             At(t, d, q) = IF d = u.col /\ q = u.row THEN Nul ELSE At(u, d, q)
    BY <1>3, <2>1, <2>3, <2>4
  <2>6. \A d \in Columns, q \in Rows : At(u, d, q) = At(s, d, q)
    BY <2>1 DEF At
  <2> QED BY <1>1, <1>4, <2>1, <2>2, <2>5, <2>6
<1>5. CASE s.col = 0
  <2> DEFINE up == vga_pos(s, Width - 1, s.row - 1)
  <2>1. s.row - 1 \in 0 .. ByteMod - 1 /\ s.row - 1 \in Rows /\ Width - 1 \in Int
    BY <1>2, <1>5, VgaAssumption DEF Rows
  <2>2. up \in Consoles /\ up.row = s.row - 1 /\ up.cells = s.cells
    BY <2>1, PosEffect, ByteSmall
  <2>3. \E c \in Columns : /\ \E view \in RowViews(up) : LandsAt(view, c)
                           /\ t = Erase(vga_pos(up, c, up.row))
    BY <1>5 DEF Backspace, Columns
  <2> HIDE DEF up
  <2>4. PICK c \in Columns : /\ \E view \in RowViews(up) : LandsAt(view, c)
                             /\ t = Erase(vga_pos(up, c, up.row))
    BY <2>3
  <2>5. PICK view \in RowViews(up) : LandsAt(view, c) BY <2>4
  <2> DEFINE u == vga_pos(up, c, up.row)
  <2>6. c \in 0 .. ByteMod - 1 /\ c \in Int BY VgaAssumption DEF Columns
  <2>7. /\ u \in Consoles /\ u.col = c /\ u.row = s.row - 1
        /\ u.cells = s.cells
    BY <2>1, <2>2, <2>6, PosEffect, ByteSmall
  <2>8. t = Erase(u) BY <2>4
  <2> HIDE DEF u
  <2>9. OnScreen(u)
    BY <1>2, <2>1, <2>6, <2>7, VgaAssumption DEF OnScreen, Columns
  <2>10. /\ t.col = c /\ t.row = s.row - 1
         /\ \A d \in Columns, q \in Rows :
              At(t, d, q) = IF d = u.col /\ q = u.row THEN Nul ELSE At(u, d, q)
    BY <1>3, <2>7, <2>8, <2>9
  <2>11. \A d \in Columns, q \in Rows : At(u, d, q) = At(s, d, q)
    BY <2>7 DEF At
  <2>12. ASSUME NEW k \in Columns, RowHolds(s, s.row - 1, k)
         PROVE  c = IF k <= 1 THEN 0 ELSE k
    <3>1. RowHolds(up, s.row - 1, k) BY <2>2, <2>12 DEF RowHolds, At
    <3> QED BY <2>1, <2>2, <2>5, <3>1, ScanLands
  <2> QED BY <1>1, <1>5, <2>7, <2>10, <2>11, <2>12
<1> QED BY <1>2, <1>4, <1>5

\* How many characters a row holds is one number.
LEMMA RowHoldsOne ==
  ASSUME NEW s, NEW r, NEW k \in Columns, NEW l \in Columns,
         RowHolds(s, r, k), RowHolds(s, r, l)
  PROVE  k = l
<1>1. k \in Int /\ l \in Int BY DEF Columns
<1>2. k < l => FALSE BY <1>1 DEF RowHolds
<1>3. l < k => FALSE BY <1>1 DEF RowHolds
<1> QED BY <1>1, <1>2, <1>3

-----------------------------------------------------------------------------
(* The page stays shaped: every row's text is a prefix of it. *)

\* Equal cells hold equal texts.
LEMMA SameRow ==
  ASSUME NEW s, NEW r, NEW t, NEW q, NEW k,
         \A c \in Columns : At(s, c, r) = At(t, c, q)
  PROVE  RowHolds(s, r, k) <=> RowHolds(t, q, k)
BY DEF RowHolds

\* A blank row.
LEMMA BlankRow ==
  ASSUME NEW s, NEW r, \A c \in Columns : At(s, c, r) = Nul
  PROVE  0 \in Columns /\ RowHolds(s, r, 0)
BY VgaAssumption DEF RowHolds, Columns

LEMMA NewlineShape ==
  ASSUME RowsFitByte, NEW s \in Consoles, Shaped(s)
  PROVE  Shaped(vga_newline(s))
<1> DEFINE t == vga_newline(s)
<1>1. t \in Consoles /\ t.col = 0 /\ OnScreen(t)
  BY NewlineEffect, VgaAssumption DEF Shaped, OnScreen
<1>2. s.row \in 0 .. ByteMod - 1 /\ s.row < Height
  BY DEF Consoles, Shaped, OnScreen
<1>3. IF s.row + 1 < Height
      THEN t.row = s.row + 1 /\ t.cells = s.cells
      ELSE t.row = s.row /\ t.cells = vga_scroll(s).cells
  BY NewlineCells DEF Shaped
<1> HIDE DEF t
<1>4. 0 \in Columns /\ Height \in Nat BY VgaAssumption DEF Columns
<1> SUFFICES ASSUME NEW r \in Rows
             PROVE  \E k \in Columns : /\ RowHolds(t, r, k)
                                       /\ r = t.row => k = t.col
                                       /\ r > t.row => k = 0
  BY <1>1 DEF t, Shaped
<1>5. r \in Nat /\ r < Height BY <1>4 DEF Rows
<1>6. CASE s.row + 1 < Height
  <2>1. PICK k \in Columns : /\ RowHolds(s, r, k)
                             /\ r = s.row => k = s.col
                             /\ r > s.row => k = 0
    BY DEF Shaped
  <2>2. RowHolds(t, r, k)
    <3>1. \A c \in Columns : At(t, c, r) = At(s, c, r) BY <1>3, <1>6 DEF At
    <3> QED BY <2>1, <3>1, SameRow
  <2> QED BY <1>1, <1>2, <1>3, <1>5, <1>6, <2>1, <2>2
<1>7. CASE ~ s.row + 1 < Height
  <2>1. \A c \in Columns :
          At(t, c, r) = IF r + 1 < Height THEN At(s, c, r + 1) ELSE Nul
    <3>1. \A c \in Columns : At(t, c, r) = At(vga_scroll(s), c, r)
      BY <1>3, <1>7 DEF At
    <3> QED BY <3>1, ScrollCells
  <2>2. t.row = s.row /\ s.row + 1 = Height BY <1>2, <1>3, <1>4, <1>7
  <2>3. CASE r + 1 < Height
    <3>1. r + 1 \in Rows BY <1>4, <1>5, <2>3 DEF Rows
    <3>2. PICK k \in Columns : RowHolds(s, r + 1, k) BY <3>1 DEF Shaped
    <3>3. RowHolds(t, r, k) BY <2>1, <2>3, <3>2, SameRow
    <3> QED BY <1>2, <1>5, <2>2, <2>3, <3>3
  <2>4. CASE ~ r + 1 < Height
    <3>1. RowHolds(t, r, 0) BY <2>1, <2>4, BlankRow
    <3> QED BY <1>1, <1>2, <1>4, <1>5, <2>2, <2>4, <3>1
  <2> QED BY <2>3, <2>4
<1> QED BY <1>6, <1>7

\* One character put behind the text of the cursor's row.
LEMMA PutShape ==
  ASSUME RowsFitByte, NEW s \in Consoles, Shaped(s), NEW ch \in Chars
  PROVE  Shaped(Room(s)) /\ Shaped(vga_put(s, ch))
<1> DEFINE t == Room(s)
           v == vga_put(s, ch)
<1>1. Shaped(t)
  <2>1. s.col + 1 >= Width => t = vga_newline(s) BY DEF Room
  <2>2. ~ s.col + 1 >= Width => t = s BY DEF Room
  <2> QED BY <2>1, <2>2, NewlineShape
<1>2. /\ t \in Consoles /\ OnScreen(t) /\ t.col + 1 < Width
      /\ v.col = t.col + 1 /\ v.row = t.row
      /\ \A d \in Columns, q \in Rows :
           At(v, d, q) = IF d = t.col /\ q = t.row THEN ch ELSE At(t, d, q)
  BY PutCells DEF Shaped
<1> HIDE DEF t, v
<1>3. t.col \in Int /\ t.row \in Int /\ t.col >= 0 /\ t.col + 1 \in Columns
  BY <1>2, VgaAssumption DEF Consoles, Columns
<1>4. ch # Nul BY VgaAssumption
<1>5. OnScreen(v) BY <1>2 DEF OnScreen
<1>6. ASSUME NEW r \in Rows
      PROVE  \E k \in Columns : /\ RowHolds(v, r, k)
                                /\ r = v.row => k = v.col
                                /\ r > v.row => k = 0
  <2>1. PICK k \in Columns : /\ RowHolds(t, r, k)
                             /\ r = t.row => k = t.col
                             /\ r > t.row => k = 0
    BY <1>1 DEF Shaped
  <2>2. CASE r = t.row
    <3>1. \A c \in Columns : At(v, c, r) = IF c = t.col THEN ch ELSE At(t, c, r)
      BY <1>2, <2>2
    <3>2. \A c \in Columns : At(t, c, r) # Nul <=> c < t.col
      BY <2>1, <2>2 DEF RowHolds
    <3>3. \A c \in Columns : At(v, c, r) # Nul <=> c < t.col + 1
      BY <1>3, <1>4, <3>1, <3>2 DEF Columns
    <3>4. RowHolds(v, r, t.col + 1) BY <1>3, <3>3 DEF RowHolds
    <3> QED BY <1>2, <1>3, <2>2, <3>4
  <2>3. CASE r # t.row
    <3>1. \A c \in Columns : At(v, c, r) = At(t, c, r) BY <1>2, <2>3
    <3>2. RowHolds(v, r, k) BY <2>1, <3>1, SameRow
    <3> QED BY <1>2, <2>1, <2>3, <3>2
  <2> QED BY <2>2, <2>3
<1>7. Shaped(v) BY <1>5, <1>6 DEF Shaped
<1> QED BY <1>1, <1>7 DEF t, v

LEMMA BackspaceShape ==
  ASSUME NEW s \in Consoles, Shaped(s), ~ (s.col = 0 /\ s.row = 0),
         NEW t \in Backspace(s)
  PROVE  Shaped(t)
<1>1. /\ t \in Consoles /\ OnScreen(t)
      /\ \A d \in Columns, q \in Rows :
           At(t, d, q) = IF d = t.col /\ q = t.row THEN Nul ELSE At(s, d, q)
      /\ s.col > 0 => t.col = s.col - 1 /\ t.row = s.row
      /\ s.col = 0 => /\ t.row = s.row - 1
                      /\ \A k \in Columns :
                           RowHolds(s, s.row - 1, k)
                             => t.col = IF k <= 1 THEN 0 ELSE k
  BY BackspaceCells
<1>2. /\ s.col \in Nat /\ s.row \in Nat /\ s.col < Width /\ s.row < Height
      /\ t.col \in Nat /\ t.row \in Nat
  BY <1>1, VgaAssumption DEF Consoles, Shaped, OnScreen
<1>3. Width \in Nat /\ Height \in Nat /\ t.col \in Columns
  BY <1>1, <1>2, VgaAssumption DEF OnScreen, Columns
<1> SUFFICES ASSUME NEW r \in Rows
             PROVE  \E k \in Columns : /\ RowHolds(t, r, k)
                                       /\ r = t.row => k = t.col
                                       /\ r > t.row => k = 0
  BY <1>1 DEF Shaped
<1>4. r \in Nat BY VgaAssumption DEF Rows
<1>5. PICK k \in Columns : /\ RowHolds(s, r, k)
                           /\ r = s.row => k = s.col
                           /\ r > s.row => k = 0
  BY DEF Shaped
<1>6. k \in Nat BY <1>3 DEF Columns
<1>7. CASE r # t.row
  <2>1. \A c \in Columns : At(t, c, r) = At(s, c, r) BY <1>1, <1>7
  <2>2. RowHolds(t, r, k) BY <1>5, <2>1, SameRow
  <2>3. r > t.row => k = 0
    <3> SUFFICES ASSUME r > t.row PROVE k = 0 OBVIOUS
    <3>1. CASE s.col > 0 BY <1>1, <1>2, <1>4, <1>5, <3>1
    <3>2. CASE s.col = 0 BY <1>1, <1>2, <1>4, <1>5, <3>2
    <3> QED BY <1>2, <3>1, <3>2
  <2> QED BY <1>7, <2>2, <2>3
<1>8. CASE r = t.row
  <2>1. \A c \in Columns : At(t, c, r) = IF c = t.col THEN Nul ELSE At(s, c, r)
    BY <1>1, <1>8
  <2>2. \A c \in Columns : At(s, c, r) # Nul <=> c < k BY <1>5 DEF RowHolds
  <2>3. t.col = k \/ t.col + 1 = k
    <3>1. CASE s.col > 0 BY <1>1, <1>2, <1>5, <1>8, <3>1
    <3>2. CASE s.col = 0
      <4>1. t.col = IF k <= 1 THEN 0 ELSE k BY <1>1, <1>5, <1>8, <3>2
      <4> QED BY <1>6, <4>1
    <3> QED BY <1>2, <3>1, <3>2
  <2>4. \A c \in Columns : At(t, c, r) # Nul <=> c < t.col
    BY <1>2, <1>6, <2>1, <2>2, <2>3 DEF Columns
  <2>5. RowHolds(t, r, t.col) BY <1>3, <2>4 DEF RowHolds
  <2> QED BY <1>2, <1>3, <1>4, <1>8, <2>5
<1> QED BY <1>7, <1>8

LEMMA ClearedShape == Shaped(Cleared)
<1> SUFFICES ASSUME NEW r \in Rows PROVE RowHolds(Cleared, r, 0)
  BY ClearedType, VgaAssumption DEF Shaped, Cleared, Columns, Rows
<1>1. r \in Nat /\ r < Height BY VgaAssumption DEF Rows
<1>2. ASSUME NEW c \in Columns PROVE At(Cleared, c, r) = Nul
  <2>1. CellIndex(c, r) \in Addr BY <1>1, CellOf
  <2> QED BY <2>1 DEF At, Cleared
<1> QED BY <1>2, BlankRow

\* PageShape is Shaped, with the lengths of the texts counted.
LEMMA TextOfRow ==
  ASSUME NEW s, NEW r, NEW k \in Columns, RowHolds(s, r, k)
  PROVE  /\ {c \in Columns : At(s, c, r) # Nul} = 0 .. k - 1
         /\ Cardinality({c \in Columns : At(s, c, r) # Nul}) = k
<1>1. k \in Nat /\ k < Width /\ Width \in Nat BY VgaAssumption DEF Columns
<1>2. {c \in Columns : At(s, c, r) # Nul} = 0 .. k - 1
  <2>1. \A c \in Columns : At(s, c, r) # Nul <=> c < k BY DEF RowHolds
  <2>2. \A c \in 0 .. k - 1 : c \in Columns BY <1>1 DEF Columns
  <2> QED BY <1>1, <2>1, <2>2 DEF Columns
<1>3. Cardinality(0 .. k - 1) = k
  <2>1. 0 \in Int /\ k - 1 \in Int BY <1>1
  <2>2. Cardinality(0 .. k - 1) = IF 0 > k - 1 THEN 0 ELSE k - 1 - 0 + 1
    BY <2>1, FS_Interval
  <2> QED BY <1>1, <2>2
<1> QED BY <1>2, <1>3

\* The invariant that PageShape follows from, of the users it is about.
ShapeInv == TypeOK /\ (Plain => Shaped(vga))

LEMMA ShapeInit == Init => ShapeInv
<1>1. Init => TypeOK BY ClearedType DEF Init, TypeOK
<1> QED BY <1>1, ClearedShape DEF Init, ShapeInv

LEMMA ShapeStep ==
  ASSUME RowsFitByte, ShapeInv, [Next]_vars
  PROVE  ShapeInv'
<1>1. TypeOK' BY TypeStep DEF ShapeInv
<1>2. user' = user BY DEF Next, vars
<1> SUFFICES ASSUME Plain PROVE Shaped(vga')
  BY <1>1, <1>2 DEF ShapeInv, Plain
<1>3. vga \in Consoles /\ Shaped(vga) BY DEF ShapeInv, TypeOK
<1>4. ASSUME NEW ch \in user.chars, Put(ch) PROVE Shaped(vga')
  <2>1. ch \in Chars BY ConsoleAssumption DEF ShapeInv, TypeOK
  <2> QED BY <1>3, <1>4, <2>1, PutShape DEF Put
<1>5. CASE NewLine BY <1>3, <1>5, NewlineShape DEF NewLine
<1>6. ASSUME NEW key \in user.keys, Press(key) PROVE Shaped(vga')
  <2>1. CASE key = "enter"
    <3>1. vga' = vga_newline(vga) BY <1>6, <2>1 DEF Press, KeyOutcomes
    <3> QED BY <1>3, <3>1, NewlineShape
  <2>2. CASE key = "backspace"
    <3>1. vga' \in Backspace(vga) /\ ~ (vga.col = 0 /\ vga.row = 0)
      BY <1>6, <2>2 DEF Press, KeyOutcomes, AtOrigin, Plain
    <3> QED BY <1>3, <3>1, BackspaceShape
  <2> QED BY <1>6, <2>1, <2>2 DEF Plain
<1>7. CASE UNCHANGED vars BY <1>3, <1>7 DEF vars
<1> QED BY <1>4, <1>5, <1>6, <1>7 DEF Next

\* For a user who types characters, Enter and Backspace, the latter not in the
\* top left cell, scrolling, wrapping and erasing leave no hole in a row, no
\* stale character behind its text and nothing below the cursor (put.c,
\* newline.c, scroll.c, kbd_mouse.c:161-183).
THEOREM PageKeepsShape ==
  ASSUME RowsFitByte
  PROVE  Spec => []PageShape
<1>1. ShapeInv => PageShape
  <2> SUFFICES ASSUME ShapeInv, Plain, OnPage, NEW r \in 0 .. Height - 1
               PROVE  LET text == {c \in 0 .. Width - 1 : CellAt(c, r) # Nul}
                      IN  /\ text = 0 .. Cardinality(text) - 1
                          /\ Cardinality(text) < Width
                          /\ r = vga.row => Cardinality(text) = vga.col
                          /\ r > vga.row => text = {}
    BY DEF PageShape
  <2> DEFINE text == {c \in 0 .. Width - 1 : CellAt(c, r) # Nul}
  <2>1. PICK k \in Columns : /\ RowHolds(vga, r, k)
                             /\ r = vga.row => k = vga.col
                             /\ r > vga.row => k = 0
    BY DEF ShapeInv, Shaped, Rows
  <2>2. text = {c \in Columns : At(vga, c, r) # Nul} BY DEF CellAt, At, Columns
  <2>3. text = 0 .. k - 1 /\ Cardinality(text) = k BY <2>1, <2>2, TextOfRow
  <2>4. k \in Nat /\ k < Width BY VgaAssumption DEF Columns
  <2> HIDE DEF text
  <2>5. k = 0 => text = {} BY <2>3
  <2>6. /\ text = 0 .. Cardinality(text) - 1
        /\ Cardinality(text) < Width
        /\ r = vga.row => Cardinality(text) = vga.col
        /\ r > vga.row => text = {}
    BY <2>1, <2>3, <2>4, <2>5
  <2> QED BY <2>6 DEF text
<1> QED BY <1>1, ShapeInit, ShapeStep, PTL DEF Spec

-----------------------------------------------------------------------------
(* Below the page. *)

ShownOn(s) == {i \in Addr : s.cells[i] # Nul}

\* Scrolling never adds a character to the page.
LEMMA ScrollShows ==
  ASSUME NEW s \in Consoles
  PROVE  Cardinality(ShownOn(vga_scroll(s))) <= Cardinality(ShownOn(s))
<1> DEFINE before == ShownOn(s)
           after == ShownOn(vga_scroll(s))
           up == [i \in after |-> i + Width]
<1>1. Width \in Nat /\ Width * Height \in Nat BY VgaAssumption
<1>2. IsFiniteSet(before)
  <2>1. IsFiniteSet(Addr) BY <1>1, FS_Interval DEF Addr
  <2>2. before \in SUBSET Addr BY DEF ShownOn
  <2> QED BY <2>1, <2>2, FS_Subset
<1>3. \A i \in Addr :
        vga_scroll(s).cells[i]
          = IF i + Width \in Addr THEN s.cells[i + Width] ELSE Nul
  BY DEF vga_scroll, Consoles
<1>4. \A i \in after : i \in Int /\ i + Width \in before
  BY <1>3 DEF ShownOn, Addr
<1> HIDE DEF before, after
<1>5. up \in [after -> before] BY <1>4
<1>6. \A i, j \in after : up[i] = up[j] => i = j BY <1>1, <1>4
<1> HIDE DEF up
<1>7. up \in Injection(after, before)
  BY <1>5, <1>6 DEF Injection, IsInjective
<1>8. Cardinality(after) <= Cardinality(before)
  BY <1>2, <1>7, FS_Injection
<1> QED BY <1>8 DEF before, after

\* A line end below the page scrolls it and keeps the row.
LEMMA NewlineBelow ==
  ASSUME NEW s \in Consoles, s.row >= Height, s.row + 1 < ByteMod
  PROVE  /\ vga_newline(s).row = s.row
         /\ vga_newline(s).cells = vga_scroll(s).cells
<1> DEFINE t == vga_pos(s, 0, s.row + 1)
<1>1. s.row \in 0 .. ByteMod - 1 /\ s.row + 1 \in 0 .. ByteMod - 1
  BY VgaAssumption DEF Consoles
<1>2. t \in Consoles /\ t.row = s.row + 1 /\ t.cells = s.cells
  BY <1>1, PosEffect, ByteSmall
<1>3. vga_newline(s)
        = IF t.row > Height - 1 THEN vga_pos(vga_scroll(t), 0, t.row - 1)
                                ELSE t
  BY DEF vga_newline
<1> HIDE DEF t
<1>4. vga_newline(s) = vga_pos(vga_scroll(t), 0, t.row - 1)
  BY <1>1, <1>2, <1>3, VgaAssumption
<1>5. t.row - 1 = s.row BY <1>1, <1>2
<1>6. vga_scroll(t) \in Consoles BY <1>2, ScrollEffect
<1>7. /\ vga_newline(s).row = Byte(s.row)
      /\ vga_newline(s).cells = vga_scroll(t).cells
  BY <1>1, <1>4, <1>5, <1>6, PosEffect
<1>8. vga_scroll(t).cells = vga_scroll(s).cells
  BY <1>2 DEF vga_scroll, Consoles
<1> QED BY <1>1, <1>7, <1>8, ByteSmall

\* Once a cursor key has taken the cursor below the page, whatever is printed
\* is stored outside it, and each line end scrolls the page without moving the
\* cursor up (put.c, newline.c), the last row of the byte range excepted.
THEOREM PrintsBelowAreLost == Spec => PrintsBelowPageAreLost
<1> DEFINE lost ==
      vga.row >= Height /\ vga.row + 1 < ByteMod
        /\ (NewLine \/ \E ch \in Chars : Put(ch))
      => vga'.row = vga.row /\ Shown' <= Shown
<1>1. Init => TypeOK BY ClearedType DEF Init, TypeOK
<1>2. TypeOK => [lost]_vars
  <2> SUFFICES ASSUME TypeOK, vga.row >= Height, vga.row + 1 < ByteMod,
                      NewLine \/ \E ch \in Chars : Put(ch)
               PROVE  vga'.row = vga.row /\ Shown' <= Shown
    OBVIOUS
  <2>1. vga \in Consoles BY DEF TypeOK
  <2>2. Shown = Cardinality(ShownOn(vga)) /\ Shown' = Cardinality(ShownOn(vga'))
    BY DEF Shown, ShownOn
  <2>3. Cardinality(ShownOn(vga)) \in Int
    <3>1. IsFiniteSet(Addr) BY VgaAssumption, FS_Interval DEF Addr
    <3>2. ShownOn(vga) \in SUBSET Addr BY DEF ShownOn
    <3> QED BY <3>1, <3>2, FS_Subset, FS_CardinalityType
  <2> DEFINE n == vga_newline(vga)
  <2>4. /\ n \in Consoles /\ n.row = vga.row
        /\ Cardinality(ShownOn(n)) <= Cardinality(ShownOn(vga))
    <3>1. n.cells = vga_scroll(vga).cells BY <2>1, NewlineBelow
    <3>2. ShownOn(n) = ShownOn(vga_scroll(vga)) BY <3>1 DEF ShownOn
    <3> QED BY <2>1, <3>2, NewlineBelow, NewlineEffect, ScrollShows
  <2>5. CASE NewLine BY <2>2, <2>4, <2>5 DEF NewLine
  <2>6. ASSUME NEW ch \in Chars, Put(ch)
        PROVE  vga'.row = vga.row /\ Shown' <= Shown
    <3> DEFINE t == Room(vga)
               u == vga_set(t, ch, t.col, t.row)
    <3>1. /\ t \in Consoles /\ t.row = vga.row
          /\ Cardinality(ShownOn(t)) <= Cardinality(ShownOn(vga))
      BY <2>1, <2>3, <2>4 DEF Room
    <3>2. vga' = vga_pos(u, u.col + 1, u.row)
      BY <2>6 DEF Put, vga_put, Room
    <3> HIDE DEF n, t
    <3>3. /\ t.col \in 0 .. ByteMod - 1 /\ t.row \in 0 .. ByteMod - 1
          /\ Byte(t.col) = t.col /\ Byte(t.row) = t.row
      BY <3>1, ByteSmall DEF Consoles
    <3>4. CellIndex(t.col, t.row) \notin Addr
      <4>1. t.row * Width >= Height * Width
        BY <2>1, <3>1, VgaAssumption DEF Consoles
      <4>2. Height * Width = Width * Height /\ Width * Height \in Nat
        BY VgaAssumption
      <4>3. t.row * Width \in Int BY <3>3, VgaAssumption
      <4> QED BY <3>3, <4>1, <4>2, <4>3 DEF CellIndex, Addr
    <3>5. u.cells = t.cells
      <4>1. u.cells = [i \in Addr |-> IF i = CellIndex(t.col, t.row)
                                      THEN ch ELSE t.cells[i]]
        BY <3>1, <3>3 DEF vga_set, Consoles
      <4>2. t.cells \in [Addr -> Chars \cup {Nul}] BY <3>1 DEF Consoles
      <4> QED BY <3>4, <4>1, <4>2
    <3>6. u \in Consoles /\ u.row = t.row /\ u.col = t.col
      BY <3>1, <3>3, SetEffect
    <3> HIDE DEF u
    <3>7. vga'.row = Byte(u.row) /\ vga'.cells = u.cells
      BY <3>2, <3>3, <3>6, PosEffect
    <3>8. ShownOn(vga') = ShownOn(t) BY <3>5, <3>7 DEF ShownOn
    <3> QED BY <2>2, <3>1, <3>3, <3>6, <3>7, <3>8
  <2> QED BY <2>5, <2>6
<1>3. Spec => [][lost]_vars
  BY <1>1, <1>2, TypeStep, PTL DEF Spec
<1> QED BY <1>3 DEF PrintsBelowPageAreLost

-----------------------------------------------------------------------------
(* The console implements the terminal: pages as sequences of lines. *)

LineIn(s, r) ==
  [c \in 1 .. Cardinality({d \in Columns : At(s, d, r) # Nul}) |->
     At(s, c - 1, r)]

PageIn(s) == [i \in 1 .. s.row + 1 |-> LineIn(s, i - 1)]

Lines == Seq(Chars)

\* The line of a row that holds k characters.
LEMMA LineOfRow ==
  ASSUME NEW s \in Consoles, NEW r \in Rows, NEW k \in Columns,
         RowHolds(s, r, k)
  PROVE  /\ LineIn(s, r) = [c \in 1 .. k |-> At(s, c - 1, r)]
         /\ LineIn(s, r) \in Lines /\ Len(LineIn(s, r)) = k
<1>1. LineIn(s, r) = [c \in 1 .. k |-> At(s, c - 1, r)]
  BY TextOfRow DEF LineIn
<1>2. k \in Nat /\ k < Width /\ Width \in Nat BY VgaAssumption DEF Columns
<1>3. ASSUME NEW c \in 1 .. k PROVE At(s, c - 1, r) \in Chars
  <2>1. c - 1 \in Columns /\ c - 1 < k BY <1>2 DEF Columns
  <2>2. r \in Nat /\ r < Height BY VgaAssumption DEF Rows
  <2>3. CellIndex(c - 1, r) \in Addr BY <2>1, <2>2, CellOf
  <2>4. At(s, c - 1, r) \in Chars \cup {Nul} BY <2>3 DEF At, Consoles
  <2> QED BY <2>1, <2>4 DEF RowHolds
<1>4. [c \in 1 .. k |-> At(s, c - 1, r)] \in [1 .. k -> Chars] BY <1>3
<1> QED BY <1>1, <1>2, <1>4 DEF Lines

\* Rows with equal cells make equal lines.
LEMMA SameLine ==
  ASSUME NEW s \in Consoles, NEW t \in Consoles,
         NEW r \in Rows, NEW q \in Rows, NEW k \in Columns, RowHolds(s, r, k),
         \A c \in Columns : At(t, c, q) = At(s, c, r)
  PROVE  LineIn(t, q) = LineIn(s, r)
<1>1. RowHolds(t, q, k) BY SameRow
<1>2. /\ LineIn(s, r) = [c \in 1 .. k |-> At(s, c - 1, r)]
      /\ LineIn(t, q) = [c \in 1 .. k |-> At(t, c - 1, q)]
  BY <1>1, LineOfRow
<1>3. \A c \in 1 .. k : At(t, c - 1, q) = At(s, c - 1, r)
  <2>1. \A c \in 1 .. k : c - 1 \in Columns BY VgaAssumption DEF Columns
  <2> QED BY <2>1
<1> QED BY <1>2, <1>3

\* The page of a shaped console: its last line ends at the cursor.
LEMMA PageOfShaped ==
  ASSUME NEW s \in Consoles, Shaped(s)
  PROVE  /\ s.row \in Nat /\ s.row + 1 <= Height /\ s.row \in Rows
         /\ PageIn(s) \in Seq(Lines) /\ Len(PageIn(s)) = s.row + 1
         /\ \A i \in 1 .. s.row + 1 : PageIn(s)[i] = LineIn(s, i - 1)
         /\ Len(LineIn(s, s.row)) = s.col
         /\ s.col \in Columns /\ RowHolds(s, s.row, s.col)
<1>1. s.row \in Nat /\ s.row < Height /\ Height \in Nat
  BY VgaAssumption DEF Consoles, Shaped, OnScreen
<1>2. s.row \in Rows BY <1>1 DEF Rows
<1>3. s.col \in Columns /\ RowHolds(s, s.row, s.col) BY <1>2 DEF Shaped
<1>4. Len(LineIn(s, s.row)) = s.col BY <1>2, <1>3, LineOfRow
<1>5. ASSUME NEW i \in 1 .. s.row + 1 PROVE LineIn(s, i - 1) \in Lines
  <2>1. i - 1 \in Rows BY <1>1 DEF Rows
  <2>2. PICK k \in Columns : RowHolds(s, i - 1, k) BY <2>1 DEF Shaped
  <2> QED BY <2>1, <2>2, LineOfRow
<1>6. PageIn(s) \in [1 .. s.row + 1 -> Lines] BY <1>5 DEF PageIn
<1>7. s.row + 1 \in Nat BY <1>1
<1>8. PageIn(s) \in Seq(Lines) /\ Len(PageIn(s)) = s.row + 1
  BY <1>6, <1>7
<1>9. \A i \in 1 .. s.row + 1 : PageIn(s)[i] = LineIn(s, i - 1)
  BY DEF PageIn
<1> QED BY <1>1, <1>2, <1>3, <1>4, <1>8, <1>9

\* A line added to a page, and what is kept of it.
LEMMA FitAppend ==
  ASSUME NEW p \in Seq(Lines), NEW l \in Lines, Len(p) <= Height
  PROVE  /\ Text!Fit(Append(p, l)) \in Seq(Lines)
         /\ IF Len(p) < Height
            THEN /\ Len(Text!Fit(Append(p, l))) = Len(p) + 1
                 /\ \A i \in 1 .. Len(p) : Text!Fit(Append(p, l))[i] = p[i]
                 /\ Text!Fit(Append(p, l))[Len(p) + 1] = l
            ELSE /\ Len(Text!Fit(Append(p, l))) = Len(p)
                 /\ \A i \in 1 .. Len(p) - 1 :
                      Text!Fit(Append(p, l))[i] = p[i + 1]
                 /\ Text!Fit(Append(p, l))[Len(p)] = l
<1> DEFINE a == Append(p, l)
<1>1. /\ a \in Seq(Lines) /\ a # << >> /\ Len(a) = Len(p) + 1
      /\ \A i \in 1 .. Len(p) : a[i] = p[i]
      /\ a[Len(p) + 1] = l
  BY AppendProperties
<1>2. Len(p) \in Nat /\ Height \in Nat BY VgaAssumption
<1> HIDE DEF a
<1>3. Text!Fit(a) = IF Len(a) > Height THEN Tail(a) ELSE a BY DEF Text!Fit
<1>4. CASE Len(p) < Height
  <2>1. Text!Fit(a) = a BY <1>1, <1>2, <1>3, <1>4
  <2>2. /\ Text!Fit(a) \in Seq(Lines) /\ Len(Text!Fit(a)) = Len(p) + 1
        /\ \A i \in 1 .. Len(p) : Text!Fit(a)[i] = p[i]
        /\ Text!Fit(a)[Len(p) + 1] = l
    BY <1>1, <2>1
  <2> QED BY <1>4, <2>2 DEF a
<1>5. CASE ~ Len(p) < Height
  <2>1. Text!Fit(a) = Tail(a) BY <1>1, <1>2, <1>3, <1>5
  <2>2. /\ Tail(a) \in Seq(Lines) /\ Len(Tail(a)) = Len(a) - 1
        /\ \A i \in 1 .. Len(Tail(a)) : Tail(a)[i] = a[i + 1]
    BY <1>1, HeadTailProperties
  <2>3. \A i \in 1 .. Len(p) - 1 : Tail(a)[i] = p[i + 1]
    <3> SUFFICES ASSUME NEW i \in 1 .. Len(p) - 1 PROVE Tail(a)[i] = p[i + 1]
      OBVIOUS
    <3>1. i \in 1 .. Len(Tail(a)) /\ i + 1 \in 1 .. Len(p) BY <1>1, <1>2, <2>2
    <3> QED BY <3>1, <1>1, <2>2
  <2>4. Len(p) >= 1 BY <1>2, <1>5, VgaAssumption
  <2>5. Tail(a)[Len(p)] = l BY <1>1, <1>2, <2>2, <2>4
  <2>6. /\ Text!Fit(a) \in Seq(Lines) /\ Len(Text!Fit(a)) = Len(p)
        /\ \A i \in 1 .. Len(p) - 1 : Text!Fit(a)[i] = p[i + 1]
        /\ Text!Fit(a)[Len(p)] = l
    <3>1. Len(Tail(a)) = Len(p) BY <1>1, <1>2, <2>2
    <3> QED BY <2>1, <2>2, <2>3, <2>5, <3>1
  <2> QED BY <1>5, <2>6 DEF a
<1> QED BY <1>4, <1>5

\* A line end adds an empty line.
LEMMA NewlinePage ==
  ASSUME RowsFitByte, NEW s \in Consoles, Shaped(s)
  PROVE  PageIn(vga_newline(s)) = Text!Fit(Append(PageIn(s), << >>))
<1> DEFINE t == vga_newline(s)
           p == PageIn(s)
           q == PageIn(t)
           f == Text!Fit(Append(p, << >>))
<1>1. t \in Consoles /\ Shaped(t) /\ t.col = 0
  BY NewlineEffect, NewlineShape
<1>2. IF s.row + 1 < Height
      THEN t.row = s.row + 1 /\ t.cells = s.cells
      ELSE t.row = s.row /\ t.cells = vga_scroll(s).cells
  BY NewlineCells DEF Shaped
<1>3. \A d \in Columns, r \in Rows :
        At(vga_scroll(s), d, r) = IF r + 1 < Height THEN At(s, d, r + 1) ELSE Nul
  BY ScrollCells
<1> HIDE DEF t
<1>4. /\ s.row \in Nat /\ s.row + 1 <= Height
      /\ p \in Seq(Lines) /\ Len(p) = s.row + 1
      /\ \A i \in 1 .. s.row + 1 : p[i] = LineIn(s, i - 1)
  BY PageOfShaped
<1>5. /\ t.row \in Rows /\ q \in Seq(Lines) /\ Len(q) = t.row + 1
      /\ \A i \in 1 .. t.row + 1 : q[i] = LineIn(t, i - 1)
      /\ RowHolds(t, t.row, 0) /\ 0 \in Columns
  BY <1>1, PageOfShaped
<1>6. << >> \in Lines BY DEF Lines
<1>7. LineIn(t, t.row) = << >>
  <2>1. LineIn(t, t.row) = [c \in 1 .. 0 |-> At(t, c - 1, t.row)]
    BY <1>1, <1>5, LineOfRow
  <2> QED BY <2>1
<1> HIDE DEF p, q
<1>8. /\ f \in Seq(Lines)
      /\ IF Len(p) < Height
         THEN /\ Len(f) = Len(p) + 1
              /\ \A i \in 1 .. Len(p) : f[i] = p[i]
              /\ f[Len(p) + 1] = << >>
         ELSE /\ Len(f) = Len(p)
              /\ \A i \in 1 .. Len(p) - 1 : f[i] = p[i + 1]
              /\ f[Len(p)] = << >>
  BY <1>4, <1>6, FitAppend
<1> HIDE DEF f
<1>9. Height \in Nat BY VgaAssumption
<1>10. \A r \in Rows : \E k \in Columns : RowHolds(s, r, k) BY DEF Shaped
<1>11. CASE s.row + 1 < Height
  <2>1. Len(q) = Len(f) /\ Len(f) = s.row + 2 /\ t.row = s.row + 1
    BY <1>2, <1>4, <1>5, <1>8, <1>11
  <2>2. ASSUME NEW i \in 1 .. Len(f) PROVE q[i] = f[i]
    <3>1. CASE i = s.row + 2
      <4>1. i \in 1 .. t.row + 1 /\ i - 1 = t.row BY <1>4, <2>1, <3>1
      <4>2. q[i] = << >> BY <1>5, <1>7, <4>1
      <4>3. f[Len(p) + 1] = << >> BY <1>4, <1>8, <1>11
      <4>4. i = Len(p) + 1 BY <1>4, <3>1
      <4> QED BY <4>2, <4>3, <4>4
    <3>2. CASE i # s.row + 2
      <4>1. /\ i \in 1 .. s.row + 1 /\ i \in 1 .. t.row + 1
            /\ i - 1 \in Rows
        BY <1>4, <1>9, <2>1, <3>2 DEF Rows
      <4>2. PICK k \in Columns : RowHolds(s, i - 1, k) BY <1>10, <4>1
      <4>3. \A c \in Columns : At(t, c, i - 1) = At(s, c, i - 1)
        BY <1>2, <1>11 DEF At
      <4>4. LineIn(t, i - 1) = LineIn(s, i - 1)
        BY <1>1, <4>1, <4>2, <4>3, SameLine
      <4>5. f[i] = p[i] BY <1>4, <1>8, <1>11, <4>1
      <4> QED BY <1>4, <1>5, <4>1, <4>4, <4>5
    <3> QED BY <3>1, <3>2
  <2>3. q = f BY <1>5, <1>8, <2>1, <2>2, SeqEqual
  <2> QED BY <2>3 DEF q, f, p, t
<1>12. CASE ~ s.row + 1 < Height
  <2>1. /\ Len(q) = Len(f) /\ Len(f) = s.row + 1 /\ t.row = s.row
        /\ s.row + 1 = Height
    BY <1>2, <1>4, <1>5, <1>8, <1>9, <1>12
  <2>2. ASSUME NEW i \in 1 .. Len(f) PROVE q[i] = f[i]
    <3>1. CASE i = s.row + 1
      <4>1. i \in 1 .. t.row + 1 /\ i - 1 = t.row BY <1>4, <2>1, <3>1
      <4>2. q[i] = << >> BY <1>5, <1>7, <4>1
      <4>3. f[Len(p)] = << >> BY <1>4, <1>8, <1>12
      <4>4. i = Len(p) BY <1>4, <3>1
      <4> QED BY <4>2, <4>3, <4>4
    <3>2. CASE i # s.row + 1
      <4>1. /\ i \in 1 .. Len(p) - 1 /\ i + 1 \in 1 .. s.row + 1
            /\ i \in 1 .. t.row + 1 /\ i - 1 \in Rows /\ i \in Rows
            /\ i - 1 + 1 = i /\ i < Height
        BY <1>4, <1>9, <2>1, <3>2 DEF Rows
      <4>2. PICK k \in Columns : RowHolds(s, i, k) BY <1>10, <4>1
      <4>3. \A c \in Columns : At(t, c, i - 1) = At(s, c, i)
        <5>1. \A c \in Columns : At(t, c, i - 1) = At(vga_scroll(s), c, i - 1)
          BY <1>2, <1>12 DEF At
        <5>2. \A c \in Columns : At(vga_scroll(s), c, i - 1) = At(s, c, i)
          BY <1>3, <4>1
        <5> QED BY <5>1, <5>2
      <4>4. LineIn(t, i - 1) = LineIn(s, i)
        BY <1>1, <4>1, <4>2, <4>3, SameLine
      <4>5. f[i] = p[i + 1] BY <1>4, <1>8, <1>12, <4>1
      <4>6. p[i + 1] = LineIn(s, i)
        <5>1. p[i + 1] = LineIn(s, i + 1 - 1) BY <1>4, <4>1
        <5>2. i + 1 - 1 = i BY <4>1
        <5> QED BY <5>1, <5>2
      <4> QED BY <1>5, <4>1, <4>4, <4>5, <4>6
    <3> QED BY <3>1, <3>2
  <2>3. q = f BY <1>5, <1>8, <2>1, <2>2, SeqEqual
  <2> QED BY <2>3 DEF q, f, p, t
<1> QED BY <1>11, <1>12

\* A character with room for it goes to the end of the last line.
LEMMA PutPage ==
  ASSUME RowsFitByte, NEW s \in Consoles, Shaped(s), NEW ch \in Chars
  PROVE  LET p == PageIn(Room(s))
         IN  PageIn(vga_put(s, ch)) = [p EXCEPT ![Len(p)] = Append(@, ch)]
<1> DEFINE t == Room(s)
           v == vga_put(s, ch)
           p == PageIn(t)
           q == PageIn(v)
           line == Append(LineIn(t, t.row), ch)
           f == [p EXCEPT ![Len(p)] = Append(@, ch)]
<1>1. /\ t \in Consoles /\ Shaped(t) /\ v.col = t.col + 1 /\ v.row = t.row
      /\ \A d \in Columns, r \in Rows :
           At(v, d, r) = IF d = t.col /\ r = t.row THEN ch ELSE At(t, d, r)
  BY PutCells, PutShape DEF Shaped
<1>2. v \in Consoles /\ Shaped(v) BY PutEffect, PutShape
<1> HIDE DEF t, v
<1>3. /\ t.row \in Nat /\ t.row \in Rows
      /\ p \in Seq(Lines) /\ Len(p) = t.row + 1
      /\ \A i \in 1 .. t.row + 1 : p[i] = LineIn(t, i - 1)
      /\ Len(LineIn(t, t.row)) = t.col
      /\ t.col \in Columns /\ RowHolds(t, t.row, t.col)
  BY <1>1, PageOfShaped
<1>4. /\ q \in Seq(Lines) /\ Len(q) = t.row + 1
      /\ \A i \in 1 .. t.row + 1 : q[i] = LineIn(v, i - 1)
      /\ t.col + 1 \in Columns /\ RowHolds(v, t.row, t.col + 1)
  BY <1>1, <1>2, PageOfShaped
<1>5. t.col \in Nat BY VgaAssumption, <1>3 DEF Columns
<1>6. /\ LineIn(t, t.row) = [c \in 1 .. t.col |-> At(t, c - 1, t.row)]
      /\ LineIn(t, t.row) \in Lines
      /\ LineIn(v, t.row) = [c \in 1 .. t.col + 1 |-> At(v, c - 1, t.row)]
      /\ LineIn(v, t.row) \in Lines /\ Len(LineIn(v, t.row)) = t.col + 1
  <2>1. /\ LineIn(t, t.row) = [c \in 1 .. t.col |-> At(t, c - 1, t.row)]
        /\ LineIn(t, t.row) \in Lines
    BY <1>1, <1>3, LineOfRow
  <2>2. /\ LineIn(v, t.row) = [c \in 1 .. t.col + 1 |-> At(v, c - 1, t.row)]
        /\ LineIn(v, t.row) \in Lines /\ Len(LineIn(v, t.row)) = t.col + 1
    BY <1>2, <1>3, <1>4, LineOfRow
  <2> QED BY <2>1, <2>2
<1>7. /\ line \in Lines /\ Len(line) = t.col + 1
      /\ \A c \in 1 .. t.col : line[c] = At(t, c - 1, t.row)
      /\ line[t.col + 1] = ch
  <2>1. LineIn(t, t.row) \in Seq(Chars) BY <1>6 DEF Lines
  <2>2. /\ line \in Seq(Chars) /\ Len(line) = t.col + 1
        /\ \A c \in 1 .. t.col : line[c] = LineIn(t, t.row)[c]
        /\ line[t.col + 1] = ch
    BY <1>3, <2>1, AppendProperties
  <2>3. \A c \in 1 .. t.col : LineIn(t, t.row)[c] = At(t, c - 1, t.row)
    BY <1>6
  <2> QED BY <2>2, <2>3 DEF Lines
<1> HIDE DEF p, q, line
<1>8. LineIn(v, t.row) = line
  <2>1. ASSUME NEW c \in 1 .. t.col + 1 PROVE LineIn(v, t.row)[c] = line[c]
    <3>1. c - 1 \in Columns /\ c \in Int
      BY <1>4, <1>5, VgaAssumption DEF Columns
    <3>2. LineIn(v, t.row)[c]
            = IF c - 1 = t.col THEN ch ELSE At(t, c - 1, t.row)
      BY <1>1, <1>3, <1>6, <3>1
    <3>3. CASE c = t.col + 1
      <4>1. c - 1 = t.col BY <1>5, <3>3
      <4> QED BY <1>7, <3>2, <3>3, <4>1
    <3>4. CASE c # t.col + 1
      <4>1. c \in 1 .. t.col /\ c - 1 # t.col BY <1>5, <3>1, <3>4
      <4> QED BY <1>7, <3>2, <4>1
    <3> QED BY <3>3, <3>4
  <2>2. LineIn(v, t.row) \in Seq(Chars) /\ line \in Seq(Chars)
    BY <1>6, <1>7 DEF Lines
  <2> QED BY <1>6, <1>7, <2>1, <2>2, SeqEqual
<1>9. p[Len(p)] = LineIn(t, t.row)
  <2>1. t.row + 1 \in 1 .. t.row + 1 /\ t.row + 1 - 1 = t.row BY <1>3
  <2> QED BY <1>3, <2>1
<1>10. f = [p EXCEPT ![Len(p)] = line] BY <1>9 DEF line
<1> HIDE DEF f
<1>11. /\ f \in Seq(Lines) /\ Len(f) = t.row + 1
       /\ \A i \in 1 .. t.row + 1 : f[i] = IF i = t.row + 1 THEN line ELSE p[i]
  <2>1. Len(p) \in 1 .. Len(p) BY <1>3
  <2> QED BY <1>3, <1>7, <1>10, <2>1, ExceptSeq
<1>12. ASSUME NEW i \in 1 .. t.row + 1 PROVE q[i] = f[i]
  <2>1. CASE i = t.row + 1
    <3>1. i - 1 = t.row BY <1>3, <2>1
    <3> QED BY <1>4, <1>8, <1>11, <2>1, <3>1
  <2>2. CASE i # t.row + 1
    <3>1. i - 1 \in Rows /\ i - 1 # t.row
      BY <1>3, <2>2, VgaAssumption DEF Rows
    <3>2. PICK k \in Columns : RowHolds(t, i - 1, k)
      BY <1>1, <3>1 DEF Shaped
    <3>3. \A c \in Columns : At(v, c, i - 1) = At(t, c, i - 1)
      BY <1>1, <3>1
    <3>4. LineIn(v, i - 1) = LineIn(t, i - 1)
      BY <1>1, <1>2, <3>1, <3>2, <3>3, SameLine
    <3> QED BY <1>3, <1>4, <1>11, <2>2, <3>4
  <2> QED BY <2>1, <2>2
<1>13. q = f BY <1>4, <1>11, <1>12, SeqEqual
<1> QED BY <1>13 DEF q, f, p, v, t

\* On a full line a new one is begun first.
LEMMA PutOnNewLine ==
  ASSUME NEW p \in Seq(Lines), Len(p) >= 1, Len(p) <= Height, NEW ch \in Chars
  PROVE  LET q == Text!Fit(Append(p, << >>))
         IN  [q EXCEPT ![Len(q)] = Append(@, ch)]
               = Text!Fit(Append(p, <<ch>>))
<1> DEFINE q == Text!Fit(Append(p, << >>))
           f == Text!Fit(Append(p, <<ch>>))
           g == [q EXCEPT ![Len(q)] = Append(@, ch)]
<1>1. << >> \in Lines /\ <<ch>> \in Lines BY DEF Lines
<1>2. /\ q \in Seq(Lines)
      /\ IF Len(p) < Height
         THEN /\ Len(q) = Len(p) + 1
              /\ \A i \in 1 .. Len(p) : q[i] = p[i]
              /\ q[Len(p) + 1] = << >>
         ELSE /\ Len(q) = Len(p)
              /\ \A i \in 1 .. Len(p) - 1 : q[i] = p[i + 1]
              /\ q[Len(p)] = << >>
  BY <1>1, FitAppend
<1>3. /\ f \in Seq(Lines)
      /\ IF Len(p) < Height
         THEN /\ Len(f) = Len(p) + 1
              /\ \A i \in 1 .. Len(p) : f[i] = p[i]
              /\ f[Len(p) + 1] = <<ch>>
         ELSE /\ Len(f) = Len(p)
              /\ \A i \in 1 .. Len(p) - 1 : f[i] = p[i + 1]
              /\ f[Len(p)] = <<ch>>
  BY <1>1, FitAppend
<1> HIDE DEF q, f
<1>4. Len(p) \in Nat /\ Len(q) \in Nat /\ Len(q) >= 1 /\ Len(f) = Len(q)
  BY <1>2, <1>3
<1>5. q[Len(q)] = << >> /\ f[Len(q)] = <<ch>> BY <1>2, <1>3
<1>6. \A i \in 1 .. Len(q) : i # Len(q) => f[i] = q[i] BY <1>2, <1>3, <1>4
<1>7. g = [q EXCEPT ![Len(q)] = <<ch>>]
  <2>1. Append(<< >>, ch) = <<ch>> OBVIOUS
  <2> QED BY <1>5, <2>1
<1> HIDE DEF g
<1>8. /\ g \in Seq(Lines) /\ Len(g) = Len(q)
      /\ \A i \in 1 .. Len(q) : g[i] = IF i = Len(q) THEN <<ch>> ELSE q[i]
  <2>1. Len(q) \in 1 .. Len(q) BY <1>4
  <2> QED BY <1>1, <1>2, <1>7, <2>1, ExceptSeq
<1>9. \A i \in 1 .. Len(g) : g[i] = f[i] BY <1>5, <1>6, <1>8
<1>10. g = f BY <1>3, <1>4, <1>8, <1>9, SeqEqual
<1> QED BY <1>10 DEF g, f, q

\* Erasing in a line takes its last character.
LEMMA ErasePage ==
  ASSUME NEW s \in Consoles, Shaped(s), s.col > 0, NEW t \in Backspace(s)
  PROVE  LET p == PageIn(s)
         IN  /\ p[Len(p)] # << >>
             /\ PageIn(t) = [p EXCEPT ![Len(p)] = Text!Upto(@, Len(@) - 1)]
<1> DEFINE p == PageIn(s)
           q == PageIn(t)
           old == LineIn(s, s.row)
           line == SubSeq(old, 1, s.col - 1)
           f == [p EXCEPT ![Len(p)] = Text!Upto(@, Len(@) - 1)]
<1>1. /\ t \in Consoles /\ t.col = s.col - 1 /\ t.row = s.row
      /\ \A d \in Columns, r \in Rows :
           At(t, d, r) = IF d = s.col - 1 /\ r = s.row THEN Nul ELSE At(s, d, r)
  BY BackspaceCells
<1>2. Shaped(t) BY BackspaceShape
<1>3. /\ s.row \in Nat /\ s.row \in Rows
      /\ p \in Seq(Lines) /\ Len(p) = s.row + 1
      /\ \A i \in 1 .. s.row + 1 : p[i] = LineIn(s, i - 1)
      /\ Len(old) = s.col
      /\ s.col \in Columns /\ RowHolds(s, s.row, s.col)
  BY PageOfShaped
<1>4. /\ q \in Seq(Lines) /\ Len(q) = s.row + 1
      /\ \A i \in 1 .. s.row + 1 : q[i] = LineIn(t, i - 1)
      /\ s.col - 1 \in Columns /\ RowHolds(t, s.row, s.col - 1)
  BY <1>1, <1>2, PageOfShaped
<1>5. s.col \in Nat /\ s.col - 1 \in Nat BY <1>3, VgaAssumption DEF Columns
<1>6. old = [c \in 1 .. s.col |-> At(s, c - 1, s.row)] /\ old \in Seq(Chars)
  BY <1>3, LineOfRow DEF Lines
<1>7. /\ LineIn(t, s.row) = [c \in 1 .. s.col - 1 |-> At(t, c - 1, s.row)]
      /\ LineIn(t, s.row) \in Seq(Chars) /\ Len(LineIn(t, s.row)) = s.col - 1
  BY <1>1, <1>3, <1>4, LineOfRow DEF Lines
<1> HIDE DEF p, q, old
<1>8. /\ line \in Seq(Chars) /\ Len(line) = s.col - 1
      /\ \A c \in 1 .. s.col - 1 : line[c] = old[c]
  <2>1. \A c \in 1 .. s.col - 1 : old[c] \in Chars
    BY <1>3, <1>5, <1>6, ElementOfSeq
  <2>2. /\ line \in Seq(Chars)
        /\ Len(line) = IF 1 <= s.col - 1 THEN s.col - 1 - 1 + 1 ELSE 0
        /\ \A c \in 1 .. s.col - 1 - 1 + 1 : line[c] = old[1 + c - 1]
    BY <1>5, <2>1, SubSeqProperties
  <2>3. \A c \in 1 .. s.col - 1 : 1 + c - 1 = c BY <1>5
  <2>4. s.col - 1 - 1 + 1 = s.col - 1 BY <1>5
  <2>5. Len(line) = s.col - 1 BY <1>5, <2>2
  <2> HIDE DEF line
  <2> QED BY <2>2, <2>3, <2>4, <2>5
<1> HIDE DEF line
<1>9. LineIn(t, s.row) = line
  <2>1. ASSUME NEW c \in 1 .. s.col - 1 PROVE LineIn(t, s.row)[c] = line[c]
    <3>1. c - 1 \in Columns /\ c - 1 # s.col - 1 /\ c \in 1 .. s.col
      BY <1>3, <1>5, VgaAssumption DEF Columns
    <3>2. At(t, c - 1, s.row) = At(s, c - 1, s.row) BY <1>1, <1>3, <3>1
    <3>3. old[c] = At(s, c - 1, s.row) BY <1>6, <3>1
    <3>4. LineIn(t, s.row)[c] = At(t, c - 1, s.row) BY <1>7
    <3> QED BY <1>8, <3>2, <3>3, <3>4
  <2> QED BY <1>7, <1>8, <2>1, SeqEqual
<1>10. p[Len(p)] = old
  <2>1. s.row + 1 \in 1 .. s.row + 1 /\ s.row + 1 - 1 = s.row BY <1>3
  <2> QED BY <1>3, <2>1 DEF old
<1>11. f = [p EXCEPT ![Len(p)] = line] BY <1>3, <1>10 DEF line, Text!Upto
<1>12. p[Len(p)] # << >> BY <1>3, <1>5, <1>10
<1> HIDE DEF f
<1>13. /\ f \in Seq(Lines) /\ Len(f) = s.row + 1
       /\ \A i \in 1 .. s.row + 1 : f[i] = IF i = s.row + 1 THEN line ELSE p[i]
  <2>1. Len(p) \in 1 .. Len(p) BY <1>3
  <2>2. line \in Lines BY <1>8 DEF Lines
  <2> QED BY <1>3, <1>11, <2>1, <2>2, ExceptSeq
<1>14. ASSUME NEW i \in 1 .. s.row + 1 PROVE q[i] = f[i]
  <2>1. CASE i = s.row + 1
    <3>1. i - 1 = s.row BY <1>3, <2>1
    <3> QED BY <1>4, <1>9, <1>13, <2>1, <3>1
  <2>2. CASE i # s.row + 1
    <3>1. i - 1 \in Rows /\ i - 1 # s.row
      BY <1>3, <2>2, VgaAssumption DEF Rows
    <3>2. PICK k \in Columns : RowHolds(s, i - 1, k) BY <3>1 DEF Shaped
    <3>3. \A c \in Columns : At(t, c, i - 1) = At(s, c, i - 1)
      BY <1>1, <3>1
    <3>4. LineIn(t, i - 1) = LineIn(s, i - 1)
      BY <1>1, <3>1, <3>2, <3>3, SameLine
    <3> QED BY <1>3, <1>4, <1>13, <2>2, <3>4
  <2> QED BY <2>1, <2>2
<1>15. q = f BY <1>4, <1>13, <1>14, SeqEqual
<1> QED BY <1>12, <1>15 DEF q, f, p

\* Erasing at the start of a line goes back to the line above, which loses its
\* character if it has a single one.
LEMMA JoinPage ==
  ASSUME NEW s \in Consoles, Shaped(s), s.col = 0, s.row # 0,
         NEW t \in Backspace(s)
  PROVE  LET p    == PageIn(s)
             kept == Text!Upto(p, Len(p) - 1)
         IN  /\ p[Len(p)] = << >> /\ Len(p) > 1
             /\ PageIn(t) = [kept EXCEPT ![Len(kept)] =
                               IF Len(@) = 1 THEN << >> ELSE @]
<1> DEFINE p == PageIn(s)
           q == PageIn(t)
           kept == Text!Upto(p, Len(p) - 1)
           above == s.row - 1
           old == LineIn(s, above)
           line == IF Len(old) = 1 THEN << >> ELSE old
           f == [kept EXCEPT ![Len(kept)] = IF Len(@) = 1 THEN << >> ELSE @]
<1>1. /\ t \in Consoles /\ t.row = above
      /\ \A d \in Columns, r \in Rows :
           At(t, d, r) = IF d = t.col /\ r = t.row THEN Nul ELSE At(s, d, r)
      /\ \A k \in Columns : RowHolds(s, above, k)
                              => t.col = IF k <= 1 THEN 0 ELSE k
  BY BackspaceCells
<1>2. Shaped(t) BY BackspaceShape
<1>3. /\ s.row \in Nat /\ s.row \in Rows
      /\ p \in Seq(Lines) /\ Len(p) = s.row + 1
      /\ \A i \in 1 .. s.row + 1 : p[i] = LineIn(s, i - 1)
      /\ RowHolds(s, s.row, 0) /\ 0 \in Columns
  BY PageOfShaped
<1>4. /\ above \in Rows /\ q \in Seq(Lines) /\ Len(q) = above + 1
      /\ \A i \in 1 .. above + 1 : q[i] = LineIn(t, i - 1)
      /\ t.col \in Columns /\ RowHolds(t, above, t.col)
  BY <1>1, <1>2, PageOfShaped
<1>5. above \in Nat /\ above + 1 = s.row BY <1>3
<1>6. PICK k \in Columns : RowHolds(s, above, k) BY <1>4 DEF Shaped
<1>7. k \in Nat /\ t.col = IF k <= 1 THEN 0 ELSE k
  BY <1>1, <1>6, VgaAssumption DEF Columns
<1>8. /\ old = [c \in 1 .. k |-> At(s, c - 1, above)]
      /\ old \in Lines /\ Len(old) = k
  BY <1>4, <1>6, LineOfRow
<1>9. LineIn(t, above) = [c \in 1 .. t.col |-> At(t, c - 1, above)]
  BY <1>1, <1>4, LineOfRow
<1>10. LineIn(s, s.row) = << >>
  <2>1. LineIn(s, s.row) = [c \in 1 .. 0 |-> At(s, c - 1, s.row)]
    BY <1>3, LineOfRow
  <2> QED BY <2>1
<1> HIDE DEF p, q, old, above
<1>11. LineIn(t, above) = line
  <2>1. CASE k = 1
    <3>1. LineIn(t, above) = [c \in 1 .. 0 |-> At(t, c - 1, above)]
      BY <1>7, <1>9, <2>1
    <3>2. [c \in 1 .. 0 |-> At(t, c - 1, above)] = << >> OBVIOUS
    <3> QED BY <1>8, <2>1, <3>1, <3>2
  <2>2. CASE k # 1
    <3>1. t.col = k BY <1>7, <2>2
    <3>2. \A c \in 1 .. k : At(t, c - 1, above) = At(s, c - 1, above)
      <4> SUFFICES ASSUME NEW c \in 1 .. k
                   PROVE  At(t, c - 1, above) = At(s, c - 1, above)
        OBVIOUS
      <4>1. c - 1 \in Columns /\ c - 1 # t.col
        BY <1>6, <1>7, <3>1, VgaAssumption DEF Columns
      <4> QED BY <1>1, <1>4, <4>1
    <3>3. LineIn(t, above) = old BY <1>8, <1>9, <3>1, <3>2
    <3> QED BY <1>8, <2>2, <3>3
  <2> QED BY <2>1, <2>2
<1>12. /\ kept \in Seq(Lines) /\ Len(kept) = s.row
       /\ \A i \in 1 .. s.row : kept[i] = p[i]
  <2>1. Len(p) - 1 = s.row BY <1>3
  <2>2. kept = SubSeq(p, 1, s.row) BY <2>1 DEF Text!Upto
  <2>3. \A i \in 1 .. s.row : p[i] \in Lines BY <1>3, ElementOfSeq
  <2> HIDE DEF kept
  <2>4. /\ SubSeq(p, 1, s.row) \in Seq(Lines)
        /\ Len(SubSeq(p, 1, s.row)) = IF 1 <= s.row THEN s.row - 1 + 1 ELSE 0
        /\ \A i \in 1 .. s.row - 1 + 1 : SubSeq(p, 1, s.row)[i] = p[1 + i - 1]
    BY <1>3, <2>3, SubSeqProperties
  <2>5. s.row - 1 + 1 = s.row /\ \A i \in 1 .. s.row : 1 + i - 1 = i BY <1>3
  <2>6. (IF 1 <= s.row THEN s.row - 1 + 1 ELSE 0) = s.row BY <1>3
  <2> QED BY <2>2, <2>4, <2>5, <2>6
<1>13. kept[Len(kept)] = old
  <2>1. s.row \in 1 .. s.row /\ s.row \in 1 .. s.row + 1 BY <1>3, <1>5
  <2>2. kept[s.row] = LineIn(s, s.row - 1) BY <1>3, <1>12, <2>1
  <2> QED BY <1>12, <2>2 DEF old, above
<1> HIDE DEF kept
<1>14. f = [kept EXCEPT ![Len(kept)] = line] BY <1>13
<1>15. line \in Lines BY <1>8 DEF Lines
<1> HIDE DEF f, line
<1>16. /\ f \in Seq(Lines) /\ Len(f) = s.row
       /\ \A i \in 1 .. s.row : f[i] = IF i = s.row THEN line ELSE kept[i]
  <2>1. Len(kept) \in 1 .. Len(kept) BY <1>5, <1>12
  <2> QED BY <1>12, <1>14, <1>15, <2>1, ExceptSeq
<1>17. ASSUME NEW i \in 1 .. s.row PROVE q[i] = f[i]
  <2>1. CASE i = s.row
    <3>1. i - 1 = above /\ i \in 1 .. above + 1 BY <1>5, <2>1
    <3> QED BY <1>4, <1>11, <1>16, <2>1, <3>1
  <2>2. CASE i # s.row
    <3>1. /\ i - 1 \in Rows /\ i - 1 # above
          /\ i \in 1 .. above + 1 /\ i \in 1 .. s.row + 1
      BY <1>3, <1>5, <2>2, VgaAssumption DEF Rows
    <3>2. PICK l \in Columns : RowHolds(s, i - 1, l) BY <3>1 DEF Shaped
    <3>3. \A c \in Columns : At(t, c, i - 1) = At(s, c, i - 1)
      BY <1>1, <3>1
    <3>4. LineIn(t, i - 1) = LineIn(s, i - 1)
      BY <1>1, <3>1, <3>2, <3>3, SameLine
    <3>5. q[i] = LineIn(t, i - 1) BY <1>4, <3>1
    <3>6. p[i] = LineIn(s, i - 1) BY <1>3, <3>1
    <3> QED BY <1>12, <1>16, <2>2, <3>4, <3>5, <3>6
  <2> QED BY <2>1, <2>2
<1>18. q = f BY <1>4, <1>5, <1>16, <1>17, SeqEqual
<1>19. p[Len(p)] = << >> /\ Len(p) > 1
  <2>1. s.row + 1 \in 1 .. s.row + 1 /\ s.row + 1 - 1 = s.row BY <1>3
  <2> QED BY <1>3, <1>5, <1>10, <2>1
<1> QED BY <1>18, <1>19 DEF q, f, kept, p

\* The page of a user who types: PageOf is PageIn.
LEMMA PageOfPlain ==
  ASSUME ShapeInv, Plain
  PROVE  PageOf = PageIn(vga)
<1>1. OnPage BY DEF ShapeInv, Shaped, OnScreen, OnPage
<1>2. \A r : LineOf(r) = LineIn(vga, r)
  BY DEF LineOf, LineIn, CellAt, At, Columns
<1>3. PageOf = [i \in 1 .. vga.row + 1 |-> LineOf(i - 1)] BY <1>1 DEF PageOf
<1> QED BY <1>2, <1>3 DEF PageIn

\* Printing, Enter and Backspace do to the page what the terminal promises.
LEMMA StepOnPage ==
  ASSUME RowsFitByte, ShapeInv, ShapeInv', [Next]_vars, Plain, user' = user
  PROVE  [Text!Next]_PageOf
<1> DEFINE p == PageIn(vga)
<1>1. PageOf = p BY PageOfPlain
<1>2. PageOf' = PageIn(vga')
  <2>1. Plain' BY DEF Plain
  <2>2. (PageOf = PageIn(vga))' BY <2>1, PageOfPlain, PTL
  <2> QED BY <2>2
<1>3. vga \in Consoles /\ Shaped(vga) BY DEF ShapeInv, TypeOK
<1>4. /\ vga.row \in Nat /\ vga.row + 1 <= Height
      /\ p \in Seq(Lines) /\ Len(p) = vga.row + 1
      /\ Len(p) >= 1 /\ Len(p) <= Height
      /\ Len(p[Len(p)]) = vga.col /\ vga.col \in Columns
  <2>1. /\ vga.row \in Nat /\ vga.row + 1 <= Height
        /\ p \in Seq(Lines) /\ Len(p) = vga.row + 1
        /\ \A i \in 1 .. vga.row + 1 : p[i] = LineIn(vga, i - 1)
        /\ Len(LineIn(vga, vga.row)) = vga.col /\ vga.col \in Columns
    BY <1>3, PageOfShaped
  <2>2. vga.row + 1 \in 1 .. vga.row + 1 /\ vga.row + 1 - 1 = vga.row
    BY <2>1
  <2>3. p[Len(p)] = LineIn(vga, vga.row) BY <2>1, <2>2
  <2>4. Len(p) >= 1 /\ Len(p) <= Height BY <2>1
  <2> HIDE DEF p
  <2> QED BY <2>1, <2>3, <2>4
<1> HIDE DEF p
<1>5. ASSUME vga' = vga_newline(vga) PROVE Text!Next
  <2>1. PageOf' = Text!Fit(Append(p, << >>))
    BY <1>2, <1>3, <1>5, NewlinePage DEF p
  <2> QED BY <1>1, <2>1 DEF Text!Next, Text!NewLine
<1>6. ASSUME NEW ch \in user.chars, Put(ch) PROVE Text!Next
  <2>1. ch \in Chars BY ConsoleAssumption DEF ShapeInv, TypeOK
  <2>2. Text!Emit(ch)
    <3> DEFINE r == PageIn(Room(vga))
    <3>1. PageOf' = [r EXCEPT ![Len(r)] = Append(@, ch)]
      BY <1>2, <1>3, <1>6, <2>1, PutPage DEF Put
    <3>2. vga.col \in Nat /\ vga.col < Width /\ Width \in Nat
      BY <1>4, VgaAssumption DEF Columns
    <3>3. CASE vga.col = Width - 1
      <4>1. Room(vga) = vga_newline(vga) BY <3>2, <3>3 DEF Room
      <4>2. r = Text!Fit(Append(p, << >>)) BY <1>3, <4>1, NewlinePage DEF p
      <4> HIDE DEF r
      <4>3. PageOf' = Text!Fit(Append(p, <<ch>>))
        BY <1>4, <2>1, <3>1, <4>2, PutOnNewLine
      <4> QED BY <1>1, <1>4, <3>3, <4>3 DEF Text!Emit, Text!LastLine
    <3>4. CASE vga.col # Width - 1
      <4>1. Room(vga) = vga BY <3>2, <3>4 DEF Room
      <4>2. r = p BY <4>1 DEF p
      <4> HIDE DEF r
      <4>3. PageOf' = [p EXCEPT ![Len(p)] = Append(@, ch)] BY <3>1, <4>2
      <4> QED BY <1>1, <1>4, <3>4, <4>3 DEF Text!Emit, Text!LastLine
    <3> QED BY <3>3, <3>4
  <2> QED BY <2>1, <2>2 DEF Text!Next
<1>7. CASE NewLine BY <1>5, <1>7 DEF NewLine
<1>8. ASSUME NEW key \in user.keys, Press(key) PROVE Text!Next
  <2>1. CASE key = "enter"
    <3>1. vga' = vga_newline(vga) BY <1>8, <2>1 DEF Press, KeyOutcomes
    <3> QED BY <1>5, <3>1
  <2>2. CASE key = "backspace"
    <3>1. vga' \in Backspace(vga) /\ ~ (vga.col = 0 /\ vga.row = 0)
      BY <1>8, <2>2 DEF Press, KeyOutcomes, AtOrigin, Plain
    <3>2. CASE vga.col > 0
      <4>1. /\ p[Len(p)] # << >>
            /\ PageOf' = [p EXCEPT ![Len(p)] = Text!Upto(@, Len(@) - 1)]
        BY <1>2, <1>3, <3>1, <3>2, ErasePage DEF p
      <4> QED BY <1>1, <4>1 DEF Text!Next, Text!EraseChar, Text!LastLine
    <3>3. CASE vga.col = 0
      <4> DEFINE kept == Text!Upto(p, Len(p) - 1)
      <4>1. /\ p[Len(p)] = << >> /\ Len(p) > 1
            /\ PageOf' = [kept EXCEPT ![Len(kept)] =
                            IF Len(@) = 1 THEN << >> ELSE @]
        BY <1>2, <1>3, <3>1, <3>3, JoinPage DEF p
      <4> HIDE DEF kept
      <4>2. Text!JoinLine
        BY <1>1, <4>1 DEF Text!JoinLine, Text!LastLine, kept
      <4> QED BY <4>2 DEF Text!Next
    <3> QED BY <1>4, <3>2, <3>3, VgaAssumption DEF Columns
  <2> QED BY <1>8, <2>1, <2>2 DEF Plain
<1>9. CASE UNCHANGED vars
  <2>1. PageOf' = PageOf BY <1>1, <1>2, <1>9 DEF vars, p
  <2> QED BY <2>1
<1> QED BY <1>6, <1>7, <1>8, <1>9 DEF Next

\* For a user who types characters, Enter and Backspace, the latter not in the
\* top left cell, the screen of vga_put, vga_newline and the Backspace scan is
\* that of a terminal: the tail of what was typed, in order.
THEOREM ConsoleImplementsTerminal ==
  ASSUME RowsFitByte
  PROVE  Spec => ImplementsTerminal
<1>1. Init => Text!Init
  <2> SUFFICES ASSUME Init PROVE PageOf = << << >> >> BY DEF Text!Init
  <2>1. CASE Plain
    <3>1. ShapeInv BY ShapeInit
    <3>2. PageOf = PageIn(Cleared) BY <2>1, <3>1, PageOfPlain DEF Init
    <3>3. /\ Cleared \in Consoles /\ Shaped(Cleared)
          /\ Cleared.row = 0 /\ Cleared.col = 0
      BY ClearedType, ClearedShape DEF Cleared
    <3>4. /\ PageIn(Cleared) \in Seq(Lines) /\ Len(PageIn(Cleared)) = 1
          /\ PageIn(Cleared)[1] = LineIn(Cleared, 0)
      <4>1. /\ PageIn(Cleared) \in Seq(Lines) /\ Len(PageIn(Cleared)) = 0 + 1
            /\ \A i \in 1 .. 0 + 1 : PageIn(Cleared)[i] = LineIn(Cleared, i - 1)
        BY <3>3, PageOfShaped
      <4>2. 1 \in 1 .. 0 + 1 /\ 1 - 1 = 0 /\ 0 + 1 = 1 OBVIOUS
      <4> QED BY <4>1, <4>2
    <3>5. LineIn(Cleared, 0) = << >>
      <4>1. RowHolds(Cleared, 0, 0) /\ 0 \in Columns /\ 0 \in Rows
        BY <3>3, PageOfShaped
      <4>2. LineIn(Cleared, 0) = [c \in 1 .. 0 |-> At(Cleared, c - 1, 0)]
        BY <3>3, <4>1, LineOfRow
      <4> QED BY <4>2
    <3> QED BY <3>2, <3>4, <3>5
  <2>2. CASE ~ Plain BY <2>2 DEF PageOf
  <2> QED BY <2>1, <2>2
<1>2. ShapeInv /\ ShapeInv' /\ [Next]_vars => [Text!Next]_PageOf
  <2> SUFFICES ASSUME ShapeInv, ShapeInv', [Next]_vars
               PROVE  [Text!Next]_PageOf
    OBVIOUS
  <2>1. user' = user BY DEF Next, vars
  <2>2. CASE Plain BY <2>1, <2>2, StepOnPage
  <2>3. CASE ~ Plain
    <3>1. ~ Plain' BY <2>1, <2>3 DEF Plain
    <3>2. PageOf = << << >> >> BY <2>3 DEF PageOf
    <3>3. PageOf' = << << >> >> BY <3>1 DEF PageOf
    <3> QED BY <3>2, <3>3
  <2> QED BY <2>2, <2>3
<1>3. ShapeInv /\ [Next]_vars => ShapeInv' BY ShapeStep
<1>4. Spec => Text!Spec
  BY <1>1, <1>2, <1>3, ShapeInit, PTL DEF Spec, Text!Spec
<1> QED BY <1>4 DEF ImplementsTerminal
=============================================================================
