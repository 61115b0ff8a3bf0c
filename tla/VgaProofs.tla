------------------------------ MODULE VgaProofs ------------------------------
(***************************************************************************)
(* What the routines of Vga return, for every size of the page and every   *)
(* width of a byte that holds its columns and rows: the lemmas the proofs  *)
(* about Console and Kernel share.                                         *)
(***************************************************************************)
EXTENDS Vga, TLAPS

\* The conversion to unsigned char gives a byte.
LEMMA ByteRange == ASSUME NEW n \in Int PROVE Byte(n) \in 0 .. ByteMod - 1
  BY VgaAssumption DEF Byte

\* The conversion to unsigned char keeps a byte.
LEMMA ByteSmall == ASSUME NEW n \in 0 .. ByteMod - 1 PROVE Byte(n) = n
  BY VgaAssumption DEF Byte

\* The CRTC registers hold bytes.
LEMMA CursorPosType ==
  ASSUME NEW x \in Int, NEW y \in Int
  PROVE  vga_cursor_pos(x, y) \in Crtc
<1> DEFINE pos == y * Width + x
<1>1. pos \in Int BY VgaAssumption
<1>2. pos % ByteMod \in 0 .. ByteMod - 1 BY <1>1, VgaAssumption
<1>3. (pos \div ByteMod) % ByteMod \in 0 .. ByteMod - 1
  BY <1>1, VgaAssumption
<1> QED BY <1>2, <1>3 DEF vga_cursor_pos, LowByte, HighByte, Crtc

\* vga_pos sets the cursor to the arguments it keeps the low byte of.
LEMMA PosEffect ==
  ASSUME NEW s \in Consoles, NEW c \in Int, NEW r \in Int
  PROVE  /\ vga_pos(s, c, r) \in Consoles
         /\ vga_pos(s, c, r).col = Byte(c)
         /\ vga_pos(s, c, r).row = Byte(r)
         /\ vga_pos(s, c, r).cells = s.cells
<1>1. Byte(c) \in 0 .. ByteMod - 1 /\ Byte(r) \in 0 .. ByteMod - 1
  BY ByteRange
<1>2. vga_cursor_pos(Byte(c), Byte(r)) \in Crtc BY <1>1, CursorPosType
<1> QED BY <1>1, <1>2 DEF Consoles, vga_pos

\* vga_set keeps the cursor.
LEMMA SetEffect ==
  ASSUME NEW s \in Consoles, NEW ch \in Chars \cup {Nul},
         NEW c \in Int, NEW r \in Int
  PROVE  /\ vga_set(s, ch, c, r) \in Consoles
         /\ vga_set(s, ch, c, r).col = s.col
         /\ vga_set(s, ch, c, r).row = s.row
  BY DEF Consoles, vga_set

\* vga_scroll moves text, not the cursor.
LEMMA ScrollEffect ==
  ASSUME NEW s \in Consoles
  PROVE  /\ vga_scroll(s) \in Consoles
         /\ vga_scroll(s).col = s.col
         /\ vga_scroll(s).row = s.row
  BY DEF Consoles, vga_scroll

OnScreen(s) == s.col < Width /\ s.row < Height

\* A line end goes to column 0, of a row of the page if it starts on one.
LEMMA NewlineEffect ==
  ASSUME NEW s \in Consoles
  PROVE  /\ vga_newline(s) \in Consoles
         /\ vga_newline(s).col = 0
         /\ s.row < Height => vga_newline(s).row < Height
<1> DEFINE t == vga_pos(s, 0, s.row + 1)
<1>1. s.row \in 0 .. ByteMod - 1 BY DEF Consoles
<1>2. /\ t \in Consoles /\ t.col = Byte(0) /\ t.row = Byte(s.row + 1)
  BY <1>1, PosEffect
<1>3. Byte(0) = 0 BY ByteSmall, VgaAssumption
<1>4. t.row \in 0 .. ByteMod - 1 BY <1>1, <1>2, ByteRange
<1> HIDE DEF t
<1>5. CASE t.row > Height - 1
  <2> DEFINE u == vga_scroll(t)
             v == vga_pos(u, 0, t.row - 1)
  <2>1. u \in Consoles BY <1>2, ScrollEffect
  <2>3. vga_newline(s) = v BY <1>5 DEF vga_newline, t
  <2> HIDE DEF u
  <2>2. v \in Consoles /\ v.col = Byte(0) /\ v.row = Byte(t.row - 1)
    <3>1. t.row - 1 \in Int BY <1>4
    <3> QED BY <2>1, <3>1, PosEffect
  <2>4. t.row - 1 \in 0 .. ByteMod - 1 BY <1>4, <1>5, VgaAssumption
  <2>5. v.row = t.row - 1 BY <2>2, <2>4, ByteSmall
  <2>6. s.row < Height => t.row - 1 < Height
    <3>1. CASE s.row + 1 < ByteMod
      <4>1. Byte(s.row + 1) = s.row + 1 BY <1>1, <3>1, ByteSmall, VgaAssumption
      <4> QED BY <4>1, <1>1, <1>2, VgaAssumption
    <3>2. CASE s.row + 1 = ByteMod
      <4>1. Byte(s.row + 1) = 0 BY <3>2, VgaAssumption DEF Byte
      <4> QED BY <4>1, <1>2, VgaAssumption
    <3> QED BY <3>1, <3>2, <1>1, VgaAssumption
  <2> HIDE DEF v
  <2> QED BY <2>2, <2>3, <2>5, <2>6, <1>3
<1>6. CASE ~ t.row > Height - 1
  <2>1. vga_newline(s) = t BY <1>6 DEF vga_newline, t
  <2> QED BY <2>1, <1>2, <1>3, <1>4, <1>6, VgaAssumption
<1> QED BY <1>5, <1>6

\* vga_put keeps the cursor on the page.
LEMMA PutEffect ==
  ASSUME NEW s \in Consoles, NEW ch \in Chars
  PROVE  /\ vga_put(s, ch) \in Consoles
         /\ OnScreen(s) => OnScreen(vga_put(s, ch))
<1> DEFINE t == IF s.col + 1 >= Width THEN vga_newline(s) ELSE s
           u == vga_set(t, ch, t.col, t.row)
           v == vga_pos(u, u.col + 1, u.row)
<1>1. s.col \in 0 .. ByteMod - 1 /\ s.row \in 0 .. ByteMod - 1
  BY DEF Consoles
<1>2. s.row < Height => t.row < Height
  BY <1>1, NewlineEffect
<1>3. t.col \in 0 .. ByteMod - 1 /\ t.row \in 0 .. ByteMod - 1
  <2>1. t \in Consoles BY <1>1, NewlineEffect
  <2> QED BY <2>1 DEF Consoles
<1>4. t \in Consoles /\ t.col + 1 < Width
  BY <1>1, NewlineEffect, VgaAssumption
<1> HIDE DEF t
<1>5. u \in Consoles /\ u.col = t.col /\ u.row = t.row
  BY <1>3, <1>4, SetEffect
<1> HIDE DEF u
<1>6. v \in Consoles /\ v.col = Byte(t.col + 1) /\ v.row = Byte(t.row)
  BY <1>3, <1>5, PosEffect
<1>7. Byte(t.col + 1) = t.col + 1 /\ Byte(t.row) = t.row
  <2>1. t.col + 1 \in 0 .. ByteMod - 1 BY <1>3, <1>4, VgaAssumption
  <2> QED BY <2>1, <1>3, ByteSmall
<1>8. vga_put(s, ch) = v BY DEF vga_put, t, u
<1> HIDE DEF v
<1> QED BY <1>2, <1>4, <1>6, <1>7, <1>8 DEF OnScreen

\* Backspace keeps the cursor on the page, the top left cell excepted.
LEMMA BackspaceEffect ==
  ASSUME NEW s \in Consoles, NEW t \in Backspace(s)
  PROVE  /\ t \in Consoles
         /\ OnScreen(s) /\ ~ (s.col = 0 /\ s.row = 0) => OnScreen(t)
<1>1. s.col \in 0 .. ByteMod - 1 /\ s.row \in 0 .. ByteMod - 1
  BY DEF Consoles
<1>2. ASSUME NEW u \in Consoles
      PROVE  Erase(u) \in Consoles /\ Erase(u).col = u.col /\ Erase(u).row = u.row
  <2>1. u.col \in Int /\ u.row \in Int BY DEF Consoles
  <2> QED BY <2>1, SetEffect DEF Erase
<1>3. CASE s.col > 0
  <2> DEFINE u == vga_pos(s, s.col - 1, s.row)
  <2>1. u \in Consoles /\ u.col = Byte(s.col - 1) /\ u.row = Byte(s.row)
    BY <1>1, PosEffect
  <2>2. Byte(s.col - 1) = s.col - 1 /\ Byte(s.row) = s.row
    <3>1. s.col - 1 \in 0 .. ByteMod - 1 BY <1>1, <1>3, VgaAssumption
    <3> QED BY <3>1, <1>1, ByteSmall
  <2>3. t = Erase(u) BY <1>3 DEF Backspace
  <2> HIDE DEF u
  <2> QED BY <1>1, <1>2, <2>1, <2>2, <2>3, VgaAssumption DEF OnScreen
<1>4. CASE s.col = 0
  <2> DEFINE up == vga_pos(s, Width - 1, s.row - 1)
  <2>1. up \in Consoles /\ up.row = Byte(s.row - 1)
    BY <1>1, PosEffect, VgaAssumption
  <2>2. \E c \in 0 .. Width - 1 : t = Erase(vga_pos(up, c, up.row))
    BY <1>4 DEF Backspace
  <2>3. PICK c \in 0 .. Width - 1 : t = Erase(vga_pos(up, c, up.row))
    BY <2>2
  <2> DEFINE u == vga_pos(up, c, up.row)
  <2> HIDE DEF up
  <2>4. up.row \in 0 .. ByteMod - 1 BY <1>1, <2>1, ByteRange
  <2>5. u \in Consoles /\ u.col = Byte(c) /\ u.row = Byte(up.row)
    BY <2>1, <2>4, PosEffect
  <2>6. Byte(c) = c /\ Byte(up.row) = up.row
    <3>1. c \in 0 .. ByteMod - 1 BY VgaAssumption
    <3> QED BY <3>1, <2>4, ByteSmall
  <2>7. s.row > 0 => up.row = s.row - 1
    <3>1. s.row > 0 => s.row - 1 \in 0 .. ByteMod - 1
      BY <1>1, VgaAssumption
    <3> QED BY <3>1, <2>1, ByteSmall
  <2>8. t \in Consoles /\ t.col = c /\ t.row = up.row
    <3>1. t = Erase(u) BY <2>3
    <3> HIDE DEF u
    <3> QED BY <3>1, <1>2, <2>5, <2>6
  <2> QED BY <1>1, <1>4, <2>7, <2>8, VgaAssumption DEF OnScreen
<1> QED BY <1>1, <1>3, <1>4

\* Every key of KeyOutcomes keeps the ranges of the console.
LEMMA KeyType ==
  ASSUME NEW s \in Consoles, NEW key \in CursorKeys,
         NEW t \in KeyOutcomes(s, key)
  PROVE  t \in Consoles
<1>1. s.col \in Int /\ s.row \in Int BY DEF Consoles
<1>2. CASE key = "enter" BY <1>2, NewlineEffect DEF KeyOutcomes
<1>3. CASE key = "backspace" BY <1>3, BackspaceEffect DEF KeyOutcomes
<1>4. CASE key = "up" BY <1>1, <1>4, PosEffect DEF KeyOutcomes
<1>5. CASE key = "down" BY <1>1, <1>5, PosEffect DEF KeyOutcomes
<1>6. CASE key = "left"
  <2>1. t = vga_pos(s, s.col - 1, s.row) BY <1>6 DEF KeyOutcomes
  <2>2. s.col - 1 \in Int BY <1>1
  <2> QED BY <1>1, <2>1, <2>2, PosEffect
<1>7. CASE key = "right"
  <2>1. t = vga_pos(s, s.col + 1, s.row) BY <1>7 DEF KeyOutcomes
  <2>2. s.col + 1 \in Int BY <1>1
  <2> QED BY <1>1, <2>1, <2>2, PosEffect
<1> QED BY <1>2, <1>3, <1>4, <1>5, <1>6, <1>7 DEF CursorKeys

\* After vga_clear the cursor is on the page.
LEMMA ClearedType == Cleared \in Consoles /\ OnScreen(Cleared)
<1>1. vga_cursor_pos(0, 0) \in Crtc BY CursorPosType
<1> QED BY <1>1, VgaAssumption DEF Cleared, Consoles, OnScreen

-----------------------------------------------------------------------------
(* The cursor of the CRTC. *)

\* The CRTC holds the two bytes of the location of the software cursor.
Agrees(s) ==
  /\ s.crtc.lo = LowByte(CellIndex(s.col, s.row))
  /\ s.crtc.hi = HighByte(CellIndex(s.col, s.row))

\* The two bytes of a location make the location, on the page or below it.
LEMMA TwoBytes ==
  ASSUME NEW c \in 0 .. ByteMod - 1, NEW r \in 0 .. ByteMod - 1
  PROVE  HighByte(CellIndex(c, r)) * ByteMod + LowByte(CellIndex(c, r))
           = CellIndex(c, r)
<1> DEFINE pos == CellIndex(c, r)
           q == pos \div ByteMod
<1>1. ByteMod \in Nat \ {0} /\ Width \in Nat /\ Width <= ByteMod
  BY VgaAssumption
<1>2. pos \in Nat /\ pos < ByteMod * ByteMod
  <2>1. r * Width \in Nat /\ r * Width <= r * ByteMod BY <1>1
  <2>2. r * ByteMod <= (ByteMod - 1) * ByteMod BY <1>1
  <2>3. (ByteMod - 1) * ByteMod = ByteMod * ByteMod - ByteMod BY <1>1
  <2>4. r * ByteMod \in Int /\ ByteMod * ByteMod \in Int BY <1>1
  <2>5. pos = r * Width + c BY DEF CellIndex
  <2> HIDE DEF pos
  <2> QED BY <1>1, <2>1, <2>2, <2>3, <2>4, <2>5
<1> HIDE DEF pos
<1>3. /\ q \in Nat /\ pos % ByteMod \in 0 .. ByteMod - 1
      /\ pos = ByteMod * q + (pos % ByteMod)
  BY <1>1, <1>2
<1> HIDE DEF q
<1>4. q < ByteMod
  <2>1. CASE q >= ByteMod
    <3>1. ByteMod * q >= ByteMod * ByteMod BY <1>1, <1>3, <2>1
    <3>2. ByteMod * q \in Int /\ ByteMod * ByteMod \in Int BY <1>1, <1>3
    <3> QED BY <1>2, <1>3, <3>1, <3>2
  <2> QED BY <1>1, <1>3, <2>1
<1>5. q % ByteMod = q BY <1>1, <1>3, <1>4
<1>6. HighByte(pos) = q /\ LowByte(pos) = pos % ByteMod
  BY <1>5 DEF HighByte, LowByte, q
<1>7. q * ByteMod = ByteMod * q BY <1>1, <1>3
<1>8. HighByte(pos) * ByteMod + LowByte(pos) = pos
  BY <1>3, <1>6, <1>7
<1> QED BY <1>8 DEF pos

\* vga_pos run to its end makes them agree; a store keeps them.
LEMMA PosAgrees ==
  ASSUME NEW s \in Consoles, NEW c \in Int, NEW r \in Int
  PROVE  Agrees(vga_pos(s, c, r))
<1> DEFINE t == vga_pos(s, c, r)
<1>1. t.col = Byte(c) /\ t.row = Byte(r) BY PosEffect
<1>2. t.crtc = vga_cursor_pos(Byte(c), Byte(r)) BY DEF vga_pos, Consoles
<1> HIDE DEF t
<1>3. /\ t.crtc.lo = LowByte(Byte(r) * Width + Byte(c))
      /\ t.crtc.hi = HighByte(Byte(r) * Width + Byte(c))
  BY <1>2 DEF vga_cursor_pos
<1>4. Agrees(t) BY <1>1, <1>3 DEF Agrees, CellIndex
<1> QED BY <1>4 DEF t

LEMMA SetAgrees ==
  ASSUME NEW s \in Consoles, NEW ch \in Chars \cup {Nul},
         NEW c \in Int, NEW r \in Int, Agrees(s)
  PROVE  Agrees(vga_set(s, ch, c, r))
<1>1. vga_set(s, ch, c, r).crtc = s.crtc BY DEF vga_set, Consoles
<1> QED BY <1>1, SetEffect DEF Agrees

\* Every key run to its end leaves the cursor of the CRTC where the software
\* cursor is.
LEMMA KeyAgrees ==
  ASSUME NEW s \in Consoles, NEW key \in CursorKeys,
         NEW t \in KeyOutcomes(s, key)
  PROVE  Agrees(t)
<1>1. s.col \in Int /\ s.row \in Int BY DEF Consoles
<1>2. CASE key = "enter"
  <2> DEFINE u == vga_pos(s, 0, s.row + 1)
             w == vga_scroll(u)
  <2>1. t = IF u.row > Height - 1 THEN vga_pos(w, 0, u.row - 1) ELSE u
    BY <1>2 DEF KeyOutcomes, vga_newline
  <2>2. 0 \in Int /\ s.row + 1 \in Int BY <1>1
  <2>3. u \in Consoles /\ Agrees(u) BY <2>2, PosEffect, PosAgrees
  <2> HIDE DEF u
  <2>4. w \in Consoles BY <2>3, ScrollEffect
  <2>5. u.row - 1 \in Int BY <2>3 DEF Consoles
  <2> HIDE DEF w
  <2>6. Agrees(vga_pos(w, 0, u.row - 1)) BY <2>2, <2>4, <2>5, PosAgrees
  <2> QED BY <2>1, <2>3, <2>6
<1>3. CASE key = "backspace"
  <2>1. ASSUME NEW u \in Consoles, Agrees(u) PROVE Agrees(Erase(u))
    <3>1. u.col \in Int /\ u.row \in Int BY DEF Consoles
    <3> QED BY <2>1, <3>1, SetAgrees DEF Erase
  <2>2. CASE s.col > 0
    <3> DEFINE u == vga_pos(s, s.col - 1, s.row)
    <3>1. s.col - 1 \in Int BY <1>1
    <3>2. u \in Consoles /\ Agrees(u) BY <1>1, <3>1, PosEffect, PosAgrees
    <3>3. t = Erase(u) BY <1>3, <2>2 DEF KeyOutcomes, Backspace
    <3> HIDE DEF u
    <3> QED BY <2>1, <3>2, <3>3
  <2>3. CASE ~ s.col > 0
    <3> DEFINE up == vga_pos(s, Width - 1, s.row - 1)
    <3>1. Width - 1 \in Int /\ s.row - 1 \in Int BY <1>1, VgaAssumption
    <3>2. up \in Consoles BY <3>1, PosEffect
    <3>3. \E c \in 0 .. Width - 1 : t = Erase(vga_pos(up, c, up.row))
      BY <1>3, <2>3 DEF KeyOutcomes, Backspace
    <3> HIDE DEF up
    <3>4. PICK c \in 0 .. Width - 1 : t = Erase(vga_pos(up, c, up.row))
      BY <3>3
    <3>5. c \in Int /\ up.row \in Int BY <3>2 DEF Consoles
    <3>6. /\ vga_pos(up, c, up.row) \in Consoles
          /\ Agrees(vga_pos(up, c, up.row))
      BY <3>2, <3>5, PosEffect, PosAgrees
    <3> QED BY <2>1, <3>4, <3>6
  <2> QED BY <2>2, <2>3
<1>4. /\ s.row - 1 \in Int /\ s.row + 1 \in Int
      /\ s.col - 1 \in Int /\ s.col + 1 \in Int
  BY <1>1
<1>5. CASE key = "up" BY <1>1, <1>4, <1>5, PosAgrees DEF KeyOutcomes
<1>6. CASE key = "down" BY <1>1, <1>4, <1>6, PosAgrees DEF KeyOutcomes
<1>7. CASE key = "left"
  <2>1. t = vga_pos(s, s.col - 1, s.row) BY <1>7 DEF KeyOutcomes
  <2> QED BY <1>1, <1>4, <2>1, PosAgrees
<1>8. CASE key = "right"
  <2>1. t = vga_pos(s, s.col + 1, s.row) BY <1>8 DEF KeyOutcomes
  <2> QED BY <1>1, <1>4, <2>1, PosAgrees
<1> QED BY <1>2, <1>3, <1>5, <1>6, <1>7, <1>8 DEF CursorKeys
=============================================================================
