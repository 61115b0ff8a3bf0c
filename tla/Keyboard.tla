------------------------------ MODULE Keyboard ------------------------------
(***************************************************************************)
(* The keyboard half of src/src/stage0/io/kbd_mouse.c as operators: what a *)
(* scancode does to the shift flag, whether it yields a character, and     *)
(* what a character does to the ring buffer.  The scancodes are abstracted *)
(* to the kinds keyboard_get_char and apply_shift tell apart.              *)
(***************************************************************************)
EXTENDS Vga

CONSTANT BufferSize  \* KBD_BUFFER_SIZE, 128 in the code

ASSUME BufferAssumption == BufferSize \in Nat /\ BufferSize >= 2

ShiftDown == {"lshift down", "rshift down"}
ShiftUp   == {"lshift up", "rshift up"}

\* "letter": a key of km1 that yields a character with and without shift
\* (letters and digits).  "symbol": one of the others in km1, for which
\* apply_shift answers 0 under shift.  "silent": a scancode km1 holds 0 for,
\* every release but those of the shift keys among them.
Scancodes == {"letter", "symbol", "silent"} \cup ShiftDown \cup ShiftUp
               \cup CursorKeys

\* Does apply_shift(km1[key]) return a character?
YieldsChar(shift, key) == key = "letter" \/ (key = "symbol" /\ ~ shift)

\* Wrong variant: the release of the right shift key forgotten.
BugShiftAfter(shift, key) ==
  IF key \in ShiftDown THEN TRUE
  ELSE IF key = "lshift up" THEN FALSE ELSE shift

\* The shift cases of keyboard_get_char.
ShiftAfter(shift, key) ==
  CASE key \in ShiftDown -> TRUE
    [] key \in ShiftUp   -> FALSE
    [] OTHER             -> shift

BugAdvance(i) == i + 1  \* wrong variant: no wrap at the end of the array
Advance(i) == (i + 1) % BufferSize

\* Wrong variant: no test for a full ring.
BugStoreHead(head, next, tail) == next

\* The end of keyboard_handler, for a next position computed from the head:
\* the head moves unless the ring is full.  The character itself is stored
\* nowhere.
StoreHead(head, next, tail) == IF next # tail THEN next ELSE head

\* keyboard_handler's effect on the ring, run to its end.
HeadAfter(head, tail, shift, key) ==
  IF YieldsChar(shift, key) THEN StoreHead(head, Advance(head), tail) ELSE head

\* kbd_buffer: static storage, all zero, that no statement assigns.
kbd_buffer == [i \in 0 .. BufferSize - 1 |-> Nul]

\* The characters between tail and head.
Unread(head, tail) == (head - tail) % BufferSize
=============================================================================
