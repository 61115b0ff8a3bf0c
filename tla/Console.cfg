\* Printing and erasing, and all the cursor keys, on a page of 3 rows of 4
\* cells, bytes of 3 bits.
SPECIFICATION Spec
CONSTANTS
  a = a
  b = b
  Width = 4
  Height = 3
  ByteMod = 8
  Chars = {a, b}
  Nul = nul
  Users <- MCUsers
INVARIANTS
  CursorOnScreen
  PageShape
PROPERTIES
  ImplementsTerminal
  PrintsBelowPageAreLost
