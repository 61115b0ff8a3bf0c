\* keyboard_handler polled by kmain and run by the interrupt, on one ring; the
\* interrupt's console output in the middle of kmain's; and the interrupt alone
\* once kmain has returned.
SPECIFICATION Spec
CONSTANTS
  Width = 3
  Height = 2
  ByteMod = 4
  Chars = {a}
  Nul = nul
  BufferSize = 3
  StubRestores = TRUE
  Sessions <- MCSessions
INVARIANTS
  TypeOK
  HaltedKeyboard
  CursorAgrees
PROPERTIES
  RingDiscipline
  KeysServed
  KeepsPolling
\* The user stops typing: jmp . has no more to do.
CHECK_DEADLOCK FALSE
