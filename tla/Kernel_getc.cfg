\* The kernel as built: what keyboard_getc answers when the ring holds characters.
SPECIFICATION Spec
CONSTANTS
  Width = 2
  Height = 2
  ByteMod = 4
  Chars = {a}
  Nul = nul
  BufferSize = 3
  StubRestores = FALSE
  Sessions <- MCOneKey
PROPERTY
  TakenIsCharacter
\* The user stops typing: jmp . has no more to do.
CHECK_DEADLOCK FALSE
