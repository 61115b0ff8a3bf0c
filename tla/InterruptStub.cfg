\* One vector of each macro and of each range isr_handler tells apart.
SPECIFICATION Spec
CONSTANTS
  StackWords = 16
  Vectors = {3, 13, 33, 128}
  MainRegs <- MCMainRegs
  MainEips = {301}
  MainEsps = {15, 16}
  ErrCodes = {7, 9}
INVARIANTS
  TypeOK
  StubInv
  FrameMatchesStruct
PROPERTY
  ReturnsToInterrupted
