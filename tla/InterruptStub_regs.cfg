\* What isr.h and the pusha/popa pair promise of an interrupt.
SPECIFICATION Spec
CONSTANTS
  StackWords = 16
  Vectors = {3, 13, 33, 128}
  MainRegs <- MCMainRegs
  MainEips = {301}
  MainEsps = {15, 16}
  ErrCodes = {7, 9}
INVARIANT
  RegistersPreserved
