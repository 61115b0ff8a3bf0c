--------------------------- MODULE MCInterruptStub ---------------------------
(* InterruptStub with registers that all differ, so that no two slots of   *)
(* the frame can be mistaken for one another.                               *)
EXTENDS InterruptStub

MCMainRegs ==
  {[edi |-> 101, esi |-> 102, ebp |-> 103, ebx |-> 104, edx |-> 105,
    ecx |-> 106, eax |-> 107]}
=============================================================================
