------------------------ MODULE InterruptStubProofs ------------------------
(***************************************************************************)
(* Proofs about InterruptStub, for every stack, every set of vectors and   *)
(* whatever the interrupted code's registers and the error codes are.      *)
(***************************************************************************)
EXTENDS InterruptStub, TLAPS

Inv == TypeOK /\ StubInv

\* A frame lies on the stack.
LEMMA FrameOnStack ==
  ASSUME NEW e \in MainEsps
  PROVE  /\ e \in Nat /\ StackWords \in Nat /\ e >= 15 /\ e <= StackWords
         /\ \A i \in 1 .. 15 : e - i \in Stack
  BY StubAssumption DEF StubFrame, Stack

\* The interrupted code runs first.
LEMMA InitInv == Init => Inv
<1> SUFFICES ASSUME Init PROVE Inv OBVIOUS
<1>1. esp \in 0 .. StackWords BY FrameOnStack DEF Init
<1>2. mem \in [Stack -> Int] BY DEF Init
<1>3. regs \in [GeneralRegs -> Int] /\ eip \in Int
  BY StubAssumption DEF Init
<1>4. TypeOK BY <1>1, <1>2, <1>3 DEF Init, TypeOK, Steps
<1>5. StubInv BY DEF Init, StubInv
<1> QED BY <1>4, <1>5 DEF Inv

\* The interrupted code runs between interrupts.
LEMMA MainRunsInv == Inv /\ MainRuns => Inv'
<1> SUFFICES ASSUME Inv, MainRuns PROVE Inv' OBVIOUS
<1>1. esp' \in 0 .. StackWords BY FrameOnStack DEF MainRuns
<1>2. regs' \in [GeneralRegs -> Int] /\ eip' \in Int
  BY StubAssumption DEF MainRuns
<1>3. TypeOK' BY <1>1, <1>2 DEF Inv, TypeOK, MainRuns, Stack
<1>4. StubInv' BY DEF Inv, StubInv, MainRuns
<1> QED BY <1>3, <1>4 DEF Inv

\* The processor's part of the frame: eflags, cs, eip, an error code or none.
LEMMA InterruptInv ==
  ASSUME Inv, NEW v \in Vectors, NEW err \in ErrCodes, Interrupt(v, err)
  PROVE  Inv'
<1> USE DEF Interrupt, HardwareDepth
<1>1. /\ esp \in MainEsps /\ esp \in Nat /\ esp >= 15 /\ esp <= StackWords
      /\ StackWords \in Nat /\ esp - 1 \in Stack /\ esp - 2 \in Stack
      /\ esp - 3 \in Stack /\ esp - 4 \in Stack
  BY FrameOnStack DEF Inv, StubInv
<1>2. /\ regs \in [GeneralRegs -> Int] /\ eip \in Int
      /\ mem \in [Stack -> Int] /\ err \in Int /\ v \in 0 .. 255
      /\ intr \in BOOLEAN
  BY StubAssumption DEF Inv, TypeOK
<1>3. /\ mem' \in [Stack -> Int]
      /\ mem'[esp - 1] = Eflags(intr) /\ mem'[esp - 3] = eip
      /\ v \in HardwarePushesError => mem'[esp - 4] = err
  BY <1>1, <1>2 DEF KernelCS, Eflags
<1>4. /\ taken'.regs = regs /\ taken'.esp = esp /\ taken'.eip = eip
      /\ taken'.intr = intr /\ intr' = FALSE
      /\ IF v \in HardwarePushesError THEN taken'.err = err /\ esp' = esp - 4
                                      ELSE taken'.err = 0 /\ esp' = esp - 3
  OBVIOUS
<1>5. /\ esp' \in 0 .. StackWords
      /\ taken' \in [regs : [GeneralRegs -> Int], esp : MainEsps, eip : Int,
                    intr : BOOLEAN, err : Int]
  BY <1>1, <1>2
<1>6. TypeOK' BY <1>2, <1>3, <1>5 DEF Inv, TypeOK, Steps
<1>7. StubInv'
  <2>1. CASE v \in HardwarePushesError
    <3>1. Top' = 4 /\ mem'[esp'] = taken'.err
      BY <2>1, <1>1, <1>3, <1>4 DEF Top
    <3> QED BY <2>1, <3>1, <1>3, <1>4 DEF StubInv
  <2>2. CASE v \notin HardwarePushesError
    <3>1. Top' = 3 /\ taken'.err = 0 BY <2>2, <1>1, <1>4 DEF Top
    <3> QED BY <2>2, <3>1, <1>3, <1>4 DEF StubInv
  <2> QED BY <2>1, <2>2
<1> QED BY <1>6, <1>7 DEF Inv

\* What holds of the interrupted code while a stub runs.
LEMMA WhileStubRuns ==
  ASSUME Inv, at # "main"
  PROVE  /\ taken.esp \in MainEsps /\ taken.esp \in Nat
         /\ taken.esp >= 15 /\ taken.esp <= StackWords /\ StackWords \in Nat
         /\ \A i \in 1 .. 15 : taken.esp - i \in Stack
         /\ taken.regs \in [GeneralRegs -> Int]
         /\ taken.eip \in Int /\ taken.err \in Int
         /\ esp \in Nat /\ mem \in [Stack -> Int]
<1>1. /\ taken.esp \in MainEsps /\ taken.regs \in [GeneralRegs -> Int]
      /\ taken.eip \in Int /\ taken.err \in Int
      /\ esp \in 0 .. StackWords /\ mem \in [Stack -> Int]
  BY DEF Inv, TypeOK
<1> QED BY <1>1, FrameOnStack

\* The stub completes the frame to the same five words for every vector.
LEMMA PushFrameInv == Inv /\ PushFrame => Inv'
<1> SUFFICES ASSUME Inv, PushFrame PROVE Inv' OBVIOUS
<1> USE DEF PushFrame
<1> DEFINE e == taken.esp
<1>1. /\ e \in Nat /\ e >= 15 /\ e <= StackWords /\ StackWords \in Nat
      /\ \A i \in 1 .. 15 : e - i \in Stack
      /\ mem \in [Stack -> Int] /\ esp \in Nat /\ taken.err \in Int
  BY WhileStubRuns
<1>2. vec \in ErrMacro <=> vec \in HardwarePushesError
  BY DEF ErrMacro, HardwarePushesError, Inv, TypeOK
<1>3. /\ mem[e - 1] = Eflags(taken.intr) /\ mem[e - 3] = taken.eip
      /\ regs = taken.regs
      /\ IF vec \in HardwarePushesError THEN e - esp = 4 /\ mem[esp] = taken.err
                                        ELSE e - esp = 3 /\ taken.err = 0
      /\ vec \in Int
  BY DEF Inv, StubInv, Top, TypeOK
<1>4. /\ esp' = e - 5 /\ mem' \in [Stack -> Int]
      /\ mem'[e - 1] = mem[e - 1] /\ mem'[e - 3] = mem[e - 3]
      /\ mem'[e - 4] = taken.err /\ mem'[e - 5] = vec
  <2>1. e - 1 \in Stack /\ e - 3 \in Stack /\ e - 4 \in Stack /\ e - 5 \in Stack
    BY <1>1
  <2>2. CASE vec \in HardwarePushesError
    <3>1. esp = e - 4 BY <2>2, <1>1, <1>3
    <3> QED BY <2>1, <2>2, <3>1, <1>1, <1>2, <1>3
  <2>3. CASE vec \notin HardwarePushesError
    <3>1. esp = e - 3 BY <2>3, <1>1, <1>3
    <3> QED BY <2>1, <2>3, <3>1, <1>1, <1>2, <1>3
  <2> QED BY <2>2, <2>3
<1>5. TypeOK' BY <1>1, <1>4 DEF Inv, TypeOK, Steps
<1>6. StubInv' BY <1>1, <1>3, <1>4 DEF Inv, StubInv, Top
<1> QED BY <1>5, <1>6 DEF Inv

\* pusha stores the interrupted registers below those five words.
LEMMA SaveRegsInv == Inv /\ SaveRegs => Inv'
<1> SUFFICES ASSUME Inv, SaveRegs PROVE Inv' OBVIOUS
<1> USE DEF SaveRegs
<1> DEFINE e == taken.esp
<1>1. /\ e \in Nat /\ e >= 15 /\ e <= StackWords /\ StackWords \in Nat
      /\ \A i \in 1 .. 15 : e - i \in Stack
      /\ mem \in [Stack -> Int] /\ esp \in Nat
  BY WhileStubRuns
<1>2. /\ mem[e - 1] = Eflags(taken.intr) /\ mem[e - 3] = taken.eip
      /\ regs = taken.regs
      /\ mem[e - 4] = taken.err /\ mem[e - 5] = vec
      /\ e - esp = 5 /\ regs \in [GeneralRegs -> Int]
  BY DEF Inv, StubInv, Top, TypeOK
<1>3. esp = e - 5 BY <1>1, <1>2
<1>4. \A r \in GeneralRegs : regs[r] \in Int BY <1>2
<1>5. /\ mem' \in [Stack -> Int] /\ esp' = e - 13
      /\ mem'[e - 1] = mem[e - 1] /\ mem'[e - 3] = mem[e - 3]
      /\ mem'[e - 4] = mem[e - 4] /\ mem'[e - 5] = mem[e - 5]
  <2>1. /\ e - 1 \in Stack /\ e - 3 \in Stack /\ e - 4 \in Stack
        /\ e - 5 \in Stack
    BY <1>1
  <2> QED BY <2>1, <1>1, <1>3, <1>4 DEF GeneralRegs
<1>6. /\ mem'[e - 13] = regs["edi"] /\ mem'[e - 12] = regs["esi"]
      /\ mem'[e - 11] = regs["ebp"] /\ mem'[e - 10] = e - 5
      /\ mem'[e - 9] = regs["ebx"] /\ mem'[e - 8] = regs["edx"]
      /\ mem'[e - 7] = regs["ecx"] /\ mem'[e - 6] = regs["eax"]
  <2>1. /\ e - 6 \in Stack /\ e - 7 \in Stack /\ e - 8 \in Stack
        /\ e - 9 \in Stack /\ e - 10 \in Stack /\ e - 11 \in Stack
        /\ e - 12 \in Stack /\ e - 13 \in Stack
    BY <1>1
  <2> QED BY <2>1, <1>1, <1>3
<1>7. TypeOK' BY <1>1, <1>5 DEF Inv, TypeOK, Steps
<1>8. StubInv'
  <2>1. /\ \A r \in GeneralRegs : mem'[e - 13 + Slot[r]] = taken.regs[r]
        /\ mem'[e - 13 + EspSlot] = e - 5
    BY <1>1, <1>2, <1>6 DEF Slot, GeneralRegs, EspSlot
  <2>2. Top' = 13 BY <1>1, <1>5 DEF Top
  <2>3. /\ at' = "call" /\ intr' = FALSE /\ taken' = taken /\ vec' = vec
    BY DEF Inv, StubInv, TypeOK
  <2> HIDE DEF SaveRegs
  <2>4. /\ mem'[taken'.esp - 1] = Eflags(taken'.intr)
        /\ mem'[taken'.esp - 3] = taken'.eip
        /\ mem'[taken'.esp - 4] = taken'.err /\ mem'[taken'.esp - 5] = vec'
    BY <2>3, <1>2, <1>5
  <2>5. /\ \A r \in GeneralRegs : mem'[SavedRegs' + Slot[r]] = taken'.regs[r]
        /\ mem'[SavedRegs' + EspSlot] = taken'.esp - 5
    BY <2>1, <2>3 DEF SavedRegs
  <2> QED BY <2>2, <2>3, <2>4, <2>5 DEF StubInv
<1> QED BY <1>7, <1>8 DEF Inv

\* The argument of isr_handler points to the saved registers.
LEMMA CallHandlerInv == Inv /\ CallHandler => Inv'
<1> SUFFICES ASSUME Inv, CallHandler PROVE Inv' OBVIOUS
<1> USE DEF CallHandler
<1> DEFINE e == taken.esp
<1>1. /\ e \in Nat /\ e >= 15 /\ e <= StackWords /\ StackWords \in Nat
      /\ \A i \in 1 .. 15 : e - i \in Stack
      /\ mem \in [Stack -> Int] /\ esp \in Nat
  BY WhileStubRuns
<1>2. esp = e - 13
  <2>1. e - esp = 13 BY DEF Inv, StubInv, Top
  <2> QED BY <2>1, <1>1
<1>3. /\ mem' \in [Stack -> Int] /\ esp' = e - 15
      /\ mem'[e - 14] = e - 13
      /\ \A i \in 1 .. 13 : mem'[e - i] = mem[e - i]
  <2>1. e - 14 \in Stack /\ e - 15 \in Stack BY <1>1
  <2> QED BY <2>1, <1>1, <1>2 DEF StubCode
<1>4. regs' \in [GeneralRegs -> Int]
  <2>1. esp \in Int /\ regs \in [GeneralRegs -> Int] BY <1>1 DEF Inv, TypeOK
  <2>2. regs' = [regs EXCEPT !["eax"] = esp] OBVIOUS
  <2> HIDE DEF CallHandler
  <2> QED BY <2>1, <2>2
<1>5. TypeOK' BY <1>1, <1>3, <1>4 DEF Inv, TypeOK, Steps
<1>6. StubInv'
  <2>1. /\ \A r \in GeneralRegs : mem'[e - 13 + Slot[r]] = mem[e - 13 + Slot[r]]
        /\ mem'[e - 13 + EspSlot] = mem[e - 13 + EspSlot]
    <3>1. /\ \A r \in GeneralRegs : Slot[r] \in 0 .. 12
          /\ EspSlot \in 0 .. 12
      BY DEF Slot, GeneralRegs, EspSlot
    <3>2. \A k \in 0 .. 12 : mem'[e - 13 + k] = mem[e - 13 + k]
      <4> TAKE k \in 0 .. 12
      <4>1. 13 - k \in 1 .. 13 /\ e - 13 + k = e - (13 - k) BY <1>1
      <4> QED BY <4>1, <1>3
    <3> QED BY <3>1, <3>2
  <2>2. /\ mem'[e - 1] = mem[e - 1] /\ mem'[e - 3] = mem[e - 3]
        /\ mem'[e - 4] = mem[e - 4] /\ mem'[e - 5] = mem[e - 5]
    BY <1>3
  <2>3. Top' = 15 /\ mem'[esp' + 1] = e - 13 BY <1>1, <1>3 DEF Top
  <2> QED BY <2>1, <2>2, <2>3 DEF Inv, StubInv, SavedRegs
<1> QED BY <1>5, <1>6 DEF Inv

\* isr_handler comes back with its argument still on the stack.
LEMMA HandlerReturnsInv == Inv /\ HandlerReturns => Inv'
<1> SUFFICES ASSUME Inv, HandlerReturns PROVE Inv' OBVIOUS
<1>1. /\ taken.esp \in Nat /\ taken.esp >= 15 /\ taken.esp <= StackWords
      /\ StackWords \in Nat /\ esp \in Nat
  BY WhileStubRuns DEF HandlerReturns
<1>2. taken.esp - esp = 15 BY DEF Inv, StubInv, Top, HandlerReturns
<1>3. esp' \in 0 .. StackWords /\ taken'.esp - esp' = 14
  BY <1>1, <1>2 DEF HandlerReturns
<1>4. regs' \in [GeneralRegs -> Int]
  BY StubAssumption DEF HandlerReturns, Inv, TypeOK
<1>5. TypeOK' BY <1>3, <1>4 DEF Inv, TypeOK, Steps, HandlerReturns
<1>6. StubInv' BY <1>3 DEF Inv, StubInv, Top, SavedRegs, HandlerReturns
<1> QED BY <1>5, <1>6 DEF Inv

\* add $12 leaves esp two words above the saved registers.
LEMMA DropArgumentInv == Inv /\ DropArgument => Inv'
<1> SUFFICES ASSUME Inv, DropArgument PROVE Inv' OBVIOUS
<1> USE DEF DropArgument
<1>1. /\ taken.esp \in Nat /\ taken.esp >= 15 /\ taken.esp <= StackWords
      /\ StackWords \in Nat /\ esp \in Nat
  BY WhileStubRuns
<1>2. taken.esp - esp = 14 BY DEF Inv, StubInv, Top
<1>3. esp' \in 0 .. StackWords /\ taken'.esp - esp' = 11 BY <1>1, <1>2
<1>4. TypeOK' BY <1>3 DEF Inv, TypeOK, Steps
<1>5. StubInv' BY <1>3 DEF Inv, StubInv, Top, SavedRegs
<1> QED BY <1>4, <1>5 DEF Inv

\* popa, two slots too high.
LEMMA RestoreRegsInv == Inv /\ RestoreRegs => Inv'
<1> SUFFICES ASSUME Inv, RestoreRegs PROVE Inv' OBVIOUS
<1> USE DEF RestoreRegs
<1> DEFINE e == taken.esp
<1>1. /\ e \in Nat /\ e >= 15 /\ e <= StackWords /\ StackWords \in Nat
      /\ \A i \in 1 .. 15 : e - i \in Stack
      /\ mem \in [Stack -> Int] /\ esp \in Nat
  BY WhileStubRuns
<1>2. esp = e - 11
  <2>1. e - esp = 11 BY DEF Inv, StubInv, Top
  <2> QED BY <2>1, <1>1
<1>3. /\ \A r \in GeneralRegs : mem[e - 13 + Slot[r]] = taken.regs[r]
      /\ mem[e - 13 + EspSlot] = e - 5
      /\ mem[e - 4] = taken.err /\ mem[e - 5] = vec
      /\ mem[e - 1] = Eflags(taken.intr) /\ mem[e - 3] = taken.eip
  BY DEF Inv, StubInv, SavedRegs
<1>4. /\ mem[e - 11] = taken.regs["ebp"] /\ mem[e - 10] = e - 5
      /\ mem[e - 9] = taken.regs["ebx"]
      /\ mem[e - 7] = taken.regs["ecx"] /\ mem[e - 6] = taken.regs["eax"]
  BY <1>1, <1>3 DEF Slot, GeneralRegs, EspSlot
<1>5. regs' \in [GeneralRegs -> Int]
  <2>1. \A r \in GeneralRegs : Slot[r] \in 0 .. 7 BY DEF Slot, GeneralRegs
  <2>2. \A k \in 0 .. 7 : esp + k \in Stack
    <3> TAKE k \in 0 .. 7
    <3>1. 11 - k \in 1 .. 15 /\ esp + k = e - (11 - k) BY <1>1, <1>2
    <3> QED BY <3>1, <1>1
  <2> QED BY <2>1, <2>2, <1>1
<1>6. \A r \in GeneralRegs : regs'[r] = Shifted[r]
  BY <1>1, <1>2, <1>3, <1>4 DEF Shifted, Slot, GeneralRegs
<1>7. esp' = e - 3 /\ esp' \in 0 .. StackWords BY <1>1, <1>2
<1>8. TypeOK' BY <1>5, <1>7 DEF Inv, TypeOK, Steps
<1>9. StubInv' BY <1>1, <1>3, <1>6, <1>7 DEF Inv, StubInv, Top, Shifted
<1> QED BY <1>8, <1>9 DEF Inv

\* iret pops the three words that the processor pushed first.
LEMMA ReturnInv == Inv /\ Return => Inv'
<1> SUFFICES ASSUME Inv, Return PROVE Inv' OBVIOUS
<1> USE DEF Return
<1>1. /\ taken.esp \in MainEsps /\ taken.esp \in Nat
      /\ taken.esp <= StackWords /\ StackWords \in Nat /\ esp \in Nat
      /\ taken.eip \in Int
  BY WhileStubRuns
<1>2. esp = taken.esp - 3
  <2>1. taken.esp - esp = 3 BY DEF Inv, StubInv, Top
  <2> QED BY <2>1, <1>1
<1>3. esp' = taken.esp /\ eip' = taken.eip /\ intr' = taken.intr
  <2>1. mem[taken.esp - 1] = Eflags(taken.intr) /\ mem[taken.esp - 3] = taken.eip
    BY DEF Inv, StubInv
  <2>2. esp + 2 = taken.esp - 1 /\ esp + 3 = taken.esp BY <1>1, <1>2
  <2>3. taken.intr \in BOOLEAN BY DEF Inv, TypeOK
  <2> QED BY <2>1, <2>2, <2>3, <1>2 DEF Eflags
<1>4. TypeOK' BY <1>1, <1>3 DEF Inv, TypeOK, Steps
<1>5. StubInv' BY <1>1, <1>3 DEF Inv, StubInv
<1> QED BY <1>4, <1>5 DEF Inv

\* Every step of a stub keeps the invariant.
LEMMA StubStep == Inv /\ [Next]_vars => Inv'
<1> SUFFICES ASSUME Inv, [Next]_vars PROVE Inv' OBVIOUS
<1>1. CASE UNCHANGED vars
  BY <1>1 DEF vars, Inv, TypeOK, StubInv, Top, SavedRegs, Shifted
<1>2. ASSUME NEW v \in Vectors, NEW err \in ErrCodes, Interrupt(v, err)
      PROVE Inv'
  BY <1>2, InterruptInv
<1>3. CASE MainRuns BY <1>3, MainRunsInv
<1>4. CASE PushFrame BY <1>4, PushFrameInv
<1>5. CASE SaveRegs BY <1>5, SaveRegsInv
<1>6. CASE CallHandler BY <1>6, CallHandlerInv
<1>7. CASE HandlerReturns BY <1>7, HandlerReturnsInv
<1>8. CASE DropArgument BY <1>8, DropArgumentInv
<1>9. CASE RestoreRegs BY <1>9, RestoreRegsInv
<1>10. CASE Return BY <1>10, ReturnInv
<1> QED BY <1>1, <1>2, <1>3, <1>4, <1>5, <1>6, <1>7, <1>8, <1>9, <1>10 DEF Next

-----------------------------------------------------------------------------

\* At every step of a stub the stack holds the frame of isr_regs_t below what
\* was interrupted, and the registers are in the state of that step.
THEOREM StubIsInductive == Spec => [](TypeOK /\ StubInv)
<1>1. Init => Inv BY InitInv
<1>2. Inv /\ [Next]_vars => Inv' BY StubStep
<1>3. Inv => TypeOK /\ StubInv BY DEF Inv
<1> QED BY <1>1, <1>2, <1>3, PTL DEF Spec

\* The stub keeps to the stack below what it interrupted: esp never leaves it,
\* whatever the vector and the registers are (isr.s:1-73).
THEOREM StubType == Spec => []TypeOK
<1> QED BY StubIsInductive, PTL

\* isr_handler reads the vector, the error code and the interrupted registers
\* through its argument under the names of isr_regs_t (isr.h:6-17).
THEOREM HandlerSeesStruct == Spec => []FrameMatchesStruct
<1>1. Inv => FrameMatchesStruct
  <2> SUFFICES ASSUME Inv, at = "handler" PROVE FrameMatchesStruct
    BY DEF FrameMatchesStruct
  <2>1. /\ mem[esp + 1] = taken.esp - 13 /\ taken.esp \in Nat
        /\ \A r \in GeneralRegs : mem[taken.esp - 13 + Slot[r]] = taken.regs[r]
        /\ mem[taken.esp - 4] = taken.err /\ mem[taken.esp - 5] = vec
    BY WhileStubRuns DEF Inv, StubInv, SavedRegs
  <2>2. /\ taken.esp - 13 + IntNoSlot = taken.esp - 5
        /\ taken.esp - 13 + ErrCodeSlot = taken.esp - 4
    BY <2>1 DEF IntNoSlot, ErrCodeSlot
  <2> QED BY <2>1, <2>2 DEF FrameMatchesStruct
<1>2. TypeOK /\ StubInv => FrameMatchesStruct BY <1>1 DEF Inv
<1> QED BY <1>2, StubIsInductive, PTL

\* A stub is not interrupted and returns to the interrupted instruction at the
\* interrupted depth of stack, with interrupts as they were (isr.s:4-14).
THEOREM StubReturns == Spec => ReturnsToInterrupted
<1> DEFINE A == /\ at # "main" => ~ intr
                /\ at = "iret" => /\ at' = "main" /\ intr' = taken.intr
                                  /\ eip' = taken.eip
                                  /\ esp' = taken.esp
<1>1. Init => Inv BY InitInv
<1>2. Inv /\ [Next]_vars => Inv' BY StubStep
<1>3. Inv /\ [Next]_vars => [A]_vars
  <2> SUFFICES ASSUME Inv, Next PROVE A OBVIOUS
  <2>1. at # "main" => ~ intr BY DEF Inv, StubInv
  <2>2. ASSUME at = "iret"
        PROVE  at' = "main" /\ intr' = taken.intr /\ eip' = taken.eip /\ esp' = taken.esp
    <3>1. Return
      BY <2>2 DEF Next, MainRuns, Interrupt, PushFrame, SaveRegs, CallHandler,
                  HandlerReturns, DropArgument, RestoreRegs
    <3>2. taken.esp \in Nat /\ esp \in Nat BY <2>2, WhileStubRuns
    <3>3. taken.esp - esp = 3 /\ mem[taken.esp - 1] = Eflags(taken.intr)
          /\ mem[taken.esp - 3] = taken.eip
      BY <2>2 DEF Inv, StubInv, Top
    <3>4. /\ esp = taken.esp - 3 /\ esp + 2 = taken.esp - 1
          /\ esp + 3 = taken.esp
      BY <3>2, <3>3
    <3>5. (Eflags(taken.intr) = 1) = taken.intr
      <4>1. taken.intr \in BOOLEAN BY DEF Inv, TypeOK
      <4> QED BY <4>1 DEF Eflags
    <3>6. /\ at' = "main" /\ eip' = mem[esp] /\ esp' = esp + 3
          /\ intr' = (mem[esp + 2] = 1)
      BY <3>1 DEF Return
    <3>7. mem[esp + 2] = Eflags(taken.intr) /\ mem[esp] = taken.eip BY <3>3, <3>4
    <3>8. intr' = taken.intr BY <3>5, <3>6, <3>7
    <3> QED BY <3>3, <3>4, <3>6, <3>7, <3>8
  <2> QED BY <2>1, <2>2
<1> QED BY <1>1, <1>2, <1>3, PTL DEF Spec, ReturnsToInterrupted
=============================================================================
