---------------------------- MODULE InterruptStub ----------------------------
(***************************************************************************)
(* The assembly stubs of src/src/stage0/idt/isr.s, one per vector, that    *)
(* take the processor from the interrupted code to isr_handler and back.   *)
(*                                                                         *)
(* The state is the processor's: the general registers, esp, eip, the      *)
(* interrupt flag, and the stack, a memory of 32 bit words.  esp counts    *)
(* words, so a push stores at esp - 1.                                     *)
(***************************************************************************)
EXTENDS Integers

CONSTANTS
  StackWords,  \* words of kernel stack (4096 in the code, 16 KiB)
  Vectors,     \* the vectors that occur, as numbers
  MainRegs,    \* register contents the interrupted code may have
  MainEips,    \* instructions it may be interrupted at
  MainEsps,    \* depths of stack it may be interrupted at
  ErrCodes     \* error codes the processor may push

\* edi ... eax in the order of the fields of isr_regs_t, which is the order
\* pusha leaves them in, from the top of the stack; esp is the fourth.
GeneralRegs == {"edi", "esi", "ebp", "ebx", "edx", "ecx", "eax"}
Slot == [edi |-> 0, esi |-> 1, ebp |-> 2, ebx |-> 4, edx |-> 5, ecx |-> 6,
         eax |-> 7]
EspSlot == 3
IntNoSlot == 8
ErrCodeSlot == 9

\* Vectors for which the processor itself pushes an error code, and those
\* whose stub is the macro ISR_ERR.
HardwarePushesError == {8, 10, 11, 12, 13, 14, 17}
HardwareDepth(v) == IF v \in HardwarePushesError THEN 4 ELSE 3
BugErrMacro == {8} \cup 10 .. 12 \cup {14, 17}  \* wrong variant: 13 left out
ErrMacro == {8} \cup 10 .. 14 \cup {17}

KernelCS == 8

\* The return address, of which only the place on the stack matters.
StubCode == 0

\* The deepest a stub goes: eflags, cs, eip, two words of err_code and
\* int_no, the eight of pusha, the argument and the return address.
StubFrame == 15

ASSUME StubAssumption ==
  /\ StackWords \in Nat
  /\ Vectors \subseteq 0 .. 255
  /\ MainRegs \subseteq [GeneralRegs -> Int]
  /\ MainEips \subseteq Int
  /\ MainEsps \subseteq StubFrame .. StackWords
  /\ ErrCodes \subseteq Int

VARIABLES
  regs,   \* the general registers, esp apart
  esp,
  eip,    \* meaningful while the interrupted code runs
  intr,   \* the IF flag
  mem,    \* the stack
  at,     \* "main", or the next step of the stub
  vec,    \* vector of the stub that runs
  taken   \* what was interrupted: history, never read by the stub

vars == <<regs, esp, eip, intr, mem, at, vec, taken>>

Stack == 0 .. StackWords - 1
Steps == {"main", "frame", "save", "call", "handler", "cleanup", "restore",
          "iret"}

Init ==
  /\ regs \in MainRegs /\ esp \in MainEsps /\ eip \in MainEips
  /\ intr \in BOOLEAN
  /\ mem = [i \in Stack |-> 0]
  /\ at = "main" /\ vec = 0
  /\ taken = [regs |-> regs, esp |-> esp, eip |-> eip, intr |-> intr,
              err |-> 0]

\* The interrupted code computes, calls and returns, and turns interrupts off
\* and on.
MainRuns ==
  /\ at = "main"
  /\ regs' \in MainRegs /\ esp' \in MainEsps /\ eip' \in MainEips
  /\ intr' \in BOOLEAN
  /\ UNCHANGED <<mem, at, vec, taken>>

\* Requests of the PICs wait for IF, exceptions and int do not.
Requested == 32 .. 47

\* eflags, of which only IF matters.
Eflags(if) == IF if THEN 1 ELSE 0

\* Wrong variant: trap gates (flags 0x8F), which leave IF set.
BugInterrupt(v, err) ==
  LET depth == HardwareDepth(v)
  IN  /\ at = "main" /\ (v \in Requested => intr)
      /\ at' = "frame" /\ vec' = v
      /\ mem' = [mem EXCEPT ![esp - 1] = Eflags(intr), ![esp - 2] = KernelCS,
                            ![esp - 3] = eip,
                            ![esp - 4] = IF depth = 4 THEN err ELSE @]
      /\ esp' = esp - depth
      /\ taken' = [regs |-> regs, esp |-> esp, eip |-> eip, intr |-> intr,
                   err |-> IF depth = 4 THEN err ELSE 0]
      /\ UNCHANGED <<regs, eip, intr>>

\* The processor takes vector v through its gate: eflags, cs and eip are
\* pushed, an error code after them where there is one, and IF is cleared,
\* the gates being interrupt gates (flags 0x8E).
Interrupt(v, err) ==
  LET depth == HardwareDepth(v)
  IN  /\ at = "main" /\ (v \in Requested => intr)
      /\ at' = "frame" /\ vec' = v
      /\ mem' = [mem EXCEPT ![esp - 1] = Eflags(intr), ![esp - 2] = KernelCS,
                            ![esp - 3] = eip,
                            ![esp - 4] = IF depth = 4 THEN err ELSE @]
      /\ esp' = esp - depth
      /\ intr' = FALSE
      /\ taken' = [regs |-> regs, esp |-> esp, eip |-> eip, intr |-> intr,
                   err |-> IF depth = 4 THEN err ELSE 0]
      /\ UNCHANGED <<regs, eip>>

\* pushl $0 unless the stub is an ISR_ERR, pushl $num.
PushFrame ==
  /\ at = "frame" /\ at' = "save"
  /\ IF vec \in ErrMacro
     THEN /\ mem' = [mem EXCEPT ![esp - 1] = vec]
          /\ esp' = esp - 1
     ELSE /\ mem' = [mem EXCEPT ![esp - 1] = 0, ![esp - 2] = vec]
          /\ esp' = esp - 2
  /\ UNCHANGED <<regs, eip, intr, vec, taken>>

\* pusha
SaveRegs ==
  /\ at = "save" /\ at' = "call"
  /\ mem' = [mem EXCEPT ![esp - 1] = regs["eax"], ![esp - 2] = regs["ecx"],
                        ![esp - 3] = regs["edx"], ![esp - 4] = regs["ebx"],
                        ![esp - 5] = esp,      ![esp - 6] = regs["ebp"],
                        ![esp - 7] = regs["esi"], ![esp - 8] = regs["edi"]]
  /\ esp' = esp - 8
  /\ UNCHANGED <<regs, eip, intr, vec, taken>>

\* mov %esp, %eax; push %eax; call isr_handler, which pushes the address of
\* the instruction after it.
CallHandler ==
  /\ at = "call" /\ at' = "handler"
  /\ regs' = [regs EXCEPT !["eax"] = esp]
  /\ mem' = [mem EXCEPT ![esp - 1] = esp, ![esp - 2] = StubCode]
  /\ esp' = esp - 2
  /\ UNCHANGED <<eip, intr, vec, taken>>

\* isr_handler returns: the C calling convention leaves it eax, ecx and edx
\* to use, and every other register as it was.
HandlerReturns ==
  /\ at = "handler" /\ at' = "cleanup"
  /\ \E eax, ecx, edx \in ErrCodes :
       regs' = [regs EXCEPT !["eax"] = eax, !["ecx"] = ecx, !["edx"] = edx]
  /\ esp' = esp + 1
  /\ UNCHANGED <<eip, intr, mem, vec, taken>>

\* Wrong variant: add $16.
BugDropFourWords ==
  /\ at = "cleanup" /\ at' = "restore"
  /\ esp' = esp + 4
  /\ UNCHANGED <<regs, eip, intr, mem, vec, taken>>

\* add $12, %esp
DropArgument ==
  /\ at = "cleanup" /\ at' = "restore"
  /\ esp' = esp + 3
  /\ UNCHANGED <<regs, eip, intr, mem, vec, taken>>

\* popa
RestoreRegs ==
  /\ at = "restore" /\ at' = "iret"
  /\ regs' = [r \in GeneralRegs |-> mem[esp + Slot[r]]]
  /\ esp' = esp + 8
  /\ UNCHANGED <<eip, intr, mem, vec, taken>>

\* Wrong variant: the frame of an interrupt from user mode, with esp and ss.
BugReturn ==
  /\ at = "iret" /\ at' = "main"
  /\ eip' = mem[esp]
  /\ intr' = (mem[esp + 2] = 1)
  /\ esp' = esp + 5
  /\ UNCHANGED <<regs, mem, vec, taken>>

\* sti; iret: no interrupt is taken between the two, and IF comes back as the
\* interrupted code had it.
Return ==
  /\ at = "iret" /\ at' = "main"
  /\ eip' = mem[esp]
  /\ intr' = (mem[esp + 2] = 1)
  /\ esp' = esp + 3
  /\ UNCHANGED <<regs, mem, vec, taken>>

Next ==
  \/ MainRuns
  \/ \E v \in Vectors, err \in ErrCodes : Interrupt(v, err)
  \/ PushFrame \/ SaveRegs \/ CallHandler \/ HandlerReturns
  \/ DropArgument \/ RestoreRegs \/ Return

Spec == Init /\ [][Next]_vars

-----------------------------------------------------------------------------

TypeOK ==
  /\ regs \in [GeneralRegs -> Int]
  /\ esp \in 0 .. StackWords
  /\ eip \in Int /\ intr \in BOOLEAN
  /\ mem \in [Stack -> Int]
  /\ at \in Steps /\ vec \in 0 .. 255
  /\ taken \in [regs : [GeneralRegs -> Int], esp : MainEsps, eip : Int,
                intr : BOOLEAN, err : Int]

\* What the stubs leave in the registers: add $12 drops the argument and the
\* saved edi and esi with it, so popa loads each register from a slot two
\* above its own.
Shifted ==
  [edi |-> taken.regs["ebp"], esi |-> taken.esp - 5, ebp |-> taken.regs["ebx"],
   ebx |-> taken.regs["ecx"], edx |-> taken.regs["eax"], ecx |-> vec,
   eax |-> taken.err]

\* The stack and the registers at each step of a stub, relative to what was
\* interrupted: the fact behind the properties below.  Top is the depth of
\* the stack below the interrupted code, in words.
Top == taken.esp - esp
SavedRegs == taken.esp - 13

StubInv ==
  /\ IF at = "main" THEN esp \in MainEsps ELSE ~ intr
  /\ at # "main" => /\ mem[taken.esp - 1] = Eflags(taken.intr)
                    /\ mem[taken.esp - 3] = taken.eip
  /\ at = "frame" =>
       IF vec \in HardwarePushesError THEN Top = 4 /\ mem[esp] = taken.err
                                      ELSE Top = 3 /\ taken.err = 0
  /\ at \in {"frame", "save"} => regs = taken.regs
  /\ at \in {"save", "call", "handler", "cleanup", "restore"} =>
       mem[taken.esp - 4] = taken.err /\ mem[taken.esp - 5] = vec
  /\ at \in {"call", "handler", "cleanup", "restore"} =>
       /\ \A r \in GeneralRegs : mem[SavedRegs + Slot[r]] = taken.regs[r]
       /\ mem[SavedRegs + EspSlot] = taken.esp - 5
  /\ at = "save" => Top = 5
  /\ at = "call" => Top = 13
  /\ at = "handler" => Top = 15 /\ mem[esp + 1] = SavedRegs
  /\ at = "cleanup" => Top = 14
  /\ at = "restore" => Top = 11
  /\ at = "iret" => Top = 3 /\ \A r \in GeneralRegs : regs[r] = Shifted[r]

\* What isr_handler finds through its argument is the isr_regs_t of isr.h:
\* the vector, the error code (0 where the processor pushed none) and the
\* registers of the interrupted code, under the names they have there.
FrameMatchesStruct ==
  at = "handler" =>
    LET arg == mem[esp + 1]
    IN  /\ mem[arg + IntNoSlot] = vec
        /\ mem[arg + ErrCodeSlot] = taken.err
        /\ \A r \in GeneralRegs : mem[arg + Slot[r]] = taken.regs[r]

\* A stub is never interrupted by a device, and it returns to the interrupted
\* instruction, at the interrupted depth of stack, with interrupts as they
\* were there.
ReturnsToInterrupted ==
  [][ /\ at # "main" => ~ intr
      /\ at = "iret" => /\ at' = "main" /\ intr' = taken.intr
                        /\ eip' = taken.eip
                        /\ esp' = taken.esp ]_vars

\* An interrupt leaves the registers of the interrupted code as they were.
RegistersPreserved ==
  at = "iret" => regs = taken.regs
=============================================================================
