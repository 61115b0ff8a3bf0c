------------------------------- MODULE Kernel -------------------------------
(***************************************************************************)
(* kmain of src/src/stage0/stage0.c and the keyboard interrupt, on one     *)
(* processor, with the keyboard controller and the interrupt controller.   *)
(*                                                                         *)
(* The interrupt runs with interrupts off: isr33, isr_handler and          *)
(* keyboard_handler are one step.  kmain runs with interrupts on, so that  *)
(* the steps of its console output, of the keyboard_handler it polls and   *)
(* of keyboard_getc are steps of the model, one per access to what the     *)
(* interrupt handler shares.  "code" holds the steps left of the call that *)
(* kmain is in, a call or a branch putting its own steps in front.         *)
(*                                                                         *)
(* The stubs return with wrong registers (module InterruptStub).  Where    *)
(* StubRestores is FALSE, as in the code, kmain is lost when an interrupt  *)
(* hits it anywhere but in the hlt and jmp of boot.s, which use none.      *)
(* TRUE is the contract the C code is written against: registers restored. *)
(***************************************************************************)
EXTENDS Keyboard, Sequences, FiniteSets

CONSTANTS
  StubRestores,  \* do the interrupt stubs restore the registers?
  Sessions       \* what happens around kmain: the scancodes the user's keys
                 \*   send, those port 0x60 may hold before the first of them,
                 \*   a bound on the scancodes sent, and one on the characters
                 \*   kmain prints before its loop

ASSUME KernelAssumption ==
  /\ StubRestores \in BOOLEAN
  /\ Sessions \subseteq [keys : SUBSET Scancodes, stale : (SUBSET Scancodes) \ {{}},
                        maxKeys : Nat, maxPrints : Nat]

VARIABLES
  session,  \* the session: never written
  at,       \* where kmain is: boot, print, loop, halt, spin, lost
  code,     \* the steps left of kmain's current call
  loc,      \* arguments and locals of that call
  printed,  \* characters printed before the loop
  intr,     \* the IF flag
  pic,      \* IRQ1 in the master PIC: irr requested, isr in service
  kbc,      \* the output buffer of the keyboard controller
  typed,    \* all scancodes sent, in order; those after the first "sent"
  sent,     \*   are still in the keyboard's own buffer
  vga, shift, head, tail,
  hit       \* history: the interrupt has used the console in the middle of
            \*   a call of kmain, since kmain last began to set the cursor

main == <<at, code, loc, printed>>
hardware == <<intr, pic, kbc, typed, sent>>
ring == <<shift, head, tail>>
vars == <<session, main, hardware, vga, ring, hit>>

-----------------------------------------------------------------------------
(* The steps of kmain's calls, as pairs of a name and an operand. *)

Do(name) == <<name, 0>>
With(name, n) == <<name, n>>

\* Wrong variant: the high byte written without selecting its register.
BugCursorCode == << Do("select lo"), Do("write lo"), Do("write hi") >>

\* vga_cursor_pos(col, row): two writes to each of the two CRTC registers.
CursorCode == << Do("select lo"), Do("write lo"), Do("select hi"), Do("write hi") >>

\* vga_pos, its arguments evaluated from the last to the first.
SetPos == << Do("set col"), Do("set row") >> \o CursorCode
Move(dcol, drow) == << With("row", drow), With("col", dcol) >> \o SetPos
MoveTo(col, drow) == << With("row", drow), With("const col", col) >> \o SetPos

NewLineCode == MoveTo(0, 1) \o << Do("overflow?") >>
ScrollCode == [i \in 1 .. Height |-> With("scroll row", i - 1)]
StoreCode(ch) == << With("row", 0), With("col", 0), With("store", ch) >>
PutCode(ch) == << Do("wrap?") >> \o StoreCode(ch) \o Move(1, 0)

\* The switch of keyboard_get_char.
KeyCode(key) ==
  CASE key \in ShiftDown \cup ShiftUp -> << With("shift", key) >>
    [] key = "enter"     -> NewLineCode
    [] key = "backspace" -> << Do("backspace") >>
    [] key = "up"        -> Move(0, -1)
    [] key = "down"      -> Move(0, 1)
    [] key = "left"      -> Move(-1, 0)
    [] key = "right"     -> Move(1, 0)
    [] OTHER             -> << With("char?", key) >>

\* One turn of kmain's loop: keyboard_handler, keyboard_getc, the test of c.
PollCode == << Do("inb"), Do("eoi"), Do("empty?"), Do("print?") >>

NoLocals == [col |-> 0, row |-> 0, next |-> 0, ch |-> Nul]

\* Where stage0.c has come to sti.  Its ICW1 (idt.c:159) forgot the request of
\* a key pressed before it, while that key still fills the controller.
Init ==
  /\ session \in Sessions
  /\ at = "boot" /\ code = << >> /\ loc = NoLocals /\ printed = 0
  /\ intr = FALSE
  /\ pic = [irr |-> FALSE, isr |-> FALSE]
  /\ kbc \in [byte : session.stale, full : BOOLEAN]
  /\ typed = << >> /\ sent = 0
  /\ vga = Cleared
  /\ shift = FALSE /\ head = 0 /\ tail = 0
  /\ hit = FALSE

-----------------------------------------------------------------------------
(* The keyboard, its controller and the interrupt. *)

Type(key) ==
  /\ Len(typed) < session.maxKeys
  /\ typed' = Append(typed, key)
  /\ UNCHANGED <<main, intr, pic, kbc, sent, vga, ring, hit>>

\* The controller takes the next scancode and raises IRQ1, whose edge the
\* PIC latches.
KbcLoad ==
  /\ sent < Len(typed) /\ ~ kbc.full
  /\ kbc' = [byte |-> typed[sent + 1], full |-> TRUE]
  /\ sent' = sent + 1
  /\ pic' = [pic EXCEPT !.irr = TRUE]
  /\ UNCHANGED <<main, intr, typed, vga, ring, hit>>

BugEoi(p) == p  \* wrong variant: no EOI

\* outb(0x20, 0x20)
Eoi(p) == [p EXCEPT !.isr = FALSE]

\* Where kmain is after an interrupt.
Resumed ==
  CASE at = "halt" -> "spin"
    [] at = "spin" -> "spin"
    [] OTHER -> IF StubRestores THEN at ELSE "lost"

\* IRQ1: isr33, isr_handler, keyboard_handler, both their EOIs, iret.
KeyboardIrq ==
  /\ intr /\ pic.irr /\ ~ pic.isr /\ at # "lost"
  /\ LET key == kbc.byte
     IN  /\ vga' \in IF key \in CursorKeys THEN KeyOutcomes(vga, key) ELSE {vga}
         /\ shift' = ShiftAfter(shift, key)
         /\ head' = HeadAfter(head, tail, shift, key)
         /\ hit' = (hit \/ (code # << >> /\ key \in CursorKeys))
  /\ kbc' = [kbc EXCEPT !.full = FALSE]
  /\ pic' = Eoi(Eoi([irr |-> FALSE, isr |-> TRUE]))
  /\ at' = Resumed
  /\ IF at' = "lost" THEN code' = << >> /\ loc' = NoLocals
                     ELSE UNCHANGED <<code, loc>>
  /\ UNCHANGED <<printed, intr, typed, sent, tail>>

-----------------------------------------------------------------------------
(* kmain between calls. *)

Sti ==
  /\ at = "boot"
  /\ at' = "print" /\ intr' = TRUE
  /\ UNCHANGED <<code, loc, printed, pic, kbc, typed, sent, vga, ring, hit>>

Call(steps) == code = << >> /\ code' = steps

PrintChar ==
  /\ at = "print" /\ printed < session.maxPrints
  /\ Call(NewLineCode) \/ \E ch \in Chars : Call(PutCode(ch))
  /\ printed' = printed + 1
  /\ UNCHANGED <<at, loc, hardware, vga, ring, hit>>

\* panic prints and returns; boot.s halts.  Or all goes well.
LeaveSetup ==
  /\ at = "print" /\ code = << >>
  /\ at' \in {"halt", "loop"}
  /\ UNCHANGED <<code, loc, printed, hardware, vga, ring, hit>>

Poll ==
  /\ at = "loop" /\ Call(PollCode)
  /\ UNCHANGED <<at, loc, printed, hardware, vga, ring, hit>>

-----------------------------------------------------------------------------
(* kmain inside a call: the first step of "code". *)

Operand == code[1][2]

\* The step to take is the named one; it is replaced by "more".
Step(name, more) ==
  /\ code # << >> /\ code[1][1] = name
  /\ code' = more \o Tail(code)
  /\ UNCHANGED <<at, printed>>

EvalRow ==
  /\ Step("row", << >>)
  /\ loc' = [loc EXCEPT !.row = Byte(vga.row + Operand)]
  /\ UNCHANGED <<hardware, vga, ring, hit>>

EvalCol ==
  /\ \/ /\ Step("col", << >>)
        /\ loc' = [loc EXCEPT !.col = Byte(vga.col + Operand)]
     \/ /\ Step("const col", << >>)
        /\ loc' = [loc EXCEPT !.col = Operand]
  /\ UNCHANGED <<hardware, vga, ring, hit>>

OnlyVga == UNCHANGED <<loc, hardware, ring, hit>>

SetCol ==
  /\ Step("set col", << >>)
  /\ vga' = [vga EXCEPT !.col = loc.col]
  /\ hit' = FALSE
  /\ UNCHANGED <<loc, hardware, ring>>

SetRow ==
  /\ Step("set row", << >>)
  /\ vga' = [vga EXCEPT !.row = loc.row]
  /\ OnlyVga

SelectCrtc ==
  /\ \E reg \in {"lo", "hi"} :
       /\ Step(IF reg = "lo" THEN "select lo" ELSE "select hi", << >>)
       /\ vga' = [vga EXCEPT !.crtc.index = reg]
  /\ OnlyVga

\* A write to the data port goes to the register selected now.
WriteCrtc ==
  LET pos == loc.row * Width + loc.col
      Write(byte) == vga' = [vga EXCEPT !.crtc[vga.crtc.index] = byte]
  IN  /\ \/ Step("write lo", << >>) /\ Write(LowByte(pos))
         \/ Step("write hi", << >>) /\ Write(HighByte(pos))
      /\ OnlyVga

Store ==
  /\ Step("store", << >>)
  /\ vga' = vga_set(vga, Operand, loc.col, loc.row)
  /\ OnlyVga

\* memmove of the rows below row Operand, one row at a time, and the blanks.
ScrollRow ==
  /\ Step("scroll row", << >>)
  /\ vga' = [vga EXCEPT !.cells = [i \in Addr |->
       IF i \div Width # Operand THEN vga.cells[i]
       ELSE IF i + Width \in Addr THEN vga.cells[i + Width] ELSE Nul]]
  /\ OnlyVga

\* What the cell at the cursor may read as, memory outside the page included.
CellViews ==
  LET i == CellIndex(vga.col, vga.row)
  IN  IF i \in Addr THEN {vga.cells[i]} ELSE Chars \cup {Nul}

\* The end of a turn of the Backspace scan: column 0 ends it.  Wrong variant:
\* it does not.
BugScanOn == << Do("scan") >>
ScanOn == IF vga.col = 0 THEN Move(-1, 0) ELSE << Do("scan") >>

\* The Backspace case: at column 0 it also sends the character of the cell to
\* the serial port.
BackspaceCode ==
  (IF vga.col > 0 THEN Move(-1, 0)
   ELSE MoveTo(Width - 1, -1) \o << Do("transmit"), Do("blank?") >>)
  \o StoreCode(Nul)

\* The branches: of vga_put, of vga_newline, of the Backspace case, and of the
\* wait of serial_write_char, which ends when the port has sent its last
\* character (module Boot).
Branch ==
  /\ \/ Step("wrap?", IF vga.col + 1 >= Width THEN NewLineCode ELSE << >>)
     \/ Step("overflow?", IF vga.row > Height - 1
                          THEN ScrollCode \o MoveTo(0, -1) ELSE << >>)
     \/ Step("backspace", BackspaceCode)
     \/ Step("transmit", << >>)
     \/ \E view \in CellViews :
          \/ Step("blank?", IF view = Nul
                            THEN << Do("scan") >> \o Move(1, 0) ELSE << >>)
          \/ Step("scan", IF view = Nul
                          THEN Move(-1, 0) \o << Do("scanned?") >> ELSE << >>)
     \/ Step("scanned?", ScanOn)
  /\ UNCHANGED <<loc, hardware, vga, ring, hit>>

\* keyboard_handler, called by kmain.
ReadPort ==
  /\ Step("inb", KeyCode(kbc.byte))
  /\ kbc' = [kbc EXCEPT !.full = FALSE]
  /\ UNCHANGED <<loc, intr, pic, typed, sent, vga, ring, hit>>

SetShift ==
  /\ Step("shift", << >>)
  /\ shift' = ShiftAfter(shift, Operand)
  /\ UNCHANGED <<loc, hardware, vga, head, tail, hit>>

ApplyShift ==
  /\ Step("char?", IF YieldsChar(shift, Operand)
                   THEN << Do("next"), Do("head") >> ELSE << >>)
  /\ UNCHANGED <<loc, hardware, vga, ring, hit>>

ComputeNext ==
  /\ Step("next", << >>)
  /\ loc' = [loc EXCEPT !.next = Advance(head)]
  /\ UNCHANGED <<hardware, vga, ring, hit>>

\* The test against the tail and the store: only kmain writes the tail.
WriteHead ==
  /\ Step("head", << >>)
  /\ head' = StoreHead(head, loc.next, tail)
  /\ UNCHANGED <<loc, hardware, vga, shift, tail, hit>>

SendEoi ==
  /\ Step("eoi", << >>)
  /\ pic' = Eoi(pic)
  /\ UNCHANGED <<loc, intr, kbc, typed, sent, vga, ring, hit>>

\* keyboard_getc with a character to take.
TakeCode == << Do("cli"), Do("take"), Do("sti") >>

\* keyboard_getc.
TestEmpty ==
  /\ Step("empty?", IF head = tail THEN << >> ELSE TakeCode)
  /\ loc' = [loc EXCEPT !.ch = Nul]
  /\ UNCHANGED <<hardware, vga, ring, hit>>

Flag ==
  /\ \/ Step("cli", << >>) /\ intr' = FALSE
     \/ Step("sti", << >>) /\ intr' = TRUE
  /\ UNCHANGED <<loc, pic, kbc, typed, sent, vga, ring, hit>>

Take ==
  /\ Step("take", << >>)
  /\ loc' = [loc EXCEPT !.ch = kbd_buffer[tail]]
  /\ tail' = Advance(tail)
  /\ UNCHANGED <<hardware, vga, shift, head, hit>>

PrintGot ==
  /\ Step("print?", IF loc.ch # Nul THEN PutCode(loc.ch) ELSE << >>)
  /\ UNCHANGED <<loc, hardware, vga, ring, hit>>

Main ==
  \/ Sti \/ PrintChar \/ LeaveSetup \/ Poll
  \/ EvalRow \/ EvalCol \/ SetCol \/ SetRow \/ SelectCrtc \/ WriteCrtc
  \/ Store \/ ScrollRow \/ Branch
  \/ ReadPort \/ SetShift \/ ApplyShift \/ ComputeNext \/ WriteHead \/ SendEoi
  \/ TestEmpty \/ Flag \/ Take \/ PrintGot

Next ==
  /\ \/ \E key \in session.keys : Type(key)
     \/ KbcLoad
     \/ KeyboardIrq
     \/ Main
  /\ UNCHANGED session

\* The processor goes on executing kmain and the keyboard goes on sending.
\* A pending interrupt is taken at an instruction boundary with interrupts
\* on: kmain turns them off and on again, so the fairness is strong.
Fairness ==
  /\ WF_vars(Main /\ UNCHANGED session) /\ WF_vars(KbcLoad /\ UNCHANGED session)
  /\ SF_vars(KeyboardIrq /\ UNCHANGED session)

Spec == Init /\ [][Next]_vars /\ Fairness

-----------------------------------------------------------------------------

NumericSteps ==
  {"row", "col", "const col", "set col", "set row", "select lo", "write lo",
   "select hi", "write hi", "scroll row", "wrap?", "overflow?", "backspace",
   "transmit", "blank?", "scan", "scanned?", "inb", "next", "head", "eoi", "empty?", "cli",
   "take", "sti", "print?"}

TypeOK ==
  /\ session \in Sessions
  /\ at \in {"boot", "print", "loop", "halt", "spin", "lost"}
  /\ \A i \in DOMAIN code :
       \/ code[i] \in {"shift", "char?"} \X Scancodes
       \/ code[i] \in {"store"} \X (Chars \cup {Nul})
       \/ code[i][1] \in NumericSteps /\ code[i][2] \in -1 .. ByteMod - 1
  /\ loc \in [col : 0 .. ByteMod - 1, row : 0 .. ByteMod - 1,
              next : 0 .. BufferSize - 1, ch : Chars \cup {Nul}]
  /\ printed \in 0 .. session.maxPrints
  /\ intr \in BOOLEAN
  /\ pic \in [irr : BOOLEAN, isr : BOOLEAN]
  /\ kbc \in [byte : session.keys \cup session.stale, full : BOOLEAN]
  /\ typed \in Seq(session.keys) /\ Len(typed) <= session.maxKeys
  /\ sent \in 0 .. Len(typed)
  /\ vga \in Consoles
  /\ shift \in BOOLEAN
  /\ head \in 0 .. BufferSize - 1 /\ tail \in 0 .. BufferSize - 1
  /\ hit \in BOOLEAN

\* The ring buffer, with keyboard_handler polled by kmain and run by the
\* interrupt in the middle of it: no store of the head, not even one computed
\* before an interrupt moved it, catches up with the tail or adds more than
\* one character, and keyboard_getc, which tests for an empty ring before it
\* turns interrupts off, never advances over an empty one.
RingDiscipline ==
  [][ /\ head' # head => head' # tail' /\ tail' = tail
      /\ tail' # tail => head # tail /\ head' = head
      /\ Unread(head', tail') <= Unread(head, tail) + 1 ]_vars

\* Between two calls of kmain the cursor on the screen is the software cursor,
\* unless the interrupt used the console in the middle of kmain's last
\* vga_pos or after it: an unlucky interrupt is the only way to tear the two,
\* and kmain's next vga_pos repairs it.
CursorAgrees ==
  code = << >> /\ ~ hit =>
    vga.crtc.hi * ByteMod + vga.crtc.lo = CellIndex(vga.col, vga.row)

\* Once the machine is halted the keyboard interrupt works alone: when every
\* scancode has been served, the shift flag follows the last shift key and the
\* ring holds one character for each character key, up to its capacity.  No
\* scancode is lost, served twice or served out of order.
Quiet == sent = Len(typed) /\ ~ kbc.full /\ ~ pic.irr
ShiftWhen(n) ==
  \E i \in 1 .. n : /\ typed[i] \in ShiftDown
                   /\ \A j \in i + 1 .. n : typed[j] \notin ShiftUp
TypedChars == {i \in 1 .. Len(typed) : YieldsChar(ShiftWhen(i - 1), typed[i])}
HaltedKeyboard ==
  at \in {"halt", "spin"} /\ Quiet =>
    /\ shift = ShiftWhen(Len(typed))
    /\ LET n == Cardinality(TypedChars)
       IN  Unread(head, tail) = IF n < BufferSize THEN n ELSE BufferSize - 1

\* Every scancode is eventually read from the controller: neither a missing
\* EOI nor interrupts left off stops the keyboard.  One thing does: the halted
\* kernel never reads the scancode of a key pressed before the PIC was set up,
\* whose edge is gone, and so never hears of another.
Deaf == at \in {"halt", "spin"} /\ kbc.full /\ sent = 0
KeysServed ==
  sent < Len(typed) ~> \/ sent = Len(typed) /\ ~ kbc.full
                       \/ at = "lost" \/ Deaf

\* kmain's loop keeps turning: whatever is pressed meanwhile, the scan of the
\* Backspace key over the row above ends.
KeepsPolling == []<>(at = "loop" => code = << >>)

\* "if empty, return 0" (kbd_mouse.c:222): a character taken from a ring that
\* is not empty is not 0.
TakenIsCharacter == [][tail' # tail => loc'.ch # Nul]_vars
=============================================================================
