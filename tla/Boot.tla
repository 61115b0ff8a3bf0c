-------------------------------- MODULE Boot --------------------------------
(***************************************************************************)
(* kmain of src/src/stage0/stage0.c up to its loop: the descriptor tables, *)
(* the two interrupt controllers, the serial port, and then, interrupts on *)
(* and the keyboard at work, the module with the file system and the       *)
(* search in it, for which the actions of Fat32 are taken.                 *)
(*                                                                         *)
(* The PICs and the UART are models of the hardware, driven by the bytes   *)
(* the code writes to their ports.  Of a descriptor there is what decides  *)
(* whether an interrupt can get through it; of a message its kind.         *)
(*                                                                         *)
(* The stubs return with wrong registers (module InterruptStub).  As in    *)
(* Kernel, with these stubs kmain is lost when an interrupt hits it        *)
(* anywhere but in the hlt and jmp of boot.s, and nothing is said of what  *)
(* it does then.  A start with "restores" has stubs that keep the contract *)
(* the C code is written against: registers restored.                      *)
(***************************************************************************)
EXTENDS Fat32

CONSTANTS
  Starts,    \* what the boot loader hands over, and which stubs there are,
             \*   see StartType
  Masks,     \* the lines the firmware may have left masked on each PIC
  Lines,     \* interrupt lines that become active, of 0 .. 15
  Message,   \* the bytes of the message at line 35, "cr" and "lf" among them
  FifoSize,  \* bytes the FIFO of the UART holds, 16
  MaxKeys    \* keyboard interrupts in a behaviour

\* The magic number is right or not; the info is there, says that there are
\* modules (bit 3 of its flags) and lists them: with a name or the null
\* pointer, the image in it and its size in bytes.  The stubs restore the
\* registers, or are those of the code, which do not.
StartType(s) ==
  /\ s.restores \in BOOLEAN
  /\ s.magic \in BOOLEAN /\ s.info \in BOOLEAN /\ s.flag \in BOOLEAN
  /\ \A i \in DOMAIN s.mods :
       /\ s.mods[i].named \in BOOLEAN /\ s.mods[i].image \in Volumes
       /\ s.mods[i].size \in Nat

ASSUME BootAssumption ==
  /\ \A s \in Starts : StartType(s)
  /\ Lines \subseteq 0 .. 15 /\ Masks \subseteq SUBSET (0 .. 7)
  /\ Message \in Seq(STRING)
  /\ FifoSize \in Nat /\ FifoSize >= 2 /\ MaxKeys \in Nat

VARIABLES
  start,    \* what was handed over: never written
  pc,       \* the routine kmain is in
  todo,     \* port writes of the routine still to come, or bytes of Message
  gdt,      \* the descriptors, and whether the processor has loaded them
  idt,      \* the vectors with a gate, and whether the table is loaded
  if,       \* the interrupt flag
  pic,      \* the two controllers, see PicType
  uart,     \* the serial port, see UartType
  written,  \* history: the bytes serial_write_char has been called with and
            \*   put, in order
  sent,     \* history: what the line has carried
  irq,      \* the keyboard interrupt: none, handle, wait, put or eoi
  irqs,     \* history: the vectors delivered, "fault" where there was no gate
  keys,     \* keyboard interrupts so far
  reason    \* of the panic

machine == <<gdt, idt, if, pic, uart>>
history == <<written, sent, irqs, keys>>
fat == <<vol, at, fs, file, result, call>>
bootVars == <<start, pc, todo, machine, history, irq, reason, fat>>

-----------------------------------------------------------------------------
(* The hardware. *)

Weight == <<1, 2, 4, 8, 16, 32, 64, 128>>
Bits(byte) == {b \in 0 .. 7 : (byte \div Weight[b + 1]) % 2 = 1}

\* A controller: the vector of its line 0, the mask, requests, lines in
\* service, and which initialisation word it waits for, 0 for none.
PicType == [offset : Nat, mask : SUBSET (0 .. 7), irr : SUBSET (0 .. 7),
            isr : SUBSET (0 .. 7), icw : {0, 2, 3, 4}]
Pic(offset, mask) ==
  [offset |-> offset, mask |-> mask, irr |-> {}, isr |-> {}, icw |-> 0]

\* What a write to one of its ports does: the first initialisation word clears
\* mask and requests, the next three go to the data port.
Command(p, byte) ==
  IF byte = 17 THEN [p EXCEPT !.icw = 2, !.mask = {}, !.irr = {}, !.isr = {}]
  ELSE IF byte = 32 THEN [p EXCEPT !.isr = {}] ELSE p
Data(p, byte) ==
  CASE p.icw = 0 -> [p EXCEPT !.mask = Bits(byte)]
    [] p.icw = 2 -> [p EXCEPT !.icw = 3, !.offset = byte]
    [] p.icw = 3 -> [p EXCEPT !.icw = 4]
    [] p.icw = 4 -> [p EXCEPT !.icw = 0]

PicWrite(w) ==
  CASE w[1] = "pic1 command" -> [pic EXCEPT ![1] = Command(@, w[2])]
    [] w[1] = "pic1 data"    -> [pic EXCEPT ![1] = Data(@, w[2])]
    [] w[1] = "pic2 command" -> [pic EXCEPT ![2] = Command(@, w[2])]
    [] w[1] = "pic2 data"    -> [pic EXCEPT ![2] = Data(@, w[2])]

\* What the line may carry: the message, and the byte of the handler.
Bytes == {Message[i] : i \in DOMAIN Message} \cup {"key"}

\* The UART: the divisor latch bit hides the transmitter and the interrupt
\* register behind the divisor; without the FIFO the holding register takes
\* one byte, and a second one overwrites it.
UartType == [dlab : BOOLEAN, divisor : Nat \X Nat, fifo : BOOLEAN, queue : Seq(Bytes)]
Transmit(u, byte) ==
  IF u.dlab THEN [u EXCEPT !.divisor[1] = byte]
  ELSE IF ~ u.fifo THEN [u EXCEPT !.queue = <<byte>>]
  ELSE IF Len(u.queue) < FifoSize THEN [u EXCEPT !.queue = Append(@, byte)] ELSE u

UartWrite(w) ==
  CASE w[1] = "data"    -> Transmit(uart, w[2])
    [] w[1] = "enable"  -> IF uart.dlab THEN [uart EXCEPT !.divisor[2] = w[2]] ELSE uart
    [] w[1] = "line"    -> [uart EXCEPT !.dlab = 7 \in Bits(w[2])]
    [] w[1] = "fifo"    -> [uart EXCEPT !.fifo = 0 \in Bits(w[2]), !.queue = << >>]
    [] w[1] = "modem"   -> uart

\* serial_is_transmit_ready: nothing is left to be sent.
TransmitReady == uart.queue = << >>

UartSends ==
  /\ uart.queue # << >> /\ uart.divisor # <<0, 0>> /\ ~ uart.dlab
  /\ sent' = Append(sent, Head(uart.queue))
  /\ uart' = [uart EXCEPT !.queue = Tail(@)]
  /\ UNCHANGED <<start, pc, todo, gdt, idt, if, pic, written, irqs, keys, irq, reason, fat>>

\* A line becomes active; the keyboard's a few times only.
Request(line) ==
  /\ LET p == IF line < 8 THEN 1 ELSE 2
     IN  line % 8 \notin pic[p].irr /\ pic' = [pic EXCEPT ![p].irr = @ \cup {line % 8}]
  /\ line = 1 => keys < MaxKeys
  /\ keys' = IF line = 1 THEN keys + 1 ELSE keys
  /\ UNCHANGED <<start, pc, todo, gdt, idt, if, uart, written, sent, irqs, irq, reason, fat>>

-----------------------------------------------------------------------------
(* The routines that write to ports, as the sequences of their writes. *)

\* isr_pic_remap.  Wrong variant: the vectors are left where the firmware put
\* them.
BugRemap == << <<"pic1 data", 255>>, <<"pic2 data", 255>>, <<"pic1 data", 253>> >>
isr_pic_remap ==
  << <<"pic1 command", 17>>, <<"pic2 command", 17>>,
     <<"pic1 data", 32>>, <<"pic2 data", 40>>,
     <<"pic1 data", 4>>, <<"pic2 data", 2>>,
     <<"pic1 data", 1>>, <<"pic2 data", 1>>,
     <<"pic1 data", 255>>, <<"pic2 data", 255>>, <<"pic1 data", 253>> >>

\* serial_init.  Wrong variants: the FIFO is not turned on; the divisor is 0.
BugNoFifo ==
  << <<"enable", 0>>, <<"line", 128>>, <<"data", 3>>, <<"enable", 0>>,
     <<"line", 3>>, <<"fifo", 198>>, <<"modem", 11>> >>
BugNoDivisor ==
  << <<"enable", 0>>, <<"line", 128>>, <<"data", 0>>, <<"enable", 0>>,
     <<"line", 3>>, <<"fifo", 199>>, <<"modem", 11>> >>
serial_init ==
  << <<"enable", 0>>, <<"line", 128>>, <<"data", 3>>, <<"enable", 0>>,
     <<"line", 3>>, <<"fifo", 199>>, <<"modem", 11>> >>

-----------------------------------------------------------------------------
(* kmain. *)

BootInit ==
  /\ Init
  /\ start \in Starts
  /\ pc = "gdt" /\ todo = << >>
  /\ gdt = [entries |-> << >>, loaded |-> FALSE]
  /\ idt = [gates |-> {}, loaded |-> FALSE]
  /\ if = FALSE
  /\ \E mask \in Masks : pic = <<Pic(8, mask), Pic(112, mask)>>
  /\ uart \in [dlab : {FALSE}, divisor : {<<0, 0>>, <<1, 0>>}, fifo : BOOLEAN, queue : {<< >>}]
  /\ written = << >> /\ sent = << >>
  /\ irq = "none" /\ irqs = {} /\ keys = 0 /\ reason = "none"

\* kmain runs: not inside an interrupt.
Runs(routine) == irq = "none" /\ pc = routine

gdt_install ==
  /\ Runs("gdt") /\ pc' = "idt"
  /\ gdt' = [entries |-> <<"null", "code", "data">>, loaded |-> TRUE]
  /\ UNCHANGED <<start, todo, idt, if, pic, uart, history, irq, reason, fat>>

\* idt_install clears the table, runs isr_pic_remap and loads the table.
ClearIdt ==
  /\ Runs("idt") /\ pc' = "remap"
  /\ idt' = [idt EXCEPT !.gates = {}] /\ todo' = isr_pic_remap
  /\ UNCHANGED <<start, gdt, if, pic, uart, history, irq, reason, fat>>

RemapStep ==
  /\ Runs("remap") /\ todo # << >>
  /\ pic' = PicWrite(Head(todo)) /\ todo' = Tail(todo)
  /\ UNCHANGED <<start, pc, gdt, idt, if, uart, history, irq, reason, fat>>

idt_load ==
  /\ Runs("remap") /\ todo = << >> /\ pc' = "isr"
  /\ idt' = [idt EXCEPT !.loaded = TRUE]
  /\ UNCHANGED <<start, todo, gdt, if, pic, uart, history, irq, reason, fat>>

\* An interrupt gate, for the second descriptor, at each of these vectors.
isr_install ==
  /\ Runs("isr") /\ pc' = "serial"
  /\ idt' = [idt EXCEPT !.gates = (0 .. 47) \cup {128}] /\ todo' = serial_init
  /\ UNCHANGED <<start, gdt, if, pic, uart, history, irq, reason, fat>>

SerialInitStep ==
  /\ Runs("serial") /\ todo # << >>
  /\ uart' = UartWrite(Head(todo)) /\ todo' = Tail(todo)
  /\ UNCHANGED <<start, pc, gdt, idt, if, pic, history, irq, reason, fat>>

Sti ==
  /\ Runs("serial") /\ todo = << >>
  /\ if' = TRUE /\ pc' = "write" /\ todo' = Message
  /\ UNCHANGED <<start, gdt, idt, pic, uart, history, irq, reason, fat>>

\* serial_write of the message: the test of the transmitter and the write are
\* apart, and the keyboard may come in between.
WaitTransmit ==
  /\ Runs("write") /\ todo # << >> /\ TransmitReady
  /\ pc' = "put"
  /\ UNCHANGED <<start, todo, machine, history, irq, reason, fat>>

PutByte ==
  /\ Runs("put") /\ pc' = "write"
  /\ uart' = UartWrite(<<"data", Head(todo)>>)
  /\ written' = Append(written, Head(todo)) /\ todo' = Tail(todo)
  /\ UNCHANGED <<start, gdt, idt, if, pic, sent, irqs, keys, irq, reason, fat>>

\* The panic macro: a message, and kmain returns to _start, which halts with
\* interrupts as they are.
Panic(why) == pc' = "halted" /\ reason' = why
Go(next) == pc' = next /\ UNCHANGED reason

TestMagic ==
  /\ Runs("write") /\ todo = << >>
  /\ IF start.magic THEN Go("module") ELSE Panic("magic")
  /\ UNCHANGED <<start, todo, machine, history, irq, fat>>

\* multiboot_find_module for the name "", which strstr finds in any name, so
\* the first module that has one is taken; and fs_use_memdisk, which has no
\* use for the part of a sector at its end.
NamedModules == {i \in DOMAIN start.mods : start.mods[i].named}

FindModule ==
  /\ Runs("module")
  /\ IF start.info /\ start.flag /\ NamedModules # {}
     THEN LET first == CHOOSE i \in NamedModules : \A j \in NamedModules : i <= j
              mod   == start.mods[first]
          IN  /\ vol' = [mod.image EXCEPT !.sectors = mod.size \div SectorSize]
              /\ Go("mount")
     ELSE Panic("module") /\ UNCHANGED vol
  /\ UNCHANGED <<start, todo, machine, history, irq, at, fs, file, result, call>>

MountFat ==
  /\ Runs("mount") /\ Mount
  /\ IF result' = 0 THEN Go("open") ELSE Panic("mount")
  /\ UNCHANGED <<start, todo, machine, history, irq>>

\* fat32_open_root never fails.
FindFile ==
  /\ Runs("open") /\ Go("find")
  /\ \E name \in Names : Find(name)
  /\ UNCHANGED <<start, todo, machine, history, irq>>

FindStep ==
  /\ Runs("find") /\ (FindCluster \/ FindEnds)
  /\ UNCHANGED <<start, pc, todo, machine, history, irq, reason>>

Found ==
  /\ Runs("find") /\ at = "idle"
  /\ IF result = 0 THEN Go("loop") ELSE Panic("find")
  /\ UNCHANGED <<start, todo, machine, history, irq, fat>>

-----------------------------------------------------------------------------
(* The keyboard interrupt. *)

\* The lines a controller would interrupt for: requested, not masked, none in
\* service above them.  The second controller goes through line 2 of the first.
Active(p) == {l \in pic[p].irr \ pic[p].mask : \A s \in pic[p].isr : l < s}
Pending == Active(1) \cup (IF 2 \notin pic[1].mask THEN {l + 8 : l \in Active(2)} ELSE {})

\* The processor goes through the gate of the vector into the code segment, or
\* is reset.
Deliver(line) ==
  /\ if /\ pc \notin {"dead", "lost"} /\ line \in Pending
  /\ LET p      == IF line < 8 THEN 1 ELSE 2
         vector == pic[p].offset + (line % 8)
         gate   == /\ idt.loaded /\ vector \in idt.gates
                   /\ gdt.loaded /\ gdt.entries[2] = "code"
     IN  /\ pic' = [pic EXCEPT ![p].irr = @ \ {line % 8}, ![p].isr = @ \cup {line % 8}]
         /\ irqs' = irqs \cup {IF gate THEN vector ELSE "fault"}
         /\ IF gate THEN irq' = (IF vector = 33 THEN "handle" ELSE "eoi") /\ UNCHANGED pc
                    ELSE pc' = "dead" /\ UNCHANGED irq
  /\ if' = FALSE
  /\ UNCHANGED <<start, todo, gdt, idt, uart, written, sent, keys, reason, fat>>

\* keyboard_handler: Backspace in the first column writes the character it
\* goes back to to the serial port.
HandleKey ==
  /\ irq = "handle" /\ irq' \in {"wait", "eoi"}
  /\ UNCHANGED <<start, pc, todo, machine, history, reason, fat>>

IrqWaitTransmit ==
  /\ irq = "wait" /\ TransmitReady /\ irq' = "put"
  /\ UNCHANGED <<start, pc, todo, machine, history, reason, fat>>

IrqPutByte ==
  /\ irq = "put" /\ irq' = "eoi"
  /\ uart' = UartWrite(<<"data", "key">>) /\ written' = Append(written, "key")
  /\ UNCHANGED <<start, pc, todo, gdt, idt, if, pic, sent, irqs, keys, reason, fat>>

\* isr_handler acknowledges, and iret turns interrupts on again; kmain goes on
\* with the registers the stub leaves it.
IrqReturns ==
  /\ irq = "eoi" /\ irq' = "none"
  /\ pic' = [pic EXCEPT ![1] = Command(@, 32)] /\ if' = TRUE
  /\ pc' = (IF start.restores \/ pc = "halted" THEN pc ELSE "lost")
  /\ UNCHANGED <<start, todo, gdt, idt, uart, history, reason, fat>>

Main ==
  \/ gdt_install \/ ClearIdt \/ RemapStep \/ idt_load \/ isr_install
  \/ SerialInitStep \/ Sti \/ WaitTransmit \/ PutByte \/ TestMagic
  \/ FindModule \/ MountFat \/ FindFile \/ FindStep \/ Found

Handler == HandleKey \/ IrqWaitTransmit \/ IrqPutByte \/ IrqReturns

BootNext ==
  \/ Main \/ Handler \/ UartSends
  \/ \E line \in Lines : Request(line) \/ Deliver(line)

\* kmain and the handler run on, and the UART sends what it has.  Nothing is
\* asked of the devices that interrupt.
BootFairness == WF_bootVars(Main) /\ WF_bootVars(Handler) /\ WF_bootVars(UartSends)

BootSpec == BootInit /\ [][BootNext]_bootVars /\ BootFairness

-----------------------------------------------------------------------------

\* From sti on the only interrupt that gets through is the keyboard's, at the
\* vector whose stub calls keyboard_handler, and it finds a gate and a code
\* segment: no request the firmware left behind, no timer, nothing at the
\* vectors of the exceptions.
OnlyKeyboardInterrupts == irqs \subseteq {33}

\* The line carries every byte serial_write_char was called with, in order:
\* nothing goes into the divisor and nothing is overwritten, though the
\* keyboard handler may write between the test of the transmitter and the
\* write of kmain, so that a second byte is written while the first waits.
\* So it is until an interrupt has taken the registers of kmain from it.
SerialLosesNothing == pc # "lost" => sent \o uart.queue = written

\* kmain gets through its setup whatever the boot loader handed over and
\* whenever keys are struck: into its loop, to the halt, or as far as the
\* search, which FindReturns is about.  With the stubs as built one thing keeps
\* it from there, an interrupt that returns wrong registers; no wait for the
\* transmitter and no routine of the setup does.
BootEnds ==
  <>(\/ pc \in {"loop", "halted", "find"}
     \/ pc = "lost" /\ ~ start.restores)
=============================================================================
