# LumenOS, specified in TLA+

LumenOS is a small 32 bit x86 kernel. GRUB loads `stage0`, which sets up a VGA
text console, the descriptor tables, the interrupt controllers, a keyboard, a
serial port and a FAT32 reader over a memory disk, and then polls the keyboard
for ever. Beside the kernel there is a small C library, and a pair of Python
tools that pack a directory into an image and unpack it. These modules model
what they do, TLC checks them on small instances, and TLAPS proves the main
invariants for every instance.

Paths such as `kbd_mouse.c:212` are below `src/src/` of the repository; the
table of modules gives the directories.

Contents: [the system](#1-the-system), [the modules](#2-the-modules),
[the runs](#3-the-runs), [fairness and deadlock](#4-fairness-and-deadlock),
[the proofs](#5-the-proofs), [findings](#6-findings),
[what is left out](#7-what-is-left-out), [the plan](#8-the-plan).

## 1. The system

### Parts

| part | state | operations | what makes it correct |
|---|---|---|---|
| VGA console: `stage0/vga`, `buffer/tbuffer.c` | `vga_col`, `vga_row` (bytes), the text page, the cursor registers of the CRTC | `vga_pos`, `vga_set`, `vga_put`, `vga_newline`, `vga_scroll`, `vga_clear`, `vga_cursor_pos` | the cursor stays on the page; the page is the tail of what was printed; the CRTC shows the software cursor |
| keyboard: `io/kbd_mouse.c` | the shift flag, the ring `kbd_buffer` with `kbd_head` and `kbd_tail` | `keyboard_handler` (interrupt and polled), `keyboard_get_char`, `apply_shift`, `keyboard_getc` | each scancode served once and in order; head and tail never meet by adding; a character typed is a character got |
| interrupt stubs: `idt/isr.s`, `isr.h` | the registers and the stack | one stub per vector: `ISR_NOERR`, `ISR_ERR`, `IRQ` | the handler sees `isr_regs_t`; the interrupted code goes on as if nothing had happened |
| interrupt dispatch: `idt/idt.c` | the IDT, the two PICs | `isr_handler`, `isr_pic_remap`, `idt_set_gate` | one EOI at least for every IRQ |
| kernel main: `stage0.c`, `boot.s` | where it is; its calls in progress | boot, console output, the polling loop, `panic`, halt | its output and the interrupt's do not tear the cursor; the loop keeps turning |
| heap: `stdlib/stdlib.c` | the array, the list of block headers, `heap_used` | `malloc`, `free` | no two regions overlap; a refusal is justified; `malloc` returns |
| FAT32 and memory disk: `fat/fat32.c` | the mounted `fs`, the static FAT sector, the image | `fat32_mount`, `fat32_open_root`, `fat32_find`, `fat32_read`, `fat_next`, `memdisk_read` | the right entry and the right bytes; the walk ends; nothing is read beyond the image |
| ATA disk: `disk/disk.c`, `io/port.c` | the drive's registers | `disk_read`, `disk_write`, `inw`, `outw` | the sectors asked for and no others; the drive's protocol; the waits end |
| formatted output: `stdlib/stdio.c` | none | `printf`, `sprintf`, `itoa` | a stored number reads back as the argument; the two copies of the loop agree |
| strings: `stdlib/string.c` | the static of `strtok` | `memmove`, `strncpy`, `strstr`, `strtok`, ... | overlap of `memmove`; the tokens of a text that is cut meanwhile; searches that agree |
| multiboot: `multiboot/multiboot.c` | none | `multiboot_find_module` | the first module with the name, or none |
| serial port: `serial/serial.c` | the UART | `serial_init`, `serial_write` | no byte is lost between `kmain` and the interrupt; the busy wait ends |
| GDT: `gdt/` | static tables | `gdt_install` | loaded, and with a code segment, before an interrupt needs it |
| LuFS tools: `src/util/fs/*.py` | an image file | `mkfs.py` writes, `rdfs.py` reads | what is read back is what was written |
| generic buffers: `buffer/buffer.c`, `buffer2d.c` | none | accessors nobody calls | |

### How they interact

`kmain` clears the console, installs the tables, fills the key map and turns
interrupts on *before* anything is printed with `printf`. From then on there
are two threads of control on one processor: `kmain` and the keyboard
interrupt (stub, `isr_handler`, `keyboard_handler`). The interrupt runs to its
end with interrupts off; it can come between any two instructions of `kmain`.
They share, without any lock, `vga_col`, `vga_row`, the CRTC's index register,
the text page, the shift flag, the ring and port 0x60. The cursor keys, Enter
and Backspace are console output of the interrupt handler itself.

`kmain` then looks for the image of the file system, mounts it and looks for
`STAGE1  BIN`; on any error it panics, which is to print and to return, and
`boot.s` halts in `hlt; jmp .` with interrupts on: the keyboard goes on
working from the interrupt alone. If all goes well, `kmain` calls
`keyboard_handler` in a loop, the same function the interrupt runs.

### What is hard

* *Interleaving.* Every access of `kmain` to the shared state above may be
  separated from the next one by a whole interrupt; `keyboard_handler` may
  interrupt itself when polled.
* *Stale values.* `next` in `keyboard_handler`, the emptiness test of
  `keyboard_getc` before its `cli`, the cursor position between the evaluation
  of the arguments of `vga_pos` and its stores, the static FAT sector.
* *The stack discipline of the stubs*, with and without an error code.
* *Boundaries.* The last column and row, bytes that wrap around, a full ring,
  the end of the heap, `size_t` wrap, chains and offsets across clusters.
* *Termination.* The Backspace scan, the walk over the block list, the walk
  along a cluster chain.
* *Errors that nobody looks at.* The results of `disk_read`, the error bit of the
  ATA drive while the driver waits, and what becomes of a sector once the drive has
  its words.
* *Hardware that has its own state.* The initialisation words of the PICs, the
  divisor latch and the FIFO of the UART, the words a drive counts: a byte
  written at the wrong moment means something else.
* *State that outlives a call.* The static of `strtok`, whose string may change
  before the next call.
* *Two programs and one format.* `mkfs.py` and `rdfs.py` each compute the offsets
  of the image, and `rdfs.py` walks tables whose length it guesses.

`PROJECT.json` lists the hazards line by line with the properties that cover
them.

## 2. The modules

```
Vga <- Keyboard <- Kernel <- MCKernel      InterruptStub <- MCInterruptStub
    <- VgaProofs          <- KernelProofs                <- InterruptStubProofs
    <- Console <- MCConsole
        |      <- ConsoleProofs            Heap <- StdlibProofs
        |  refines                          |  refines
       Terminal                            Allocator

Fat32 <- MCFat32                           Strings <- Libc <- MCLibc
      <- Boot <- MCBoot                    Stdio <- Libc   <- StdlibProofs
              <- BootProofs
Ata <- MCAta                               LuFs <- MCLuFs
    <- AtaProofs                                <- LuFsProofs
```

`A <- B` reads: B extends A. `Boot` composes `kmain` with the file system: it extends
`Fat32` and takes its actions. `KernelProofs` and `ConsoleProofs` both extend
`VgaProofs`, the lemmas on the routines of the console. `StdlibProofs` extends `Heap`
and `Libc`, the two specifications of `stdlib`, and `BootProofs` is also about
`Fat32`, which `Boot` extends.

**Vga** (`stage0/vga`) has each routine of the console driver as an operator
from a console state to a console state, so that `vga_put`, which calls
`vga_newline`, which calls `vga_scroll`, is the composition of the operators.
The state is a record: `col`, `row`, the cells of the page and the CRTC
registers. A store outside the page is a store into memory that the model does
not hold; a read there may return anything, so `KeyOutcomes` is a set. Colours
are left out. `LandsAt` is the net effect of the Backspace scan over the row
above: the last cell if it is not blank, else after the last character, column
0 never being tested.

**Console** uses it with one caller at a time: `Put`, `NewLine`, `Press`. This is
the console while interrupts are off, and in the halted kernel. The constant
`Users` holds the users that sit at it, each with the keys and characters of
their own, and one of them is chosen in `Init`: `MCConsole` has one who prints,
types Enter and erases, and one who moves the cursor anywhere. `Plain` says that
a user is of the first sort; what the code promises only them is stated under
`Plain`.

**Terminal** is what such a console promises: a page of lines, written at its
end, the oldest line pushed out at the bottom. `Console!PageOf` is the
refinement mapping. It makes two facts of the code visible: a line holds
`Width - 1` characters, because `vga_put` wraps one column early, and Backspace
on an empty line behind a line of one character takes that character away.

**Keyboard** (`io/kbd_mouse.c`) has the shift flag and the ring as operators,
the scancodes abstracted to the kinds that the code tells apart: a key that
yields a character with and without shift, one that yields it only without,
shift keys, cursor keys, and scancodes that do nothing.

**Kernel** (`stage0.c`, `idt.c`) interleaves `kmain` with the interrupt.
`KeyboardIrq` is the whole of stub, `isr_handler` and `keyboard_handler`, with
both of their EOIs. `kmain`'s calls are sequences of named steps in the variable
`code`, one step per access to shared state, arguments evaluated before the
stores of `vga_pos`, one step per `outb`; a call or a branch puts its steps in
front. `Type` and `KbcLoad` are the user, the keyboard controller and the edge
the PIC latches. `Init` is where `stage0.c` has come to `sti`: a key struck before
the first initialisation word of `isr_pic_remap` may have left its scancode in the
controller, without the request, which that word makes the PIC forget
(`idt.c:159`). The wait of Backspace for the serial port is the step `transmit`;
that it ends is `BootEnds` of `Boot`. IRQ1 may be taken any number of steps after it was raised,
which is more than the hardware does, and includes what it does.
`hit` is a history variable for `CursorAgrees`. `Sessions` holds what may happen
around `kmain`, one of which is chosen in `Init`: `MCKernel` has one in which the
ring is filled and one in which both threads use the console.
The constant `StubRestores` chooses between two worlds. `FALSE` is the code:
since the stubs return with the wrong registers, `kmain` is `lost` after an
interrupt anywhere but in the `hlt; jmp .` of `boot.s`. `TRUE` is the contract
the C code is written against. The races of the C code can only be seen under
`TRUE`; they are what remains to be right when the stubs are repaired.

**InterruptStub** (`idt/isr.s`, `isr.h`) is one stub, instruction by instruction
where the stack moves: `Interrupt` (the processor's push through an interrupt
gate), `PushFrame`, `SaveRegs` (`pusha`), `CallHandler`, `HandlerReturns` (any
value in the registers the C convention lets a function change),
`DropArgument` (`add $12, %esp`), `RestoreRegs` (`popa`), `Return` (`sti; iret`).
`esp` counts words. The interrupted code turns interrupts on and off: a request of a
PIC waits for IF, exceptions and `int 128` do not. `MCInterruptStub` gives the registers distinct values.

**Heap** (`stdlib/stdlib.c`) has the block list as a function from the offset of
a block to its header, and one step of `malloc` per block visited: `Malloc`,
`Reuse`, `WalkOn`, `OutOfMemory`, `Carve`, and `Free` of any region a caller
holds. `size_t` arithmetic is modulo `SizeMod`. `live` is history: the regions
that callers hold. **Allocator** is what callers may rely on: regions in the
arena that share no byte.

**Fat32** (`fat/fat32.c`) has `Mount`, `Find` from the root or from a directory
found before, `FindCluster` (load a cluster, scan it, follow the chain), `Read`,
`SkipCluster`, `CopyCluster`, and the ends of the loops. A buffer is
abstracted to the LBA it was loaded from, a byte of a file to its place on
the disk; what a cluster holds read as a directory, and the FAT, come from the
volume, which is chosen in `Init` from the constant `Volumes`. The layout in
`Format` is that of a FAT32 image; the LBAs are computed by the code's own
`Mounted`, `cluster_to_lba` and `FatSectorOf`, so that the two can disagree.
A read that fails leaves its buffer as it was, as in `memdisk_read`, whose
result no caller looks at. `Swapped = TRUE` is the code, which passes the
arguments of `disk_read` in another order than the macro takes them (finding
3); `FALSE` is the order it was written for, and the world in which the rest
of the file can be looked at at all. `MCFat32` builds the volumes.
An entry of the FAT has `WordMod` values, of which the low bits count
(`EntryMod`, the mask of `fat32.c:92`); those above them may be set.
`GoodVolume` says which images there are: a chain may split, share, cycle, break
off or lead out of the image, but no number on the disk is so large that an LBA
computed from it wraps around (`GoodNumber`). What the answers of the code are
compared with is said without it: a chain of `n` clusters is a function from
`0 .. n - 1` whose values the FAT links (`Chains`); it is intact if its
clusters lie in the image (`IntactChains`); `EntryOf` and `PlaceOf` give
entry k of a directory and the place of byte k of a file along it.

**Boot** (`stage0.c`, `idt.c`, `multiboot.c`, `serial.c`, `gdt/`) is `kmain` up to its
loop. The bytes that `isr_pic_remap` and `serial_init` write, in their order, are
`isr_pic_remap` and `serial_init` of the module; each write is a step, and what it
does is up to a model of the hardware: `Command` and `Data` for a PIC with its
four initialisation words, mask, requests and lines in service, `UartWrite` for a
UART with its divisor latch, its FIFO and its holding register. After `Sti` come
`WaitTransmit` and `PutByte` for each byte of the message, `FindModule`,
`MountFat`, `FindFile` and `FindStep`, the last three the actions of `Fat32`, and
either the loop or a panic. Any line may be raised at any time (`Request`),
before `kmain` starts talking to the PICs as well, and `Deliver` takes a pending
one through the gate at its vector. The handler of the keyboard may write a byte
to the serial port, as Backspace in the first column does. `IrqReturns` takes `kmain`
back with the registers it had in a start that `restores` them; with the stubs as
built `kmain` is `lost` after an interrupt, unless it has halted. `BootInit`, `BootNext`
and `BootSpec` are the specification; `Init` and `Next` are those of `Fat32`.
`MCBoot` has nine ways for the boot loader to hand over (a wrong magic number, no
info, no modules or none with a name, images that are whole, longer than their
sectors, cut off or of another kind), each with either kind of stub, and `Swapped = TRUE`, as the code is: no boot
gets past the mount unless what lies in `bpb` happens to be a boot sector.

**Ata** (`disk/disk.c`, `io/port.c`) is the driver and the drive as two processes. A
busy wait is a step that waits for its condition; the registers of a sector are
written in one step, as nothing can come between them; every word through the
data port is a step, in which the driver and the drive count on their own. A
drive may be smaller than the driver believes (`disk_get_info` says 2^20 sectors
for every drive), have damaged sectors, at which it reports an error before it asks
for words, or worn ones, at which it takes the words and then fails to write them. A byte is abstracted to where it was
first, so that a byte in the wrong place is seen. `Settled` is the disk with what
the drive is still to write: `disk_write` returns before that.

**Strings** and **Stdio** (`stdlib/string.c`, `stdio.c`) have the routines as
operators: on a memory of a few bytes, as the loops of the code go through it,
and on formats as sequences of characters. **Libc** calls them. A call is begun
and run in two steps; the static of `strtok` and the memory last from one call to
the next. `Sound` is what a caller has to take care of (strings end, copies other
than `memmove` do not overlap), and `InMemory` what the arguments of a call are:
addresses, copies that stay in memory, and a format whose directives find
arguments of their types (`FormatFits`). `LibcAssumption` says so of all callers.
`DigitsOf` divides as the loop of `itoa` does; `Items` is the loop over a format,
of which `printf` and `sprintf` have a copy each, read side by side and found the same. `TokensOfText`, `SearchesAgree`
and `NumbersReadBack` compare the routines with what they are defined to do, or
with each other. `LibcInit`, `LibcNext` and `LibcSpec` are the specification.

**LuFs** (`util/fs/mkfs.py`, `rdfs.py`) packs a tree of paths in one step (`Image`,
built up from `DirTree`, `Entries`, `Tables`, `PlaceOf` as the functions of `mkfs.py`
build it) and walks through the image with `print_tree` and `extract_all`, an
entry at a time, the activations of the recursion on a stack. Names are numbers
in the order of `sorted()`; `Stored` is what an entry keeps of a name, its first 32
bytes, so that two names can be the same there. `InOrder` sorts the paths of a set,
`Offsets` adds up the sizes of what precedes, and `PlaceIn` stands for the
dictionaries in which `mkfs.py` keeps the offsets. `LuFsAssumption` says what a
directory is (`IsTree`: finite, with all the directories a path leads through) and
that an entry is shorter than a sector and no name empty. `MCLuFs` builds all trees
up to a depth and a number of nodes.

Operators named `Bug...` are wrong variants of the definition that follows
them: a dropped guard, an off-by-one, a forgotten shift. None is used in a
specification. `PROJECT.json` ("mutants") says which property must fail when
the variant takes the definition's place, so that each property is known to be
able to fail.

## 3. The runs

Small models are enough where the code treats all rows, columns, blocks or
clusters alike: what counts is that first, inner and last are different.

| run | states | bounds | what it shows |
|---|---|---|---|
| `console` | 36 383 | page 3 x 4, bytes of 3 bits; a user with 2 characters, Enter and Backspace, and one with 1 character and all cursor keys | `CursorOnScreen`, `PageShape` (no hole, no stale character after any mixture of wraps, scrolls and Backspace scans) and `ImplementsTerminal` for the first; `PrintsBelowPageAreLost` for the second: below the page output is lost, and the cursor does not come back by printing |
| `interrupt_stub` | 497 470 | one vector of each macro and range (3, 13, 33, 128), stack of 16 words, two depths, interrupts on and off | `FrameMatchesStruct`, `ReturnsToInterrupted`, and `StubInv`: where everything lies on the stack, and what the registers come back as |
| `interrupt_regs` | violation | the same | `RegistersPreserved`, finding 1 |
| `kernel` | 639 005 | page 2 x 3, ring of 3; up to 4 scancodes of two kinds of keys, left shift down, right shift up; or one character printed by `kmain` and two of Enter, Backspace and Left; a byte in port 0x60, read before or still waiting; stubs that restore the registers | `RingDiscipline` between the polled and the interrupting `keyboard_handler`; `HaltedKeyboard` and `KeysServed`: after the halt every scancode is served once, in order, unless a key struck before the PIC was set up has left the halted machine deaf; `CursorAgrees`: the hardware cursor is torn from the software cursor only by an interrupt in the middle of the last `vga_pos`; `KeepsPolling`: the Backspace scan ends, whatever the interrupt does to the cursor |
| `kernel_getc` | violation | ring of 3, one key, stubs as in the code | `TakenIsCharacter`, finding 2 |
| `boot` | 179 880 | 9 starts, with the stubs as built and with stubs that restore the registers; lines 0, 1 and 8, the firmware's masks all or nothing, 2 keyboard interrupts; a message of 4 bytes, a FIFO of 2 | `OnlyKeyboardInterrupts`: whatever was requested before and during the setup; `SerialLosesNothing`, between `kmain` and the interrupt, until `kmain` is lost; `BootEnds`: an interrupt that returns wrong registers is the only thing that keeps `kmain` from its loop, its halt or the search |
| `heap` | 22 661 | array of 48 bytes, headers of 12, requests 0, 1, 4, 7, 15, 40 | `Tiling`, `LiveBlocks`, `RefusalIsJustified`, `MallocReturns` and `ImplementsAllocator` for every order of calls |
| `fat32` | 89 348 | 483 volumes: 3 clusters of 2 sectors, every form of chain over them (split, shared, cyclic, leading out of the volume), images cut off before the last cluster, reserved bits set in FAT entries, refused boot sectors; 6 pairs of offset and size | `FindAnswer`, `ReadAnswer`, `FindReturns`, `ReadReturns` |
| `fat32_built` | violation | the same volumes | `MountReadsBootSector`, finding 3 |
| `ata` | 17 252 | sectors of 2 words, 16 addresses (1 bit in each of the 4 registers), 9 of them believed to exist; 6 requests, up to 3 sectors; 4 drives | `TransferIsExact`: which bytes of which sectors, and that only those the drive failed to write may be missing; `ProtocolKept`; `Returns` |
| `libc` | 67 342 | memory of 6 bytes of 3 values, words of 6 bits | `BytesMoved`, `TokensOfText`, `SearchesAgree`, `FormatsAgree`, `NumbersReadBack` |
| `lufs` | 95 986 | 5 213 trees: up to 4 files and directories, 3 deep, 3 names of which two are stored alike, files of 0, 1 and 5 bytes; sectors of 4 bytes, entries of 3 | `RoundTrip`, `ListingIsExtraction`, `LayoutExact` |

`TypeOK` is checked in `interrupt_stub`, `kernel`, `heap` and `fat32`, where it bounds
something: `esp`, the ring, the headers, and, in `fat32`, what is loaded, which never
lies beyond the image. The console's is only proved (`ConsoleType`).

Notes on the bounds:

* A ring of 3 positions holds 2 characters; 4 keys fill it, overflow it and,
  with `keyboard_getc` taking some, wrap it. A second overflow adds nothing.
* Up to 4 scancodes are enough for press, shift, press, release, and one in the
  controller while another is in the keyboard.
* The page of `console` wraps, scrolls and is erased back over several rows. The
  user who prints does not press Backspace in the top left cell: it takes the
  cursor to row 255, like the arrow keys, and the other user does it.
* 48 bytes hold three of the smallest blocks. The requests leave 0 to 3 bytes of
  rounding, fit exactly, or are refused. 0 is among them: `ALIGN4(0)` wraps
  around twice.
* FAT entries lie two to the sector, so that the three clusters are in two FAT
  sectors, and a file spans up to two clusters with a part of each read. The
  bytes of the address space are 256, so that `<<9, 250>>` wraps around.
* In `boot`, line 0 stands for every line below the keyboard's and line 8 for
  those of the second PIC. A FIFO of 2 holds the byte of `kmain` and that of the
  interrupt, which is all there ever is: both wait for an empty one. Two keys are
  enough for an interrupt before and one after any write.
* In `ata`, the requests carry into each of the four registers, end with the last
  sector, go beyond it, ask for nothing, and wrap around (`<<63, 2>>`).
* In `libc`, 6 bytes hold a text of 3 with two delimiters in two cells, or two
  strings of 2; every content of the memory is tried, and every word of 6 bits,
  the least int and the words from half the range on included.
* In `lufs`, a table of two entries crosses a sector and a file of 5 bytes does so
  at every offset; 3 levels are a directory in a directory in the root.

The model of an interrupt in `Kernel` is the one step `KeyboardIrq`; that a stub is
never interrupted is `ReturnsToInterrupted` of `InterruptStub`, which justifies it.

## 4. Fairness and deadlock

* *Kernel*: `WF(Main)`, the processor goes on executing `kmain`; `WF(KbcLoad)`,
  the controller delivers what was typed; `SF(KeyboardIrq)`, a latched interrupt
  is taken at some instruction boundary with IF set. It is strong because
  `kmain`'s loop turns interrupts off and on in `keyboard_getc`. Nobody is
  assumed to type.
* *Heap*: weak fairness of the steps of a call of `malloc`. Nothing forces a call.
* *Fat32*: weak fairness of the steps of a call. Nothing forces a call.
* *Boot*: `WF(Main)` and `WF(Handler)`, the processor runs on in `kmain` and in the
  handler; `WF(UartSends)`, the UART sends what it holds. Nothing is asked of the
  devices that interrupt, and keys are bounded (`MaxKeys`): `BootEnds` is about a
  `kmain` that keyboard interrupts delay, not one they never leave alone. Inside the
  search `FindReturns` takes over, under the conditions it states. With the
  stubs as built a lost `kmain` is all that comes in between.
* *Ata*: `WF(Driver)`, the processor goes on; `WF(Drive)`, a drive that is busy gets
  done, well or with an error. `Returns` says that an error of the drive before it
  asks for words is the only thing that keeps a call from returning.
* *Console*, *InterruptStub*, *Libc*, *LuFs*: safety only, no fairness.

Deadlock is checked except in *Kernel*, whose `hlt; jmp .` has nothing to do once
the user stops typing; *Fat32*, where a volume that is refused ends in a panic;
*Boot*, which halts after one; *Ata*, where the driver waits for ever for a drive
that reports an error; *Libc*, where a caller may stop calling; and *LuFs*, where
the tools end.

## 5. The proofs

`tlapm` checks all of them. They hold for every value of the constants that
satisfies the modules' assumptions (each `ASSUME` is named `...Assumption`). What
a theorem assumes beyond these is written in its `ASSUME`, and named here:

| hypothesis | of | what it says, and whether the code meets it |
|---|---|---|
| `NoWrap` | the heap in `StdlibProofs` | no request comes near 2^32. Nothing in the code sees to it; section 6 says what happens otherwise |
| `RowsFitByte` | `ConsoleProofs` | there are fewer rows than a byte has values: 25 and 256. With as many rows as values the line end at the bottom goes to row 0 instead of scrolling, and `PageShape` is false |
| `Swapped = FALSE` | `Fat32` in `BootProofs` | the arguments of `disk_read` come in the order the macro takes them. They do not (finding 3): the theorems are about the code around the calls, which is what remains when these are put right |
| `StubRestores` | `CursorsAgree` only | the stubs give the interrupted registers back. They do not (finding 1); `CursorAgreesUntilLost` is what is true of the code as it is. In `Boot` it is part of a start, and `SerialLosesNothing` and `BootEnds` say themselves what they promise of either kind of stub |

Each inductive invariant was checked by TLC on the runs' instances before it was
proved. Those of `LuFsProofs` and `LibcInv` speak of walks and positions which no
variable holds, and were found from the proof; the properties they lead to were
checked first.

What a recursive function computes for inputs of any length is proved without an
induction rule, as those of the library take an operator as a parameter: of the
numbers at which the claim fails there would be a least one (`Least`), and the
function's equation carries the claim there from the number before. The functions
that a `LET` chooses are shown to exist in the same way (`Recursion`).

**InterruptStubProofs.** For any stack, vectors and register contents, provided
there are 15 words of stack below the interrupted code (`StubAssumption`):
`StubIsInductive` proves `TypeOK` and `StubInv`. `StubInv` describes the stack at
each step relative to the interrupted `esp`, and is inductive because each step
of a stub only uses what the step before left at known distances. One lemma per
action. It says also what the registers come back as, for every vector: finding 1 is
no accident of one of them. From it follow `StubType`, `HandlerSeesStruct`, and
`StubReturns`.

**StdlibProofs, the heap.** Under `NoWrap`, for any array and header size and any set of
requests: `HeapIsTiled` proves `TypeOK`, `Tiling`, `LiveBlocks` and `WalkInv`
together (`HeapType` and `HeldRegionsAreLiveBlocks` name two of them). None of them
is inductive alone: that a new block does not overlap needs the tiling, the tiling
after linking needs `WalkInv` (when the list is at its end, `prev` is the last
block), and a block handed out is nobody else's because of `LiveBlocks`.
`RefusalsAreJustified` and `HeapImplementsAllocator` use the invariant: an answer
of `malloc` maps to `Allocate`, a `free` to `Release`, all other steps to a stutter.

**StdlibProofs, the library**, for any memory, word size and set of sound callers. The
invariant `LibcInv` says that memory stays a memory, that what is called is
sound, and that the static of `strtok` follows the text: what it has not cut yet is
as it was, and begins where the static points (`Follows`).

* `BytesAreMoved`: each loop of `memmove` has moved the bytes of one end (`Moved`),
  and those still to move are untouched, since it starts at the end that the
  destination would overwrite last (`CopyUpMoves`, `CopyDownMoves`).
* `SearchesDoAgree`: `strncmp` compares up to the first difference (`CommonIs`), so
  that the place `strstr` stops at is one it knows, and the first (`FirstInIs`).
* `TokensAreOfText`: a call cuts one token and leaves the rest as it was (`TokenCut`),
  whichever delimiters it is given.
* `FormatsDoAgree`: the loop over a format goes forward and ends (`LoopAdvances`,
  `ListsExist`, `ItemsAre`); `printf` shows of each item what `sprintf` stores of it
  (`ItemAgrees`), and so of all (`WholeAgrees`).
* `NumbersAreReadBack`: `itoa` writes digits of the base that make the number
  (`DigitsAre`: one more digit multiplies by the base and adds, `ValueAppend`), with
  a sign in base 10 only (`ItoaWrites`), and the blanks before them can be counted
  and taken away (`BlanksAre`).

**VgaProofs** has the lemmas on the operators of `Vga`: what each routine does to
the cursor, that it keeps the ranges of a console, and that it leaves the CRTC with
the two bytes of the software cursor (`Agrees`); two bytes are enough for every
location a cursor can have, on the page or below it (`TwoBytes`).

**ConsoleProofs**, for every page, byte width and set of users. `ConsoleType` is
the type; `CursorStaysOnScreen` needs no more than it. For `PageKeepsShape` and
`ConsoleImplementsTerminal` the inductive invariant is `ShapeInv`: for a plain user
the console is `Shaped`, every row holding some number of characters and nothing
behind them, the row of the cursor as many as its column, the rows below none.
It says what `PageShape` says without counting. `NewlineCells`, `PutCells` and
`BackspaceCells` give the cell at a column and row after each routine, down from
the cell indices of `vga_set` and the `memmove` of `vga_scroll`; `ScanLands` where
the Backspace scan ends on such a row: behind its text, or at column 0 if there is
one character or none. The refinement has one lemma per routine, from pages as
sequences of lines to pages: `NewlinePage`, `PutPage` with `PutOnNewLine`, `ErasePage`,
`JoinPage`; `StepOnPage` puts them together, and a user who is not plain stutters.
`PrintsBelowAreLost` is proved of a single step: a store below the page misses every
cell, and scrolling maps the characters left one to one into those before.

**KernelProofs**, for every session, ring, page and interleaving, with the stubs
as they are and as they should be:

* `KernelType` needs to know what may be left to do in `code` and in what order:
  `TypeInv` says that what is left is a remainder of one of the calls (`Remainders`,
  `Calls`), and that the steps the model puts in front together stay together.
  Without it a step may read a local that nothing has written.
* `RingIsDisciplined` (`RingInv`): while `kmain` is between the computation of `next`
  and the store of the head, the interrupt may have moved the head, so that `next`
  is stale; but an interrupt only ever adds, so that `next` leaves at most one
  character more unread than there are now. And what `keyboard_getc` has tested
  stays true until it takes the character, since only it moves the tail.
* `CursorAgreesUntilLost` and `CursorsAgree` (`CursorInv`): `Progress` says, from the
  steps left in `code`, which of the CRTC's bytes have been written, of which
  cursor; with no step left, both.
* `HaltedKeyboardServed` (`AloneInv`): as long as `kmain` has not polled, the tail
  is 0, only the interrupt moves the head and the shift flag, and both are what the
  scancodes served so far make them; typed and not served yet are the last ones,
  in the controller and the latch. The only scancode in the controller without a
  request in the latch is one from before `kmain`.

**BootProofs, the boot.** `OnlyTheKeyboardGetsThrough`: the invariant gives, from the writes
of `isr_pic_remap` left to do, the state of both PICs: the initialisation word each
waits for, its offset, its mask. After the first word the requests left by the
firmware are gone, after the last mask only the keyboard's line is open, and
interrupts are off until then. `NothingWrittenIsLost` (`UartInv`): with what
has left the FIFO, what is in it makes what was written; the divisor latch is
closed when the message begins; and each thread finds the FIFO empty before it
writes, so that `kmain`, interrupted between its test and its write, meets at most
the one byte of the handler. The theorem is about `kmain` until it is lost to the stubs;
where the stubs restore the registers it never is (`ContractKeepsKmain`). `BootAssumption` asks for a FIFO of two bytes at least;
a 16550 has 16.

**AtaProofs**, for any disk, requests and damage: `AtaIsInductive` proves `AtaInv`, in
which the driver's loop variables and the drive's own count of words keep step
(`word = words` while a sector is moved), the registers hold the parts of the LBA
of the sector at hand, and buffer and disk differ from what they were by the words
already moved, where the drive has written them. `CallsMoveWhatTheyShould` and `DriverKeepsProtocol` follow.

**BootProofs, the file system**, for any sector, entry and cluster sizes, any set of good volumes,
names, offsets and sizes (`Fat32Assumption`), with the arguments of `disk_read` in
order:

* `Fat32Type` (`TypeInv`): the walks of find and read come only to numbers that are
  in the boot sector, the FAT or a directory entry, or to 0 (`WalkType`); a read of the FAT or of a
  cluster at such a number either lies in the image or fails and leaves the
  buffer as it was (`LoadIsGood`, `NextIsNumber`), so that a buffer holds what it was
  never filled with, or a whole cluster of the image.
* `FindIsCorrect` (`FindInv`): while find is at the m-th cluster of an intact chain,
  no entry of the m clusters before it was a stop (`Passed`). That the next
  number is the next of the chain is `NextInImage`: the FAT sector of a cluster of
  the image is in the image, whatever the buffer `sector` holds from calls before.
  With `ChainEnd`, the walk ends behind the last cluster and not before.
* `ReadIsCorrect` (`ReadInv`): while clusters are skipped, those passed and those to
  skip make the cluster of the offset; while bytes are copied, they are those from
  the offset on (`Copied`), what is copied and what remains make the clamped size,
  and the next byte of the file is byte `off` of the cluster of the walk. At the
  end nothing remains or the chain is at its end, and `CountIs` computes from it how
  many there are, the sum of offset and size that wraps around included.

A chain that is not intact is excluded from `FindAnswer` and `ReadAnswer`, as nothing
tells the code that a read has failed; `Fat32Type` includes it.

**LuFsProofs**, for any set of directories, of any depth and sizes, and any way in
which names are stored:

* `ListingAgrees` holds also where stored names are the same. Both walks over an
  image iterate one function from places to places (`Reaches`), and a place from
  which there is no step ends both: what has been listed and what has been made
  are the paths of two beginnings of one walk (`WalksInv`, `LuFsWalks`), which
  are the same at the end.
* `TripsAreRound` is about names that differ where they are stored. The invariant
  `TripInv` (`LuFsRoundTrips`) says that the image holds the tree and that the
  extraction is `Walking` through it: the stack is a chain of directories, each
  with its entries from the image and gone through up to its counter, and every
  directory made and left has all in it made. `WalkMakes`, `WalkReturns` and their
  like keep it, entry by entry. `WalkEnds` takes both ends of `extract_all`: with the root
  gone through, nothing is missing, or some shortest path would be missing in a
  directory that is complete (`Complete`); and with as many made as the image has
  entries, none is left. That the image holds the tree (`TablesAre`, and the lemmas
  on `InOrder`, `Offsets` and `PlaceOf` before it) is where the program that writes
  meets the one that reads.
* `LayoutIsExact`: the tables are consecutive ranges that fill the table area
  (`SegmentsFill`, `TablesFill`), the files follow one behind the other from the
  next sector on (`FilesFill`, `DataBehindTables`), and the fields of each entry are the range of
  its path (`EntriesAreExact`).

**Only model-checked:**

* Liveness: `MallocReturns`, `KeysServed`, `KeepsPolling`, `FindReturns`, `ReadReturns`,
  `BootEnds`, `Returns`. The prover has no rule for fairness.
* The three properties that are violated (section 6).

## 6. Findings

1. *The stubs restore the wrong registers* (`isr.s:42`, run `interrupt_regs`). One
   word is pushed, three are dropped: `popa` starts two words too high. The two
   words it eats at the other end are `int_no` and `err_code`, so that `iret`
   still finds its frame.
2. *Typed characters are never stored* (`kbd_mouse.c:214`, run `kernel_getc`). The
   head of the ring moves, the character is dropped, and `keyboard_getc` returns
   0 from a ring that is not empty.
3. *The arguments of `disk_read`* (`fat32.c:67`, run `fat32_built`). Every call
   passes count and buffer in the other order than the macro and `memdisk_read`
   take them. No sector is ever read, and `fat32_mount` judges a `bpb` that
   nobody has written.
What the passing runs state of the code as it is, surprising or not:

* The arrow keys, and Backspace in the top left cell, move the cursor without a
  test (`kbd_mouse.c:185`, `197`), and `vga_put` stores where it stands:
  `CursorOnScreen` is true of the other keys only, and `PrintsBelowPageAreLost`
  says what happens then.
* `inw` returns an `unsigned char` (`port.c:20`): of every word of a sector the high
  byte is lost. `TransferIsExact` has a zero in its place.
* `lba + count` wraps around in the test of the ATA driver (`disk.c:41`) and passes
  it; `TransferIsExact` excepts these requests from "only sectors of the disk".
* The driver looks at no error bit and has no timeout: `Returns`.
* A sector whose words the drive has taken and then failed to write is lost, and
  `disk_write` returns 0 (`disk.c:87`): `TransferIsExact` excepts these sectors from
  those that a write which returned 0 has written, and no others.
* A key struck before `isr_pic_remap` makes a kernel that halts deaf: the request is
  forgotten by the PIC (`idt.c:159`), the scancode stays in the controller, and the
  controller raises no other edge until it is read. `KeysServed` excepts this case
  (`Deaf`), and no other. A kernel that gets to its loop polls port 0x60 and recovers.
* A stale `next` stored into the head of the ring (`kbd_mouse.c:214`) takes back the
  character an interrupt added meanwhile: `RingDiscipline` keeps the ring a ring, and
  promises no more.
* `%u` prints the words from 2^31 on as negative numbers (`stdio.c:91`, through
  `itoa(int, ...)`): `NumbersReadBack`.
* "Field width parsing (minimum, no padding)" (`stdio.c:44`) is read for every
  directive, and `x`, `X`, `o` and `p` never look at it: `NumbersReadBack` says that
  they store no blank, and of `d`, `i` and `u` only that the width is a minimum.
* Two names of a LuFS directory that are the same in their first 32 bytes are one
  name to `rdfs.py`: entries are lost or come out in the wrong directory, though
  its usage says "Extract all files" (`rdfs.py:115`). `RoundTrip` is about
  directories without such names; `ListingIsExtraction` is about all.
* The module with the file system is asked for with the name `""`, which `strstr`
  finds in every name: the first module that has a name is taken.

Met while reading, and not the subject of a run: `malloc` adds the header to a
request without a test, so that one near 2^32 wraps around and is given a tiny
block (`stdlib.c:16`, excluded by `NoWrap`); blocks of the heap are never joined, so
that a request may be refused although all blocks have been freed; were the
arguments of `disk_read` put right, `fat32_mount` would copy a sector of 512 bytes
into the 90 of `bpb`; the image that `createstd.sh` builds is a LuFS image, while
the kernel reads FAT32 (`RELEASE.md:5`), so that the mount is bound to fail on it
anyway; `name[0] == 0xE5` (`fat32.c:117`) compares a signed `char` and is never true,
which only matters to a caller who looks for such a name; `fat32_find` does not
end on a root chain with a cycle, nor need it end on the buffers nobody has
filled if the mount should get through on an unwritten `bpb`; a `%` at the end of
a format steps over the `'\0'`, so that `printf` goes on with what lies behind it
in memory; `strchr` does not find the `'\0'` of its string, which the standard's
does.

## 7. What is left out

* Colours, the cursor shape (`vga_cursor_setmode`), `vga_scroll` with a full page (no
  call takes that branch), `vga_write` and `vga_print`, loops of `vga_put`.
* The mouse routines (empty), the generic buffers (no caller), build scripts.
* The time an interrupt takes, and other interrupts than IRQ1 in `Kernel`. In `Boot`
  other lines are raised, too, but all of them are masked when interrupts are on.
* The encodings of the GDT's and the IDT's entries: constants, the same in every
  run of the kernel. Of a gate there is its presence, of a segment its kind.
* Spurious interrupts of the PICs, and the line status bits of the UART other than
  "transmitter empty"; the serial port is never read.
* In `Fat32`: `memdisk_write` (no caller), the `pos` field (never read), entries
  so large that an LBA wraps around (`GoodVolume`), clusters larger than the 4096
  bytes of the buffers ("enough for 8 sector clusters").
* In `Ata`: `disk_init` (empty), the drive select bits, a drive that is not there. A
  damaged or worn sector is so for good, and a worn one keeps what it held; a drive
  that fails now and then, or leaves a sector half written, is left out.
* What `kmain` does once it runs on with wrong registers: `lost` is a state without
  steps, and what holds only until then says so.
* In `Strings` and `Stdio`: calls out of the bounds of their memory, widths that
  overflow an `int`, a buffer too small for what `sprintf` stores. Nothing of the
  kind is in the tree. The loop of `printf` over its format (`stdio.c:37-50`) and that
  of `sprintf` (155-163) are one operator, `Items`, so that a difference between
  these two would not be seen; the two switches are separate.
* In `LuFs`: images that `mkfs.py` has not written, the usage messages, and names
  that are empty after they are cut (there are none).

## 8. The plan

Done: every component with behaviour is modelled and model-checked, and every
safety property that a passing run checks is a theorem. The console refines its
abstract specification, and so does the heap.

Left: liveness, once a prover has rules for fairness; and, when the three
findings are repaired in the code, the runs and theorems that now hold of the
repaired code only (`StubRestores`, `Swapped`), which then hold of the code.
