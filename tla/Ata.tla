-------------------------------- MODULE Ata --------------------------------
(***************************************************************************)
(* The ATA driver of src/src/stage0/disk/disk.c, which moves sectors word  *)
(* by word through the data port, and the drive it talks to.               *)
(*                                                                         *)
(* The driver and the drive are two processes.  A busy wait is a step that *)
(* waits for its condition.  A byte is abstracted to where it was first: a *)
(* positive number on the disk, a negative one in the caller's buffer, and *)
(* zero; a sector is the sequence of its bytes.                            *)
(***************************************************************************)
EXTENDS Integers, Sequences

CONSTANTS
  SectorCount,  \* info.sector_count, 2^20 in the code whatever the drive holds
  SectorWords,  \* words in a sector, 256
  ByteMod,      \* number of values of an 8 bit register, 256
  TopMod,       \* number of values of the address bits in the drive register, 16
  WordMod,      \* number of values of a uint32_t, 2^32
  Requests,     \* the arguments of disk_read and disk_write: <<lba, count>>
  MaxCount,     \* sectors in the caller's buffer
  Drives        \* the drives: [sectors, bad, worn], how large and what is damaged

SectorBytes == 2 * SectorWords
LbaSpace == ByteMod * ByteMod * ByteMod * TopMod

ASSUME AtaAssumption ==
  /\ {SectorCount, SectorWords, ByteMod, TopMod, WordMod, MaxCount} \subseteq Nat \ {0}
  /\ WordMod % LbaSpace = 0 /\ SectorCount <= LbaSpace
  /\ Requests \subseteq (0 .. WordMod - 1) \X (0 .. MaxCount)
  /\ \A d \in Drives :
       /\ d.sectors \in 1 .. LbaSpace
       /\ d.bad \subseteq 0 .. d.sectors - 1 /\ d.worn \subseteq 0 .. d.sectors - 1

VARIABLES
  drive,         \* the drive: never written
  disk,          \* what its sectors hold
  state,         \* of the drive: idle, seek, ready, flush, error
  taskfile,      \* its address registers and the command
  port,          \* its sector buffer
  words,         \* words that went through the data port for this command
  pc,            \* where the driver is: idle, bsy, wait, drq, words
  op,            \* the call: read or write, lba, count
  sector, word,  \* the loop variables
  buffer,        \* the caller's buffer
  result,        \* what the last call returned
  before         \* history: Settled when the call began

device == <<disk, state, taskfile, port, words>>
vars == <<drive, device, pc, op, sector, word, buffer, result, before>>

\* Word i of a sector, as the pair of its bytes.
WordAt(bytes, i) == << bytes[2 * i + 1], bytes[2 * i + 2] >>

\* Sector s of a buffer, and the buffer a caller passes.
Part(bytes, s) == SubSeq(bytes, s * SectorBytes + 1, (s + 1) * SectorBytes)
Fresh == [j \in 1 .. MaxCount * SectorBytes |-> 0 - j]

\* The sector the drive's registers address, and the sectors it has.
Addressed ==
  taskfile.lo + ByteMod * (taskfile.mid + ByteMod * (taskfile.hi
    + ByteMod * taskfile.top))
Good(l) == l < drive.sectors /\ l \notin drive.bad

\* The sectors at which the drive takes the words and then fails to write them.
WriteFails(l) == l \in drive.worn

\* The disk with what the drive is still to write.
Settled ==
  IF state = "flush" /\ ~ WriteFails(Addressed)
  THEN [disk EXCEPT ![Addressed] = port] ELSE disk

Init ==
  /\ drive \in Drives
  /\ disk = [l \in 0 .. drive.sectors - 1 |->
               [j \in 1 .. SectorBytes |-> l * SectorBytes + j]]
  /\ state = "idle" /\ port = << >> /\ words = 0
  /\ taskfile = [lo |-> 0, mid |-> 0, hi |-> 0, top |-> 0, cmd |-> "read"]
  /\ pc = "idle" /\ op = [kind |-> "read", lba |-> 0, count |-> 0]
  /\ sector = 0 /\ word = 0 /\ buffer = Fresh /\ result = -1
  /\ before = disk

-----------------------------------------------------------------------------
(* The driver. *)

\* The bound test, its sum a uint32_t.
Refused(lba, count) == (lba + count) % WordMod > SectorCount

\* A call of disk_read or disk_write.  Without a buffer it is refused, too.
Call(kind, lba, count) ==
  /\ pc = "idle"
  /\ op' = [kind |-> kind, lba |-> lba, count |-> count]
  /\ buffer' = Fresh /\ before' = Settled /\ sector' = 0 /\ word' = 0
  /\ \/ pc' = "idle" /\ result' = -1
     \/ ~ Refused(lba, count) /\ pc' = "bsy" /\ UNCHANGED result
  /\ UNCHANGED <<drive, device>>

Busy == state \in {"seek", "flush"}

\* What goes into the registers for a sector.  Wrong variant: the middle byte
\* forgotten.
BugTaskFile(l) ==
  [lo |-> l % ByteMod, mid |-> 0,
   hi |-> (l \div (ByteMod * ByteMod)) % ByteMod,
   top |-> (l \div (ByteMod * ByteMod * ByteMod)) % TopMod, cmd |-> op.kind]
TaskFile(l) ==
  [lo |-> l % ByteMod, mid |-> (l \div ByteMod) % ByteMod,
   hi |-> (l \div (ByteMod * ByteMod)) % ByteMod,
   top |-> (l \div (ByteMod * ByteMod * ByteMod)) % TopMod, cmd |-> op.kind]

\* The end of the loop; or ata_wait_bsy, the registers of the next sector and
\* the command, at which the drive is busy and drops what it was doing.
NextSector ==
  /\ pc = "bsy"
  /\ \/ /\ sector = op.count
        /\ pc' = "idle" /\ result' = 0
        /\ UNCHANGED device
     \/ /\ sector < op.count /\ ~ Busy
        /\ taskfile' = TaskFile((op.lba + sector) % WordMod)
        /\ state' = "seek" /\ port' = << >> /\ words' = 0
        /\ pc' = "wait"
        /\ UNCHANGED <<disk, result>>
  /\ UNCHANGED <<drive, op, sector, word, buffer, before>>

BugReady == Busy  \* wrong variant: waits for BSY instead of DRQ

\* The condition of ata_wait_drq.
Ready == state = "ready"

WaitBsy ==
  /\ pc = "wait" /\ ~ Busy
  /\ pc' = "drq"
  /\ UNCHANGED <<drive, device, op, sector, word, buffer, result, before>>

WaitDrq ==
  /\ pc = "drq" /\ Ready
  /\ pc' = "words" /\ word' = 0
  /\ UNCHANGED <<drive, device, op, sector, buffer, result, before>>

\* inw: an unsigned char takes the word, the high byte is lost.
inw == << WordAt(port, words)[1], 0 >>

Store(w) ==
  LET i == sector * SectorBytes + 2 * word
  IN  [buffer EXCEPT ![i + 1] = w[1], ![i + 2] = w[2]]

\* The words of the loop.  Wrong variant: the last one left out.
BugLoopWords == SectorWords - 1
LoopWords == SectorWords

\* One word through the data port.  The drive counts them on its own: with the
\* last one it is done reading, or has a sector to write.
Transfer ==
  /\ pc = "words" /\ word < LoopWords
  /\ IF op.kind = "read"
     THEN buffer' = Store(inw) /\ UNCHANGED port
     ELSE port' = port \o WordAt(Part(buffer, sector), word) /\ UNCHANGED buffer
  /\ words' = words + 1
  /\ state' = IF words' < SectorWords THEN state
              ELSE IF op.kind = "read" THEN "idle" ELSE "flush"
  /\ word' = word + 1
  /\ UNCHANGED <<drive, disk, taskfile, pc, op, sector, result, before>>

EndSector ==
  /\ pc = "words" /\ word = LoopWords
  /\ pc' = "bsy" /\ sector' = sector + 1
  /\ UNCHANGED <<drive, device, op, word, buffer, result, before>>

Driver == NextSector \/ WaitBsy \/ WaitDrq \/ Transfer \/ EndSector

-----------------------------------------------------------------------------
(* The drive. *)

\* The sector is found, and read if that is the command; or there is an error.
Seek ==
  /\ state = "seek"
  /\ IF ~ Good(Addressed)           THEN state' = "error" /\ UNCHANGED port
     ELSE IF taskfile.cmd = "write" THEN state' = "ready" /\ UNCHANGED port
     ELSE state' = "ready" /\ port' = disk[Addressed]
  /\ UNCHANGED <<disk, taskfile, words>>

\* The words go to the disk; or there is an error, and the sector is as it was.
Flush ==
  /\ state = "flush"
  /\ state' = IF WriteFails(Addressed) THEN "error" ELSE "idle"
  /\ disk' = Settled
  /\ UNCHANGED <<taskfile, port, words>>

Drive == (Seek \/ Flush) /\ UNCHANGED <<drive, pc, op, sector, word, buffer, result, before>>

Next ==
  \/ \E kind \in {"read", "write"}, r \in Requests : Call(kind, r[1], r[2])
  \/ Driver
  \/ Drive

\* The processor goes on executing the driver, and the drive works.
Fairness == WF_vars(Driver) /\ WF_vars(Drive)

Spec == Init /\ [][Next]_vars /\ Fairness

-----------------------------------------------------------------------------

\* The driver keeps to the protocol: it writes the registers only when the
\* drive is not busy and has no words left to move, and it touches the data
\* port only while the drive asks for data.
ProtocolKept ==
  [][ /\ taskfile' # taskfile => state \in {"idle", "error"}
      /\ words' > words => state = "ready" ]_vars

(***************************************************************************)
(* Where sector k of a request lies.  The test of the bound lets requests  *)
(* pass whose sum wraps around: what they address is what is left of the   *)
(* number in the registers, the first sectors of the disk among them.      *)
(***************************************************************************)
Place(k) == (op.lba + k) % LbaSpace
Asked == 0 .. op.count - 1

\* What a call that returned 0 has done.  A read has brought the low byte of
\* every word of every sector asked for to its place in the buffer, zero in
\* place of the high bytes, and left the rest of the buffer alone.  A write
\* has put the buffer into the sectors asked for and into no other, but for
\* those at which the drive failed when it had the words: the driver does not
\* look at what became of them, and returns 0 all the same.  All sectors asked
\* for are sectors of the disk as disk_get_info has it, unless lba + count
\* wrapped around.  A call that returned -1 has done nothing.
TransferIsExact ==
  pc = "idle" =>
    IF result = -1 THEN Settled = before /\ buffer = Fresh
    ELSE /\ \A k \in Asked :
              op.lba + op.count < WordMod => Place(k) < SectorCount
         /\ op.kind = "read" =>
              /\ Settled = before
              /\ buffer = [j \in DOMAIN Fresh |->
                   LET k == (j - 1) \div SectorBytes
                       i == (j - 1) % SectorBytes
                   IN  IF k \notin Asked THEN Fresh[j]
                       ELSE IF i % 2 = 1 THEN 0 ELSE before[Place(k)][i + 1]]
         /\ op.kind = "write" =>
              /\ buffer = Fresh
              /\ \A l \in DOMAIN disk :
                   IF WriteFails(l) \/ \A k \in Asked : Place(k) # l
                   THEN Settled[l] = before[l]
                   ELSE \E k \in Asked : Place(k) = l /\ Settled[l] = Part(Fresh, k)

\* Every call returns, however long the drive takes, unless the drive reports an
\* error before it asks for the words of a sector: then the driver, which looks
\* at no error bit and has no timeout, waits for a DRQ that never comes.  An
\* error after the words does not keep a call from returning.
Returns == pc # "idle" ~> pc = "idle" \/ (pc = "drq" /\ state = "error")
=============================================================================
