------------------------------- MODULE Fat32 -------------------------------
(***************************************************************************)
(* The FAT32 reader of src/src/stage0/fat/fat32.c on its memory disk:      *)
(* mount, find and read, one step per cluster, so that a walk along a      *)
(* chain might not end.                                                    *)
(*                                                                         *)
(* A buffer is abstracted to the sector it was loaded from: buf holds the  *)
(* SectorsPerCluster sectors from LBA "buf" on, "sector" one sector of the *)
(* FAT.  A byte of a file is abstracted to its place on the disk.  What a  *)
(* sector holds follows from the volume, laid out in sectors by Format;    *)
(* the code computes its LBAs from the boot sector on its own.             *)
(*                                                                         *)
(* The calls of disk_read pass their arguments in another order than the   *)
(* macro takes them.  Swapped = TRUE is the code; FALSE is what it is      *)
(* written to do.                                                          *)
(***************************************************************************)
EXTENDS Integers, Sequences, FiniteSets

CONSTANTS
  SectorSize,     \* bytes in a sector, 512 in the code
  FatEntrySize,   \* bytes in an entry of the FAT, 4
  DirEntrySize,   \* bytes in a directory entry, 32
  WordMod,        \* number of values of a uint32_t, 2^32
  EntryMod,       \* values of the 28 bits of a FAT entry in use, 2^28
  Eoc,            \* FAT_EOC, 0x0FFFFFF8
  Volumes,        \* the images: [bpb, fat, dir, sectors], see GoodVolume
  Names,          \* the names asked for
  Ranges,         \* the offsets and sizes asked for, as pairs
  Swapped,        \* are the arguments of disk_read passed as in the code?
  BufferAddress,  \* the address of a buffer, above every sector count
  JunkBpbs        \* what the uninitialised bpb of fat32_mount may hold

\* The boot sector: bytes per sector, sectors per cluster, reserved sectors,
\* number of FATs, sectors in each, first cluster of the root directory.
BpbType == [bytes : Nat, spc : Nat, reserved : Nat, fats : Nat,
            fatsize : Nat, root : Nat]

\* A directory entry; name "" ends the directory, lfn marks a piece of a long
\* name (attr 0x0F).
EntryType == [name : STRING, lfn : BOOLEAN, first : 0 .. WordMod - 1,
              size : 0 .. WordMod - 1, dir : BOOLEAN]

\* Entries in a sector of the FAT and in a cluster, and the first data sector.
FatEntries == SectorSize \div FatEntrySize
DirEntriesOf(bpb) == (bpb.spc * SectorSize) \div DirEntrySize
DataOf(bpb) == bpb.reserved + bpb.fats * bpb.fatsize

\* What the code will mount.
Mountable(bpb) == bpb.fatsize # 0 /\ bpb.bytes = SectorSize

\* Where entry c of the FAT leads: its four high bits are reserved and may be
\* anything.
FatLink(v, c) == v.fat[c] % EntryMod

\* The numbers a walk can come to; 0 is read from a buffer never filled.
Numbers(v) ==
  {0, v.bpb.root} \cup {FatLink(v, c) : c \in DOMAIN v.fat}
  \cup {v.dir[c][i].first : c \in DOMAIN v.dir, i \in 1 .. DirEntriesOf(v.bpb)}

\* Where such a number leads: its FAT sector and its cluster are what they
\* should be, or beyond the end of the image, but no LBA wraps around.
GoodNumber(v, c) ==
  LET fatSector == (c * FatEntrySize) \div SectorSize
      lba       == (DataOf(v.bpb) + (c - 2) * v.bpb.spc) % WordMod
  IN  /\ c * FatEntrySize < WordMod
      /\ \/ fatSector < v.bpb.fatsize
         \/ v.bpb.reserved + fatSector \in v.sectors .. WordMod - 2
      /\ c < Eoc => \/ /\ c \in DOMAIN v.dir
                       /\ DataOf(v.bpb) + (c - 1) * v.bpb.spc < WordMod
                    \/ c < 2 /\ 2 * v.bpb.spc <= DataOf(v.bpb)
                    \/ lba + v.bpb.spc \in v.sectors + 1 .. WordMod - 1

\* An image: fat holds the entries of the FAT, reserved bits included; dir is
\* what each cluster holds read as directory entries.  A chain may be broken,
\* and clusters may lie beyond the end of the image, but nowhere so far that
\* an LBA wraps around.
GoodVolume(v) ==
  /\ v.bpb \in BpbType /\ v.sectors \in 1 .. BufferAddress - 1
  /\ Mountable(v.bpb) =>
       /\ v.bpb.spc > 0 /\ v.bpb.fats > 0 /\ DataOf(v.bpb) < WordMod
       /\ v.fat \in [0 .. v.bpb.fatsize * FatEntries - 1 -> 0 .. WordMod - 1]
       /\ \E n \in 1 .. Eoc - 1 :
            /\ 2 .. n \subseteq DOMAIN v.fat
            /\ v.dir \in [2 .. n -> [1 .. DirEntriesOf(v.bpb) -> EntryType]]
       /\ \A c \in Numbers(v) \cup DOMAIN v.dir : GoodNumber(v, c)

ASSUME Fat32Assumption ==
  /\ {SectorSize, FatEntrySize, DirEntrySize, WordMod} \subseteq Nat \ {0}
  /\ SectorSize % FatEntrySize = 0 /\ SectorSize % DirEntrySize = 0
  /\ EntryMod \in 1 .. WordMod /\ Eoc \in 2 .. EntryMod - 1
  /\ \A v \in Volumes : GoodVolume(v)
  /\ Names \cup {"", "?"} \subseteq STRING
  /\ Ranges \subseteq (0 .. WordMod - 1) \X (0 .. WordMod - 1)
  /\ Swapped \in BOOLEAN /\ BufferAddress \in 0 .. WordMod - 1
  /\ JunkBpbs \subseteq BpbType

VARIABLES
  vol,        \* the volume in memory: never written
  at,         \* boot, failed, idle, find, skip, read
  fs,         \* the mounted file system
  file,       \* the file that find found
  result,     \* what the last call returned
  want, from, \* find: the name and the first cluster of the directory
  range,      \* read: offset and size asked for
  cl, buf, sector,      \* cluster of the walk, its buffer, the FAT buffer
  skip, off, remaining, \* read: its variables
  out         \* read: the places of the bytes copied

call == <<want, from, range, cl, buf, sector, skip, off, remaining, out>>
vars == <<vol, at, fs, file, result, call>>

-----------------------------------------------------------------------------
(* The disk: what is in the sectors of the volume. *)

Format ==
  [fat |-> vol.bpb.reserved, data |-> DataOf(vol.bpb)]

Clusters == DOMAIN vol.dir
DirEntries == DirEntriesOf(vol.bpb)

\* Contents of buffers that no read has filled: zeros, no name, or by chance
\* the one asked for.
Zeros == -1
Junk == -2
JunkMatch == -3

\* Entry i of the FAT sector at an LBA of the first FAT.
FatEntryAt(lba, i) ==
  IF lba = Zeros THEN 0 ELSE vol.fat[(lba - Format.fat) * FatEntries + i]

NoEntry == [name |-> "", lfn |-> FALSE, first |-> 0, size |-> 0, dir |-> FALSE]

\* Entry i of the cluster at an LBA.  Below the data area no name is found.
DirEntryAt(lba, i) ==
  CASE lba = Zeros        -> NoEntry
    [] lba = JunkMatch    -> [NoEntry EXCEPT !.name = want]
    [] lba # Zeros /\ lba # JunkMatch /\ lba < Format.data
                          -> [NoEntry EXCEPT !.name = "?"]
    [] lba >= Format.data -> vol.dir[(lba - Format.data) \div vol.bpb.spc + 2][i + 1]

\* The place of byte i of the buffer.
ByteAt(lba, i) == IF lba < 0 THEN lba ELSE lba * SectorSize + i

-----------------------------------------------------------------------------
(* The code. *)

\* Wrong variant: a read may begin in the image and end beyond it.
BugReadFails(lba, count) == lba >= vol.sectors

\* memdisk_read: the sum of its first and its last argument is tested against
\* the size of the disk.  A call that fails leaves the buffer alone, and no
\* caller looks at the result.
ReadFails(lba, count) ==
  (lba + (IF Swapped THEN BufferAddress ELSE count)) % WordMod > vol.sectors

Loaded(old, lba, count) == IF ReadFails(lba, count) THEN old ELSE lba

cluster_to_lba(c) == (fs.data_lba + (c - 2) * fs.sectors_per_cluster) % WordMod

\* The end of a chain.  Wrong variant: one value too few.
BugAtEnd(c) == c > Eoc
AtEnd(c) == c >= Eoc

\* fat_next: the FAT sector it leaves in "sector", and the entry it finds.
\* Wrong variants: the entry taken from the first sector of the FAT; the mask
\* 0x0FFFFFFF left out.
BugFatSectorOf(c) == Loaded(sector, fs.fat_lba, 1)
FatSectorOf(c) ==
  Loaded(sector, fs.fat_lba + ((c * FatEntrySize) % WordMod) \div SectorSize, 1)
BugNextOf(c) ==
  FatEntryAt(FatSectorOf(c),
             (((c * FatEntrySize) % WordMod) % SectorSize) \div FatEntrySize)
NextOf(c) ==
  FatEntryAt(FatSectorOf(c),
             (((c * FatEntrySize) % WordMod) % SectorSize) \div FatEntrySize)
    % EntryMod
fat_next == cl' = NextOf(cl) /\ sector' = FatSectorOf(cl)

BytesPerCluster == fs.sectors_per_cluster * SectorSize

\* What fat32_mount computes from a boot sector.
Mounted(bpb) ==
  [fat_lba |-> bpb.reserved,
   data_lba |-> DataOf(bpb) % WordMod,
   sectors_per_cluster |-> bpb.spc, root_cluster |-> bpb.root]

Unmounted ==
  [fat_lba |-> 0, data_lba |-> 0, sectors_per_cluster |-> 0, root_cluster |-> 0]

Init ==
  /\ vol \in Volumes
  /\ at = "boot" /\ fs = Unmounted
  /\ file = NoEntry /\ result = 0 /\ want = "" /\ from = 0 /\ range = <<0, 0>>
  /\ cl = 0 /\ buf = Junk /\ sector = Zeros
  /\ skip = 0 /\ off = 0 /\ remaining = 0 /\ out = << >>

\* fat32_mount(0, &fs).
Mount ==
  /\ at = "boot"
  /\ \E bpb \in IF ReadFails(0, 1) THEN JunkBpbs ELSE {vol.bpb} :
       IF Mountable(bpb)
       THEN at' = "idle" /\ result' = 0 /\ fs' = Mounted(bpb)
       ELSE at' = "failed" /\ result' = -1 /\ UNCHANGED fs
  /\ UNCHANGED <<vol, file, call>>

\* fat32_open_root, or a directory found before, and the call of fat32_find.
\* Its buffer is not initialised.
Find(name) ==
  /\ at = "idle" /\ at' = "find"
  /\ want' = name
  /\ from' \in {fs.root_cluster} \cup (IF file.dir THEN {file.first} ELSE {})
  /\ cl' = from'
  /\ buf' \in {Zeros, Junk, JunkMatch}
  /\ file' = NoEntry /\ range' = <<0, 0>> /\ out' = << >>
  /\ UNCHANGED <<vol, fs, result, sector, skip, off, remaining>>

\* Wrong variant: pieces of long names match.
BugStops(lba) ==
  {i \in 0 .. DirEntries - 1 : DirEntryAt(lba, i).name \in {"", want}}

\* The entries of a cluster at which the scan stops: the end of the directory
\* or the name.  It never tells the 0xE5 of a deleted entry: name[0] is a
\* signed char.
Stops(lba) ==
  {i \in 0 .. DirEntries - 1 :
     LET e == DirEntryAt(lba, i) IN e.name = "" \/ (~ e.lfn /\ e.name = want)}

FindCluster ==
  /\ at = "find" /\ ~ AtEnd(cl)
  /\ LET loaded == Loaded(buf, cluster_to_lba(cl), fs.sectors_per_cluster)
         stops  == Stops(loaded)
     IN  /\ buf' = loaded
         /\ \/ /\ stops = {}
               /\ fat_next
               /\ UNCHANGED <<at, file, result>>
            \/ \E i \in stops :
                 LET e == DirEntryAt(loaded, i)
                 IN  /\ \A j \in stops : i <= j
                     /\ at' = "idle"
                     /\ IF e.name = "" THEN result' = -1 /\ UNCHANGED file
                                       ELSE result' = 0 /\ file' = e
                     /\ UNCHANGED <<cl, sector>>
  /\ UNCHANGED <<vol, fs, want, from, range, skip, off, remaining, out>>

FindEnds ==
  /\ at = "find" /\ AtEnd(cl)
  /\ at' = "idle" /\ result' = -1
  /\ UNCHANGED <<vol, fs, file, call>>

\* The call of fat32_read on the file found: offset, then clamped size.
Read(offset, size) ==
  /\ at = "idle" /\ file.name # ""
  /\ range' = <<offset, size>> /\ out' = << >>
  /\ \/ /\ offset >= file.size
        /\ result' = 0
        /\ UNCHANGED <<at, cl, buf, skip, off, remaining>>
     \/ /\ offset < file.size
        /\ at' = "skip"
        /\ remaining' = IF (offset + size) % WordMod > file.size
                        THEN file.size - offset ELSE size
        /\ skip' = offset \div BytesPerCluster
        /\ off' = offset % BytesPerCluster
        /\ cl' = file.first /\ buf' = Junk
        /\ UNCHANGED result
  /\ UNCHANGED <<vol, fs, file, want, from, sector>>

SkipCluster ==
  /\ at = "skip"
  /\ IF skip > 0 THEN fat_next /\ skip' = skip - 1 /\ UNCHANGED at
                 ELSE at' = "read" /\ UNCHANGED <<cl, sector, skip>>
  /\ UNCHANGED <<vol, fs, file, result, want, from, range, buf, off, remaining, out>>

\* The condition of the copying loop.  Wrong variant: only the chain ends it.
BugMore == ~ AtEnd(cl)
More == remaining > 0 /\ ~ AtEnd(cl)

CopyCluster ==
  /\ at = "read" /\ More
  /\ LET loaded == Loaded(buf, cluster_to_lba(cl), fs.sectors_per_cluster)
         room   == BytesPerCluster - off
         copy   == IF room > remaining THEN remaining ELSE room
     IN  /\ buf' = loaded
         /\ out' = out \o [i \in 1 .. copy |-> ByteAt(loaded, off + i - 1)]
         /\ remaining' = remaining - copy
  /\ off' = 0
  /\ fat_next
  /\ UNCHANGED <<vol, at, fs, file, result, want, from, range, skip>>

ReadEnds ==
  /\ at = "read" /\ ~ More
  /\ at' = "idle"
  /\ result' = Len(out)
  /\ UNCHANGED <<vol, fs, file, call>>

Steps == FindCluster \/ FindEnds \/ SkipCluster \/ CopyCluster \/ ReadEnds

Next ==
  \/ Mount
  \/ \E name \in Names : Find(name)
  \/ \E r \in Ranges : Read(r[1], r[2])
  \/ Steps

\* A call that has begun runs on.
Fairness == WF_vars(Steps)

Spec == Init /\ [][Next]_vars /\ Fairness

-----------------------------------------------------------------------------
(* What the volume holds, by the format alone. *)

\* The cluster c[m] of a chain from first, or the mark at its end.
Link(first, c, m) == IF m = 0 THEN first ELSE FatLink(vol, c[m - 1])

\* The chains of n good clusters / of n clusters in the image.
Lengths == 0 .. Cardinality(Clusters)
Chains(first, n) ==
  {c \in [0 .. n - 1 -> Clusters] :
     Link(first, c, n) >= Eoc /\ \A m \in 0 .. n - 1 : c[m] = Link(first, c, m)}
LbaOf(c) == Format.data + (c - 2) * vol.bpb.spc
IntactChains(first, n) ==
  {c \in Chains(first, n) :
     \A m \in 0 .. n - 1 : LbaOf(c[m]) + vol.bpb.spc <= vol.sectors}

\* Entry k of a directory and the place of byte k of a file with that chain.
EntryOf(c, k) == vol.dir[c[k \div DirEntries]][(k % DirEntries) + 1]
ClusterBytes == vol.bpb.spc * SectorSize
PlaceOf(c, k) ==
  LbaOf(c[k \div ClusterBytes]) * SectorSize + (k % ClusterBytes)

-----------------------------------------------------------------------------

Buffers == {Zeros, Junk, JunkMatch} \cup 0 .. vol.sectors

\* No buffer is loaded from beyond the image.  (No step writes vol.)
TypeOK ==
  /\ at \in {"boot", "failed", "idle", "find", "skip", "read"}
  /\ fs \in [fat_lba : Nat, data_lba : Nat, sectors_per_cluster : Nat,
             root_cluster : Nat]
  /\ file \in EntryType
  /\ result \in -1 .. WordMod - 1
  /\ want \in Names \cup {""} /\ from \in Nat
  /\ range \in Ranges \cup {<<0, 0>>}
  /\ cl \in Nat /\ {buf, sector} \subseteq Buffers
  /\ buf >= 0 => buf + fs.sectors_per_cluster <= vol.sectors
  /\ {skip, off, remaining} \subseteq 0 .. WordMod - 1
  /\ out \in Seq(-3 .. vol.sectors * SectorSize)

\* fat32_mount looks at the boot sector: it refuses a volume that is not FAT32
\* with sectors of 512 bytes, and takes its layout from no other place.
MountReadsBootSector ==
  [][at = "boot" /\ at' # "boot" =>
       IF Mountable(vol.bpb)
       THEN at' = "idle" /\ fs' = Mounted(vol.bpb)
       ELSE at' = "failed"]_vars

\* In a directory whose chain is intact, fat32_find finds the first entry
\* with that name, in whatever cluster of the chain it is, and nothing that
\* lies behind the end of the directory or is a piece of a long name.
FindAnswer ==
  at = "idle" /\ want # "" =>
    \A n \in Lengths : \A c \in IntactChains(from, n) :
      LET entries == 0 .. n * DirEntries - 1
          E(k)    == EntryOf(c, k)
          matches == {k \in entries : /\ E(k).name = want /\ ~ E(k).lfn
                                      /\ \A j \in 0 .. k : E(j).name # ""}
      IN  IF matches = {} THEN file = NoEntry
          ELSE \E k \in matches : file = E(k) /\ \A j \in matches : k <= j

\* fat32_read of a file with an intact chain that is long enough: byte i of
\* the answer is byte offset + i of the file, whatever clusters it lies in.
\* There are as many as asked for and in the file; only where offset + size
\* wraps around, the clamp to the file size fails, and the read goes on to the
\* end of its last cluster.
ReadAnswer ==
  at = "idle" /\ file.name # "" /\ range # <<0, 0>> =>
    \A n \in Lengths : \A c \in IntactChains(file.first, n) :
      n * ClusterBytes >= file.size =>
        LET offset == range[1]
            size   == range[2]
            limit  == IF offset + size < WordMod THEN file.size
                                                 ELSE n * ClusterBytes
            count  == IF offset >= file.size THEN 0
                      ELSE IF offset + size > limit THEN limit - offset ELSE size
        IN  out = [i \in 1 .. count |-> PlaceOf(c, offset + i - 1)]

\* fat32_find returns from every directory whose chain ends, even if clusters
\* of it lie beyond the image.
FindReturns ==
  at = "find" /\ (\E n \in Lengths : Chains(from, n) # {}) ~> at = "idle"

\* fat32_read returns on every volume, chains with cycles included.
ReadReturns == at \in {"skip", "read"} ~> at = "idle"
=============================================================================
