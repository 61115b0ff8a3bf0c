----------------------------- MODULE BootProofs -----------------------------
(***************************************************************************)
(* Proofs about Fat32 and about Boot, which starts the machine that Fat32  *)
(* runs on.                                                                *)
(*                                                                         *)
(* Fat32, with the arguments of disk_read in their right order (Swapped =  *)
(* FALSE), for every set of good volumes, names and ranges: find gives the *)
(* first match of a directory and read the bytes of a file whose chain is  *)
(* intact, whatever the other chains of the volume are.                    *)
(*                                                                         *)
(* Boot, for whatever the boot loader hands over, every set of interrupt   *)
(* lines and masks the firmware may have left, every message and every     *)
(* FIFO of two bytes or more.                                              *)
(***************************************************************************)
EXTENDS Boot, FiniteSetTheorems, SequenceTheorems, TLAPS

\* The bounds of arithmetic.
Positive == Nat \ {0}

-----------------------------------------------------------------------------
(* Arithmetic. *)

\* Division with remainder, and that it is the only one.
LEMMA DivMod ==
  ASSUME NEW x \in Nat, NEW d \in Positive
  PROVE  /\ x \div d \in Nat /\ x % d \in 0 .. d - 1
         /\ x = d * (x \div d) + (x % d)
BY DEF Positive

LEMMA DivModUnique ==
  ASSUME NEW d \in Positive, NEW q \in Nat, NEW r \in 0 .. d - 1
  PROVE  (d * q + r) \div d = q /\ (d * q + r) % d = r
BY DEF Positive

LEMMA Product ==
  ASSUME NEW a \in Nat, NEW b \in Nat
  PROVE  a * b \in Nat /\ a * b = b * a
OBVIOUS

LEMMA ProductPositive ==
  ASSUME NEW a \in Positive, NEW b \in Positive
  PROVE  a * b \in Positive /\ a <= a * b /\ b <= a * b
BY DEF Positive

\* Item r of the q-th block of d items.
LEMMA InBlock ==
  ASSUME NEW d \in Positive, NEW q \in Nat, NEW n \in Nat, NEW r \in 0 .. d - 1, q < n
  PROVE  d * q + r < d * n /\ d * q + d <= d * n
<1>1. d * (q + 1) <= d * n BY DEF Positive
<1>2. d * (q + 1) = d * q + d BY DEF Positive
<1>3. d * q \in Nat /\ d * n \in Nat /\ d \in Nat BY Product DEF Positive
<1> QED BY <1>1, <1>2, <1>3

\* Of n blocks, the one that an item is in.
LEMMA BlockOf ==
  ASSUME NEW d \in Positive, NEW n \in Nat, NEW x \in Nat, x < d * n
  PROVE  x \div d \in 0 .. n - 1
<1>1. x \div d \in Nat /\ x % d \in 0 .. d - 1 /\ x = d * (x \div d) + (x % d)
  BY DivMod
<1>2. ~ (n <= x \div d)
  <2> SUFFICES ASSUME n <= x \div d PROVE FALSE OBVIOUS
  <2> DEFINE q == x \div d
  <2>1. q \in Nat /\ n <= q BY <1>1
  <2> HIDE DEF q
  <2>2. d * n <= d * q BY <2>1 DEF Positive
  <2>3. d * n \in Nat /\ d * q \in Nat BY <2>1, Product DEF Positive
  <2>4. d * q <= x BY <1>1, <2>3 DEF q
  <2> QED BY <2>2, <2>3, <2>4
<1> QED BY <1>1, <1>2

LEMMA SmallMod ==
  ASSUME NEW d \in Positive, NEW x \in 0 .. d - 1
  PROVE  x % d = x
BY DEF Positive

LEMMA FunctionIsSeq ==
  ASSUME NEW S, NEW n \in Nat, NEW f \in [1 .. n -> S]
  PROVE  f \in Seq(S) /\ Len(f) = n
<1>1. f \in Seq(S) BY SeqDef
<1>2. DOMAIN f = 1 .. Len(f) /\ Len(f) \in Nat BY <1>1, LenProperties
<1>3. DOMAIN f = 1 .. n OBVIOUS
<1> QED BY <1>1, <1>2, <1>3

-----------------------------------------------------------------------------
(* The constants and what GoodVolume says. *)

LEMMA Sizes ==
  /\ SectorSize \in Positive /\ FatEntrySize \in Positive /\ DirEntrySize \in Positive
  /\ WordMod \in Positive /\ BufferAddress \in 0 .. WordMod - 1
  /\ FatEntries \in Positive /\ SectorSize = FatEntrySize * FatEntries
  /\ Eoc \in Nat /\ EntryMod \in Positive
<1>0. EntryMod \in 1 .. WordMod /\ Eoc \in 2 .. EntryMod - 1 BY Fat32Assumption
<1>1. /\ SectorSize \in Positive /\ FatEntrySize \in Positive /\ DirEntrySize \in Positive
      /\ WordMod \in Positive /\ BufferAddress \in 0 .. WordMod - 1
      /\ SectorSize % FatEntrySize = 0
  BY Fat32Assumption DEF Positive
<1>2. /\ SectorSize \div FatEntrySize \in Nat
      /\ SectorSize = FatEntrySize * (SectorSize \div FatEntrySize)
  BY <1>1, DivMod DEF Positive
<1>3. SectorSize \div FatEntrySize # 0 BY <1>1, <1>2 DEF Positive
<1>4. Eoc \in Nat /\ EntryMod \in Positive BY <1>0, <1>1 DEF Positive
<1> QED BY <1>4, <1>1, <1>2, <1>3 DEF Positive, FatEntries

\* A volume that the code mounts.
Mount32(v) == v \in Volumes /\ Mountable(v.bpb)

LEMMA Layout ==
  ASSUME NEW v, Mount32(v)
  PROVE  /\ v.bpb.spc \in Positive /\ v.bpb.fats \in Positive
         /\ v.bpb.fatsize \in Positive /\ v.bpb.reserved \in Nat
         /\ v.bpb.root \in Nat
         /\ v.sectors \in 1 .. BufferAddress - 1
         /\ DataOf(v.bpb) \in 0 .. WordMod - 1 /\ DataOf(v.bpb) \in Nat
         /\ v.bpb.reserved + v.bpb.fatsize <= DataOf(v.bpb)
         /\ v.bpb.spc * SectorSize \in Positive
         /\ DirEntriesOf(v.bpb) \in Positive
<1>1. GoodVolume(v) /\ Mountable(v.bpb) BY Fat32Assumption DEF Mount32
<1>2. /\ v.bpb.spc \in Positive /\ v.bpb.fats \in Positive
      /\ v.bpb.fatsize \in Positive /\ v.bpb.reserved \in Nat
      /\ v.bpb.root \in Nat
      /\ v.sectors \in 1 .. BufferAddress - 1 /\ DataOf(v.bpb) < WordMod
  BY <1>1 DEF GoodVolume, BpbType, Mountable, Positive
<1>3. v.bpb.fatsize <= v.bpb.fats * v.bpb.fatsize /\ v.bpb.fats * v.bpb.fatsize \in Nat
  BY <1>2, ProductPositive DEF Positive
<1>4. DataOf(v.bpb) \in Nat /\ v.bpb.reserved + v.bpb.fatsize <= DataOf(v.bpb)
  BY <1>2, <1>3 DEF DataOf, Positive
<1>5. v.bpb.spc * SectorSize \in Positive /\ SectorSize <= v.bpb.spc * SectorSize
  BY <1>2, Sizes, ProductPositive
<1>6. DirEntriesOf(v.bpb) \in Positive
  <2>1. SectorSize % DirEntrySize = 0 BY Fat32Assumption
  <2>2. DirEntrySize <= SectorSize
    <3>1. /\ SectorSize = DirEntrySize * (SectorSize \div DirEntrySize) + 0
          /\ SectorSize \div DirEntrySize \in Nat
      BY <2>1, Sizes, DivMod DEF Positive
    <3>2. SectorSize \div DirEntrySize # 0 BY <3>1, Sizes DEF Positive
    <3> DEFINE q == SectorSize \div DirEntrySize
    <3>3. q \in Positive /\ SectorSize = DirEntrySize * q
      BY <3>1, <3>2, Sizes DEF Positive
    <3> HIDE DEF q
    <3> QED BY <3>3, Sizes, ProductPositive
  <2> DEFINE bytes == v.bpb.spc * SectorSize
  <2>3. bytes \in Nat /\ DirEntrySize <= bytes BY <1>5, <2>2, Sizes DEF Positive
  <2> HIDE DEF bytes
  <2>4. bytes \div DirEntrySize \in Nat /\ bytes \div DirEntrySize # 0
    BY <2>3, Sizes DEF Positive
  <2> QED BY <2>4 DEF DirEntriesOf, bytes, Positive
<1>7. WordMod \in Nat /\ BufferAddress \in Nat BY Sizes DEF Positive
<1> QED BY <1>2, <1>4, <1>5, <1>6, <1>7

LEMMA Maps ==
  ASSUME NEW v, Mount32(v)
  PROVE  /\ v.fat \in [0 .. v.bpb.fatsize * FatEntries - 1 -> 0 .. WordMod - 1]
         /\ DOMAIN v.dir \subseteq DOMAIN v.fat
         /\ IsFiniteSet(DOMAIN v.dir)
         /\ \A c \in DOMAIN v.dir :
              /\ c \in 2 .. Eoc - 1
              /\ v.dir[c] \in [1 .. DirEntriesOf(v.bpb) -> EntryType]
         /\ \A c \in Numbers(v) \cup DOMAIN v.dir : GoodNumber(v, c)
<1>1. GoodVolume(v) /\ Mountable(v.bpb) BY Fat32Assumption DEF Mount32
<1>2. /\ v.fat \in [0 .. v.bpb.fatsize * FatEntries - 1 -> 0 .. WordMod - 1]
      /\ \A c \in Numbers(v) \cup DOMAIN v.dir : GoodNumber(v, c)
  BY <1>1 DEF GoodVolume
<1>3. PICK n \in 1 .. Eoc - 1 :
         /\ 2 .. n \subseteq DOMAIN v.fat
         /\ v.dir \in [2 .. n -> [1 .. DirEntriesOf(v.bpb) -> EntryType]]
  BY <1>1 DEF GoodVolume
<1>4. DOMAIN v.dir = 2 .. n BY <1>3
<1>5. Eoc \in Nat /\ n \in Nat BY <1>3, Sizes
<1>6. IsFiniteSet(2 .. n) BY <1>5, FS_Interval
<1> QED BY <1>2, <1>3, <1>4, <1>5, <1>6

-----------------------------------------------------------------------------
(* The disk: what the reads of the code load. *)

\* A volume mounted, with the arguments in their right order.
Ready == Swapped = FALSE /\ Mount32(vol) /\ fs = Mounted(vol.bpb)

LEMMA Mount32Fs ==
  ASSUME Ready
  PROVE  /\ fs.fat_lba = Format.fat /\ fs.data_lba = Format.data
         /\ fs.sectors_per_cluster = vol.bpb.spc /\ fs.root_cluster = vol.bpb.root
         /\ BytesPerCluster = ClusterBytes
         /\ Format.fat = vol.bpb.reserved /\ Format.data = DataOf(vol.bpb)
<1>1. /\ fs.fat_lba = vol.bpb.reserved /\ fs.data_lba = DataOf(vol.bpb) % WordMod
      /\ fs.sectors_per_cluster = vol.bpb.spc /\ fs.root_cluster = vol.bpb.root
  BY DEF Ready, Mounted
<1>2. DataOf(vol.bpb) % WordMod = DataOf(vol.bpb)
  BY Layout, Sizes, SmallMod DEF Ready
<1> QED BY <1>1, <1>2 DEF Format, BytesPerCluster, ClusterBytes

\* A read whose end does not wrap around.
LEMMA LoadedIs ==
  ASSUME Ready, NEW old, NEW lba \in Nat, NEW count \in Nat, lba + count < WordMod
  PROVE  Loaded(old, lba, count) = IF lba + count <= vol.sectors THEN lba ELSE old
<1>1. WordMod \in Positive BY Sizes
<1>2. vol.sectors \in Nat
  <2>1. vol.sectors \in 1 .. BufferAddress - 1 /\ BufferAddress \in 0 .. WordMod - 1
    BY Layout, Sizes DEF Ready
  <2> QED BY <1>1, <2>1 DEF Positive
<1>3. (lba + count) % WordMod = lba + count BY <1>1 DEF Positive
<1>4. ReadFails(lba, count) <=> lba + count > vol.sectors
  BY <1>3 DEF ReadFails, Ready
<1> QED BY <1>2, <1>4 DEF Loaded

\* The FAT sector of a number and its place there.
LEMMA FatPlace ==
  ASSUME NEW c \in Nat, c * FatEntrySize < WordMod
  PROVE  /\ ((c * FatEntrySize) % WordMod) \div SectorSize = c \div FatEntries
         /\ (((c * FatEntrySize) % WordMod) % SectorSize) \div FatEntrySize
              = c % FatEntries
         /\ (c * FatEntrySize) \div SectorSize = c \div FatEntries
<1> DEFINE q == c \div FatEntries
           r == c % FatEntries
           b == c * FatEntrySize
           e == FatEntrySize
<1>1. q \in Nat /\ r \in 0 .. FatEntries - 1 /\ c = FatEntries * q + r
  BY Sizes, DivMod
<1>2. e \in Positive /\ FatEntries \in Positive /\ SectorSize \in Positive
      /\ SectorSize = e * FatEntries /\ WordMod \in Positive
  BY Sizes
<1>3. b \in Nat /\ b < WordMod BY <1>2, Product DEF Positive
<1>4. b = SectorSize * q + e * r
  <2> HIDE DEF q, r, e
  <2>1. b = e * (FatEntries * q + r) BY <1>1, <1>2 DEF Positive, e
  <2>2. e * (FatEntries * q + r) = e * (FatEntries * q) + e * r
    BY <1>1, <1>2 DEF Positive
  <2>3. e * (FatEntries * q) = (e * FatEntries) * q BY <1>1, <1>2 DEF Positive
  <2> QED BY <1>2, <2>1, <2>2, <2>3
<1>5. e * r \in 0 .. SectorSize - 1
  <2> HIDE DEF r, e
  <2>1. e * r + 0 < e * FatEntries BY <1>1, <1>2, InBlock DEF Positive
  <2>2. e * r \in Nat BY <1>1, <1>2, Product DEF Positive
  <2> QED BY <1>2, <2>1, <2>2 DEF Positive
<1>6. b % WordMod = b BY <1>2, <1>3, SmallMod DEF Positive
<1> HIDE DEF q, r, b, e
<1>7. b \div SectorSize = q /\ b % SectorSize = e * r
  BY <1>1, <1>2, <1>4, <1>5, DivModUnique
<1>8. (e * r) \div e = r
  <2>1. e * r + 0 = e * r BY <1>5, Sizes DEF Positive
  <2>2. 0 \in 0 .. e - 1 BY <1>2 DEF Positive
  <2> QED BY <1>1, <1>2, <2>1, <2>2, DivModUnique
<1> QED BY <1>6, <1>7, <1>8 DEF q, r, b, e

\* fat_next on a cluster that lies in the image gives its entry in the FAT,
\* whatever the buffer of the FAT held before.
LEMMA NextInImage ==
  ASSUME Ready, NEW c \in Clusters, LbaOf(c) + vol.bpb.spc <= vol.sectors
  PROVE  NextOf(c) = FatLink(vol, c)
<1> DEFINE s == c \div FatEntries
           r == c % FatEntries
           n == vol.bpb.fatsize
<1>1. /\ c \in 2 .. Eoc - 1 /\ c \in DOMAIN vol.fat /\ GoodNumber(vol, c)
      /\ vol.fat \in [0 .. n * FatEntries - 1 -> 0 .. WordMod - 1]
  BY Maps DEF Ready, Clusters
<1>2. c \in Nat /\ c < n * FatEntries
  <2>1. n \in Nat /\ FatEntries \in Nat BY Layout, Sizes DEF Ready, Positive
  <2>2. n * FatEntries \in Nat BY <2>1, Product
  <2>3. c \in 0 .. n * FatEntries - 1 BY <1>1
  <2> QED BY <2>2, <2>3
<1>3. c * FatEntrySize < WordMod BY <1>1 DEF GoodNumber
<1>4. /\ vol.bpb.reserved \in Nat /\ n \in Positive /\ vol.bpb.spc \in Positive
      /\ vol.bpb.reserved + n <= DataOf(vol.bpb) /\ vol.sectors \in 1 .. BufferAddress - 1
      /\ DataOf(vol.bpb) \in Nat
  BY Layout DEF Ready
<1>5. FatEntries \in Positive /\ WordMod \in Positive /\ BufferAddress \in 0 .. WordMod - 1
  BY Sizes
<1>6. s \in 0 .. n - 1
  <2>1. c < FatEntries * n BY <1>2, <1>4, <1>5, Product DEF Positive
  <2> QED BY <1>2, <1>4, <1>5, <2>1, BlockOf DEF Positive
<1>7. DataOf(vol.bpb) <= vol.sectors
  <2>1. (c - 2) * vol.bpb.spc \in Nat
    <3>1. c - 2 \in Nat BY <1>1
    <3> QED BY <1>4, <3>1, Product DEF Positive
  <2>2. LbaOf(c) = DataOf(vol.bpb) + (c - 2) * vol.bpb.spc
    BY DEF LbaOf, Format
  <2> HIDE DEF n
  <2> QED BY <1>4, <1>5, <2>1, <2>2 DEF Positive
<1>8. Loaded(sector, vol.bpb.reserved + s, 1) = vol.bpb.reserved + s
  <2>1. vol.bpb.reserved + s \in Nat /\ vol.bpb.reserved + s + 1 <= vol.sectors
        /\ vol.bpb.reserved + s + 1 < WordMod
    <3> HIDE DEF s, n
    <3> QED BY <1>4, <1>5, <1>6, <1>7 DEF Positive
  <2> QED BY <2>1, LoadedIs
<1>9. FatSectorOf(c) = vol.bpb.reserved + s
  BY <1>2, <1>3, <1>8, FatPlace, Mount32Fs DEF FatSectorOf
<1>10. NextOf(c) = FatEntryAt(vol.bpb.reserved + s, r) % EntryMod
  BY <1>2, <1>3, <1>9, FatPlace DEF NextOf
<1>11. FatEntryAt(vol.bpb.reserved + s, r) = vol.fat[s * FatEntries + r]
  <2>1. vol.bpb.reserved + s # Zeros /\ (vol.bpb.reserved + s) - Format.fat = s
    <3> HIDE DEF s
    <3> QED BY <1>4, <1>6, Mount32Fs DEF Zeros
  <2> QED BY <2>1 DEF FatEntryAt
<1>12. s * FatEntries + r = c BY <1>2, <1>5, DivMod, Product DEF Positive
<1> QED BY <1>10, <1>11, <1>12 DEF FatLink

\* The clusters of the image: where they are, and what the code loads there.
LEMMA ClusterInImage ==
  ASSUME Ready, NEW c \in Clusters, LbaOf(c) + vol.bpb.spc <= vol.sectors
  PROVE  /\ c < Eoc
         /\ LbaOf(c) \in Nat
         /\ Loaded(buf, cluster_to_lba(c), fs.sectors_per_cluster) = LbaOf(c)
         /\ \A i \in 0 .. DirEntries - 1 : DirEntryAt(LbaOf(c), i) = vol.dir[c][i + 1]
<1> DEFINE spc == vol.bpb.spc
           data == DataOf(vol.bpb)
<1>1. c \in 2 .. Eoc - 1 BY Maps DEF Ready, Clusters
<1>2. /\ spc \in Positive /\ data \in Nat /\ vol.sectors \in 1 .. BufferAddress - 1
      /\ WordMod \in Positive /\ BufferAddress \in 0 .. WordMod - 1
  BY Layout, Sizes DEF Ready
<1>3. c - 2 \in Nat /\ c < Eoc BY <1>1, Sizes
<1>4. (c - 2) * spc \in Nat /\ (c - 2) * spc = spc * (c - 2)
  BY <1>2, <1>3, Product DEF Positive
<1>5. LbaOf(c) = data + (c - 2) * spc BY DEF LbaOf, Format
<1> HIDE DEF spc, data
<1>6. LbaOf(c) \in Nat /\ data <= LbaOf(c) BY <1>2, <1>4, <1>5
<1>7. LbaOf(c) + spc <= vol.sectors BY DEF spc
<1>8. LbaOf(c) + spc < WordMod /\ LbaOf(c) \in 0 .. WordMod - 1 /\ spc \in Nat
  BY <1>2, <1>6, <1>7 DEF Positive
<1>9. cluster_to_lba(c) = LbaOf(c)
  <2>1. cluster_to_lba(c) = LbaOf(c) % WordMod
    BY <1>5, Mount32Fs DEF cluster_to_lba, spc, data
  <2> QED BY <1>2, <1>8, <2>1, SmallMod
<1>10. Loaded(buf, cluster_to_lba(c), fs.sectors_per_cluster) = LbaOf(c)
  <2>1. fs.sectors_per_cluster = spc BY Mount32Fs DEF spc
  <2>2. Loaded(buf, LbaOf(c), spc) = LbaOf(c) BY <1>6, <1>7, <1>8, LoadedIs
  <2> QED BY <1>9, <2>1, <2>2
<1>11. ASSUME NEW i \in 0 .. DirEntries - 1
       PROVE  DirEntryAt(LbaOf(c), i) = vol.dir[c][i + 1]
  <2>1. /\ LbaOf(c) # Zeros /\ LbaOf(c) # JunkMatch
        /\ ~ (LbaOf(c) < Format.data) /\ LbaOf(c) >= Format.data
    BY <1>2, <1>6, Mount32Fs DEF Zeros, JunkMatch, data
  <2>2. (LbaOf(c) - Format.data) \div vol.bpb.spc + 2 = c
    <3>1. LbaOf(c) - Format.data = spc * (c - 2) + 0
      BY <1>2, <1>4, <1>5, Mount32Fs DEF data
    <3>2. (spc * (c - 2) + 0) \div spc = c - 2
      <4>1. 0 \in 0 .. spc - 1 BY <1>2 DEF Positive
      <4> QED BY <1>2, <1>3, <4>1, DivModUnique
    <3> QED BY <1>1, <3>1, <3>2 DEF spc
  <2> QED BY <2>1, <2>2 DEF DirEntryAt
<1> QED BY <1>3, <1>6, <1>10, <1>11

-----------------------------------------------------------------------------
(* Where a walk can come to on any chain, and what its buffers then hold.  *)

GoodSector(lba) ==
  lba = Zeros \/ \E s \in 0 .. vol.bpb.fatsize - 1 :
                   lba = vol.bpb.reserved + s /\ lba < vol.sectors

GoodBuffer(lba) ==
  \/ lba \in {Zeros, Junk, JunkMatch}
  \/ /\ lba \in Nat /\ lba + vol.bpb.spc <= vol.sectors
     /\ lba < Format.data \/ \E c \in Clusters : lba = LbaOf(c)

LEMMA NumbersNat ==
  ASSUME Ready
  PROVE  Numbers(vol) \subseteq Nat
<1>1. vol.bpb.root \in Nat BY Layout DEF Ready
<1>2. \A c \in DOMAIN vol.fat : FatLink(vol, c) \in Nat
  <2>1. WordMod \in Nat /\ EntryMod \in Nat \ {0} BY Sizes DEF Positive
  <2>2. vol.fat \in [0 .. vol.bpb.fatsize * FatEntries - 1 -> 0 .. WordMod - 1]
    BY Maps DEF Ready
  <2>3. \A c \in DOMAIN vol.fat : vol.fat[c] \in 0 .. WordMod - 1 BY <2>2
  <2> QED BY <2>1, <2>3 DEF FatLink
<1>3. ASSUME NEW c \in DOMAIN vol.dir, NEW i \in 1 .. DirEntriesOf(vol.bpb)
      PROVE  vol.dir[c][i].first \in Nat
  <2>1. vol.dir[c][i] \in EntryType
    <3>1. Mount32(vol) BY DEF Ready
    <3>2. vol.dir[c] \in [1 .. DirEntriesOf(vol.bpb) -> EntryType] BY <3>1, Maps
    <3> QED BY <3>2
  <2> QED BY <2>1 DEF EntryType
<1> QED BY <1>1, <1>2, <1>3 DEF Numbers

\* fat_next from any number leaves a sector of the FAT in its buffer and comes
\* to a number again.
LEMMA NextIsNumber ==
  ASSUME Ready, GoodSector(sector), NEW c \in Numbers(vol)
  PROVE  GoodSector(FatSectorOf(c)) /\ NextOf(c) \in Numbers(vol)
<1> DEFINE s == c \div FatEntries
           r == c % FatEntries
           n == vol.bpb.fatsize
<1>1. c \in Nat BY NumbersNat
<1>2. c * FatEntrySize < WordMod /\ GoodNumber(vol, c) BY Maps DEF Ready, GoodNumber
<1>3. /\ vol.bpb.reserved \in Nat /\ n \in Positive
      /\ vol.bpb.reserved + n <= DataOf(vol.bpb) /\ DataOf(vol.bpb) \in 0 .. WordMod - 1
      /\ vol.sectors \in 1 .. BufferAddress - 1
  BY Layout DEF Ready
<1>4. FatEntries \in Positive /\ WordMod \in Positive /\ BufferAddress \in 0 .. WordMod - 1
  BY Sizes
<1>5. s \in Nat /\ r \in 0 .. FatEntries - 1 BY <1>1, <1>4, DivMod
<1>6. s < n \/ vol.bpb.reserved + s \in vol.sectors .. WordMod - 2
  BY <1>1, <1>2, FatPlace DEF GoodNumber
<1>7. vol.bpb.reserved + s \in Nat /\ vol.bpb.reserved + s + 1 < WordMod
  <2> HIDE DEF s, n
  <2> QED BY <1>3, <1>4, <1>5, <1>6 DEF Positive
<1>8. FatSectorOf(c) = Loaded(sector, vol.bpb.reserved + s, 1)
  BY <1>1, <1>2, FatPlace, Mount32Fs DEF FatSectorOf
<1>9. FatSectorOf(c) = IF vol.bpb.reserved + s + 1 <= vol.sectors
                       THEN vol.bpb.reserved + s ELSE sector
  BY <1>7, <1>8, LoadedIs
<1>10. GoodSector(FatSectorOf(c))
  <2>1. CASE vol.bpb.reserved + s + 1 <= vol.sectors
    <3>1. s \in 0 .. n - 1 /\ vol.bpb.reserved + s < vol.sectors
      <4> HIDE DEF s, n
      <4> QED BY <1>3, <1>4, <1>5, <1>6, <2>1 DEF Positive
    <3> QED BY <1>9, <2>1, <3>1 DEF GoodSector
  <2>2. CASE ~ (vol.bpb.reserved + s + 1 <= vol.sectors)
    BY <1>9, <2>2
  <2> QED BY <2>1, <2>2
<1>11. NextOf(c) = FatEntryAt(FatSectorOf(c), r) % EntryMod
  BY <1>1, <1>2, FatPlace DEF NextOf
<1>12. CASE FatSectorOf(c) = Zeros
  <2>0. EntryMod \in Nat \ {0} BY Sizes DEF Positive
  <2>1. NextOf(c) = 0 BY <1>11, <1>12, <2>0 DEF FatEntryAt
  <2>2. 0 \in Numbers(vol) BY DEF Numbers
  <2> QED BY <1>10, <2>1, <2>2
<1>13. CASE FatSectorOf(c) # Zeros
  <2>1. PICK t \in 0 .. n - 1 : FatSectorOf(c) = vol.bpb.reserved + t
    BY <1>10, <1>13 DEF GoodSector
  <2>2. FatSectorOf(c) - Format.fat = t BY <1>3, <2>1, Mount32Fs DEF Positive
  <2>3. NextOf(c) = FatLink(vol, t * FatEntries + r)
    BY <1>11, <1>13, <2>2 DEF FatEntryAt, FatLink
  <2>4. t * FatEntries + r \in DOMAIN vol.fat
    <3>1. t \in Nat /\ t < n /\ n \in Nat BY <1>3 DEF Positive
    <3>2. FatEntries * t + r < FatEntries * n BY <1>4, <1>5, <3>1, InBlock
    <3>3. /\ t * FatEntries = FatEntries * t /\ n * FatEntries = FatEntries * n
          /\ t * FatEntries \in Nat /\ n * FatEntries \in Nat
      BY <1>4, <3>1, Product DEF Positive
    <3>4. r \in Nat BY <1>5
    <3>5. DOMAIN vol.fat = 0 .. n * FatEntries - 1 BY Maps DEF Ready
    <3> HIDE DEF r, n
    <3>6. t * FatEntries + r \in 0 .. n * FatEntries - 1 BY <3>2, <3>3, <3>4
    <3> QED BY <3>5, <3>6
  <2>5. FatLink(vol, t * FatEntries + r) \in Numbers(vol) BY <2>4 DEF Numbers
  <2> QED BY <1>10, <2>3, <2>5
<1> QED BY <1>12, <1>13

\* What the code loads for any number that is no end of a chain.
LEMMA LoadIsGood ==
  ASSUME Ready, GoodBuffer(buf), NEW c \in Numbers(vol), c < Eoc
  PROVE  GoodBuffer(Loaded(buf, cluster_to_lba(c), fs.sectors_per_cluster))
<1> DEFINE spc == vol.bpb.spc
           data == DataOf(vol.bpb)
           lba == cluster_to_lba(c)
<1>1. c \in Nat BY NumbersNat
<1>2. /\ spc \in Positive /\ data \in 0 .. WordMod - 1
      /\ vol.sectors \in 1 .. BufferAddress - 1
      /\ WordMod \in Positive /\ BufferAddress \in 0 .. WordMod - 1
  BY Layout, Sizes DEF Ready
<1>3. lba = (data + (c - 2) * spc) % WordMod
  BY Mount32Fs DEF cluster_to_lba
<1>4. \/ c \in Clusters /\ data + (c - 1) * spc < WordMod
      \/ c < 2 /\ 2 * spc <= data
      \/ lba + spc \in vol.sectors + 1 .. WordMod - 1
  BY <1>3, Maps DEF Ready, GoodNumber, Clusters
<1>5. fs.sectors_per_cluster = spc BY Mount32Fs
<1>6. CASE c \in Clusters /\ data + (c - 1) * spc < WordMod
  <2>1. c \in 2 .. Eoc - 1 BY <1>6, Maps DEF Ready, Clusters
  <2>2. c - 2 \in Nat BY <1>1, <2>1
  <2>3. (c - 2) * spc \in Nat /\ (c - 1) * spc = (c - 2) * spc + spc
    BY <1>1, <1>2, <2>2 DEF Positive
  <2>4. LbaOf(c) = data + (c - 2) * spc BY DEF LbaOf, Format
  <2> DEFINE x == (c - 2) * spc
             y == (c - 1) * spc
  <2>5. x \in Nat /\ y = x + spc /\ LbaOf(c) = data + x /\ data + y < WordMod
        /\ lba = (data + x) % WordMod
    BY <1>3, <1>6, <2>3, <2>4
  <2> HIDE DEF x, y, data, spc, lba
  <2>6. data + x \in 0 .. WordMod - 1 /\ spc \in Nat /\ data + x + spc < WordMod
    BY <1>2, <2>5 DEF Positive
  <2>7. lba = LbaOf(c) BY <1>2, <2>5, <2>6, SmallMod
  <2>8. Loaded(buf, lba, spc) = IF lba + spc <= vol.sectors THEN lba ELSE buf
    <3>1. lba \in Nat /\ lba + spc < WordMod BY <2>5, <2>6, <2>7
    <3> QED BY <2>6, <3>1, LoadedIs
  <2>9. lba \in Nat BY <2>5, <2>6, <2>7
  <2> QED BY <1>5, <1>6, <2>7, <2>8, <2>9 DEF GoodBuffer, spc, lba
<1>7. CASE c < 2 /\ 2 * spc <= data
  <2>1. (c - 2) * spc \in {-(2 * spc), - spc}
    <3>1. c = 0 \/ c = 1 BY <1>1, <1>7
    <3>2. CASE c = 0 BY <1>2, <3>2 DEF Positive
    <3>3. CASE c = 1 BY <1>2, <3>3 DEF Positive
    <3> QED BY <3>1, <3>2, <3>3
  <2> DEFINE x == (c - 2) * spc
  <2>2. x \in {-(2 * spc), - spc} /\ lba = (data + x) % WordMod BY <1>3, <2>1
  <2> HIDE DEF x, lba, spc, data
  <2>3. /\ data + x \in 0 .. WordMod - 1 /\ data + x < data
        /\ data + x + spc <= data /\ spc \in Nat
    BY <1>2, <1>7, <2>2 DEF Positive
  <2>4. lba = data + x BY <1>2, <2>2, <2>3, SmallMod
  <2>5. lba \in Nat /\ lba < data /\ lba + spc < WordMod BY <1>2, <2>3, <2>4 DEF Positive
  <2>6. Loaded(buf, lba, spc) = IF lba + spc <= vol.sectors THEN lba ELSE buf
    BY <2>3, <2>5, LoadedIs
  <2>7. Format.data = data BY DEF Format, data
  <2> QED BY <1>5, <2>5, <2>6, <2>7 DEF GoodBuffer, spc, lba
<1>8. CASE lba + spc \in vol.sectors + 1 .. WordMod - 1
  <2>1. lba \in Nat
    <3>1. (c - 2) * spc \in Int BY <1>1, <1>2 DEF Positive
    <3> DEFINE x == (c - 2) * spc
    <3>2. x \in Int /\ lba = (data + x) % WordMod BY <1>3, <3>1
    <3> HIDE DEF x, lba, data
    <3> QED BY <1>2, <3>2 DEF Positive
  <2> HIDE DEF lba, spc
  <2>2. lba + spc < WordMod /\ ~ (lba + spc <= vol.sectors) /\ spc \in Nat
    BY <1>2, <1>8, <2>1 DEF Positive
  <2>3. Loaded(buf, lba, spc) = buf BY <2>1, <2>2, LoadedIs
  <2> QED BY <1>5, <2>3 DEF spc, lba
<1> QED BY <1>4, <1>6, <1>7, <1>8

\* What a scan can read there.
LEMMA EntryIsGood ==
  ASSUME Ready, NEW lba, GoodBuffer(lba), want \in STRING,
         NEW i \in 0 .. DirEntries - 1
  PROVE  DirEntryAt(lba, i) \in EntryType /\ DirEntryAt(lba, i).first \in Numbers(vol)
<1>1. {"", "?"} \subseteq STRING /\ 0 \in 0 .. WordMod - 1 /\ 0 \in Numbers(vol)
  <2>1. Names \cup {"", "?"} \subseteq STRING BY Fat32Assumption
  <2>2. 0 \in 0 .. WordMod - 1 BY Sizes DEF Positive
  <2>3. 0 \in Numbers(vol) BY DEF Numbers
  <2> QED BY <2>1, <2>2, <2>3
<1>2. \A name \in STRING : [NoEntry EXCEPT !.name = name] \in EntryType
                           /\ [NoEntry EXCEPT !.name = name].first = 0
  BY <1>1 DEF NoEntry, EntryType
<1>3. NoEntry \in EntryType /\ NoEntry.first = 0 BY <1>1 DEF NoEntry, EntryType
<1>0. Format.data \in Nat /\ Zeros # JunkMatch
  <2>1. DataOf(vol.bpb) \in Nat BY Layout DEF Ready
  <2>2. Format.data = DataOf(vol.bpb) BY Mount32Fs
  <2> QED BY <2>1, <2>2 DEF Zeros, JunkMatch
<1>4. CASE lba = Zeros
  <2>1. lba # JunkMatch /\ ~ (lba >= Format.data)
    BY <1>0, <1>4 DEF Zeros, JunkMatch
  <2>2. DirEntryAt(lba, i) = NoEntry BY <1>4, <2>1 DEF DirEntryAt
  <2> QED BY <1>1, <1>3, <2>2
<1>5. CASE lba = JunkMatch
  <2>1. lba # Zeros /\ ~ (lba >= Format.data)
    BY <1>0, <1>5 DEF Zeros, JunkMatch
  <2>2. DirEntryAt(lba, i) = [NoEntry EXCEPT !.name = want]
    BY <1>5, <2>1 DEF DirEntryAt
  <2> QED BY <1>1, <1>2, <2>2
<1>6. CASE lba # Zeros /\ lba # JunkMatch /\ lba < Format.data
  <2>1. DirEntryAt(lba, i) = [NoEntry EXCEPT !.name = "?"]
    <3>1. ~ (lba >= Format.data)
      <4>1. lba \in Int BY DEF GoodBuffer, Zeros, Junk, JunkMatch
      <4> QED BY <1>0, <1>6, <4>1
    <3> QED BY <1>6, <3>1 DEF DirEntryAt
  <2> QED BY <1>1, <1>2, <2>1
<1>7. CASE lba # Zeros /\ lba # JunkMatch /\ ~ (lba < Format.data)
  <2>1. lba # Junk BY <1>0, <1>7 DEF Junk
  <2>2. PICK c \in Clusters : lba = LbaOf(c) /\ lba + vol.bpb.spc <= vol.sectors
    BY <1>7, <2>1 DEF GoodBuffer
  <2>3. DirEntryAt(lba, i) = vol.dir[c][i + 1] BY <2>2, ClusterInImage
  <2>4. i + 1 \in 1 .. DirEntriesOf(vol.bpb)
    BY Layout DEF Ready, DirEntries, Positive
  <2>5. vol.dir[c][i + 1] \in EntryType
    <3>1. Mount32(vol) /\ c \in DOMAIN vol.dir BY DEF Ready, Clusters
    <3>2. vol.dir[c] \in [1 .. DirEntriesOf(vol.bpb) -> EntryType] BY <3>1, Maps
    <3> QED BY <2>4, <3>2
  <2>6. vol.dir[c][i + 1].first \in Numbers(vol) BY <2>4 DEF Numbers, Clusters
  <2> QED BY <2>3, <2>5, <2>6
<1> QED BY <1>4, <1>5, <1>6, <1>7

-----------------------------------------------------------------------------
(* The type invariant, and what it rests on. *)

WalkType ==
  /\ {file.first, cl, from} \subseteq Numbers(vol)
  /\ GoodSector(sector) /\ GoodBuffer(buf)

TypeInv ==
  /\ TypeOK /\ vol \in Volumes
  /\ at \in {"boot", "failed"} =>
       cl = 0 /\ from = 0 /\ file = NoEntry /\ buf = Junk /\ sector = Zeros /\ want = ""
  /\ at \notin {"boot", "failed"} =>
       Mountable(vol.bpb) /\ fs = Mounted(vol.bpb) /\ WalkType
  /\ at \in {"skip", "read"} => off < ClusterBytes
  /\ Len(out) + remaining < WordMod

LEMMA InvReady ==
  ASSUME Swapped = FALSE, TypeInv, at \notin {"boot", "failed"}
  PROVE  Ready
BY DEF TypeInv, Ready, Mount32

LEMMA BufferTypes ==
  ASSUME Ready, NEW lba
  PROVE  /\ GoodSector(lba) => lba \in Buffers
         /\ GoodBuffer(lba) =>
              /\ lba \in Buffers
              /\ lba >= 0 => lba + fs.sectors_per_cluster <= vol.sectors
<1>1. /\ vol.bpb.spc \in Nat /\ vol.bpb.reserved \in Nat /\ vol.bpb.fatsize \in Nat
      /\ vol.sectors \in Nat
  <2>1. BufferAddress \in Nat BY Sizes DEF Positive
  <2> QED BY <2>1, Layout DEF Ready, Positive
<1>2. GoodSector(lba) => lba \in Buffers
  BY <1>1 DEF GoodSector, Buffers
<1>3. fs.sectors_per_cluster = vol.bpb.spc BY Mount32Fs
<1>4. ASSUME GoodBuffer(lba)
      PROVE  lba \in Buffers /\ (lba >= 0 => lba + fs.sectors_per_cluster <= vol.sectors)
  <2>1. CASE lba \in {Zeros, Junk, JunkMatch}
    BY <2>1 DEF Buffers, Zeros, Junk, JunkMatch
  <2>2. CASE lba \in Nat /\ lba + vol.bpb.spc <= vol.sectors
    BY <1>1, <1>3, <2>2 DEF Buffers
  <2> QED BY <1>4, <2>1, <2>2 DEF GoodBuffer
<1> QED BY <1>2, <1>4

LEMMA TypeInit == Init => TypeInv
<1> SUFFICES ASSUME Init PROVE TypeInv OBVIOUS
<1>0. WordMod \in Nat /\ 0 < WordMod BY Sizes DEF Positive
<1>1. {"", "?"} \subseteq STRING /\ 0 \in 0 .. WordMod - 1
  <2>1. Names \cup {"", "?"} \subseteq STRING BY Fat32Assumption
  <2>2. 0 \in 0 .. WordMod - 1 BY <1>0
  <2> QED BY <2>1, <2>2
<1>2. NoEntry \in EntryType BY <1>1 DEF NoEntry, EntryType
<1>3. out \in Seq(-3 .. vol.sectors * SectorSize) /\ Len(out) = 0 BY EmptySeq DEF Init
<1>4. result \in -1 .. WordMod - 1 /\ remaining = 0 /\ 0 < WordMod
  <2>1. result = 0 /\ remaining = 0 BY DEF Init
  <2> QED BY <1>0, <2>1
<1>5. buf = -2 /\ sector = -1 BY DEF Init, Zeros, Junk
<1>8. {buf, sector} \subseteq Buffers /\ ~ (buf >= 0)
  BY <1>5 DEF Buffers, Zeros, Junk
<1>6. fs \in [fat_lba : Nat, data_lba : Nat, sectors_per_cluster : Nat, root_cluster : Nat]
  BY DEF Init, Unmounted
<1>7. TypeOK BY <1>1, <1>2, <1>3, <1>4, <1>6, <1>8 DEF Init, TypeOK
<1>9. Len(out) + remaining < WordMod BY <1>0, <1>3, <1>4
<1> QED BY <1>7, <1>9 DEF Init, TypeInv

\* What a step that changes neither the volume nor the mount has to keep.
LEMMA StepTypes ==
  ASSUME Swapped = FALSE, TypeInv, at \notin {"boot", "failed"},
         at' \in {"idle", "find", "skip", "read"}, vol' = vol, fs' = fs,
         file' \in EntryType, result' \in -1 .. WordMod - 1,
         want' \in Names \cup {""}, range' \in Ranges \cup {<<0, 0>>},
         {skip', off', remaining'} \subseteq 0 .. WordMod - 1,
         out' \in Seq(-3 .. vol.sectors * SectorSize), Len(out') + remaining' < WordMod,
         at' \in {"skip", "read"} => off' < ClusterBytes, WalkType'
  PROVE  TypeInv'
<1>1. Ready BY InvReady
<1>2. Ready' BY <1>1 DEF Ready
<1>3. GoodSector(sector)' /\ GoodBuffer(buf)' BY DEF WalkType
<1>4. {cl', from'} \subseteq Nat
  <2>1. Numbers(vol)' = Numbers(vol) OBVIOUS
  <2> QED BY <1>1, <2>1, NumbersNat DEF WalkType
<1>5. GoodSector(sector') /\ GoodBuffer(buf') 
  BY <1>3 DEF GoodSector, GoodBuffer, Clusters, LbaOf, Format
<1>6. /\ {buf', sector'} \subseteq Buffers
      /\ buf' >= 0 => buf' + fs.sectors_per_cluster <= vol.sectors
  BY <1>1, <1>5, BufferTypes
<1>7. Buffers' = Buffers BY DEF Buffers
<1>8. TypeOK' BY <1>4, <1>6, <1>7 DEF TypeInv, TypeOK
<1>9. vol' \in Volumes /\ Mountable(vol'.bpb) /\ fs' = Mounted(vol'.bpb)
  BY DEF TypeInv
<1>10. ClusterBytes' = ClusterBytes BY DEF ClusterBytes
<1> QED BY <1>8, <1>9, <1>10 DEF TypeInv

LEMMA Results == {-1, 0} \subseteq -1 .. WordMod - 1
<1>1. WordMod \in Nat /\ 0 < WordMod BY Sizes DEF Positive
<1> QED BY <1>1

\* The boot sector lies in every image, so that its read does not fail.
LEMMA MountReads ==
  ASSUME Swapped = FALSE, TypeInv, Mount
  PROVE  IF Mountable(vol.bpb)
         THEN at' = "idle" /\ result' = 0 /\ fs' = Mounted(vol.bpb)
         ELSE at' = "failed" /\ result' = -1 /\ UNCHANGED fs
<1>1. ~ ReadFails(0, 1)
  <2>1. GoodVolume(vol) BY Fat32Assumption DEF TypeInv
  <2>2. vol.sectors \in 1 .. BufferAddress - 1 BY <2>1 DEF GoodVolume
  <2>3. BufferAddress \in 0 .. WordMod - 1 /\ WordMod \in Nat BY Sizes DEF Positive
  <2>4. 1 \in 0 .. WordMod - 1 /\ 1 <= vol.sectors /\ vol.sectors \in Nat
    BY <2>2, <2>3
  <2>5. 1 % WordMod = 1 BY <2>4, Sizes, SmallMod
  <2>6. (0 + 1) % WordMod = 1 BY <2>5
  <2> QED BY <2>4, <2>6 DEF ReadFails
<1> QED BY <1>1 DEF Mount

LEMMA MountTypes ==
  ASSUME Swapped = FALSE, TypeInv, Mount
  PROVE  TypeInv'
<1>1. at = "boot" /\ at' \in {"idle", "failed"} /\ UNCHANGED <<vol, file, call>>
  BY DEF Mount
<1>3. IF Mountable(vol.bpb)
      THEN at' = "idle" /\ result' = 0 /\ fs' = Mounted(vol.bpb)
      ELSE at' = "failed" /\ result' = -1 /\ UNCHANGED fs
  BY MountReads
<1>4. /\ file' = NoEntry /\ cl' = 0 /\ from' = 0 /\ buf' = Junk /\ sector' = Zeros
      /\ want' = "" /\ NoEntry.first = 0
  BY <1>1 DEF TypeInv, call, NoEntry
<1>5. result' \in -1 .. WordMod - 1 /\ ~ (buf' >= 0)
  <2>1. result' \in {-1, 0} BY <1>3
  <2>2. result' \in -1 .. WordMod - 1 BY <2>1, Results
  <2>3. buf' = -2 BY <1>4 DEF Junk
  <2> QED BY <2>2, <2>3
<1>6. CASE Mountable(vol.bpb)
  <2>1. Ready' BY <1>1, <1>3, <1>6 DEF Ready, Mount32, TypeInv
  <2>2. fs' \in [fat_lba : Nat, data_lba : Nat, sectors_per_cluster : Nat,
                 root_cluster : Nat]
    <3>1. Mount32(vol) BY <1>6 DEF Mount32, TypeInv
    <3>2. /\ vol.bpb.reserved \in Nat /\ DataOf(vol.bpb) % WordMod \in Nat
          /\ vol.bpb.spc \in Nat /\ vol.bpb.root \in Nat
      <4>1. DataOf(vol.bpb) \in Nat BY <3>1, Layout
      <4>2. DataOf(vol.bpb) % WordMod \in Nat BY <4>1, Sizes, DivMod DEF Positive
      <4> QED BY <3>1, <4>2, Layout DEF Positive
    <3> QED BY <1>3, <1>6, <3>2 DEF Mounted
  <2>3. TypeOK'
    <3>1. Buffers' = Buffers BY <1>1 DEF Buffers
    <3>2. TypeOK BY DEF TypeInv
    <3>3. /\ file' \in EntryType /\ want' \in Names \cup {""} /\ from' \in Nat
          /\ range' \in Ranges \cup {<<0, 0>>} /\ cl' \in Nat
          /\ {buf', sector'} \subseteq Buffers'
          /\ {skip', off', remaining'} \subseteq 0 .. WordMod - 1
          /\ out' \in Seq(-3 .. vol'.sectors * SectorSize)
      BY <1>1, <3>1, <3>2 DEF TypeOK, call
    <3> QED BY <1>3, <1>5, <1>6, <2>2, <3>3 DEF TypeOK
  <2>4. WalkType'
    <3>1. 0 \in Numbers(vol)' BY DEF Numbers
    <3> QED BY <1>4, <3>1 DEF WalkType, GoodSector, GoodBuffer
  <2> QED BY <1>1, <1>3, <1>6, <2>3, <2>4 DEF TypeInv, call
<1>7. CASE ~ Mountable(vol.bpb)
  <2>1. TypeOK' BY <1>1, <1>3, <1>5, <1>7 DEF TypeInv, TypeOK, call, Buffers
  <2> QED BY <1>1, <1>3, <1>4, <1>7, <2>1 DEF TypeInv, call
<1> QED BY <1>6, <1>7

LEMMA FindTypes ==
  ASSUME Swapped = FALSE, TypeInv, NEW name \in Names, Find(name)
  PROVE  TypeInv'
<1>1. Ready BY InvReady DEF Find
<1>2. /\ at = "idle" /\ at' = "find" /\ want' = name /\ cl' = from'
      /\ from' \in {fs.root_cluster} \cup (IF file.dir THEN {file.first} ELSE {})
      /\ buf' \in {Zeros, Junk, JunkMatch} /\ file' = NoEntry /\ range' = <<0, 0>>
      /\ out' = << >> /\ UNCHANGED <<vol, fs, result, sector, skip, off, remaining>>
  BY DEF Find
<1>3. NoEntry \in EntryType /\ NoEntry.first = 0
  <2>1. Names \cup {"", "?"} \subseteq STRING BY Fat32Assumption
  <2>2. 0 \in 0 .. WordMod - 1 BY Sizes DEF Positive
  <2> QED BY <2>1, <2>2 DEF NoEntry, EntryType
<1>4. fs.root_cluster \in Numbers(vol) /\ 0 \in Numbers(vol)
  BY <1>1, Mount32Fs DEF Numbers
<1>5. WalkType'
  <2>1. file.first \in Numbers(vol) /\ GoodSector(sector)
    BY <1>2 DEF TypeInv, WalkType
  <2>2. from' \in Numbers(vol) BY <1>2, <1>4, <2>1
  <2>3. {file'.first, cl', from'} \subseteq Numbers(vol')
    BY <1>2, <1>3, <1>4, <2>2
  <2>4. GoodSector(sector)' BY <1>2, <2>1 DEF GoodSector
  <2> QED BY <1>2, <2>3, <2>4 DEF WalkType, GoodBuffer
<1>6. out' \in Seq(-3 .. vol.sectors * SectorSize) /\ Len(out') = 0
  BY <1>2, EmptySeq
<1>7. remaining \in 0 .. WordMod - 1 BY DEF TypeInv, TypeOK
<1>8. Len(out') + remaining' < WordMod
  <2>1. WordMod \in Nat BY Sizes DEF Positive
  <2> QED BY <1>2, <1>6, <1>7, <2>1
<1> QED BY <1>2, <1>3, <1>5, <1>6, <1>8, StepTypes DEF TypeInv, TypeOK

LEMMA FindClusterTypes ==
  ASSUME Swapped = FALSE, TypeInv, FindCluster
  PROVE  TypeInv'
<1> DEFINE loaded == Loaded(buf, cluster_to_lba(cl), fs.sectors_per_cluster)
<1>1. Ready BY InvReady DEF FindCluster
<1>2. /\ at = "find" /\ ~ AtEnd(cl) /\ buf' = loaded
      /\ UNCHANGED <<vol, fs, want, from, range, skip, off, remaining, out>>
      /\ \/ fat_next /\ UNCHANGED <<at, file, result>>
         \/ \E i \in Stops(loaded) :
              /\ at' = "idle" /\ UNCHANGED <<cl, sector>>
              /\ \/ result' = -1 /\ UNCHANGED file
                 \/ result' = 0 /\ file' = DirEntryAt(loaded, i)
  <2>1. \/ Stops(loaded) = {} /\ fat_next /\ UNCHANGED <<at, file, result>>
        \/ \E i \in Stops(loaded) :
             /\ at' = "idle" /\ UNCHANGED <<cl, sector>>
             /\ \/ result' = -1 /\ UNCHANGED file
                \/ result' = 0 /\ file' = DirEntryAt(loaded, i)
    BY DEF FindCluster
  <2>2. /\ at = "find" /\ ~ AtEnd(cl) /\ buf' = loaded
        /\ UNCHANGED <<vol, fs, want, from, range, skip, off, remaining, out>>
    BY DEF FindCluster
  <2> QED BY <2>1, <2>2
<1>3. WalkType BY <1>2 DEF TypeInv
<1>4. GoodBuffer(loaded)
  <2>1. cl \in Numbers(vol) /\ cl \in Nat BY <1>1, <1>3, NumbersNat DEF WalkType
  <2>2. cl < Eoc BY <1>2, <2>1, Sizes DEF AtEnd
  <2> QED BY <1>1, <1>3, <2>1, <2>2, LoadIsGood DEF WalkType
<1> HIDE DEF loaded
<1>5. GoodBuffer(buf)' BY <1>2, <1>4 DEF GoodBuffer, Clusters, LbaOf, Format
<1>6. /\ result \in -1 .. WordMod - 1 /\ -1 \in -1 .. WordMod - 1 /\ 0 \in -1 .. WordMod - 1
      /\ file \in EntryType
  BY Results DEF TypeInv, TypeOK
<1>7. CASE fat_next /\ UNCHANGED <<at, file, result>>
  <2>1. cl' \in Numbers(vol) /\ GoodSector(sector')
    BY <1>1, <1>3, <1>7, NextIsNumber DEF fat_next, WalkType
  <2>2. GoodSector(sector)' BY <1>2, <2>1 DEF GoodSector
  <2>3. WalkType' BY <1>2, <1>3, <1>5, <1>7, <2>1, <2>2 DEF WalkType
  <2> QED BY <1>2, <1>6, <1>7, <2>3, StepTypes DEF TypeInv, TypeOK
<1>8. CASE \E i \in Stops(loaded) :
             /\ at' = "idle" /\ UNCHANGED <<cl, sector>>
             /\ \/ result' = -1 /\ UNCHANGED file
                \/ result' = 0 /\ file' = DirEntryAt(loaded, i)
  <2>1. PICK i \in Stops(loaded) :
             /\ at' = "idle" /\ UNCHANGED <<cl, sector>>
             /\ \/ result' = -1 /\ UNCHANGED file
                \/ result' = 0 /\ file' = DirEntryAt(loaded, i)
    BY <1>8
  <2>2. i \in 0 .. DirEntries - 1 BY DEF Stops
  <2>3. want \in STRING
    <3>1. Names \cup {"", "?"} \subseteq STRING BY Fat32Assumption
    <3> QED BY <3>1 DEF TypeInv, TypeOK
  <2>4. DirEntryAt(loaded, i) \in EntryType /\ DirEntryAt(loaded, i).first \in Numbers(vol)
    BY <1>1, <1>4, <2>2, <2>3, EntryIsGood
  <2>5. file' \in EntryType /\ file'.first \in Numbers(vol)
    BY <1>3, <1>6, <2>1, <2>4 DEF WalkType
  <2>6. GoodSector(sector)' BY <1>2, <1>3, <2>1 DEF GoodSector, WalkType
  <2>7. WalkType' BY <1>2, <1>3, <1>5, <2>1, <2>5, <2>6 DEF WalkType
  <2>8. result' \in -1 .. WordMod - 1 BY <1>6, <2>1
  <2> QED BY <1>2, <2>1, <2>5, <2>7, <2>8, StepTypes DEF TypeInv, TypeOK
<1> QED BY <1>2, <1>7, <1>8

LEMMA FindEndsTypes ==
  ASSUME Swapped = FALSE, TypeInv, FindEnds
  PROVE  TypeInv'
<1>1. at = "find" /\ at' = "idle" /\ result' = -1 /\ UNCHANGED <<vol, fs, file, call>>
  BY DEF FindEnds
<1>2. WalkType' BY <1>1 DEF TypeInv, WalkType, GoodSector, GoodBuffer, Clusters,
                            LbaOf, Format, call
<1>3. result' \in -1 .. WordMod - 1 BY <1>1, Results
<1> QED BY <1>1, <1>2, <1>3, StepTypes DEF TypeInv, TypeOK, call

\* What the arithmetic of fat32_read starts from.
LEMMA ReadBounds ==
  ASSUME Swapped = FALSE, TypeInv, at \notin {"boot", "failed"}
  PROVE  /\ file.size \in 0 .. WordMod - 1 /\ WordMod \in Nat
         /\ BytesPerCluster = ClusterBytes /\ ClusterBytes \in Positive
         /\ \A r \in Ranges : r[1] \in 0 .. WordMod - 1 /\ r[2] \in 0 .. WordMod - 1
<1>1. Ready BY InvReady
<1>2. file.size \in 0 .. WordMod - 1 BY DEF TypeInv, TypeOK, EntryType
<1>3. BytesPerCluster = ClusterBytes /\ ClusterBytes \in Positive
  BY <1>1, Mount32Fs, Layout DEF Ready, ClusterBytes
<1>4. \A r \in Ranges : r[1] \in 0 .. WordMod - 1 /\ r[2] \in 0 .. WordMod - 1
  BY Fat32Assumption
<1> QED BY <1>2, <1>3, <1>4, Sizes DEF Positive

LEMMA ReadTypes ==
  ASSUME Swapped = FALSE, TypeInv, NEW r \in Ranges, Read(r[1], r[2])
  PROVE  TypeInv'
<1> DEFINE offset == r[1]
           size == r[2]
<1>1. at = "idle" /\ file.name # "" /\ UNCHANGED <<vol, fs, file, want, from, sector>>
      /\ range' = <<offset, size>> /\ out' = << >>
  BY DEF Read
<1>2. /\ file.size \in 0 .. WordMod - 1 /\ WordMod \in Nat
      /\ BytesPerCluster = ClusterBytes /\ ClusterBytes \in Positive
      /\ offset \in 0 .. WordMod - 1 /\ size \in 0 .. WordMod - 1
  BY <1>1, ReadBounds
<1>3. range' \in Ranges
  <2>1. r \in (0 .. WordMod - 1) \X (0 .. WordMod - 1) BY Fat32Assumption
  <2>2. r = <<offset, size>> BY <2>1
  <2> QED BY <1>1, <2>2
<1>4. out' \in Seq(-3 .. vol.sectors * SectorSize) /\ Len(out') = 0
  BY <1>1, EmptySeq
<1>5. WalkType /\ TypeOK BY <1>1 DEF TypeInv
<1> HIDE DEF offset, size
<1>6. CASE offset >= file.size /\ result' = 0
           /\ UNCHANGED <<at, cl, buf, skip, off, remaining>>
  <2>1. WalkType'
    BY <1>1, <1>5, <1>6 DEF WalkType, GoodSector, GoodBuffer, Clusters, LbaOf, Format
  <2>2. result' \in -1 .. WordMod - 1 BY <1>6, Results
  <2>3. Len(out') + remaining' < WordMod
    <3>1. remaining \in 0 .. WordMod - 1 BY <1>5 DEF TypeOK
    <3> QED BY <1>2, <1>4, <1>6, <3>1
  <2> QED BY <1>1, <1>3, <1>4, <1>5, <1>6, <2>1, <2>2, <2>3, StepTypes DEF TypeOK
<1>7. CASE /\ offset < file.size /\ at' = "skip"
           /\ remaining' = (IF (offset + size) % WordMod > file.size
                            THEN file.size - offset ELSE size)
           /\ skip' = offset \div BytesPerCluster
           /\ off' = offset % BytesPerCluster
           /\ cl' = file.first /\ buf' = Junk /\ UNCHANGED result
  <2>1. WalkType'
    BY <1>1, <1>5, <1>7 DEF WalkType, GoodSector, GoodBuffer
  <2>2. remaining' \in 0 .. WordMod - 1 BY <1>2, <1>7
  <2>3. offset \in Nat /\ ClusterBytes \in Nat /\ 1 <= ClusterBytes
    BY <1>2 DEF Positive
  <2>4. /\ offset \div ClusterBytes \in Nat /\ offset % ClusterBytes \in 0 .. ClusterBytes - 1
        /\ offset = ClusterBytes * (offset \div ClusterBytes) + (offset % ClusterBytes)
    BY <1>2, <2>3, DivMod
  <2>5. skip' \in 0 .. offset /\ off' \in 0 .. offset /\ off' < ClusterBytes
    <3> DEFINE q == offset \div ClusterBytes
               u == offset % ClusterBytes
               p == ClusterBytes * q
    <3>1. /\ q \in Nat /\ u \in 0 .. ClusterBytes - 1 /\ offset = p + u
          /\ skip' = q /\ off' = u
      BY <1>2, <1>7, <2>4
    <3>2. q <= p /\ p \in Nat
      <4> HIDE DEF q
      <4>1. p \in Nat BY <2>3, <3>1, Product
      <4>2. CASE q = 0 BY <4>1, <4>2
      <4>3. CASE q # 0
        <5>1. q \in Positive BY <3>1, <4>3 DEF Positive
        <5> QED BY <1>2, <4>1, <5>1, ProductPositive
      <4> QED BY <4>2, <4>3
    <3> HIDE DEF q, u, p
    <3> QED BY <2>3, <3>1, <3>2
  <2>6. {skip', off', remaining'} \subseteq 0 .. WordMod - 1
    BY <1>2, <2>2, <2>5
  <2>7. Len(out') + remaining' < WordMod
    <3>1. Len(out') = 0 BY <1>4
    <3>2. \A x \in 0 .. WordMod - 1 : 0 + x < WordMod BY <1>2
    <3>3. 0 + remaining' < WordMod BY <2>2, <3>2, Zenon
    <3> QED BY <3>1, <3>3, Zenon
  <2> QED BY <1>1, <1>3, <1>4, <1>5, <1>7, <2>1, <2>5, <2>6, <2>7, StepTypes DEF TypeOK
<1> QED BY <1>6, <1>7 DEF Read, offset, size

LEMMA SkipTypes ==
  ASSUME Swapped = FALSE, TypeInv, SkipCluster
  PROVE  TypeInv'
<1>1. /\ at = "skip" /\ at' \in {"skip", "read"}
      /\ UNCHANGED <<vol, fs, file, result, want, from, range, buf, off, remaining, out>>
      /\ \/ fat_next /\ skip > 0 /\ skip' = skip - 1
         \/ UNCHANGED <<cl, sector, skip>>
  BY DEF SkipCluster
<1>2. Ready BY <1>1, InvReady
<1>3. WalkType /\ TypeOK /\ off < ClusterBytes BY <1>1 DEF TypeInv
<1>4. {cl', file'.first, from'} \subseteq Numbers(vol) /\ GoodSector(sector')
  BY <1>1, <1>2, <1>3, NextIsNumber DEF fat_next, WalkType
<1>5. WalkType'
  <2>1. GoodSector(sector)' BY <1>1, <1>4 DEF GoodSector
  <2>2. GoodBuffer(buf)'
    BY <1>1, <1>3 DEF WalkType, GoodBuffer, Clusters, LbaOf, Format
  <2> QED BY <1>1, <1>4, <2>1, <2>2 DEF WalkType
<1>6. skip' \in 0 .. WordMod - 1
  <2>1. WordMod \in Nat BY Sizes DEF Positive
  <2>2. skip \in 0 .. WordMod - 1 BY <1>3 DEF TypeOK
  <2>3. skip' = skip \/ (skip > 0 /\ skip' = skip - 1) BY <1>1
  <2> QED BY <2>1, <2>2, <2>3
<1>7. Len(out') + remaining' < WordMod BY <1>1 DEF TypeInv
<1> QED BY <1>1, <1>3, <1>5, <1>6, <1>7, StepTypes DEF TypeOK

LEMMA ReadEndsTypes ==
  ASSUME Swapped = FALSE, TypeInv, ReadEnds
  PROVE  TypeInv'
<1>1. /\ at = "read" /\ at' = "idle" /\ result' = Len(out)
      /\ UNCHANGED <<vol, fs, file, call>>
  BY DEF ReadEnds
<1>2. WalkType' BY <1>1 DEF TypeInv, WalkType, GoodSector, GoodBuffer, Clusters,
                            LbaOf, Format, call
<1>3. result' \in -1 .. WordMod - 1
  <2>1. Len(out) \in Nat BY LenProperties DEF TypeInv, TypeOK
  <2>2. remaining \in 0 .. WordMod - 1 /\ Len(out) + remaining < WordMod
    BY DEF TypeInv, TypeOK
  <2>3. WordMod \in Nat BY Sizes DEF Positive
  <2> QED BY <1>1, <2>1, <2>2, <2>3
<1> QED BY <1>1, <1>2, <1>3, StepTypes DEF TypeInv, TypeOK, call

\* What one round of the copying loop adds.
Round == IF BytesPerCluster - off > remaining THEN remaining ELSE BytesPerCluster - off

LEMMA RoundBounds ==
  ASSUME Swapped = FALSE, TypeInv, at = "read", remaining > 0
  PROVE  /\ Round \in Positive /\ Round <= remaining /\ off + Round <= ClusterBytes
         /\ off \in Nat /\ off < ClusterBytes /\ remaining \in Nat /\ ClusterBytes \in Nat
         /\ (Round = remaining \/ off + Round = ClusterBytes)
<1>1. BytesPerCluster = ClusterBytes /\ ClusterBytes \in Nat /\ WordMod \in Nat
  BY ReadBounds DEF Positive
<1>2. off \in 0 .. WordMod - 1 /\ remaining \in 0 .. WordMod - 1 /\ off < ClusterBytes
  BY DEF TypeInv, TypeOK
<1>3. off \in Nat /\ remaining \in Nat BY <1>1, <1>2
<1> QED BY <1>1, <1>2, <1>3 DEF Round, Positive

LEMMA CopyTypes ==
  ASSUME Swapped = FALSE, TypeInv, CopyCluster
  PROVE  TypeInv'
<1> DEFINE loaded == Loaded(buf, cluster_to_lba(cl), fs.sectors_per_cluster)
           piece == [i \in 1 .. Round |-> ByteAt(loaded, off + i - 1)]
           Places == -3 .. vol.sectors * SectorSize
<1>1. /\ at = "read" /\ at' = "read" /\ remaining > 0 /\ ~ AtEnd(cl) /\ fat_next
      /\ buf' = loaded /\ out' = out \o piece /\ remaining' = remaining - Round /\ off' = 0
      /\ UNCHANGED <<vol, fs, file, result, want, from, range, skip>>
  BY DEF CopyCluster, More, Round
<1>2. Ready BY <1>1, InvReady
<1>3. WalkType /\ TypeOK /\ out \in Seq(Places) /\ Len(out) + remaining < WordMod
  BY <1>1 DEF TypeInv, TypeOK
<1>4. GoodBuffer(loaded)
  <2>1. cl \in Numbers(vol) /\ cl \in Nat BY <1>2, <1>3, NumbersNat DEF WalkType
  <2>2. cl < Eoc BY <1>1, <2>1, Sizes DEF AtEnd
  <2> QED BY <1>2, <1>3, <2>1, <2>2, LoadIsGood DEF WalkType
<1> HIDE DEF loaded
<1>5. /\ Round \in Positive /\ Round <= remaining /\ off + Round <= ClusterBytes
      /\ off \in Nat /\ remaining \in Nat /\ ClusterBytes \in Nat
  BY <1>1, RoundBounds
<1>6. ASSUME NEW i \in 1 .. Round PROVE ByteAt(loaded, off + i - 1) \in Places
  <2>1. vol.bpb.spc \in Nat /\ SectorSize \in Nat /\ vol.sectors \in Nat
    <3>1. BufferAddress \in Nat BY Sizes DEF Positive
    <3> QED BY <1>2, <3>1, Layout, Sizes DEF Ready, Positive
  <2>2. vol.sectors * SectorSize \in Nat BY <2>1, Product
  <2>3. CASE loaded \in {Zeros, Junk, JunkMatch}
    <3>1. loaded \in {-1, -2, -3} BY <2>3 DEF Zeros, Junk, JunkMatch
    <3>2. ByteAt(loaded, off + i - 1) = loaded BY <3>1 DEF ByteAt
    <3> HIDE DEF Places
    <3>3. {-1, -2, -3} \subseteq Places
      <4> DEFINE x == vol.sectors * SectorSize
      <4>1. x \in Nat /\ Places = -3 .. x BY <2>2 DEF Places
      <4> HIDE DEF x
      <4> QED BY <4>1
    <3> QED BY <3>1, <3>2, <3>3
  <2>4. CASE loaded \in Nat /\ loaded + vol.bpb.spc <= vol.sectors
    <3>1. ByteAt(loaded, off + i - 1) = loaded * SectorSize + (off + i - 1)
      BY <1>5, <2>4 DEF ByteAt, Positive
    <3>2. /\ (loaded + vol.bpb.spc) * SectorSize <= vol.sectors * SectorSize
          /\ (loaded + vol.bpb.spc) * SectorSize
               = loaded * SectorSize + vol.bpb.spc * SectorSize
          /\ loaded * SectorSize \in Nat
      BY <2>1, <2>4
    <3> DEFINE x == loaded * SectorSize
               y == vol.sectors * SectorSize
    <3>3. x \in Nat /\ y \in Nat /\ x + ClusterBytes <= y /\ Places = -3 .. y
          /\ ByteAt(loaded, off + i - 1) = x + (off + i - 1)
      BY <2>2, <3>1, <3>2 DEF ClusterBytes
    <3> HIDE DEF x, y, Places
    <3>4. x + (off + i - 1) \in -3 .. y BY <1>5, <3>3 DEF Positive
    <3> QED BY <3>3, <3>4
  <2> QED BY <1>4, <2>3, <2>4 DEF GoodBuffer
<1>7. piece \in Seq(Places) /\ Len(piece) = Round
  <2>1. piece \in [1 .. Round -> Places] BY <1>6
  <2>2. Round \in Nat BY <1>5 DEF Positive
  <2> HIDE DEF piece, Places
  <2> QED BY <2>1, <2>2, FunctionIsSeq
<1>8. out' \in Seq(Places) /\ Len(out') = Len(out) + Round /\ Len(out) \in Nat
  <2> HIDE DEF piece, Places
  <2> QED BY <1>1, <1>3, <1>7, ConcatProperties, LenProperties
<1>9. Len(out') + remaining' < WordMod /\ remaining' \in 0 .. WordMod - 1
  <2>1. remaining \in 0 .. WordMod - 1 /\ WordMod \in Nat
    BY <1>3, Sizes DEF TypeOK, Positive
  <2> HIDE DEF piece, Places
  <2>2. Len(out') = Len(out) + Round /\ remaining' = remaining - Round BY <1>1, <1>8
  <2>3. Round \in Nat /\ Round <= remaining BY <1>5 DEF Positive
  <2>4. Len(out) \in Nat /\ Len(out) + remaining < WordMod BY <1>3, <1>8
  <2> QED BY <2>1, <2>2, <2>3, <2>4
<1>10. WalkType'
  <2>1. cl' \in Numbers(vol) /\ GoodSector(sector')
    BY <1>1, <1>2, <1>3, NextIsNumber DEF fat_next, WalkType
  <2>2. GoodSector(sector)' BY <1>1, <2>1 DEF GoodSector
  <2>3. GoodBuffer(buf)' BY <1>1, <1>4 DEF GoodBuffer, Clusters, LbaOf, Format
  <2>4. {file'.first, cl', from'} \subseteq Numbers(vol')
    BY <1>1, <1>3, <2>1 DEF WalkType
  <2> QED BY <2>2, <2>3, <2>4 DEF WalkType
<1>11. {skip', off', remaining'} \subseteq 0 .. WordMod - 1 /\ off' < ClusterBytes
  <2>1. skip' \in 0 .. WordMod - 1 BY <1>1, <1>3 DEF TypeOK
  <2>2. off' \in 0 .. WordMod - 1 BY <1>1, Sizes DEF Positive
  <2>3. 0 < ClusterBytes
    <3>1. ClusterBytes \in Positive BY <1>1, ReadBounds
    <3> QED BY <3>1 DEF Positive
  <2> QED BY <1>1, <1>9, <2>1, <2>2, <2>3
<1>12. /\ file' \in EntryType /\ result' \in -1 .. WordMod - 1
       /\ want' \in Names \cup {""} /\ range' \in Ranges \cup {<<0, 0>>}
  BY <1>1, <1>3 DEF TypeOK
<1>13. at \notin {"boot", "failed"} /\ at' \in {"idle", "find", "skip", "read"}
       /\ vol' = vol /\ fs' = fs
  BY <1>1
<1>14. out' \in Seq(-3 .. vol.sectors * SectorSize) BY <1>8
<1> HIDE DEF Places, piece
<1> QED BY <1>9, <1>10, <1>11, <1>12, <1>13, <1>14, StepTypes

LEMMA TypeStep ==
  ASSUME Swapped = FALSE, TypeInv, [Next]_vars
  PROVE  TypeInv'
<1>1. CASE Next
  <2>1. CASE Mount BY <2>1, MountTypes
  <2>2. CASE \E name \in Names : Find(name) BY <2>2, FindTypes
  <2>3. CASE \E r \in Ranges : Read(r[1], r[2]) BY <2>3, ReadTypes
  <2>4. CASE Steps
    BY <2>4, FindClusterTypes, FindEndsTypes, SkipTypes, CopyTypes, ReadEndsTypes
       DEF Steps
  <2> QED BY <1>1, <2>1, <2>2, <2>3, <2>4 DEF Next
<1>2. CASE UNCHANGED vars
  <2>1. TypeOK' BY <1>2 DEF TypeInv, TypeOK, vars, call, Buffers
  <2>2. at \notin {"boot", "failed"} => WalkType'
    BY <1>2 DEF TypeInv, WalkType, GoodSector, GoodBuffer, Clusters, LbaOf, Format,
                vars, call
  <2>3. ClusterBytes' = ClusterBytes BY <1>2 DEF ClusterBytes, vars
  <2> QED BY <1>2, <2>1, <2>2, <2>3 DEF TypeInv, vars, call
<1> QED BY <1>1, <1>2

\* Fat32.TypeOK: on every good volume, broken chains included, the walks of
\* find and read come only to numbers whose sectors the code either loads from
\* within the image or leaves alone, and no count of bytes wraps around.
THEOREM Fat32Type == Swapped = FALSE => (Spec => []TypeOK)
<1> SUFFICES ASSUME Swapped = FALSE PROVE Spec => []TypeOK OBVIOUS
<1>1. TypeInv => TypeOK BY DEF TypeInv
<1> QED BY <1>1, TypeInit, TypeStep, PTL DEF Spec

-----------------------------------------------------------------------------
(* Intact chains. *)

LEMMA ChainFacts ==
  ASSUME Ready, NEW first, NEW n \in Lengths, NEW c \in IntactChains(first, n)
  PROVE  /\ n \in Nat /\ Link(first, c, n) >= Eoc
         /\ \A m \in 0 .. n - 1 :
              /\ c[m] \in Clusters /\ c[m] = Link(first, c, m)
              /\ LbaOf(c[m]) + vol.bpb.spc <= vol.sectors
              /\ Link(first, c, m + 1) = FatLink(vol, c[m])
<1>1. n \in Nat
  <2>1. IsFiniteSet(Clusters) BY Maps DEF Ready, Clusters
  <2>2. Cardinality(Clusters) \in Nat BY <2>1, FS_CardinalityType
  <2> QED BY <2>2 DEF Lengths
<1>2. /\ c \in [0 .. n - 1 -> Clusters] /\ Link(first, c, n) >= Eoc
      /\ \A m \in 0 .. n - 1 : c[m] = Link(first, c, m)
                               /\ LbaOf(c[m]) + vol.bpb.spc <= vol.sectors
  BY DEF IntactChains, Chains
<1>3. ASSUME NEW m \in 0 .. n - 1 PROVE Link(first, c, m + 1) = FatLink(vol, c[m])
  <2>1. m + 1 # 0 /\ (m + 1) - 1 = m BY <1>1
  <2> QED BY <2>1 DEF Link
<1> QED BY <1>1, <1>2, <1>3

\* The walk has not reached the end as long as it stands at a cluster.
LEMMA ChainEnd ==
  ASSUME Ready, NEW first, NEW n \in Lengths, NEW c \in IntactChains(first, n),
         NEW m \in 0 .. n
  PROVE  AtEnd(Link(first, c, m)) <=> m = n
<1>1. n \in Nat /\ Link(first, c, n) >= Eoc BY ChainFacts
<1>2. CASE m = n BY <1>1, <1>2 DEF AtEnd
<1>3. CASE m # n
  <2>1. m \in 0 .. n - 1 BY <1>1, <1>3
  <2>2. /\ c[m] \in Clusters /\ c[m] = Link(first, c, m)
        /\ LbaOf(c[m]) + vol.bpb.spc <= vol.sectors
    BY <2>1, ChainFacts
  <2>3. c[m] < Eoc /\ c[m] \in 2 .. Eoc - 1
    BY <2>2, ClusterInImage, Maps DEF Ready, Clusters
  <2>4. ~ (c[m] >= Eoc) BY <2>3, Sizes
  <2> QED BY <1>3, <2>2, <2>4 DEF AtEnd
<1> QED BY <1>2, <1>3

\* Entry i of the m-th cluster of a chain.
LEMMA EntryPlace ==
  ASSUME Ready, NEW c, NEW m \in Nat, NEW i \in 0 .. DirEntries - 1
  PROVE  /\ EntryOf(c, m * DirEntries + i) = vol.dir[c[m]][i + 1]
         /\ DirEntries \in Positive
<1>1. DirEntries \in Positive BY Layout DEF Ready, DirEntries
<1>2. m * DirEntries = DirEntries * m BY <1>1, Product DEF Positive
<1>3. (DirEntries * m + i) \div DirEntries = m /\ (DirEntries * m + i) % DirEntries = i
  BY <1>1, DivModUnique
<1> QED BY <1>1, <1>2, <1>3 DEF EntryOf

-----------------------------------------------------------------------------
(* fat32_find. *)

\* The entries before the k-th let the scan go on; the first that does not
\* is the answer.
Stop(e) == e.name = "" \/ (~ e.lfn /\ e.name = want)
Passed(c, k) == \A j \in 0 .. k - 1 : ~ Stop(EntryOf(c, j))

Matches(c, n) ==
  {k \in 0 .. n * DirEntries - 1 :
     /\ EntryOf(c, k).name = want /\ ~ EntryOf(c, k).lfn
     /\ \A j \in 0 .. k : EntryOf(c, j).name # ""}
Answered(c, n) ==
  IF Matches(c, n) = {} THEN file = NoEntry
  ELSE \E k \in Matches(c, n) :
         file = EntryOf(c, k) /\ \A j \in Matches(c, n) : k <= j
FindDone == \A n \in Lengths : \A c \in IntactChains(from, n) : Answered(c, n)

FindInv ==
  /\ at = "find" =>
       /\ file = NoEntry /\ range = <<0, 0>>
       /\ \A n \in Lengths : \A c \in IntactChains(from, n) :
            \E m \in 0 .. n : cl = Link(from, c, m) /\ Passed(c, m * DirEntries)
  /\ at \in {"idle", "skip", "read"} /\ want # "" => FindDone

LEMMA Before ==
  /\ \A total \in Nat : \A x \in 0 .. total - 1 : x \in Nat
  /\ \A k, j \in Nat : j \notin 0 .. k - 1 => k <= j /\ k \in 0 .. j
  /\ \A k \in Nat : \A j \in 0 .. k : j \in 0 .. k - 1 \/ j = k
OBVIOUS

LEMMA FirstStop ==
  ASSUME NEW c, NEW n, n * DirEntries \in Nat,
         NEW k \in Nat, k \in 0 .. n * DirEntries - 1, Passed(c, k),
         Stop(EntryOf(c, k)), want # "",
         file' = IF EntryOf(c, k).name = "" THEN NoEntry ELSE EntryOf(c, k),
         want' = want, vol' = vol
  PROVE  Answered(c, n)'
<1> DEFINE E(j) == EntryOf(c, j)
<1>1. Matches(c, n)' = Matches(c, n) BY DEF Matches, EntryOf, DirEntries
<1>3. \A j \in 0 .. k - 1 : E(j).name # "" /\ ~ (~ E(j).lfn /\ E(j).name = want)
  BY DEF Passed, Stop
<1>4. \A j \in Matches(c, n) : k <= j /\ k \in 0 .. j
  <2> SUFFICES ASSUME NEW j \in Matches(c, n) PROVE k <= j /\ k \in 0 .. j OBVIOUS
  <2>1. j \in 0 .. n * DirEntries - 1 /\ E(j).name = want /\ ~ E(j).lfn
    BY DEF Matches
  <2>2. j \notin 0 .. k - 1 BY <1>3, <2>1
  <2>3. j \in Nat BY <2>1, Before, Zenon
  <2> QED BY <2>2, <2>3, Before, Zenon
<1>5. CASE E(k).name = ""
  <2>1. Matches(c, n) = {}
    <3> SUFFICES ASSUME NEW j \in Matches(c, n) PROVE FALSE OBVIOUS
    <3>1. k \in 0 .. j BY <1>4
    <3> QED BY <1>5, <3>1 DEF Matches
  <2> QED BY <1>1, <1>5, <2>1 DEF Answered
<1>6. CASE E(k).name # ""
  <2>1. E(k).name = want /\ ~ E(k).lfn BY <1>6 DEF Stop
  <2>2. \A j \in 0 .. k : E(j).name # ""
    <3> SUFFICES ASSUME NEW j \in 0 .. k PROVE E(j).name # "" OBVIOUS
    <3>1. j \in 0 .. k - 1 \/ j = k BY Before, Zenon
    <3> QED BY <1>3, <1>6, <3>1
  <2>3. k \in Matches(c, n) BY <2>1, <2>2 DEF Matches
  <2>4. file' = E(k) BY <1>6
  <2>5. EntryOf(c, k)' = EntryOf(c, k) BY DEF EntryOf, DirEntries
  <2> QED BY <1>1, <1>4, <2>3, <2>4, <2>5 DEF Answered
<1> QED BY <1>5, <1>6

LEMMA NoStop ==
  ASSUME NEW c, NEW n, Passed(c, n * DirEntries), file' = NoEntry, want' = want, vol' = vol
  PROVE  Answered(c, n)'
<1>1. Matches(c, n)' = Matches(c, n) BY DEF Matches, EntryOf, DirEntries
<1>2. Matches(c, n) = {} BY DEF Matches, Passed, Stop
<1> QED BY <1>1, <1>2 DEF Answered

\* What FindDone speaks of.
LEMMA DoneFrame ==
  ASSUME UNCHANGED <<vol, want, from>>
  PROVE  /\ Lengths' = Lengths
         /\ \A n : IntactChains(from, n)' = IntactChains(from, n)
         /\ \A c, n : Matches(c, n)' = Matches(c, n)
         /\ \A c, k : EntryOf(c, k)' = EntryOf(c, k) /\ (Passed(c, k)' <=> Passed(c, k))
         /\ \A c, m : Link(from, c, m)' = Link(from, c, m)
         /\ DirEntries' = DirEntries
<1>1. Clusters' = Clusters /\ DirEntries' = DirEntries /\ Format' = Format
  BY DEF Clusters, DirEntries, Format
<1>2. Lengths' = Lengths BY <1>1 DEF Lengths
<1>3. \A c, m : Link(from, c, m)' = Link(from, c, m) BY DEF Link
<1>4. \A x : LbaOf(x)' = LbaOf(x) BY <1>1 DEF LbaOf
<1>5. \A n : IntactChains(from, n)' = IntactChains(from, n)
  BY <1>1, <1>3, <1>4 DEF IntactChains, Chains
<1>6. \A c, k : EntryOf(c, k)' = EntryOf(c, k) BY <1>1 DEF EntryOf
<1>7. \A c, n : Matches(c, n)' = Matches(c, n) BY <1>1, <1>6 DEF Matches
<1>8. \A c, k : Passed(c, k)' <=> Passed(c, k) BY <1>6 DEF Passed, Stop
<1> QED BY <1>1, <1>2, <1>3, <1>5, <1>6, <1>7, <1>8

LEMMA FindFrame ==
  ASSUME FindDone, UNCHANGED <<vol, want, from, file>>
  PROVE  FindDone'
BY DoneFrame DEF FindDone, Answered

LEMMA FindStarts ==
  ASSUME Swapped = FALSE, TypeInv, FindInv, NEW name \in Names, Find(name)
  PROVE  FindInv'
<1>1. Ready BY InvReady DEF Find
<1>2. /\ at' = "find" /\ cl' = from' /\ file' = NoEntry /\ range' = <<0, 0>>
      /\ vol' = vol /\ fs' = fs
  BY DEF Find
<1>3. ASSUME NEW n \in Lengths', NEW c \in IntactChains(from, n)'
      PROVE  \E m \in 0 .. n : (cl = Link(from, c, m) /\ Passed(c, m * DirEntries))'
  <2>1. Lengths' = Lengths BY <1>2 DEF Lengths, Clusters
  <2>2. IsFiniteSet(Clusters) BY <1>1, Maps DEF Ready, Clusters
  <2>3. n \in Nat /\ 0 \in 0 .. n
    BY <2>1, <2>2, FS_CardinalityType DEF Lengths
  <2>4. (cl = Link(from, c, 0))' BY <1>2 DEF Link
  <2>5. DirEntries' \in Positive BY <1>1, <1>2, Layout DEF Ready, DirEntries
  <2>6. 0 * DirEntries' = 0
    <3>1. \A d \in Positive : 0 * d = 0 BY DEF Positive
    <3> QED BY <2>5, <3>1, Zenon
  <2>7. Passed(c, 0 * DirEntries)' BY <2>6 DEF Passed
  <2> QED BY <2>3, <2>4, <2>7
<1> QED BY <1>2, <1>3 DEF FindInv

\* The scan of a cluster of an intact chain: either no entry of it stops the
\* scan, and the walk goes on with the next, or the first that does is the
\* answer.
LEMMA FindScans ==
  ASSUME Swapped = FALSE, TypeInv, FindInv, FindCluster
  PROVE  FindInv'
<1> DEFINE loaded == Loaded(buf, cluster_to_lba(cl), fs.sectors_per_cluster)
           stops == Stops(loaded)
<1>1. Ready BY InvReady DEF FindCluster
<1>2. /\ at = "find" /\ ~ AtEnd(cl) /\ file = NoEntry /\ range = <<0, 0>>
      /\ UNCHANGED <<vol, fs, want, from, range>>
  BY DEF FindCluster, FindInv
<1>3. \/ /\ stops = {} /\ cl' = NextOf(cl) /\ UNCHANGED <<at, file>>
      \/ \E i \in stops :
           /\ \A j \in stops : i <= j
           /\ at' = "idle"
           /\ file' = IF DirEntryAt(loaded, i).name = "" THEN NoEntry
                      ELSE DirEntryAt(loaded, i)
  <2>1. \/ stops = {} /\ fat_next /\ UNCHANGED <<at, file, result>>
        \/ \E i \in stops :
             /\ \A j \in stops : i <= j
             /\ at' = "idle"
             /\ IF DirEntryAt(loaded, i).name = ""
                THEN result' = -1 /\ UNCHANGED file
                ELSE result' = 0 /\ file' = DirEntryAt(loaded, i)
    BY DEF FindCluster
  <2> QED BY <1>2, <2>1 DEF fat_next
<1>4. ASSUME NEW n \in Lengths, NEW c \in IntactChains(from, n)
      PROVE  \E m \in 0 .. n - 1 :
               /\ cl = c[m] /\ Passed(c, m * DirEntries) /\ loaded = LbaOf(c[m])
               /\ c[m] \in Clusters /\ Link(from, c, m + 1) = NextOf(cl)
               /\ \A i \in 0 .. DirEntries - 1 :
                    DirEntryAt(loaded, i) = EntryOf(c, m * DirEntries + i)
  <2>1. PICK m \in 0 .. n : cl = Link(from, c, m) /\ Passed(c, m * DirEntries)
    BY <1>2 DEF FindInv
  <2>2. n \in Nat BY <1>1, ChainFacts
  <2>3. m \in 0 .. n - 1 /\ m \in Nat
    <3>1. m # n BY <1>1, <1>2, <2>1, ChainEnd
    <3> QED BY <2>2, <3>1
  <2>4. /\ c[m] \in Clusters /\ cl = c[m] /\ LbaOf(c[m]) + vol.bpb.spc <= vol.sectors
        /\ Link(from, c, m + 1) = FatLink(vol, c[m])
    BY <1>1, <2>1, <2>3, ChainFacts
  <2>5. loaded = LbaOf(c[m]) BY <1>1, <2>4, ClusterInImage
  <2>6. NextOf(cl) = FatLink(vol, c[m]) BY <1>1, <2>4, NextInImage
  <2>7. \A i \in 0 .. DirEntries - 1 :
          DirEntryAt(loaded, i) = EntryOf(c, m * DirEntries + i)
    BY <1>1, <2>3, <2>4, <2>5, ClusterInImage, EntryPlace
  <2> QED BY <2>1, <2>3, <2>4, <2>5, <2>6, <2>7
<1>5. DirEntries \in Positive BY <1>1, Layout DEF Ready, DirEntries
<1>6. \A n \in Lengths : n \in Nat
  <2>1. IsFiniteSet(Clusters) BY <1>1, Maps DEF Ready, Clusters
  <2> QED BY <2>1, FS_CardinalityType DEF Lengths
<1>7. \A i \in 0 .. DirEntries - 1 : i \in stops <=> Stop(DirEntryAt(loaded, i))
  BY DEF Stops, Stop
<1>8. stops \subseteq 0 .. DirEntries - 1 BY DEF Stops
<1> HIDE DEF loaded, stops
<1>9. CASE stops = {} /\ cl' = NextOf(cl) /\ UNCHANGED <<at, file>>
  <2>1. ASSUME NEW n \in Lengths, NEW c \in IntactChains(from, n)
        PROVE  \E m \in 0 .. n : cl' = Link(from, c, m) /\ Passed(c, m * DirEntries)
    <3>1. PICK m \in 0 .. n - 1 :
               /\ cl = c[m] /\ Passed(c, m * DirEntries) /\ loaded = LbaOf(c[m])
               /\ c[m] \in Clusters /\ Link(from, c, m + 1) = NextOf(cl)
               /\ \A i \in 0 .. DirEntries - 1 :
                    DirEntryAt(loaded, i) = EntryOf(c, m * DirEntries + i)
      BY <1>4
    <3>2. m \in Nat /\ m + 1 \in 0 .. n BY <1>6
    <3>3. (m + 1) * DirEntries = m * DirEntries + DirEntries /\ m * DirEntries \in Nat
      BY <1>5, <3>2 DEF Positive
    <3>4. Passed(c, (m + 1) * DirEntries)
      <4> SUFFICES ASSUME NEW j \in 0 .. (m + 1) * DirEntries - 1
                   PROVE  ~ Stop(EntryOf(c, j))
        BY DEF Passed
      <4> DEFINE x == m * DirEntries
      <4>1. x \in Nat /\ j \in 0 .. (x + DirEntries) - 1 BY <3>3
      <4>2. CASE j \in 0 .. x - 1 BY <3>1, <4>2 DEF Passed
      <4>3. CASE j \notin 0 .. x - 1
        <5>1. j - x \in 0 .. DirEntries - 1 /\ j = x + (j - x)
          <6> HIDE DEF x
          <6> QED BY <1>5, <4>1, <4>3 DEF Positive
        <5>2. ~ Stop(DirEntryAt(loaded, j - x)) BY <1>7, <1>9, <5>1
        <5> QED BY <3>1, <5>1, <5>2
      <4> QED BY <4>2, <4>3
    <3> QED BY <1>9, <3>1, <3>2, <3>4
  <2>2. ASSUME NEW n \in Lengths', NEW c \in IntactChains(from, n)'
        PROVE  \E m \in 0 .. n : (cl = Link(from, c, m) /\ Passed(c, m * DirEntries))'
    <3>1. n \in Lengths /\ c \in IntactChains(from, n) BY <1>2, DoneFrame
    <3>2. PICK m \in 0 .. n : cl' = Link(from, c, m) /\ Passed(c, m * DirEntries)
      BY <2>1, <3>1
    <3>3. Link(from, c, m)' = Link(from, c, m) /\ DirEntries' = DirEntries
          /\ (Passed(c, m * DirEntries)' <=> Passed(c, m * DirEntries'))
      BY <1>2, DoneFrame
    <3> QED BY <3>2, <3>3
  <2> QED BY <1>2, <1>9, <2>2 DEF FindInv
<1>10. CASE \E i \in stops :
              /\ \A j \in stops : i <= j
              /\ at' = "idle"
              /\ file' = IF DirEntryAt(loaded, i).name = "" THEN NoEntry
                         ELSE DirEntryAt(loaded, i)
  <2>1. PICK i \in stops :
              /\ \A j \in stops : i <= j
              /\ at' = "idle"
              /\ file' = IF DirEntryAt(loaded, i).name = "" THEN NoEntry
                         ELSE DirEntryAt(loaded, i)
    BY <1>10
  <2>2. i \in 0 .. DirEntries - 1 /\ i \in Nat BY <1>5, <1>8 DEF Positive
  <2>3. ASSUME want # "", NEW n \in Lengths, NEW c \in IntactChains(from, n)
        PROVE  Answered(c, n)'
    <3>1. PICK m \in 0 .. n - 1 :
               /\ cl = c[m] /\ Passed(c, m * DirEntries) /\ loaded = LbaOf(c[m])
               /\ c[m] \in Clusters /\ Link(from, c, m + 1) = NextOf(cl)
               /\ \A t \in 0 .. DirEntries - 1 :
                    DirEntryAt(loaded, t) = EntryOf(c, m * DirEntries + t)
      BY <1>4
    <3> DEFINE k == m * DirEntries + i
               x == m * DirEntries
               total == n * DirEntries
    <3>2. m \in Nat /\ n \in Nat /\ m < n BY <1>6
    <3>3. x \in Nat /\ total \in Nat /\ k = x + i /\ x = DirEntries * m
          /\ total = DirEntries * n
      BY <1>5, <3>2, Product DEF Positive
    <3>4. k \in Nat /\ k \in 0 .. total - 1
      <4>1. DirEntries * m + i < DirEntries * n BY <1>5, <2>2, <3>2, InBlock
      <4> HIDE DEF x, total
      <4> QED BY <2>2, <3>3, <4>1
    <3>5. Passed(c, k)
      <4> SUFFICES ASSUME NEW j \in 0 .. k - 1 PROVE ~ Stop(EntryOf(c, j))
        BY DEF Passed
      <4>1. CASE j \in 0 .. x - 1 BY <3>1, <4>1 DEF Passed
      <4>2. CASE j \notin 0 .. x - 1
        <5>1. j - x \in 0 .. DirEntries - 1 /\ j = x + (j - x) /\ ~ (i <= j - x)
          <6> HIDE DEF x
          <6> QED BY <1>5, <2>2, <3>3, <4>2 DEF Positive
        <5>2. j - x \notin stops BY <2>1, <5>1
        <5>3. ~ Stop(DirEntryAt(loaded, j - x)) BY <1>7, <5>1, <5>2
        <5> QED BY <3>1, <5>1, <5>3
      <4> QED BY <4>1, <4>2
    <3>6. DirEntryAt(loaded, i) = EntryOf(c, k) BY <2>2, <3>1
    <3>7. Stop(EntryOf(c, k)) BY <1>7, <2>2, <3>6
    <3>8. file' = IF EntryOf(c, k).name = "" THEN NoEntry ELSE EntryOf(c, k)
      BY <2>1, <3>6
    <3>9. want' = want /\ vol' = vol BY <1>2
    <3>10. n * DirEntries \in Nat /\ k \in Nat /\ k \in 0 .. n * DirEntries - 1
      BY <3>3, <3>4
    <3> HIDE DEF k, x, total
    <3> QED BY <2>3, <3>5, <3>7, <3>8, <3>9, <3>10, FirstStop
  <2>4. ASSUME want' # "" PROVE FindDone'
    <3>1. want # "" /\ UNCHANGED <<vol, want, from>> BY <1>2, <2>4
    <3> QED BY <2>3, <3>1, DoneFrame DEF FindDone
  <2> QED BY <2>1, <2>4 DEF FindInv
<1> QED BY <1>3, <1>9, <1>10 DEF loaded, stops

LEMMA FindInvStep ==
  ASSUME Swapped = FALSE, TypeInv, FindInv, [Next]_vars
  PROVE  FindInv'
<1>1. CASE Mount
  <2>1. /\ at' \in {"idle", "failed"} /\ want' = ""
    BY <1>1 DEF Mount, TypeInv, call
  <2> QED BY <2>1 DEF FindInv
<1>2. CASE \E name \in Names : Find(name) BY <1>2, FindStarts
<1>3. CASE FindCluster BY <1>3, FindScans
<1>4. CASE FindEnds
  <2>1. /\ at = "find" /\ AtEnd(cl) /\ at' = "idle" /\ file = NoEntry
        /\ UNCHANGED <<vol, want, from, file>>
    BY <1>4 DEF FindEnds, call, FindInv
  <2>2. Ready BY <2>1, InvReady
  <2>3. ASSUME NEW n \in Lengths, NEW c \in IntactChains(from, n)
        PROVE  Answered(c, n)'
    <3>1. PICK m \in 0 .. n : cl = Link(from, c, m) /\ Passed(c, m * DirEntries)
      BY <2>1 DEF FindInv
    <3>2. m = n BY <2>1, <2>2, <3>1, ChainEnd
    <3> QED BY <2>1, <3>1, <3>2, NoStop
  <2>4. FindDone' BY <2>1, <2>3, DoneFrame DEF FindDone
  <2> QED BY <2>1, <2>4 DEF FindInv
<1>5. CASE (\E r \in Ranges : Read(r[1], r[2])) \/ SkipCluster \/ CopyCluster \/ ReadEnds
  <2>1. /\ at \in {"idle", "skip", "read"} /\ at' \in {"idle", "skip", "read"}
        /\ UNCHANGED <<vol, want, from, file>>
    BY <1>5 DEF Read, SkipCluster, CopyCluster, ReadEnds, call
  <2> QED BY <2>1, FindFrame DEF FindInv
<1>6. CASE UNCHANGED vars
  <2>1. UNCHANGED <<vol, want, from, file, at, cl, range>> BY <1>6 DEF vars, call
  <2>2. CASE at = "find"
    <3>1. ASSUME NEW n \in Lengths', NEW c \in IntactChains(from, n)'
          PROVE  \E m \in 0 .. n : (cl = Link(from, c, m) /\ Passed(c, m * DirEntries))'
      <4>1. n \in Lengths /\ c \in IntactChains(from, n) BY <2>1, DoneFrame
      <4>2. PICK m \in 0 .. n : cl = Link(from, c, m) /\ Passed(c, m * DirEntries)
        BY <2>2, <4>1 DEF FindInv
      <4>3. Link(from, c, m)' = Link(from, c, m) /\ DirEntries' = DirEntries
            /\ (Passed(c, m * DirEntries)' <=> Passed(c, m * DirEntries'))
        BY <2>1, DoneFrame
      <4> QED BY <2>1, <4>2, <4>3
    <3> QED BY <2>1, <2>2, <3>1 DEF FindInv
  <2>3. CASE at # "find" BY <2>1, <2>3, FindFrame DEF FindInv
  <2> QED BY <2>2, <2>3
<1> QED BY <1>1, <1>2, <1>3, <1>4, <1>5, <1>6 DEF Next, Steps

\* Fat32.FindAnswer: in a directory whose chain is intact, fat32_find finds the
\* first entry with that name, whatever the walk loaded on the way and whatever
\* the buffer of the FAT was left with by calls before.
THEOREM FindIsCorrect == Swapped = FALSE => (Spec => []FindAnswer)
<1> SUFFICES ASSUME Swapped = FALSE PROVE Spec => []FindAnswer OBVIOUS
<1>1. Init => FindInv BY DEF Init, FindInv
<1>2. FindInv => FindAnswer
  BY DEF FindInv, FindAnswer, FindDone, Answered, Matches
<1> QED BY <1>1, <1>2, TypeInit, TypeStep, FindInvStep, PTL DEF Spec

-----------------------------------------------------------------------------
(* fat32_read. *)

\* The clamped size, and the intact chains of the file that are long enough.
Wanted == IF (range[1] + range[2]) % WordMod > file.size
          THEN file.size - range[1] ELSE range[2]
FileChains(n) == {c \in IntactChains(file.first, n) : n * ClusterBytes >= file.size}
Copied(c) == \A i \in 1 .. Len(out) : out[i] = PlaceOf(c, range[1] + i - 1)

ReadInv ==
  /\ at \in {"skip", "read"} => range[1] < file.size
  /\ at = "skip" =>
       /\ out = << >> /\ remaining = Wanted /\ off = range[1] % ClusterBytes
       /\ \A n \in Lengths : \A c \in FileChains(n) :
            \E m \in 0 .. n - 1 : /\ cl = Link(file.first, c, m)
                                  /\ m + skip = range[1] \div ClusterBytes
  /\ at = "read" =>
       /\ Len(out) + remaining = Wanted
       /\ \A n \in Lengths : \A c \in FileChains(n) :
            /\ Copied(c) /\ range[1] + Len(out) <= n * ClusterBytes
            /\ \E m \in 0 .. n :
                 /\ cl = Link(file.first, c, m)
                 /\ remaining > 0 => range[1] + Len(out) = m * ClusterBytes + off
  /\ ReadAnswer

\* The clamp of the code and the count of the specification: where the sum
\* wraps around it is smaller than the offset, and so not clamped.
LEMMA CountIs ==
  ASSUME NEW w \in Nat, NEW offset \in 0 .. w - 1, NEW size \in 0 .. w - 1,
         NEW fsize \in 0 .. w - 1, offset < fsize, NEW total \in Nat, fsize <= total,
         NEW len \in Nat, NEW rem \in Nat,
         len + rem = IF (offset + size) % w > fsize THEN fsize - offset ELSE size,
         offset + len <= total, rem = 0 \/ offset + len = total
  PROVE  LET limit == IF offset + size < w THEN fsize ELSE total
         IN  len = IF offset >= fsize THEN 0
                   ELSE IF offset + size > limit THEN limit - offset ELSE size
<1>1. CASE offset + size < w
  <2>1. (offset + size) % w = offset + size BY <1>1
  <2> QED BY <1>1, <2>1
<1>2. CASE ~ (offset + size < w)
  <2>1. offset + size = w * 1 + (offset + size - w) /\ offset + size - w \in 0 .. w - 1
    BY <1>2
  <2>2. w \in Positive BY DEF Positive
  <2>3. (w * 1 + (offset + size - w)) % w = offset + size - w
    BY <2>1, <2>2, DivModUnique
  <2>4. (offset + size) % w = offset + size - w BY <2>1, <2>3
  <2>5. ~ ((offset + size) % w > fsize) BY <2>4
  <2>6. len + rem = size BY <2>5
  <2> QED BY <1>2, <2>6
<1> QED BY <1>1, <1>2

\* The ranges that are asked for, and the whole of the chain.
LEMMA RangeBounds ==
  ASSUME Swapped = FALSE, TypeInv, at \notin {"boot", "failed"}
  PROVE  /\ range[1] \in 0 .. WordMod - 1 /\ range[2] \in 0 .. WordMod - 1
         /\ range[1] \in Nat /\ range[2] \in Nat
         /\ file.size \in 0 .. WordMod - 1 /\ file.size \in Nat
         /\ ClusterBytes \in Positive /\ WordMod \in Nat
         /\ BytesPerCluster = ClusterBytes
<1>1. /\ file.size \in 0 .. WordMod - 1 /\ WordMod \in Nat /\ BytesPerCluster = ClusterBytes
      /\ ClusterBytes \in Positive
      /\ \A r \in Ranges : r[1] \in 0 .. WordMod - 1 /\ r[2] \in 0 .. WordMod - 1
  BY ReadBounds
<1>2. CASE range \in Ranges BY <1>1, <1>2
<1>3. CASE range = <<0, 0>>
  <2>1. range[1] = 0 /\ range[2] = 0 BY <1>3
  <2>2. WordMod \in Positive BY Sizes
  <2> QED BY <1>1, <2>1, <2>2 DEF Positive
<1> QED BY <1>2, <1>3 DEF TypeInv, TypeOK

LEMMA FileChainFacts ==
  ASSUME Swapped = FALSE, TypeInv, at \notin {"boot", "failed"},
         NEW n \in Lengths, NEW c \in FileChains(n)
  PROVE  /\ n \in Nat /\ c \in IntactChains(file.first, n)
         /\ n * ClusterBytes \in Nat /\ file.size <= n * ClusterBytes
         /\ \A x \in Nat : x < file.size => x \div ClusterBytes \in 0 .. n - 1
<1>1. Ready BY InvReady
<1>2. c \in IntactChains(file.first, n) /\ n * ClusterBytes >= file.size BY DEF FileChains
<1>3. n \in Nat BY <1>1, <1>2, ChainFacts
<1>4. ClusterBytes \in Positive /\ file.size \in Nat BY RangeBounds
<1>5. n * ClusterBytes \in Nat /\ n * ClusterBytes = ClusterBytes * n
  BY <1>3, <1>4, Product DEF Positive
<1>6. ASSUME NEW x \in Nat, x < file.size PROVE x \div ClusterBytes \in 0 .. n - 1
  <2> DEFINE total == ClusterBytes * n
  <2>1. total \in Nat /\ file.size <= total BY <1>2, <1>4, <1>5
  <2> HIDE DEF total
  <2>2. x < total BY <1>4, <1>6, <2>1
  <2> QED BY <1>3, <1>4, <2>2, BlockOf DEF total
<1>7. file.size <= n * ClusterBytes
  <2> DEFINE total == n * ClusterBytes
  <2>1. total \in Nat /\ total >= file.size BY <1>2, <1>5
  <2> HIDE DEF total
  <2>2. file.size <= total BY <1>4, <2>1
  <2> QED BY <2>2 DEF total
<1> QED BY <1>2, <1>3, <1>5, <1>6, <1>7

LEMMA ReadFrame ==
  ASSUME UNCHANGED <<vol, file>>
  PROVE  /\ Lengths' = Lengths /\ ClusterBytes' = ClusterBytes
         /\ range' = range => Wanted' = Wanted
         /\ \A n : FileChains(n)' = FileChains(n)
         /\ \A n : IntactChains(file.first, n)' = IntactChains(file.first, n)
         /\ \A c, k : PlaceOf(c, k)' = PlaceOf(c, k)
         /\ \A c, m : Link(file.first, c, m)' = Link(file.first, c, m)
<1>1. Clusters' = Clusters /\ Format' = Format /\ ClusterBytes' = ClusterBytes
  BY DEF Clusters, Format, ClusterBytes
<1>2. Lengths' = Lengths /\ (range' = range => Wanted' = Wanted)
  BY <1>1 DEF Lengths, Wanted
<1>3. \A c, m : Link(file.first, c, m)' = Link(file.first, c, m) BY DEF Link
<1>4. \A x : LbaOf(x)' = LbaOf(x) BY <1>1 DEF LbaOf
<1>5. \A n : IntactChains(file.first, n)' = IntactChains(file.first, n)
  BY <1>1, <1>3, <1>4 DEF IntactChains, Chains
<1>6. \A n : FileChains(n)' = FileChains(n) BY <1>1, <1>5 DEF FileChains
<1>7. \A c, k : PlaceOf(c, k)' = PlaceOf(c, k) BY <1>1, <1>4 DEF PlaceOf
<1> QED BY <1>1, <1>2, <1>3, <1>5, <1>6, <1>7

LEMMA ReadStarts ==
  ASSUME Swapped = FALSE, TypeInv, NEW r \in Ranges, Read(r[1], r[2])
  PROVE  ReadInv'
<1> DEFINE offset == r[1]
           size == r[2]
<1>1. at = "idle" /\ UNCHANGED <<vol, fs, file>> /\ range' = <<offset, size>> /\ out' = << >>
  BY DEF Read
<1>2. Ready /\ TypeInv' BY <1>1, InvReady, ReadTypes
<1>3. Ready' BY <1>1, <1>2 DEF Ready
<1>4. range'[1] = offset /\ range'[2] = size BY <1>1
<1>5. /\ file.size \in 0 .. WordMod - 1 /\ WordMod \in Nat
      /\ BytesPerCluster = ClusterBytes /\ ClusterBytes \in Positive
      /\ offset \in 0 .. WordMod - 1 /\ size \in 0 .. WordMod - 1
  BY <1>1, ReadBounds
<1> HIDE DEF offset, size
<1>8. offset \in Nat /\ file.size \in Nat BY <1>5
<1>6. CASE offset >= file.size /\ UNCHANGED at
  <2>1. at' = "idle" /\ offset >= file'.size BY <1>1, <1>6
  <2>2. ASSUME NEW c
        PROVE  out' = [i \in 1 .. 0 |-> PlaceOf(c, offset + i - 1)']
    <3> DEFINE f == [i \in 1 .. 0 |-> PlaceOf(c, offset + i - 1)']
    <3>1. f \in [1 .. 0 -> Nat] /\ 0 \in Nat OBVIOUS
    <3> HIDE DEF f
    <3>2. f \in Seq(Nat) /\ Len(f) = 0 BY <3>1, FunctionIsSeq
    <3>3. f = << >> BY <3>2, EmptySeq
    <3> QED BY <1>1, <3>3 DEF f
  <2>3. ReadAnswer' BY <1>4, <2>1, <2>2 DEF ReadAnswer
  <2> QED BY <2>1, <2>3 DEF ReadInv
<1>7. CASE /\ offset < file.size /\ at' = "skip"
           /\ remaining' = (IF (offset + size) % WordMod > file.size
                            THEN file.size - offset ELSE size)
           /\ skip' = offset \div BytesPerCluster
           /\ off' = offset % BytesPerCluster
           /\ cl' = file.first
  <2>1. ClusterBytes' = ClusterBytes BY <1>1 DEF ClusterBytes
  <2>2. ASSUME NEW n \in Lengths', NEW c \in FileChains(n)'
        PROVE  \E m \in 0 .. n - 1 : (/\ cl = Link(file.first, c, m)
                                      /\ m + skip = range[1] \div ClusterBytes)'
    <3>1. at' \notin {"boot", "failed"} /\ (range[1] < file.size)' BY <1>1, <1>4, <1>7
    <3>2. n \in Nat /\ (range[1] \div ClusterBytes)' \in 0 .. n - 1
      <4>1. n \in Lengths /\ c \in FileChains(n) BY <1>1, ReadFrame
      <4>2. n \in Nat /\ offset \div ClusterBytes \in 0 .. n - 1
        BY <1>1, <1>7, <1>8, <4>1, FileChainFacts
      <4> QED BY <1>4, <2>1, <4>2
    <3>3. 0 \in 0 .. n - 1 BY <3>2
    <3>4. (cl = Link(file.first, c, 0))' BY <1>1, <1>7 DEF Link
    <3>5. (0 + skip = range[1] \div ClusterBytes)'
      <4>1. skip' = offset \div ClusterBytes BY <1>5, <1>7
      <4>2. offset \div ClusterBytes \in Nat BY <1>5, <1>8, DivMod
      <4> QED BY <1>4, <2>1, <4>1, <4>2
    <3> QED BY <3>3, <3>4, <3>5
  <2>3. remaining' = Wanted' BY <1>1, <1>4, <1>7 DEF Wanted
  <2>4. off' = (range[1] % ClusterBytes)' BY <1>4, <1>5, <1>7, <2>1
  <2>5. range'[1] < file'.size BY <1>1, <1>4, <1>7
  <2>6. ReadAnswer' BY <1>7 DEF ReadAnswer
  <2> QED BY <1>1, <1>7, <2>2, <2>3, <2>4, <2>5, <2>6 DEF ReadInv
<1> QED BY <1>6, <1>7 DEF Read, offset, size

LEMMA ReadSkips ==
  ASSUME Swapped = FALSE, TypeInv, ReadInv, SkipCluster
  PROVE  ReadInv'
<1>1. at = "skip" /\ UNCHANGED <<vol, fs, file, range, off, remaining, out>>
  BY DEF SkipCluster
<1>2. Ready BY <1>1, InvReady
<1>3. /\ out = << >> /\ remaining = Wanted /\ off = range[1] % ClusterBytes
      /\ range[1] < file.size /\ Len(out) = 0
  BY <1>1 DEF ReadInv
<1>4. skip \in Nat /\ range[1] \in Nat /\ ClusterBytes \in Positive /\ remaining \in Nat
  <2>1. WordMod \in Nat /\ range[1] \in Nat /\ ClusterBytes \in Positive
    BY <1>1, RangeBounds
  <2>2. skip \in 0 .. WordMod - 1 /\ remaining \in 0 .. WordMod - 1 BY DEF TypeInv, TypeOK
  <2> QED BY <2>1, <2>2
<1>5. ASSUME NEW n \in Lengths, NEW c \in FileChains(n)
      PROVE  \E m \in 0 .. n - 1 :
               /\ cl = Link(file.first, c, m) /\ m + skip = range[1] \div ClusterBytes
               /\ n \in Nat /\ m \in Nat /\ range[1] \div ClusterBytes \in 0 .. n - 1
               /\ Link(file.first, c, m + 1) = NextOf(cl)
  <2>1. PICK m \in 0 .. n - 1 :
          cl = Link(file.first, c, m) /\ m + skip = range[1] \div ClusterBytes
    BY <1>1 DEF ReadInv
  <2>2. /\ n \in Nat /\ c \in IntactChains(file.first, n)
        /\ range[1] \div ClusterBytes \in 0 .. n - 1
    BY <1>1, <1>3, <1>4, FileChainFacts
  <2>3. /\ c[m] \in Clusters /\ c[m] = cl /\ LbaOf(c[m]) + vol.bpb.spc <= vol.sectors
        /\ Link(file.first, c, m + 1) = FatLink(vol, c[m])
    BY <1>2, <2>1, <2>2, ChainFacts
  <2>4. NextOf(cl) = FatLink(vol, c[m]) BY <1>2, <2>3, NextInImage
  <2> QED BY <2>1, <2>2, <2>3, <2>4
<1>6. CASE skip > 0 /\ fat_next /\ skip' = skip - 1 /\ at' = "skip"
  <2>1. ASSUME NEW n \in Lengths', NEW c \in FileChains(n)'
        PROVE  \E m \in 0 .. n - 1 : (/\ cl = Link(file.first, c, m)
                                      /\ m + skip = range[1] \div ClusterBytes)'
    <3>1. n \in Lengths /\ c \in FileChains(n) BY <1>1, ReadFrame
    <3>2. PICK m \in 0 .. n - 1 :
               /\ cl = Link(file.first, c, m) /\ m + skip = range[1] \div ClusterBytes
               /\ n \in Nat /\ m \in Nat /\ range[1] \div ClusterBytes \in 0 .. n - 1
               /\ Link(file.first, c, m + 1) = NextOf(cl)
      BY <1>5, <3>1
    <3> DEFINE q == range[1] \div ClusterBytes
    <3>3. m + 1 \in 0 .. n - 1 /\ (m + 1) + skip' = q
      <4>1. q \in 0 .. n - 1 /\ m + skip = q BY <3>2
      <4> HIDE DEF q
      <4> QED BY <1>4, <1>6, <3>2, <4>1
    <3>4. cl' = Link(file.first, c, m + 1) BY <1>6, <3>2 DEF fat_next
    <3>5. (cl = Link(file.first, c, m + 1))' BY <1>1, <3>4, ReadFrame
    <3>6. ((m + 1) + skip = range[1] \div ClusterBytes)' BY <1>1, <3>3, ReadFrame
    <3> QED BY <3>3, <3>5, <3>6
  <2>2. Wanted' = Wanted /\ ClusterBytes' = ClusterBytes BY <1>1, ReadFrame
  <2>3. ReadAnswer' BY <1>6 DEF ReadAnswer
  <2> QED BY <1>1, <1>3, <1>6, <2>1, <2>2, <2>3 DEF ReadInv
<1>7. CASE ~ (skip > 0) /\ at' = "read" /\ cl' = cl
  <2>1. skip = 0 BY <1>4, <1>7
  <2>2. ASSUME NEW n \in Lengths', NEW c \in FileChains(n)'
        PROVE  /\ Copied(c)' /\ (range[1] + Len(out) <= n * ClusterBytes)'
               /\ \E m \in 0 .. n :
                    (/\ cl = Link(file.first, c, m)
                     /\ remaining > 0 => range[1] + Len(out) = m * ClusterBytes + off)'
    <3>1. n \in Lengths /\ c \in FileChains(n) BY <1>1, ReadFrame
    <3>2. PICK m \in 0 .. n - 1 :
               /\ cl = Link(file.first, c, m) /\ m + skip = range[1] \div ClusterBytes
               /\ n \in Nat /\ m \in Nat /\ range[1] \div ClusterBytes \in 0 .. n - 1
               /\ Link(file.first, c, m + 1) = NextOf(cl)
      BY <1>5, <3>1
    <3>3. m = range[1] \div ClusterBytes /\ m \in 0 .. n BY <2>1, <3>2
    <3>4. range[1] = m * ClusterBytes + off
      <4>1. range[1] = ClusterBytes * m + off
        <5>1. range[1] = ClusterBytes * (range[1] \div ClusterBytes) + (range[1] % ClusterBytes)
          BY <1>4, DivMod
        <5> QED BY <1>3, <3>3, <5>1
      <4> QED BY <1>4, <3>2, <4>1, Product DEF Positive
    <3>5. range[1] + Len(out) <= n * ClusterBytes
      <4>1. n * ClusterBytes \in Nat /\ file.size <= n * ClusterBytes /\ file.size \in Nat
        BY <1>1, <3>1, FileChainFacts, RangeBounds
      <4> DEFINE total == n * ClusterBytes
      <4>2. total \in Nat /\ file.size <= total /\ file.size \in Nat BY <4>1
      <4> HIDE DEF total
      <4>3. range[1] + Len(out) <= total BY <1>3, <1>4, <4>2
      <4> QED BY <4>3 DEF total
    <3>6. Copied(c)' BY <1>1, <1>3 DEF Copied
    <3>7. (cl = Link(file.first, c, m))' BY <1>1, <1>7, <3>2, ReadFrame
    <3>8. range[1] + Len(out) = m * ClusterBytes + off BY <1>3, <1>4, <3>4
    <3> QED BY <1>1, <3>3, <3>5, <3>6, <3>7, <3>8, ReadFrame
  <2>3. (Len(out) + remaining = Wanted)' BY <1>1, <1>3, <1>4, ReadFrame
  <2>4. ReadAnswer' BY <1>7 DEF ReadAnswer
  <2> QED BY <1>1, <1>3, <1>7, <2>2, <2>3, <2>4 DEF ReadInv
<1> QED BY <1>1, <1>6, <1>7 DEF SkipCluster

\* A round copies from the cluster that the next byte of the file is in.
LEMMA ReadCopies ==
  ASSUME Swapped = FALSE, TypeInv, ReadInv, CopyCluster
  PROVE  ReadInv'
<1> DEFINE loaded == Loaded(buf, cluster_to_lba(cl), fs.sectors_per_cluster)
           piece == [i \in 1 .. Round |-> ByteAt(loaded, off + i - 1)]
<1>1. /\ at = "read" /\ at' = "read" /\ remaining > 0 /\ ~ AtEnd(cl) /\ cl' = NextOf(cl)
      /\ out' = out \o piece /\ remaining' = remaining - Round /\ off' = 0
      /\ UNCHANGED <<vol, fs, file, range>>
  BY DEF CopyCluster, More, Round, fat_next
<1>2. Ready BY <1>1, InvReady
<1>3. /\ Round \in Positive /\ Round <= remaining /\ off + Round <= ClusterBytes
      /\ off \in Nat /\ off < ClusterBytes /\ remaining \in Nat /\ ClusterBytes \in Nat
      /\ (Round = remaining \/ off + Round = ClusterBytes)
  BY <1>1, RoundBounds
<1>4. range[1] \in Nat /\ ClusterBytes \in Positive /\ range[1] < file.size
      /\ file.size \in Nat
  BY <1>1, RangeBounds DEF ReadInv
<1>5. out \in Seq(Int) /\ Len(out) \in Nat
  <2>1. out \in Seq(-3 .. vol.sectors * SectorSize) BY DEF TypeInv, TypeOK
  <2>2. -3 .. vol.sectors * SectorSize \subseteq Int
    <3>1. \A x : -3 .. x \subseteq Int OBVIOUS
    <3> QED BY <3>1, Zenon
  <2> QED BY <2>1, <2>2, SeqMonotonic, LenProperties
<1>6. ASSUME NEW n \in Lengths, NEW c \in FileChains(n)
      PROVE  \E m \in 0 .. n - 1 :
               /\ m \in Nat /\ n \in Nat /\ m < n /\ Link(file.first, c, m + 1) = cl'
               /\ range[1] + Len(out) = m * ClusterBytes + off
               /\ \A i \in 1 .. Round :
                    ByteAt(loaded, off + i - 1) = PlaceOf(c, range[1] + Len(out) + i - 1)
               /\ Copied(c)
  <2>1. PICK m \in 0 .. n : /\ cl = Link(file.first, c, m)
                            /\ range[1] + Len(out) = m * ClusterBytes + off
    BY <1>1 DEF ReadInv
  <2>2. n \in Nat /\ c \in IntactChains(file.first, n) BY <1>1, FileChainFacts
  <2>3. m \in 0 .. n - 1 /\ m \in Nat /\ m < n
    <3>1. m # n BY <1>1, <1>2, <2>1, <2>2, ChainEnd
    <3> QED BY <2>2, <3>1
  <2>4. /\ c[m] \in Clusters /\ c[m] = cl /\ LbaOf(c[m]) + vol.bpb.spc <= vol.sectors
        /\ Link(file.first, c, m + 1) = FatLink(vol, c[m])
    BY <1>2, <2>1, <2>2, <2>3, ChainFacts
  <2>5. NextOf(cl) = FatLink(vol, c[m]) BY <1>2, <2>4, NextInImage
  <2>6. loaded = LbaOf(c[m]) /\ LbaOf(c[m]) \in Nat BY <1>2, <2>4, ClusterInImage
  <2>7. ASSUME NEW i \in 1 .. Round
        PROVE  ByteAt(loaded, off + i - 1) = PlaceOf(c, range[1] + Len(out) + i - 1)
    <3> HIDE DEF loaded
    <3>1. off + i - 1 \in 0 .. ClusterBytes - 1 /\ i \in Nat BY <1>3 DEF Positive
    <3>2. ByteAt(loaded, off + i - 1) = LbaOf(c[m]) * SectorSize + (off + i - 1)
      BY <2>6 DEF ByteAt
    <3> DEFINE x == m * ClusterBytes
    <3>3. x \in Nat /\ x = ClusterBytes * m /\ range[1] + Len(out) = x + off
      BY <1>3, <2>1, <2>3, Product
    <3>4. range[1] + Len(out) + i - 1 = ClusterBytes * m + (off + i - 1)
      <4>1. range[1] + Len(out) + i - 1 = x + (off + i - 1)
        <5> HIDE DEF x
        <5> QED BY <1>3, <1>4, <1>5, <3>1, <3>3
      <4> QED BY <3>3, <4>1
    <3>5. /\ (ClusterBytes * m + (off + i - 1)) \div ClusterBytes = m
          /\ (ClusterBytes * m + (off + i - 1)) % ClusterBytes = off + i - 1
      BY <1>4, <2>3, <3>1, DivModUnique
    <3> QED BY <3>2, <3>4, <3>5 DEF PlaceOf
  <2>8. Copied(c) BY <1>1 DEF ReadInv
  <2> QED BY <1>1, <2>1, <2>2, <2>3, <2>4, <2>5, <2>7, <2>8
<1>7. piece \in Seq(Int) /\ Len(piece) = Round
  <2>1. ASSUME NEW i \in 1 .. Round PROVE ByteAt(loaded, off + i - 1) \in Int
    <3>1. cl \in Numbers(vol) /\ GoodBuffer(buf)
      BY <1>1 DEF TypeInv, WalkType
    <3>2. cl \in Nat BY <1>2, <3>1, NumbersNat
    <3>3. cl < Eoc BY <1>1, <3>2, Sizes DEF AtEnd
    <3>4. GoodBuffer(loaded) BY <1>2, <3>1, <3>3, LoadIsGood
    <3>5. loaded \in Int BY <3>4 DEF GoodBuffer, Zeros, Junk, JunkMatch
    <3> HIDE DEF loaded
    <3>6. SectorSize \in Nat BY Sizes DEF Positive
    <3>7. loaded * SectorSize \in Int BY <3>5, <3>6
    <3> QED BY <1>3, <3>5, <3>7 DEF ByteAt
  <2>2. piece \in [1 .. Round -> Int] BY <2>1
  <2>3. Round \in Nat BY <1>3 DEF Positive
  <2> HIDE DEF piece
  <2> QED BY <2>2, <2>3, FunctionIsSeq
<1>8. /\ Len(out') = Len(out) + Round
      /\ \A j \in 1 .. Len(out) + Round :
           out'[j] = IF j <= Len(out) THEN out[j] ELSE piece[j - Len(out)]
  <2> HIDE DEF piece
  <2> QED BY <1>1, <1>5, <1>7, ConcatProperties
<1>9. \A i \in 1 .. Round : piece[i] = ByteAt(loaded, off + i - 1) OBVIOUS
<1> HIDE DEF piece, loaded
<1>10. ASSUME NEW n \in Lengths', NEW c \in FileChains(n)'
       PROVE  /\ Copied(c)' /\ (range[1] + Len(out) <= n * ClusterBytes)'
              /\ \E m \in 0 .. n :
                   (/\ cl = Link(file.first, c, m)
                    /\ remaining > 0 => range[1] + Len(out) = m * ClusterBytes + off)'
  <2>1. n \in Lengths /\ c \in FileChains(n) BY <1>1, ReadFrame
  <2>2. PICK m \in 0 .. n - 1 :
               /\ m \in Nat /\ n \in Nat /\ m < n /\ Link(file.first, c, m + 1) = cl'
               /\ range[1] + Len(out) = m * ClusterBytes + off
               /\ \A i \in 1 .. Round :
                    ByteAt(loaded, off + i - 1) = PlaceOf(c, range[1] + Len(out) + i - 1)
               /\ Copied(c)
    BY <1>6, <2>1
  <2>3. Copied(c)'
    <3>1. ASSUME NEW j \in 1 .. Len(out')
          PROVE  out'[j] = PlaceOf(c, range[1] + j - 1)
      <4> DEFINE len == Len(out)
                 i   == j - len
      <4>1. len \in Nat /\ Round \in Nat /\ range[1] \in Nat /\ j \in 1 .. len + Round
        BY <1>3, <1>4, <1>5, <1>8 DEF Positive
      <4>2. out'[j] = IF j <= len THEN out[j] ELSE piece[i] BY <1>8, <4>1
      <4>3. CASE j <= len
        <5>1. j \in 1 .. len BY <4>1, <4>3
        <5>2. out[j] = PlaceOf(c, range[1] + j - 1) BY <2>2, <5>1 DEF Copied
        <5> QED BY <4>2, <4>3, <5>2
      <4>4. CASE ~ (j <= len)
        <5> HIDE DEF len
        <5>1. i \in 1 .. Round /\ range[1] + len + i - 1 = range[1] + j - 1
          BY <4>1, <4>4
        <5>2. piece[i] = ByteAt(loaded, off + i - 1) BY <1>9, <5>1
        <5>3. ByteAt(loaded, off + i - 1) = PlaceOf(c, range[1] + len + i - 1)
          BY <2>2, <5>1 DEF len
        <5> QED BY <4>2, <4>4, <5>1, <5>2, <5>3
      <4> QED BY <4>3, <4>4
    <3>2. \A k : PlaceOf(c, k)' = PlaceOf(c, k) BY <1>1, ReadFrame
    <3>3. range' = range BY <1>1
    <3> QED BY <3>1, <3>2, <3>3 DEF Copied
  <2> DEFINE x == m * ClusterBytes
             total == n * ClusterBytes
  <2>4. /\ x \in Nat /\ total \in Nat /\ x + ClusterBytes <= total
        /\ (m + 1) * ClusterBytes = x + ClusterBytes
    <3>1. /\ m * ClusterBytes = ClusterBytes * m /\ n * ClusterBytes = ClusterBytes * n
          /\ m * ClusterBytes \in Nat /\ n * ClusterBytes \in Nat
      BY <1>3, <2>2, Product
    <3>2. ClusterBytes * m + ClusterBytes <= ClusterBytes * n
      <4>1. 0 \in 0 .. ClusterBytes - 1 BY <1>4 DEF Positive
      <4> QED BY <1>4, <2>2, <4>1, InBlock
    <3>3. (m + 1) * ClusterBytes = m * ClusterBytes + ClusterBytes BY <1>3, <2>2
    <3> QED BY <3>1, <3>2, <3>3
  <2>5. range[1] + Len(out) = x + off BY <2>2
  <2> HIDE DEF x, total
  <2>6. Round \in Nat /\ range[1] + Len(out') = x + off + Round
    <3>1. Round \in Nat BY <1>3 DEF Positive
    <3>2. Len(out') = Len(out) + Round BY <1>8
    <3> DEFINE len == Len(out)
               first == range[1]
               rnd == Round
    <3>3. first \in Nat /\ len \in Nat /\ rnd \in Nat /\ first + len = x + off
      BY <1>4, <1>5, <2>5, <3>1
    <3> HIDE DEF len, first, rnd
    <3>4. first + (len + rnd) = x + off + rnd BY <1>3, <2>4, <3>3
    <3> QED BY <3>1, <3>2, <3>4 DEF len, first, rnd
  <2>7. range[1] + Len(out') <= total BY <1>3, <2>4, <2>6
  <2>8. m + 1 \in 0 .. n BY <2>2
  <2>9. remaining' > 0 => range[1] + Len(out') = (m + 1) * ClusterBytes + off'
    BY <1>1, <1>3, <2>4, <2>6
  <2>10. (range[1] + Len(out) <= n * ClusterBytes)' BY <1>1, <2>7, ReadFrame DEF total
  <2>11. (cl = Link(file.first, c, m + 1))' BY <1>1, <2>2, ReadFrame
  <2>12. (remaining > 0 => range[1] + Len(out) = (m + 1) * ClusterBytes + off)'
    BY <1>1, <2>9, ReadFrame
  <2> QED BY <2>3, <2>8, <2>10, <2>11, <2>12
<1>11. (Len(out) + remaining = Wanted)'
  <2>1. Len(out) + remaining = Wanted BY <1>1 DEF ReadInv
  <2>2. Len(out') + remaining' = Len(out) + remaining
    BY <1>1, <1>3, <1>5, <1>8 DEF Positive
  <2> QED BY <1>1, <2>1, <2>2, ReadFrame
<1>12. ReadAnswer' BY <1>1 DEF ReadAnswer
<1> QED BY <1>1, <1>4, <1>10, <1>11, <1>12 DEF ReadInv

\* When the loop ends, everything asked for is copied, or the chain is at its end.
LEMMA ReadFinishes ==
  ASSUME Swapped = FALSE, TypeInv, ReadInv, ReadEnds
  PROVE  ReadInv'
<1>1. at = "read" /\ at' = "idle" /\ ~ More /\ UNCHANGED <<vol, fs, file, call>>
  BY DEF ReadEnds
<1>2. Ready BY <1>1, InvReady
<1>3. UNCHANGED <<vol, file, range, out>> BY <1>1 DEF call
<1>4. /\ range[1] \in 0 .. WordMod - 1 /\ range[2] \in 0 .. WordMod - 1
      /\ file.size \in 0 .. WordMod - 1 /\ WordMod \in Nat /\ range[1] < file.size
      /\ ClusterBytes \in Positive /\ range[1] \in Nat
  BY <1>1, RangeBounds DEF ReadInv
<1>5. /\ remaining \in Nat /\ off \in Nat /\ off < ClusterBytes /\ Len(out) \in Nat
      /\ out \in Seq(Int)
  <2>1. remaining \in 0 .. WordMod - 1 /\ off \in 0 .. WordMod - 1 /\ off < ClusterBytes
    BY <1>1 DEF TypeInv, TypeOK
  <2>2. out \in Seq(-3 .. vol.sectors * SectorSize) BY DEF TypeInv, TypeOK
  <2>3. \A x : -3 .. x \subseteq Int OBVIOUS
  <2>4. -3 .. vol.sectors * SectorSize \subseteq Int BY <2>3, Zenon
  <2>5. out \in Seq(Int) /\ Len(out) \in Nat BY <2>2, <2>4, SeqMonotonic, LenProperties
  <2> QED BY <1>4, <2>1, <2>5
<1>6. ASSUME NEW n \in Lengths, NEW c \in IntactChains(file.first, n),
             n * ClusterBytes >= file.size
      PROVE  LET offset == range[1]
                 size   == range[2]
                 limit  == IF offset + size < WordMod THEN file.size
                                                      ELSE n * ClusterBytes
                 count  == IF offset >= file.size THEN 0
                           ELSE IF offset + size > limit THEN limit - offset ELSE size
             IN  out = [i \in 1 .. count |-> PlaceOf(c, offset + i - 1)]
  <2> DEFINE total == n * ClusterBytes
             limit == IF range[1] + range[2] < WordMod THEN file.size ELSE total
             count == IF range[1] >= file.size THEN 0
                      ELSE IF range[1] + range[2] > limit THEN limit - range[1]
                           ELSE range[2]
             f == [i \in 1 .. count |-> PlaceOf(c, range[1] + i - 1)]
  <2>1. c \in FileChains(n) BY <1>6 DEF FileChains
  <2>2. /\ Copied(c) /\ range[1] + Len(out) <= total
        /\ \E m \in 0 .. n :
             /\ cl = Link(file.first, c, m)
             /\ remaining > 0 => range[1] + Len(out) = m * ClusterBytes + off
    BY <1>1, <2>1 DEF ReadInv
  <2>3. total \in Nat /\ file.size <= total BY <1>1, <2>1, FileChainFacts
  <2>4. remaining = 0 \/ range[1] + Len(out) = total
    <3>1. CASE remaining > 0
      <4>1. AtEnd(cl) BY <1>1, <3>1 DEF More
      <4>2. PICK m \in 0 .. n :
              cl = Link(file.first, c, m) /\ range[1] + Len(out) = m * ClusterBytes + off
        BY <2>2, <3>1
      <4>3. m = n BY <1>2, <1>6, <4>1, <4>2, ChainEnd
      <4>4. range[1] + Len(out) = total + off BY <4>2, <4>3
      <4>5. range[1] + Len(out) <= total BY <2>2
      <4> HIDE DEF total
      <4>6. \A a, b, t, o \in Nat : a + b = t + o /\ a + b <= t => a + b = t OBVIOUS
      <4> QED BY <1>4, <1>5, <2>3, <4>4, <4>5, <4>6, Zenon
    <3>2. CASE ~ (remaining > 0) BY <1>5, <3>2
    <3> QED BY <3>1, <3>2
  <2>5. Len(out) + remaining = IF (range[1] + range[2]) % WordMod > file.size
                               THEN file.size - range[1] ELSE range[2]
    BY <1>1 DEF ReadInv, Wanted
  <2>6. range[1] + Len(out) <= total BY <2>2
  <2>7. Len(out) = count
    <3> HIDE DEF total
    <3>1. file.size \in 0 .. WordMod - 1 /\ remaining \in Nat /\ Len(out) \in Nat
      BY <1>4, <1>5
    <3>2. LET lim == IF range[1] + range[2] < WordMod THEN file.size ELSE total
          IN  Len(out) = IF range[1] >= file.size THEN 0
                         ELSE IF range[1] + range[2] > lim THEN lim - range[1]
                              ELSE range[2]
      <4> DEFINE w == WordMod
                 offset == range[1]
                 size == range[2]
                 fsize == file.size
                 len == Len(out)
                 rem == remaining
      <4>1. /\ w \in Nat /\ offset \in 0 .. w - 1 /\ size \in 0 .. w - 1
            /\ fsize \in 0 .. w - 1 /\ offset < fsize /\ total \in Nat /\ fsize <= total
            /\ len \in Nat /\ rem \in Nat
        BY <1>4, <1>5, <2>3, <3>1
      <4>2. /\ len + rem = IF (offset + size) % w > fsize THEN fsize - offset ELSE size
            /\ offset + len <= total /\ (rem = 0 \/ offset + len = total)
        BY <2>4, <2>5, <2>6
      <4> HIDE DEF limit, count, f, w, offset, size, fsize, len, rem
      <4>3. LET lim == IF offset + size < w THEN fsize ELSE total
            IN  len = IF offset >= fsize THEN 0
                      ELSE IF offset + size > lim THEN lim - offset ELSE size
        BY <4>1, <4>2, CountIs
      <4> QED BY <4>3 DEF w, offset, size, fsize, len, rem
    <3> QED BY <3>2
  <2>8. out \in [1 .. Len(out) -> Int] BY <1>5, LenProperties
  <2>9. \A i \in 1 .. Len(out) : out[i] = PlaceOf(c, range[1] + i - 1)
    BY <2>2 DEF Copied
  <2> HIDE DEF count, total
  <2>10. out = f BY <2>7, <2>8, <2>9
  <2> QED BY <2>10 DEF f, count, limit, total
<1>7. ReadAnswer BY <1>1 DEF ReadAnswer
<1>8. ReadAnswer'
  <2>1. /\ Lengths' = Lengths /\ ClusterBytes' = ClusterBytes
        /\ \A n : IntactChains(file.first, n)' = IntactChains(file.first, n)
        /\ \A c, k : PlaceOf(c, k)' = PlaceOf(c, k)
    BY <1>3, ReadFrame
  <2>2. ASSUME NEW n \in Lengths', NEW c \in IntactChains(file.first, n)',
               n * ClusterBytes' >= file'.size
        PROVE  (LET offset == range[1]
                    size   == range[2]
                    limit  == IF offset + size < WordMod THEN file.size
                                                         ELSE n * ClusterBytes
                    count  == IF offset >= file.size THEN 0
                              ELSE IF offset + size > limit THEN limit - offset ELSE size
                IN  out = [i \in 1 .. count |-> PlaceOf(c, offset + i - 1)])'
    <3>1. /\ n \in Lengths /\ c \in IntactChains(file.first, n)
          /\ n * ClusterBytes >= file.size
      BY <1>3, <2>1, <2>2
    <3> QED BY <1>3, <1>6, <2>1, <3>1
  <2> QED BY <2>2 DEF ReadAnswer
<1> QED BY <1>1, <1>8 DEF ReadInv

LEMMA ReadStep ==
  ASSUME Swapped = FALSE, TypeInv, FindInv, ReadInv, [Next]_vars
  PROVE  ReadInv'
<1>1. ASSUME at' \notin {"skip", "read"}, file'.name = "" \/ range' = <<0, 0>>
      PROVE  ReadInv'
  BY <1>1 DEF ReadInv, ReadAnswer
<1>2. CASE Mount
  <2>1. at' \in {"idle", "failed"} /\ file' = NoEntry
    BY <1>2 DEF Mount, TypeInv
  <2> QED BY <1>1, <2>1 DEF NoEntry
<1>3. CASE \E name \in Names : Find(name)
  BY <1>1, <1>3 DEF Find
<1>4. CASE FindCluster \/ FindEnds
  <2>1. range' = <<0, 0>> /\ at' \in {"find", "idle"}
    BY <1>4 DEF FindCluster, FindEnds, FindInv, call
  <2> QED BY <1>1, <2>1
<1>5. CASE \E r \in Ranges : Read(r[1], r[2]) BY <1>5, ReadStarts
<1>6. CASE SkipCluster BY <1>6, ReadSkips
<1>7. CASE CopyCluster BY <1>7, ReadCopies
<1>8. CASE ReadEnds BY <1>8, ReadFinishes
<1>9. CASE UNCHANGED vars
  <2>1. UNCHANGED <<vol, file, range, at, cl, skip, off, remaining, out>>
    BY <1>9 DEF vars, call
  <2>2. /\ Lengths' = Lengths /\ ClusterBytes' = ClusterBytes /\ Wanted' = Wanted
        /\ \A n : FileChains(n)' = FileChains(n)
        /\ \A n : IntactChains(file.first, n)' = IntactChains(file.first, n)
        /\ \A c, k : PlaceOf(c, k)' = PlaceOf(c, k)
        /\ \A c, m : Link(file.first, c, m)' = Link(file.first, c, m)
    BY <2>1, ReadFrame
  <2>3. \A c : Copied(c)' <=> Copied(c) BY <2>1, <2>2 DEF Copied
  <2>4. ReadAnswer'
    <3>1. ASSUME (at = "idle" /\ file.name # "" /\ range # <<0, 0>>)',
                 NEW n \in Lengths', NEW c \in IntactChains(file.first, n)',
                 n * ClusterBytes' >= file'.size
          PROVE  (LET offset == range[1]
                      size   == range[2]
                      limit  == IF offset + size < WordMod THEN file.size
                                                           ELSE n * ClusterBytes
                      count  == IF offset >= file.size THEN 0
                                ELSE IF offset + size > limit THEN limit - offset ELSE size
                  IN  out = [i \in 1 .. count |-> PlaceOf(c, offset + i - 1)])'
      <4>1. /\ n \in Lengths /\ c \in IntactChains(file.first, n)
            /\ n * ClusterBytes >= file.size
            /\ at = "idle" /\ file.name # "" /\ range # <<0, 0>>
        BY <2>1, <2>2, <3>1
      <4>2. LET offset == range[1]
                size   == range[2]
                limit  == IF offset + size < WordMod THEN file.size
                                                     ELSE n * ClusterBytes
                count  == IF offset >= file.size THEN 0
                          ELSE IF offset + size > limit THEN limit - offset ELSE size
            IN  out = [i \in 1 .. count |-> PlaceOf(c, offset + i - 1)]
        BY <4>1 DEF ReadInv, ReadAnswer
      <4> QED BY <2>1, <2>2, <4>2
    <3> QED BY <3>1 DEF ReadAnswer
  <2> QED BY <2>1, <2>2, <2>3, <2>4 DEF ReadInv
<1> QED BY <1>2, <1>3, <1>4, <1>5, <1>6, <1>7, <1>8, <1>9 DEF Next, Steps

\* Fat32.ReadAnswer: from a file whose chain is intact and long enough,
\* fat32_read copies the bytes asked for, each from its place on the disk, over
\* every boundary of clusters, and no more of them than the file has, unless the
\* sum of offset and size wraps around.
THEOREM ReadIsCorrect == Swapped = FALSE => (Spec => []ReadAnswer)
<1> SUFFICES ASSUME Swapped = FALSE PROVE Spec => []ReadAnswer OBVIOUS
<1>1. Init => FindInv BY DEF Init, FindInv
<1>2. Init => ReadInv BY DEF Init, ReadInv, ReadAnswer
<1>3. ReadInv => ReadAnswer BY DEF ReadInv
<1> QED BY <1>1, <1>2, <1>3, TypeInit, TypeStep, FindInvStep, ReadStep, PTL DEF Spec

-----------------------------------------------------------------------------
(* The controllers and the keyboard interrupt. *)

\* The routines before sti.
Early == {"gdt", "idt", "remap", "isr", "serial"}

\* The first controller as isr_pic_remap leaves it: the keyboard's line alone
\* not masked, at vector 33.
Remapped ==
  /\ pic[1].offset = 32 /\ pic[1].icw = 0
  /\ pic[1].mask = (0 .. 7) \ {1}

\* The first controller after k of the writes: which word it waits for, and
\* what it has been told.
Programmed(k) ==
  /\ pic[1].icw = (IF k \in 1 .. 2 THEN 2 ELSE IF k \in 3 .. 4 THEN 3
                   ELSE IF k \in 5 .. 6 THEN 4 ELSE 0)
  /\ pic[2].icw = (IF k \in 2 .. 3 THEN 2 ELSE IF k \in 4 .. 5 THEN 3
                   ELSE IF k \in 6 .. 7 THEN 4 ELSE 0)
  /\ k >= 3 => pic[1].offset = 32
  /\ k = 11 => pic[1].mask = (0 .. 7) \ {1}

Left(writes, k) == SubSeq(writes, k + 1, Len(writes))

RemapInv ==
  /\ pc \in {"gdt", "idt"} => Programmed(0)
  /\ pc = "remap" => \E k \in 0 .. 11 : todo = Left(isr_pic_remap, k) /\ Programmed(k)
  /\ pc \notin {"gdt", "idt", "remap"} => Remapped

IrqInv ==
  /\ pic \in [1 .. 2 -> PicType]
  /\ if \in BOOLEAN /\ irq \in {"none", "handle", "wait", "put", "eoi"}
  /\ pc # "dead" /\ irqs \subseteq {33}
  /\ pc \in Early => ~ if /\ irq = "none"
  /\ irq # "none" => ~ if
  /\ pc \notin {"gdt"} => gdt.loaded /\ gdt.entries[2] = "code"
  /\ pc \notin {"gdt", "idt", "remap"} => idt.loaded
  /\ pc \notin {"gdt", "idt", "remap", "isr"} => 33 \in idt.gates
  /\ RemapInv

-----------------------------------------------------------------------------

\* The bits of the bytes that decide.
LEMMA MaskBits ==
  /\ Bits(253) = (0 .. 7) \ {1}
  /\ \A byte \in Nat : Bits(byte) \subseteq 0 .. 7
<1>1. ASSUME NEW b \in 0 .. 7
      PROVE  (253 \div Weight[b + 1]) % 2 = 1 <=> b # 1
  <2>1. b = 0 \/ b = 1 \/ b = 2 \/ b = 3 \/ b = 4 \/ b = 5 \/ b = 6 \/ b = 7
    OBVIOUS
  <2> QED BY <2>1 DEF Weight
<1> QED BY <1>1 DEF Bits

LEMMA LineBits == 7 \notin Bits(3) /\ 0 \in Bits(199) /\ 7 \in Bits(128)
  BY DEF Bits, Weight

\* The writes of a routine, one by one.
LEMMA NextWrite ==
  ASSUME NEW S, NEW writes \in Seq(S), NEW k \in 0 .. Len(writes)
  PROVE  /\ Left(writes, 0) = writes
         /\ k = Len(writes) <=> Left(writes, k) = << >>
         /\ k < Len(writes) =>
              /\ Head(Left(writes, k)) = writes[k + 1]
              /\ Tail(Left(writes, k)) = Left(writes, k + 1)
<1>1. Len(writes) \in Nat /\ \A i \in 1 .. Len(writes) : writes[i] \in S
  BY LenProperties, ElementOfSeq
<1>2. Left(writes, 0) = writes
  BY <1>1, SubSeqFull DEF Left
<1>3. CASE k = Len(writes)
  BY <1>1, <1>2, <1>3, SubSeqEmpty DEF Left
<1>4. CASE k < Len(writes)
  <2>1. k + 1 \in 1 .. Len(writes) /\ Len(writes) \in k + 1 .. Len(writes)
    BY <1>1, <1>4
  <2>2. /\ Head(Left(writes, k)) = writes[k + 1]
        /\ Tail(Left(writes, k)) = SubSeq(writes, (k + 1) + 1, Len(writes))
    BY <2>1, HeadTailOfSubSeq DEF Left
  <2>3. Len(Left(writes, k)) = Len(writes) - k
    BY <1>1, <2>1, SubSeqProperties DEF Left
  <2>4. Left(writes, k) # << >>
    BY <1>1, <1>4, <2>3, EmptySeq
  <2>5. Left(writes, k + 1) = SubSeq(writes, (k + 1) + 1, Len(writes)) BY DEF Left
  <2>6. Tail(Left(writes, k)) = Left(writes, k + 1) BY <2>2, <2>5
  <2> QED BY <1>1, <1>2, <1>4, <2>2, <2>4, <2>6
<1> QED BY <1>1, <1>3, <1>4

LEMMA RemapWrites ==
  /\ isr_pic_remap \in Seq({isr_pic_remap[i] : i \in 1 .. 11})
  /\ Len(isr_pic_remap) = 11
<1>1. Len(isr_pic_remap) = 11 BY DEF isr_pic_remap
<1>2. isr_pic_remap = [i \in 1 .. 11 |-> isr_pic_remap[i]] BY DEF isr_pic_remap
<1>3. isr_pic_remap \in [1 .. 11 -> {isr_pic_remap[i] : i \in 1 .. 11}] BY <1>2
<1> QED BY <1>1, <1>3, SeqDef

\* A controller stays one, and counts its initialisation words.
LEMMA PicKept ==
  ASSUME NEW p \in PicType, NEW byte \in Nat
  PROVE  /\ Command(p, byte) \in PicType /\ Data(p, byte) \in PicType
         /\ Command(p, byte).offset = p.offset
         /\ Command(p, 17).icw = 2
         /\ byte # 17 => Command(p, byte).icw = p.icw /\ Command(p, byte).mask = p.mask
         /\ p.icw = 0 => /\ Data(p, byte).icw = 0 /\ Data(p, byte).offset = p.offset
                         /\ Data(p, byte).mask = Bits(byte)
         /\ p.icw = 2 => Data(p, byte).icw = 3 /\ Data(p, byte).offset = byte
         /\ p.icw = 3 => Data(p, byte).icw = 4 /\ Data(p, byte).offset = p.offset
         /\ p.icw = 4 => Data(p, byte).icw = 0 /\ Data(p, byte).offset = p.offset
<1>1. Bits(byte) \in SUBSET (0 .. 7) BY MaskBits
<1>2. /\ Command(p, byte) \in PicType /\ Command(p, byte).offset = p.offset
      /\ Command(p, 17).icw = 2
      /\ byte # 17 => Command(p, byte).icw = p.icw /\ Command(p, byte).mask = p.mask
  BY DEF PicType, Command
<1>3. CASE p.icw = 0 BY <1>1, <1>2, <1>3 DEF PicType, Data
<1>4. CASE p.icw = 2
  <2>1. Data(p, byte) = [p EXCEPT !.icw = 3, !.offset = byte] BY <1>4 DEF Data
  <2>2. /\ [p EXCEPT !.icw = 3, !.offset = byte] \in PicType
        /\ [p EXCEPT !.icw = 3, !.offset = byte].icw = 3
        /\ [p EXCEPT !.icw = 3, !.offset = byte].offset = byte
    BY DEF PicType
  <2> QED BY <1>2, <1>4, <2>1, <2>2
<1>5. CASE p.icw = 3 BY <1>2, <1>5 DEF PicType, Data
<1>6. CASE p.icw = 4 BY <1>2, <1>6 DEF PicType, Data
<1> QED BY <1>3, <1>4, <1>5, <1>6 DEF PicType

\* What each write of isr_pic_remap does to the controllers.
LEMMA RemapEffect ==
  /\ PicWrite(isr_pic_remap[1]) = [pic EXCEPT ![1] = Command(@, 17)]
  /\ PicWrite(isr_pic_remap[2]) = [pic EXCEPT ![2] = Command(@, 17)]
  /\ PicWrite(isr_pic_remap[3]) = [pic EXCEPT ![1] = Data(@, 32)]
  /\ PicWrite(isr_pic_remap[4]) = [pic EXCEPT ![2] = Data(@, 40)]
  /\ PicWrite(isr_pic_remap[5]) = [pic EXCEPT ![1] = Data(@, 4)]
  /\ PicWrite(isr_pic_remap[6]) = [pic EXCEPT ![2] = Data(@, 2)]
  /\ PicWrite(isr_pic_remap[7]) = [pic EXCEPT ![1] = Data(@, 1)]
  /\ PicWrite(isr_pic_remap[8]) = [pic EXCEPT ![2] = Data(@, 1)]
  /\ PicWrite(isr_pic_remap[9]) = [pic EXCEPT ![1] = Data(@, 255)]
  /\ PicWrite(isr_pic_remap[10]) = [pic EXCEPT ![2] = Data(@, 255)]
  /\ PicWrite(isr_pic_remap[11]) = [pic EXCEPT ![1] = Data(@, 253)]
<1>1. PicWrite(isr_pic_remap[1]) = [pic EXCEPT ![1] = Command(@, 17)]
  BY DEF PicWrite, isr_pic_remap
<1>2. PicWrite(isr_pic_remap[2]) = [pic EXCEPT ![2] = Command(@, 17)]
  BY DEF PicWrite, isr_pic_remap
<1>3. PicWrite(isr_pic_remap[3]) = [pic EXCEPT ![1] = Data(@, 32)]
  BY DEF PicWrite, isr_pic_remap
<1>4. PicWrite(isr_pic_remap[4]) = [pic EXCEPT ![2] = Data(@, 40)]
  BY DEF PicWrite, isr_pic_remap
<1>5. PicWrite(isr_pic_remap[5]) = [pic EXCEPT ![1] = Data(@, 4)]
  BY DEF PicWrite, isr_pic_remap
<1>6. PicWrite(isr_pic_remap[6]) = [pic EXCEPT ![2] = Data(@, 2)]
  BY DEF PicWrite, isr_pic_remap
<1>7. PicWrite(isr_pic_remap[7]) = [pic EXCEPT ![1] = Data(@, 1)]
  BY DEF PicWrite, isr_pic_remap
<1>8. PicWrite(isr_pic_remap[8]) = [pic EXCEPT ![2] = Data(@, 1)]
  BY DEF PicWrite, isr_pic_remap
<1>9. PicWrite(isr_pic_remap[9]) = [pic EXCEPT ![1] = Data(@, 255)]
  BY DEF PicWrite, isr_pic_remap
<1>10. PicWrite(isr_pic_remap[10]) = [pic EXCEPT ![2] = Data(@, 255)]
  BY DEF PicWrite, isr_pic_remap
<1>11. PicWrite(isr_pic_remap[11]) = [pic EXCEPT ![1] = Data(@, 253)]
  BY DEF PicWrite, isr_pic_remap
<1> QED BY <1>1, <1>2, <1>3, <1>4, <1>5, <1>6, <1>7, <1>8, <1>9, <1>10, <1>11

\* A write to the data port of one controller leaves the other one alone.
LEMMA DataWrite ==
  ASSUME pic \in [1 .. 2 -> PicType], NEW p \in 1 .. 2, NEW byte \in Nat,
         pic' = [pic EXCEPT ![p] = Data(@, byte)]
  PROVE  /\ pic' \in [1 .. 2 -> PicType] /\ pic'[3 - p] = pic[3 - p]
         /\ pic[p].icw = 0 => /\ pic'[p].icw = 0 /\ pic'[p].offset = pic[p].offset
                              /\ pic'[p].mask = Bits(byte)
         /\ pic[p].icw = 2 => pic'[p].icw = 3 /\ pic'[p].offset = byte
         /\ pic[p].icw = 3 => pic'[p].icw = 4 /\ pic'[p].offset = pic[p].offset
         /\ pic[p].icw = 4 => pic'[p].icw = 0 /\ pic'[p].offset = pic[p].offset
<1>1. pic[p] \in PicType /\ pic'[p] = Data(pic[p], byte) OBVIOUS
<1>2. Data(pic[p], byte) \in PicType BY <1>1, PicKept
<1>3. pic' \in [1 .. 2 -> PicType] /\ pic'[3 - p] = pic[3 - p] BY <1>2
<1>4. /\ pic[p].icw = 0 => /\ Data(pic[p], byte).icw = 0
                           /\ Data(pic[p], byte).offset = pic[p].offset
                           /\ Data(pic[p], byte).mask = Bits(byte)
      /\ pic[p].icw = 2 => /\ Data(pic[p], byte).icw = 3
                           /\ Data(pic[p], byte).offset = byte
  BY <1>1, PicKept
<1>5. pic[p].icw = 3 => /\ Data(pic[p], byte).icw = 4
                       /\ Data(pic[p], byte).offset = pic[p].offset
  BY <1>1, PicKept
<1>6. pic[p].icw = 4 => /\ Data(pic[p], byte).icw = 0
                       /\ Data(pic[p], byte).offset = pic[p].offset
  BY <1>1, PicKept
<1> QED BY <1>1, <1>3, <1>4, <1>5, <1>6

\* Each of the writes brings the controllers one step further.
LEMMA WriteProgrammes ==
  ASSUME NEW k \in 0 .. 10, pic \in [1 .. 2 -> PicType], Programmed(k),
         pic' = PicWrite(isr_pic_remap[k + 1])
  PROVE  pic' \in [1 .. 2 -> PicType] /\ Programmed(k + 1)'
<1>1. CASE k = 0
  <2>1. pic' = [pic EXCEPT ![1] = Command(@, 17)] BY <1>1, RemapEffect
  <2>2. Command(pic[1], 17) \in PicType /\ Command(pic[1], 17).icw = 2 BY PicKept
  <2> QED BY <1>1, <2>1, <2>2 DEF Programmed
<1>2. CASE k = 1
  <2>1. pic' = [pic EXCEPT ![2] = Command(@, 17)] BY <1>2, RemapEffect
  <2>2. Command(pic[2], 17) \in PicType /\ Command(pic[2], 17).icw = 2 BY PicKept
  <2> QED BY <1>2, <2>1, <2>2 DEF Programmed
<1>3. CASE k = 2
  <2>1. pic' = [pic EXCEPT ![1] = Data(@, 32)] BY <1>3, RemapEffect
  <2> QED BY <1>3, <2>1, DataWrite DEF Programmed
<1>4. CASE k = 3
  <2>1. pic' = [pic EXCEPT ![2] = Data(@, 40)] BY <1>4, RemapEffect
  <2> QED BY <1>4, <2>1, DataWrite DEF Programmed
<1>5. CASE k = 4
  <2>1. pic' = [pic EXCEPT ![1] = Data(@, 4)] BY <1>5, RemapEffect
  <2> QED BY <1>5, <2>1, DataWrite DEF Programmed
<1>6. CASE k = 5
  <2>1. pic' = [pic EXCEPT ![2] = Data(@, 2)] BY <1>6, RemapEffect
  <2> QED BY <1>6, <2>1, DataWrite DEF Programmed
<1>7. CASE k = 6
  <2>1. pic' = [pic EXCEPT ![1] = Data(@, 1)] BY <1>7, RemapEffect
  <2> QED BY <1>7, <2>1, DataWrite DEF Programmed
<1>8. CASE k = 7
  <2>1. pic' = [pic EXCEPT ![2] = Data(@, 1)] BY <1>8, RemapEffect
  <2> QED BY <1>8, <2>1, DataWrite DEF Programmed
<1>9. CASE k = 8
  <2>1. pic' = [pic EXCEPT ![1] = Data(@, 255)] BY <1>9, RemapEffect
  <2> QED BY <1>9, <2>1, DataWrite DEF Programmed
<1>10. CASE k = 9
  <2>1. pic' = [pic EXCEPT ![2] = Data(@, 255)] BY <1>10, RemapEffect
  <2> QED BY <1>10, <2>1, DataWrite DEF Programmed
<1>11. CASE k = 10
  <2>1. pic' = [pic EXCEPT ![1] = Data(@, 253)] BY <1>11, RemapEffect
  <2> QED BY <1>11, <2>1, DataWrite, MaskBits DEF Programmed
<1> QED BY <1>1, <1>2, <1>3, <1>4, <1>5, <1>6, <1>7, <1>8, <1>9, <1>10, <1>11

-----------------------------------------------------------------------------
(* One lemma per action that the invariant is about. *)

LEMMA IrqInit == BootInit => IrqInv
<1> SUFFICES ASSUME BootInit PROVE IrqInv OBVIOUS
<1>1. PICK mask \in Masks : pic = <<Pic(8, mask), Pic(112, mask)>> BY DEF BootInit
<1>2. mask \in SUBSET (0 .. 7) BY <1>1, BootAssumption
<1>3. Pic(8, mask) \in PicType /\ Pic(112, mask) \in PicType BY <1>2 DEF Pic, PicType
<1>4. pic \in [1 .. 2 -> PicType] BY <1>1, <1>3
<1>5. Programmed(0) BY <1>1 DEF Programmed, Pic
<1> QED BY <1>4, <1>5 DEF BootInit, IrqInv, RemapInv, Early

\* What the invariant speaks of.
LEMMA IrqFrame ==
  ASSUME IrqInv, UNCHANGED <<pc, todo, gdt, idt, if, pic, irqs, irq>>
  PROVE  IrqInv'
BY DEF IrqInv, RemapInv, Remapped, Programmed, Left

\* A request at a controller changes nothing of what it has been told.
LEMMA RequestKeeps ==
  ASSUME IrqInv, NEW line \in Lines, Request(line)
  PROVE  IrqInv'
<1>1. line \in 0 .. 15 BY BootAssumption
<1> DEFINE p == IF line < 8 THEN 1 ELSE 2
<1>2. /\ p \in 1 .. 2 /\ pic' = [pic EXCEPT ![p].irr = @ \cup {line % 8}]
      /\ line % 8 \in 0 .. 7
  BY <1>1 DEF Request
<1>3. pic[1] \in PicType /\ pic[2] \in PicType BY DEF IrqInv
<1>4. /\ pic' \in [1 .. 2 -> PicType]
      /\ \A q \in 1 .. 2 : /\ pic'[q].icw = pic[q].icw /\ pic'[q].mask = pic[q].mask
                           /\ pic'[q].offset = pic[q].offset
  BY <1>2, <1>3 DEF PicType, IrqInv
<1>5. UNCHANGED <<pc, todo, gdt, idt, if, irqs, irq>> BY DEF Request
<1>6. /\ (pic'[1].icw = pic[1].icw) /\ (pic'[2].icw = pic[2].icw)
      /\ (pic'[1].mask = pic[1].mask) /\ (pic'[1].offset = pic[1].offset)
  BY <1>4
<1>7. /\ Remapped' <=> Remapped
      /\ \A k \in 0 .. 11 : Programmed(k)' <=> Programmed(k)
  BY <1>6 DEF Remapped, Programmed
<1>8. RemapInv'
  <2>1. \A k \in 0 .. 11 : Left(isr_pic_remap, k)' = Left(isr_pic_remap, k)
    BY DEF Left, isr_pic_remap
  <2> QED BY <1>5, <1>7, <2>1 DEF IrqInv, RemapInv
<1> QED BY <1>4, <1>5, <1>8 DEF IrqInv, Early

\* The processor takes only what the first controller does not mask, and the
\* second is behind a line that it does.
LEMMA DeliverKeeps ==
  ASSUME IrqInv, NEW line \in Lines, Deliver(line)
  PROVE  IrqInv'
<1>1. pc \notin Early /\ Remapped BY DEF IrqInv, RemapInv, Early, Deliver
<1>2. line \in Active(1) /\ 2 \in pic[1].mask BY <1>1 DEF Deliver, Pending, Remapped
<1>3. line = 1
  BY <1>1, <1>2 DEF Active, Remapped, IrqInv, PicType
<1>4. /\ 1 < 8 /\ 1 % 8 = 1 /\ pic[1].offset + 1 = 33
  BY <1>1 DEF Remapped
<1>5. idt.loaded /\ 33 \in idt.gates /\ gdt.loaded /\ gdt.entries[2] = "code"
  BY <1>1 DEF IrqInv, Early
<1>6. /\ irqs' = irqs \cup {33} /\ irq' = "handle" /\ pc' = pc
      /\ pic' = [pic EXCEPT ![1].irr = @ \ {1}, ![1].isr = @ \cup {1}]
      /\ if' = FALSE /\ UNCHANGED <<todo, gdt, idt>>
  BY <1>3, <1>4, <1>5 DEF Deliver
<1>7. /\ pic' \in [1 .. 2 -> PicType]
      /\ pic'[1].icw = pic[1].icw /\ pic'[1].mask = pic[1].mask
      /\ pic'[1].offset = pic[1].offset
  <2> DEFINE p == [pic[1] EXCEPT !.irr = pic[1].irr \ {1}, !.isr = pic[1].isr \cup {1}]
  <2>1. pic[1] \in PicType BY DEF IrqInv
  <2>2. pic[1].irr \ {1} \in SUBSET (0 .. 7) /\ pic[1].isr \cup {1} \in SUBSET (0 .. 7)
    BY <2>1 DEF PicType
  <2>3. /\ p \in PicType /\ p.icw = pic[1].icw /\ p.mask = pic[1].mask
        /\ p.offset = pic[1].offset
    BY <2>1, <2>2 DEF PicType
  <2>4. pic' = [pic EXCEPT ![1] = p] BY <1>6 DEF IrqInv
  <2> HIDE DEF p
  <2> QED BY <2>1, <2>3, <2>4 DEF IrqInv
<1>8. Remapped' BY <1>1, <1>7 DEF Remapped
<1> QED BY <1>1, <1>6, <1>7, <1>8 DEF IrqInv, RemapInv, Early

\* The writes of isr_pic_remap, one after the other.
LEMMA RemapKeeps ==
  ASSUME IrqInv, RemapStep
  PROVE  IrqInv'
<1>1. PICK k \in 0 .. 11 : todo = Left(isr_pic_remap, k) /\ Programmed(k)
  BY DEF IrqInv, RemapInv, RemapStep, Runs
<1>2. /\ k \in 0 .. 10 /\ Head(todo) = isr_pic_remap[k + 1]
      /\ todo' = Left(isr_pic_remap, k + 1)
  <2>1. todo # << >> /\ todo' = Tail(todo) BY DEF RemapStep
  <2>2. /\ k = 11 <=> Left(isr_pic_remap, k) = << >>
        /\ k < 11 => /\ Head(Left(isr_pic_remap, k)) = isr_pic_remap[k + 1]
                     /\ Tail(Left(isr_pic_remap, k)) = Left(isr_pic_remap, k + 1)
    <3> DEFINE S == {isr_pic_remap[i] : i \in 1 .. 11}
    <3>1. isr_pic_remap \in Seq(S) /\ k \in 0 .. Len(isr_pic_remap) BY RemapWrites
    <3>2. Len(isr_pic_remap) = 11 BY RemapWrites
    <3> HIDE DEF S
    <3>3. k = Len(isr_pic_remap) <=> Left(isr_pic_remap, k) = << >> BY <3>1, NextWrite
    <3>4. k < Len(isr_pic_remap) =>
            /\ Head(Left(isr_pic_remap, k)) = isr_pic_remap[k + 1]
            /\ Tail(Left(isr_pic_remap, k)) = Left(isr_pic_remap, k + 1)
      BY <3>1, NextWrite
    <3> QED BY <3>2, <3>3, <3>4
  <2> QED BY <1>1, <2>1, <2>2
<1>3. pic' \in [1 .. 2 -> PicType] /\ Programmed(k + 1)'
  BY <1>1, <1>2, WriteProgrammes DEF RemapStep, IrqInv
<1>4. k + 1 \in 0 .. 11 /\ todo' = Left(isr_pic_remap, k + 1)'
  <2>1. Left(isr_pic_remap, k + 1)' = Left(isr_pic_remap, k + 1)
    BY DEF Left, isr_pic_remap
  <2> QED BY <1>2, <2>1
<1>5. RemapInv' BY <1>3, <1>4 DEF RemapInv, RemapStep, Runs
<1> QED BY <1>3, <1>5 DEF IrqInv, RemapStep, Runs, history

\* The routines before sti.
LEMMA SetupKeeps ==
  ASSUME IrqInv,
         gdt_install \/ ClearIdt \/ idt_load \/ isr_install \/ SerialInitStep \/ Sti
  PROVE  IrqInv'
<1>1. CASE gdt_install
  BY <1>1 DEF gdt_install, Runs, history, IrqInv, RemapInv, Programmed, Early
<1>2. CASE ClearIdt
  <2>1. Left(isr_pic_remap, 0) = isr_pic_remap BY RemapWrites, NextWrite
  <2>2. todo' = Left(isr_pic_remap, 0)' /\ Programmed(0)'
    BY <1>2, <2>1 DEF ClearIdt, Runs, IrqInv, RemapInv, Programmed, Left, isr_pic_remap
  <2>3. RemapInv' BY <1>2, <2>2 DEF ClearIdt, Runs, RemapInv
  <2> QED BY <1>2, <2>3 DEF ClearIdt, Runs, history, IrqInv, Early
<1>3. CASE idt_load
  <2>1. PICK k \in 0 .. 11 : todo = Left(isr_pic_remap, k) /\ Programmed(k)
    BY <1>3 DEF IrqInv, RemapInv, idt_load, Runs
  <2>2. k = 11 BY <1>3, <2>1, RemapWrites, NextWrite DEF idt_load
  <2>3. Remapped' BY <1>3, <2>1, <2>2 DEF idt_load, Programmed, Remapped
  <2> QED BY <1>3, <2>3 DEF idt_load, Runs, history, IrqInv, RemapInv, Early
<1>4. CASE isr_install
  <2>1. 33 \in (0 .. 47) \cup {128} OBVIOUS
  <2> QED BY <1>4, <2>1
          DEF isr_install, Runs, history, IrqInv, RemapInv, Remapped, Early
<1>5. CASE SerialInitStep
  BY <1>5 DEF SerialInitStep, Runs, history, IrqInv, RemapInv, Remapped, Early
<1>6. CASE Sti
  BY <1>6 DEF Sti, Runs, history, IrqInv, RemapInv, Remapped, Early
<1> QED BY <1>1, <1>2, <1>3, <1>4, <1>5, <1>6

\* What comes after sti goes neither to the tables nor to the controllers.
LEMMA LateKeeps ==
  ASSUME IrqInv, pc \notin Early, pc' \notin Early \cup {"dead"},
         irq = "none" => irq' = "none",
         irq # "none" => irq' \in {"handle", "wait", "put", "eoi"},
         UNCHANGED <<gdt, idt, if, pic, irqs>>
  PROVE  IrqInv'
BY DEF IrqInv, RemapInv, Remapped, Early

LEMMA IrqNext == IrqInv /\ [BootNext]_bootVars => IrqInv'
<1> SUFFICES ASSUME IrqInv, [BootNext]_bootVars PROVE IrqInv' OBVIOUS
<1>1. CASE gdt_install \/ ClearIdt \/ idt_load \/ isr_install \/ SerialInitStep \/ Sti
  BY <1>1, SetupKeeps
<1>2. CASE RemapStep BY <1>2, RemapKeeps
<1>3. CASE WaitTransmit \/ PutByte
  <2>1. pc \notin Early /\ pc' \notin Early \cup {"dead"}
    BY <1>3 DEF WaitTransmit, PutByte, Runs, Early
  <2>2. UNCHANGED <<gdt, idt, if, pic, irqs, irq>>
    BY <1>3 DEF WaitTransmit, PutByte, machine, history
  <2> QED BY <2>1, <2>2, LateKeeps DEF IrqInv
<1>4. CASE TestMagic \/ FindModule \/ MountFat \/ FindFile \/ FindStep \/ Found
  <2>1. pc \notin Early /\ pc' \notin Early \cup {"dead"}
    BY <1>4 DEF TestMagic, FindModule, MountFat, FindFile, FindStep, Found, Runs,
                Go, Panic, Early
  <2>2. UNCHANGED <<gdt, idt, if, pic, irqs, irq>>
    BY <1>4
    DEF TestMagic, FindModule, MountFat, FindFile, FindStep, Found, machine, history
  <2> QED BY <2>1, <2>2, LateKeeps DEF IrqInv
<1>5. CASE HandleKey \/ IrqWaitTransmit \/ IrqPutByte
  <2>1. pc \notin Early /\ pc' = pc /\ pc # "dead"
    BY <1>5 DEF HandleKey, IrqWaitTransmit, IrqPutByte, IrqInv
  <2> QED BY <1>5, <2>1, LateKeeps
          DEF HandleKey, IrqWaitTransmit, IrqPutByte, machine, history
<1>6. CASE IrqReturns
  <2>1. pc \notin Early /\ Remapped BY <1>6 DEF IrqReturns, IrqInv, RemapInv, Early
  <2>2. pic[1] \in PicType BY DEF IrqInv
  <2>3. /\ Command(pic[1], 32) \in PicType /\ Command(pic[1], 32).icw = pic[1].icw
        /\ Command(pic[1], 32).mask = pic[1].mask
        /\ Command(pic[1], 32).offset = pic[1].offset
    <3>1. 32 \in Nat /\ 32 # 17 OBVIOUS
    <3> QED BY <2>2, <3>1, PicKept
  <2>4. pic' \in [1 .. 2 -> PicType] /\ pic'[1] = Command(pic[1], 32)
    BY <1>6, <2>3 DEF IrqReturns, IrqInv
  <2>5. Remapped' BY <2>1, <2>3, <2>4 DEF Remapped
  <2>6. pc' \notin Early \cup {"dead"}
    BY <1>6, <2>1 DEF IrqReturns, IrqInv, Early
  <2> QED BY <1>6, <2>1, <2>4, <2>5, <2>6
          DEF IrqReturns, IrqInv, RemapInv, Early, history
<1>7. CASE UartSends BY <1>7, IrqFrame DEF UartSends
<1>8. CASE \E line \in Lines : Request(line) \/ Deliver(line)
  BY <1>8, RequestKeeps, DeliverKeeps
<1>9. CASE UNCHANGED bootVars BY <1>9, IrqFrame DEF bootVars, machine, history
<1> QED BY <1>1, <1>2, <1>3, <1>4, <1>5, <1>6, <1>7, <1>8, <1>9
        DEF BootNext, Main, Handler

\* Whatever requests the firmware left at the controllers, whichever lines
\* become active and when: the only vector delivered is the keyboard's, and it
\* has a gate and a code segment.
THEOREM OnlyTheKeyboardGetsThrough == BootSpec => []OnlyKeyboardInterrupts
<1>1. IrqInv => OnlyKeyboardInterrupts BY DEF IrqInv, OnlyKeyboardInterrupts
<1> QED BY <1>1, IrqInit, IrqNext, PTL DEF BootSpec

-----------------------------------------------------------------------------
(* The serial port. *)

\* The UART after k of the writes of serial_init.
SerialProgrammed(k) ==
  /\ uart.dlab <=> k \in 2 .. 4
  /\ k >= 6 => uart.fifo

\* There is room in the FIFO at every write: kmain may have found it empty
\* before the handler wrote its byte, but the handler waits until it is empty
\* itself, and nothing comes between its test and its write.
UartInv ==
  /\ uart \in UartType /\ written \in Seq(Bytes) /\ sent \in Seq(Bytes)
  /\ sent \o uart.queue = written
  /\ pc \in Early => uart.queue = << >>
  /\ pc \in Early \ {"serial"} => ~ uart.dlab
  /\ pc = "serial" =>
       \E k \in 0 .. 7 : todo = Left(serial_init, k) /\ SerialProgrammed(k)
  /\ pc \notin Early => ~ uart.dlab /\ uart.fifo
  /\ pc \in {"write", "put"} => todo \in Seq(Bytes)
  /\ irq = "put" => uart.queue = << >>
  /\ pc = "put" => Len(uart.queue) <= 1 /\ todo # << >>

-----------------------------------------------------------------------------

\* What the line carries and what waits, before and after a byte is written
\* and before and after one is sent.
LEMMA QueueGrows ==
  ASSUME NEW S, NEW s \in Seq(S), NEW q \in Seq(S), NEW byte \in S
  PROVE  s \o Append(q, byte) = Append(s \o q, byte)
<1>1. <<byte>> \in Seq(S) OBVIOUS
<1>2. s \o q \in Seq(S) BY ConcatProperties
<1>3. s \o Append(q, byte) = s \o (q \o <<byte>>) BY AppendIsConcat
<1>4. Append(s \o q, byte) = (s \o q) \o <<byte>> BY <1>2, AppendIsConcat
<1> QED BY <1>1, <1>3, <1>4, ConcatAssociative

LEMMA QueueShrinks ==
  ASSUME NEW S, NEW s \in Seq(S), NEW q \in Seq(S), q # << >>
  PROVE  Append(s, Head(q)) \o Tail(q) = s \o q
<1>1. Head(q) \in S /\ Tail(q) \in Seq(S) BY HeadTailProperties
<1>2. <<Head(q)>> \in Seq(S) BY <1>1
<1>3. q = <<Head(q)>> \o Tail(q)
  <2>1. Len(q) \in Nat \ {0} BY EmptySeq
  <2>2. SubSeq(q, 1, Len(q)) = <<q[1]>> \o SubSeq(q, 1 + 1, Len(q))
    BY <2>1, SubSeqRecursiveFirst
  <2>3. Tail(q) = SubSeq(q, 2, Len(q)) BY TailIsSubSeq
  <2>4. Head(q) = q[1] OBVIOUS
  <2> QED BY <2>2, <2>3, <2>4, SubSeqFull
<1>4. Append(s, Head(q)) = s \o <<Head(q)>> BY <1>1, AppendIsConcat
<1>5. (s \o <<Head(q)>>) \o Tail(q) = s \o (<<Head(q)>> \o Tail(q))
  BY <1>1, <1>2, ConcatAssociative
<1> QED BY <1>3, <1>4, <1>5

LEMMA MessageBytes == Message \in Seq(Bytes)
<1>1. Message \in Seq(STRING) BY BootAssumption
<1>2. DOMAIN Message = 1 .. Len(Message) /\ Len(Message) \in Nat BY <1>1, LenProperties
<1>3. Message \in [1 .. Len(Message) -> Bytes]
  BY <1>1, <1>2, LenProperties DEF Bytes
<1> QED BY <1>2, <1>3, SeqDef

LEMMA SerialWrites ==
  /\ serial_init \in Seq({serial_init[i] : i \in 1 .. 7})
  /\ Len(serial_init) = 7
<1>1. Len(serial_init) = 7 BY DEF serial_init
<1>2. serial_init = [i \in 1 .. 7 |-> serial_init[i]] BY DEF serial_init
<1>3. serial_init \in [1 .. 7 -> {serial_init[i] : i \in 1 .. 7}] BY <1>2
<1> QED BY <1>1, <1>3, SeqDef

\* What each write of serial_init does to the UART.
LEMMA SerialEffect ==
  /\ ~ uart.dlab => UartWrite(serial_init[1]) = uart
  /\ UartWrite(serial_init[2]) = [uart EXCEPT !.dlab = TRUE]
  /\ uart.dlab => UartWrite(serial_init[3]) = [uart EXCEPT !.divisor[1] = 3]
  /\ uart.dlab => UartWrite(serial_init[4]) = [uart EXCEPT !.divisor[2] = 0]
  /\ UartWrite(serial_init[5]) = [uart EXCEPT !.dlab = FALSE]
  /\ UartWrite(serial_init[6]) = [uart EXCEPT !.fifo = TRUE, !.queue = << >>]
  /\ UartWrite(serial_init[7]) = uart
<1>1. ~ uart.dlab => UartWrite(serial_init[1]) = uart BY DEF UartWrite, serial_init
<1>2. UartWrite(serial_init[2]) = [uart EXCEPT !.dlab = TRUE]
  BY LineBits DEF UartWrite, serial_init
<1>3. uart.dlab => UartWrite(serial_init[3]) = [uart EXCEPT !.divisor[1] = 3]
  BY DEF UartWrite, Transmit, serial_init
<1>4. uart.dlab => UartWrite(serial_init[4]) = [uart EXCEPT !.divisor[2] = 0]
  BY DEF UartWrite, serial_init
<1>5. UartWrite(serial_init[5]) = [uart EXCEPT !.dlab = FALSE]
  <2>1. (7 \in Bits(3)) = FALSE BY LineBits
  <2> QED BY <2>1 DEF UartWrite, serial_init
<1>6. UartWrite(serial_init[6]) = [uart EXCEPT !.fifo = TRUE, !.queue = << >>]
  BY LineBits DEF UartWrite, serial_init
<1>7. UartWrite(serial_init[7]) = uart BY DEF UartWrite, serial_init
<1> QED BY <1>1, <1>2, <1>3, <1>4, <1>5, <1>6, <1>7

LEMMA UartInit == BootInit => UartInv
<1> SUFFICES ASSUME BootInit PROVE UartInv OBVIOUS
<1>1. uart \in UartType /\ ~ uart.dlab /\ uart.queue = << >>
  <2>1. uart \in [dlab : {FALSE}, divisor : {<<0, 0>>, <<1, 0>>}, fifo : BOOLEAN,
                  queue : {<< >>}]
    BY DEF BootInit
  <2>2. << >> \in Seq(Bytes) /\ {<<0, 0>>, <<1, 0>>} \subseteq Nat \X Nat BY EmptySeq
  <2> QED BY <2>1, <2>2 DEF UartType
<1>2. << >> \in Seq(Bytes) /\ << >> \o << >> = << >> BY EmptySeq, ConcatEmptySeq
<1>3. written = << >> /\ sent = << >> /\ pc = "gdt" /\ irq = "none" BY DEF BootInit
<1> QED BY <1>1, <1>2, <1>3 DEF UartInv, Early

LEMMA UartFrame ==
  ASSUME UartInv, UNCHANGED <<pc, todo, uart, written, sent, irq>>
  PROVE  UartInv'
BY DEF UartInv, SerialProgrammed, Left, serial_init

\* The writes of serial_init, one after the other.
LEMMA SerialKeeps ==
  ASSUME IrqInv, UartInv, SerialInitStep
  PROVE  UartInv'
<1>1. PICK k \in 0 .. 7 : todo = Left(serial_init, k) /\ SerialProgrammed(k)
  BY DEF UartInv, SerialInitStep, Runs
<1>2. /\ k \in 0 .. 6 /\ Head(todo) = serial_init[k + 1]
      /\ todo' = Left(serial_init, k + 1)
  <2> DEFINE S == {serial_init[i] : i \in 1 .. 7}
  <2>1. serial_init \in Seq(S) /\ Len(serial_init) = 7 BY SerialWrites
  <2>2. todo # << >> /\ todo' = Tail(todo) BY DEF SerialInitStep
  <2>3. k \in 0 .. Len(serial_init) BY <2>1
  <2> HIDE DEF S
  <2>4. k = Len(serial_init) <=> Left(serial_init, k) = << >> BY <2>1, <2>3, NextWrite
  <2>5. k < Len(serial_init) =>
          /\ Head(Left(serial_init, k)) = serial_init[k + 1]
          /\ Tail(Left(serial_init, k)) = Left(serial_init, k + 1)
    BY <2>1, <2>3, NextWrite
  <2> QED BY <1>1, <2>1, <2>2, <2>4, <2>5
<1>3. uart' = UartWrite(serial_init[k + 1]) BY <1>2 DEF SerialInitStep
<1>4. /\ uart \in UartType /\ uart.queue = << >>
      /\ (uart.dlab <=> k \in 2 .. 4) /\ (k >= 6 => uart.fifo)
  BY <1>1 DEF UartInv, SerialInitStep, Runs, Early, SerialProgrammed
<1>5. /\ uart' \in UartType /\ uart'.queue = << >>
      /\ (uart'.dlab <=> k + 1 \in 2 .. 4) /\ (k + 1 >= 6 => uart'.fifo)
  <2>1. CASE k = 0
    <3>1. uart' = uart BY <1>3, <1>4, <2>1, SerialEffect
    <3> QED BY <1>4, <2>1, <3>1
  <2>2. CASE k = 1
    <3>1. uart' = [uart EXCEPT !.dlab = TRUE] BY <1>3, <2>2, SerialEffect
    <3>2. /\ uart' \in UartType /\ uart'.queue = << >>
          /\ uart'.dlab = TRUE /\ uart'.fifo = uart.fifo
      BY <1>4, <3>1 DEF UartType
    <3> QED BY <1>4, <2>2, <3>2
  <2>3. CASE k = 2
    <3>1. uart' = [uart EXCEPT !.divisor[1] = 3] BY <1>3, <1>4, <2>3, SerialEffect
    <3> QED BY <1>4, <2>3, <3>1 DEF UartType
  <2>4. CASE k = 3
    <3>1. uart' = [uart EXCEPT !.divisor[2] = 0] BY <1>3, <1>4, <2>4, SerialEffect
    <3> QED BY <1>4, <2>4, <3>1 DEF UartType
  <2>5. CASE k = 4
    <3>1. uart' = [uart EXCEPT !.dlab = FALSE] BY <1>3, <2>5, SerialEffect
    <3>2. /\ uart' \in UartType /\ uart'.queue = << >>
          /\ uart'.dlab = FALSE /\ uart'.fifo = uart.fifo
      BY <1>4, <3>1 DEF UartType
    <3> QED BY <1>4, <2>5, <3>2
  <2>6. CASE k = 5
    <3>1. uart' = [uart EXCEPT !.fifo = TRUE, !.queue = << >>]
      BY <1>3, <2>6, SerialEffect
    <3>2. /\ uart' \in UartType /\ uart'.queue = << >>
          /\ uart'.dlab = uart.dlab /\ uart'.fifo = TRUE
      BY <1>4, <3>1, EmptySeq DEF UartType
    <3> QED BY <1>4, <2>6, <3>2
  <2>7. CASE k = 6
    <3>1. uart' = uart BY <1>3, <2>7, SerialEffect
    <3> QED BY <1>4, <2>7, <3>1
  <2> QED BY <1>2, <2>1, <2>2, <2>3, <2>4, <2>5, <2>6, <2>7
<1>6. SerialProgrammed(k + 1)' BY <1>5 DEF SerialProgrammed
<1>7. k + 1 \in 0 .. 7 /\ todo' = Left(serial_init, k + 1)'
  <2>1. Left(serial_init, k + 1)' = Left(serial_init, k + 1) BY DEF Left, serial_init
  <2> QED BY <1>2, <2>1
<1>8. UNCHANGED <<pc, written, sent, irq>> /\ pc = "serial" /\ irq = "none"
  BY DEF SerialInitStep, Runs, history
<1>9. uart'.queue = uart.queue BY <1>4, <1>5
<1> QED BY <1>5, <1>6, <1>7, <1>8, <1>9 DEF UartInv, Early

\* A byte written once the UART is set up, with room in the FIFO.
LEMMA WriteKeeps ==
  ASSUME UartInv, pc \notin Early, NEW byte \in Bytes, Len(uart.queue) <= 1,
         uart' = UartWrite(<<"data", byte>>), written' = Append(written, byte),
         sent' = sent
  PROVE  /\ uart' \in UartType /\ written' \in Seq(Bytes)
         /\ sent' \o uart'.queue = written' /\ ~ uart'.dlab /\ uart'.fifo
         /\ uart'.queue = Append(uart.queue, byte)
<1>1. /\ uart \in UartType /\ ~ uart.dlab /\ uart.fifo
      /\ sent \in Seq(Bytes) /\ written \in Seq(Bytes) /\ sent \o uart.queue = written
  BY DEF UartInv
<1>2. uart.queue \in Seq(Bytes) /\ Len(uart.queue) < FifoSize
  BY <1>1, LenProperties, BootAssumption DEF UartType
<1>3. uart' = [uart EXCEPT !.queue = Append(uart.queue, byte)]
  BY <1>1, <1>2 DEF UartWrite, Transmit
<1>4. Append(uart.queue, byte) \in Seq(Bytes) BY <1>2, AppendProperties
<1>5. uart' \in UartType /\ uart'.queue = Append(uart.queue, byte)
  BY <1>1, <1>3, <1>4 DEF UartType
<1>6. uart'.dlab = uart.dlab /\ uart'.fifo = uart.fifo BY <1>1, <1>3 DEF UartType
<1>7. written' \in Seq(Bytes) BY <1>1, AppendProperties
<1>8. sent' \o uart'.queue = written'
  <2>1. sent \o Append(uart.queue, byte) = Append(sent \o uart.queue, byte)
    <3>1. sent \in Seq(Bytes) /\ uart.queue \in Seq(Bytes) BY <1>1, <1>2
    <3>2. \A s, q \in Seq(Bytes) : s \o Append(q, byte) = Append(s \o q, byte)
      BY QueueGrows
    <3> QED BY <3>1, <3>2, Zenon
  <2> QED BY <1>1, <1>5, <2>1
<1> QED BY <1>1, <1>5, <1>6, <1>7, <1>8

\* kmain finds the transmitter empty and writes; in between the keyboard
\* handler may have put one byte in.
LEMMA KmainWriteKeeps ==
  ASSUME UartInv, IrqInv, WaitTransmit \/ PutByte
  PROVE  UartInv'
<1>1. CASE WaitTransmit
  <2>1. Len(uart.queue) <= 1 BY <1>1, EmptySeq DEF WaitTransmit, TransmitReady
  <2> QED BY <1>1, <2>1 DEF WaitTransmit, Runs, machine, history, UartInv, Early
<1>2. CASE PutByte
  <2>1. pc = "put" /\ irq = "none" /\ pc' = "write" /\ irq' = irq /\ sent' = sent
    BY <1>2 DEF PutByte, Runs
  <2>2. todo \in Seq(Bytes) /\ todo # << >> /\ Len(uart.queue) <= 1
    BY <2>1 DEF UartInv
  <2>3. Head(todo) \in Bytes /\ Tail(todo) \in Seq(Bytes)
    BY <2>2, HeadTailProperties
  <2>4. /\ uart' = UartWrite(<<"data", Head(todo)>>)
        /\ written' = Append(written, Head(todo)) /\ todo' = Tail(todo)
    BY <1>2 DEF PutByte
  <2>5. /\ uart' \in UartType /\ written' \in Seq(Bytes)
        /\ sent' \o uart'.queue = written' /\ ~ uart'.dlab /\ uart'.fifo
    BY <2>1, <2>2, <2>3, <2>4, WriteKeeps DEF Early
  <2> QED BY <2>1, <2>3, <2>4, <2>5 DEF UartInv, Early
<1> QED BY <1>1, <1>2

\* The handler finds the transmitter empty and writes, kmain standing still.
LEMMA HandlerKeeps ==
  ASSUME UartInv, IrqInv, Handler
  PROVE  UartInv'
<1>1. pc \notin Early BY DEF IrqInv, Handler, HandleKey, IrqWaitTransmit, IrqPutByte, IrqReturns
<1>2. CASE HandleKey
  BY <1>1, <1>2 DEF HandleKey, machine, history, UartInv, Early
<1>3. CASE IrqWaitTransmit
  BY <1>1, <1>3 DEF IrqWaitTransmit, TransmitReady, machine, history, UartInv, Early
<1>4. CASE IrqPutByte
  <2>1. /\ uart.queue = << >> /\ pc' = pc /\ todo' = todo /\ irq' = "eoi" /\ sent' = sent
        /\ uart' = UartWrite(<<"data", "key">>) /\ written' = Append(written, "key")
    BY <1>4 DEF IrqPutByte, UartInv
  <2>2. Len(uart.queue) <= 1 /\ Len(Append(uart.queue, "key")) = 1
    BY <2>1, EmptySeq, AppendProperties
  <2>3. /\ uart' \in UartType /\ written' \in Seq(Bytes)
        /\ sent' \o uart'.queue = written' /\ ~ uart'.dlab /\ uart'.fifo
        /\ uart'.queue = Append(uart.queue, "key")
    <3>1. "key" \in Bytes BY DEF Bytes
    <3> QED BY <1>1, <2>1, <2>2, <3>1, WriteKeeps
  <2> QED BY <1>1, <2>1, <2>2, <2>3 DEF UartInv, Early
<1>5. CASE IrqReturns
  <2>1. pc' \notin Early /\ (pc' = pc \/ pc' = "lost")
    BY <1>1, <1>5 DEF IrqReturns, Early
  <2>2. irq' = "none" /\ UNCHANGED <<todo, uart, written, sent>>
    BY <1>5 DEF IrqReturns, history
  <2> QED BY <1>1, <2>1, <2>2 DEF UartInv, Early
<1> QED BY <1>2, <1>3, <1>4, <1>5 DEF Handler

\* The UART takes the first byte of its queue to the line.
LEMMA SendKeeps ==
  ASSUME UartInv, UartSends
  PROVE  UartInv'
<1>1. /\ uart \in UartType /\ sent \in Seq(Bytes) /\ uart.queue # << >>
      /\ uart.queue \in Seq(Bytes)
      /\ sent' = Append(sent, Head(uart.queue))
      /\ uart' = [uart EXCEPT !.queue = Tail(uart.queue)]
      /\ UNCHANGED <<pc, todo, written, irq>>
  BY DEF UartInv, UartSends, UartType
<1>2. /\ Head(uart.queue) \in Bytes /\ Tail(uart.queue) \in Seq(Bytes)
      /\ Len(Tail(uart.queue)) = Len(uart.queue) - 1
  BY <1>1, HeadTailProperties
<1>3. /\ uart' \in UartType /\ uart'.queue = Tail(uart.queue)
      /\ uart'.dlab = uart.dlab /\ uart'.fifo = uart.fifo
  BY <1>1, <1>2 DEF UartType
<1>4. sent' \in Seq(Bytes) BY <1>1, <1>2, AppendProperties
<1>5. sent' \o uart'.queue = sent \o uart.queue BY <1>1, <1>3, QueueShrinks
<1>6. pc \notin Early BY <1>1 DEF UartInv
<1>7. pc = "put" => Len(uart'.queue) <= 1
  BY <1>1, <1>2, <1>3, LenProperties DEF UartInv
<1> QED BY <1>1, <1>3, <1>4, <1>5, <1>6, <1>7 DEF UartInv, Early

LEMMA UartNext == IrqInv /\ UartInv /\ [BootNext]_bootVars => UartInv'
<1> SUFFICES ASSUME IrqInv, UartInv, [BootNext]_bootVars PROVE UartInv' OBVIOUS
<1>1. CASE gdt_install \/ ClearIdt \/ RemapStep \/ idt_load
  BY <1>1 DEF gdt_install, ClearIdt, RemapStep, idt_load, Runs, history, UartInv, Early
<1>2. CASE isr_install
  <2> DEFINE S == {serial_init[i] : i \in 1 .. 7}
  <2>1. serial_init \in Seq(S) /\ 0 \in 0 .. Len(serial_init) BY SerialWrites
  <2> HIDE DEF S
  <2>2. Left(serial_init, 0) = serial_init BY <2>1, NextWrite
  <2>3. todo' = Left(serial_init, 0)'
    BY <1>2, <2>2 DEF isr_install, Left, serial_init
  <2>4. ~ uart.dlab /\ uart' = uart
    BY <1>2 DEF isr_install, Runs, UartInv, Early
  <2>5. SerialProgrammed(0)' BY <2>4 DEF SerialProgrammed
  <2> QED BY <1>2, <2>3, <2>5 DEF isr_install, Runs, history, UartInv, Early
<1>3. CASE SerialInitStep BY <1>3, SerialKeeps
<1>4. CASE Sti
  <2>1. PICK k \in 0 .. 7 : todo = Left(serial_init, k) /\ SerialProgrammed(k)
    BY <1>4 DEF UartInv, Sti, Runs
  <2>2. k = 7
    <3> DEFINE S == {serial_init[i] : i \in 1 .. 7}
    <3>1. serial_init \in Seq(S) /\ Len(serial_init) = 7 /\ k \in 0 .. Len(serial_init)
      BY SerialWrites
    <3> HIDE DEF S
    <3>2. k = Len(serial_init) <=> Left(serial_init, k) = << >> BY <3>1, NextWrite
    <3> QED BY <1>4, <2>1, <3>1, <3>2 DEF Sti
  <2>3. ~ uart.dlab /\ uart.fifo BY <2>1, <2>2 DEF SerialProgrammed
  <2>4. todo' \in Seq(Bytes) BY <1>4, MessageBytes DEF Sti
  <2> QED BY <1>4, <2>3, <2>4 DEF Sti, Runs, history, UartInv, Early
<1>5. CASE WaitTransmit \/ PutByte BY <1>5, KmainWriteKeeps
<1>6. CASE TestMagic \/ FindModule \/ MountFat \/ FindFile \/ FindStep \/ Found
  <2>1. pc \notin Early /\ pc' \notin Early \cup {"write", "put"}
    BY <1>6 DEF TestMagic, FindModule, MountFat, FindFile, FindStep, Found, Runs,
                Go, Panic, Early
  <2>2. UNCHANGED <<uart, written, sent, irq>>
    BY <1>6
    DEF TestMagic, FindModule, MountFat, FindFile, FindStep, Found, machine, history
  <2> QED BY <2>1, <2>2 DEF UartInv, Early
<1>7. CASE Handler BY <1>7, HandlerKeeps
<1>8. CASE UartSends BY <1>8, SendKeeps
<1>9. ASSUME NEW line \in Lines, Request(line) PROVE UartInv'
  BY <1>9, UartFrame DEF Request
<1>10. ASSUME NEW line \in Lines, Deliver(line) PROVE UartInv'
  <2>1. pc \notin Early /\ irq = "none"
    BY <1>10 DEF Deliver, IrqInv
  <2>2. pc' \in {pc, "dead"} /\ irq' \in {irq, "handle", "eoi"}
        /\ UNCHANGED <<todo, uart, written, sent>>
    BY <1>10 DEF Deliver
  <2> QED BY <2>1, <2>2 DEF UartInv, Early
<1>11. CASE UNCHANGED bootVars BY <1>11, UartFrame DEF bootVars, machine, history
<1> QED BY <1>1, <1>2, <1>3, <1>4, <1>5, <1>6, <1>7, <1>8, <1>9, <1>10, <1>11
        DEF BootNext, Main

\* Until an interrupt has made kmain lose its registers every byte that
\* serial_write_char is called with, from kmain or from the keyboard handler in
\* between, is on the line or in the FIFO, in order, whatever the message and
\* whenever keys are struck.
THEOREM NothingWrittenIsLost == BootSpec => []SerialLosesNothing
<1>1. IrqInv /\ UartInv => SerialLosesNothing
  BY DEF UartInv, SerialLosesNothing
<1> QED BY <1>1, IrqInit, IrqNext, UartInit, UartNext, PTL DEF BootSpec

\* With stubs that restore the registers no interrupt loses kmain, so that
\* NothingWrittenIsLost is about every state.
THEOREM ContractKeepsKmain == BootSpec => [](start.restores => pc # "lost")
<1> DEFINE Kept == start.restores => pc # "lost"
<1>1. BootInit => Kept BY DEF BootInit
<1>2. IrqInv /\ Kept /\ [BootNext]_bootVars => Kept'
  <2> SUFFICES ASSUME IrqInv, Kept, [BootNext]_bootVars, start'.restores
               PROVE  pc' # "lost"
    OBVIOUS
  <2>0. start' = start
    BY DEF BootNext, bootVars, Main, gdt_install, ClearIdt, RemapStep, idt_load,
           isr_install, SerialInitStep, Sti, WaitTransmit, PutByte, TestMagic,
           FindModule, MountFat, FindFile, FindStep, Found, Go, Panic, Handler,
           HandleKey, IrqWaitTransmit, IrqPutByte, IrqReturns, UartSends, Request,
           Deliver
  <2>1. CASE Main
    BY <2>0, <2>1
    DEF Main, gdt_install, ClearIdt, RemapStep, idt_load, isr_install,
        SerialInitStep, Sti, WaitTransmit, PutByte, TestMagic, FindModule,
        MountFat, FindFile, FindStep, Found, Go, Panic
  <2>2. CASE Handler
    BY <2>0, <2>2 DEF Handler, HandleKey, IrqWaitTransmit, IrqPutByte, IrqReturns
  <2>3. CASE UartSends BY <2>0, <2>3 DEF UartSends
  <2>4. ASSUME NEW line \in Lines, Request(line) \/ Deliver(line) PROVE pc' # "lost"
    BY <2>0, <2>4 DEF Request, Deliver
  <2>5. CASE UNCHANGED bootVars BY <2>0, <2>5 DEF bootVars
  <2> QED BY <2>1, <2>2, <2>3, <2>4, <2>5 DEF BootNext
<1> HIDE DEF Kept
<1>3. BootSpec => []Kept BY <1>1, <1>2, IrqInit, IrqNext, PTL DEF BootSpec
<1> QED BY <1>3 DEF Kept
=============================================================================
