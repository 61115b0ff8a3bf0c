----------------------------- MODULE MCFat32 -----------------------------
(***************************************************************************)
(* Small volumes for Fat32: three clusters of two sectors, four directory  *)
(* entries to the cluster, two entries to the sector of the FAT.           *)
(***************************************************************************)
EXTENDS Fat32

MCEoc == 120
MCEntryMod == 128
Bad == 100      \* a FAT entry that is no cluster of the volume
Reserved(c) == c + MCEntryMod  \* one with a reserved bit set

Entry(name, lfn, first, size) ==
  [name |-> name, lfn |-> lfn, first |-> first, size |-> size, dir |-> size = 0]

\* An entry without a size is a directory.
\* Long name before the entry, the entry, the end of the directory in the
\* cluster, behind which old entries remain.
Short == << Entry("a", TRUE, 0, 0), Entry("a", FALSE, 3, 11), NoEntry,
            Entry("b", FALSE, 4, 8) >>

\* A cluster without an end: the directory goes on in the next one.
Full == << Entry("c", FALSE, 4, 3), Entry("c", TRUE, 0, 0),
           Entry("c", FALSE, 3, 1), Entry("c", FALSE, 3, 16) >>
Last == << Entry("b", FALSE, 4, 8), Entry("a", FALSE, 3, 0), NoEntry, NoEntry >>

Bpb(bytes, fatsize, root) ==
  [bytes |-> bytes, spc |-> 2, reserved |-> 1, fats |-> 2, fatsize |-> fatsize,
   root |-> root]

Volume(bpb, sectors, two, three, four, root, other) ==
  [bpb |-> bpb, sectors |-> sectors,
   fat |-> [c \in 0 .. 5 |-> CASE c < 2 -> MCEoc [] c = 2 -> two
                               [] c = 3 -> three [] c = 4 -> four [] c = 5 -> 0],
   dir |-> [c \in 2 .. 4 |-> IF c = 2 THEN root ELSE other]]

\* Chains of every form over three clusters; the shorter image cuts the last
\* cluster off.
MCVolumes ==
  {Volume(Bpb(4, 3, 2), sectors, two, three, four, root, other) :
     sectors \in {12, 13}, two \in {2, 3, Reserved(4), MCEoc, Bad},
     three \in {Reserved(3), 4, MCEoc, Bad}, four \in {2, 3, Reserved(MCEoc + 7)},
     root \in {Short, Full}, other \in {Full, Last}}
  \cup {Volume(bpb, 13, MCEoc, MCEoc, MCEoc, Short, Last) :
          bpb \in {Bpb(8, 3, 2), Bpb(4, 0, 2), Bpb(4, 3, 4)}}

\* From the start, into a later cluster, to the last byte and beyond, nothing,
\* and a sum that wraps around.
MCRanges == {<<0, 255>>, <<3, 6>>, <<8, 3>>, <<9, 250>>, <<10, 0>>, <<7, 1>>}

\* What the stack may hold: by chance no FAT32 volume, or some other one.
MCJunkBpbs == {Bpb(4, 0, 0), Bpb(0, 7, 2), Bpb(4, 2, 3)}
===========================================================================
