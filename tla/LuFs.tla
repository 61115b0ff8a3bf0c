-------------------------------- MODULE LuFs --------------------------------
(***************************************************************************)
(* The LuFS tools of src/util/fs: mkfs.py packs a directory into an image, *)
(* rdfs.py lists the image (print_tree) and extracts it (extract_all).     *)
(*                                                                         *)
(* A path is a sequence of names, << >> the directory packed.  A tree maps *)
(* its paths to the size of a file or to IsDir.  Names are numbers in the  *)
(* order sorted() gives them; what an entry stores of a name is its first  *)
(* 32 bytes, which two names may have in common.  Offsets are bytes.       *)
(***************************************************************************)
EXTENDS Integers, Sequences, FiniteSets, SequencesExt

CONSTANTS
  Trees,       \* the directories packed
  Stored(_),   \* the stored form of a name, a positive number
  SectorSize,  \* SECTOR_SIZE, 512 in the code
  EntrySize    \* ENTRY_SIZE, 49 in the code

IsDir == -1
Root == << >>
NoName == 0  \* the name of the root entry

\* A directory: every path but the root's leads on from that of a directory.
IsTree(t) ==
  /\ IsFiniteSet(DOMAIN t) /\ DOMAIN t \subseteq Seq(Nat)
  /\ Root \in DOMAIN t /\ t[Root] = IsDir
  /\ \A p \in DOMAIN t : t[p] \in Nat \cup {IsDir}
  /\ \A p \in DOMAIN t \ {Root} : Front(p) \in DOMAIN t /\ t[Front(p)] = IsDir

ASSUME LuFsAssumption ==
  /\ SectorSize \in Nat /\ EntrySize \in 1 .. SectorSize - 1
  /\ \A t \in Trees :
       /\ IsTree(t)
       /\ \A p \in DOMAIN t : \A i \in DOMAIN p : Stored(p[i]) \in Nat \ {0}

VARIABLES
  tree,     \* what is packed: never written
  image,    \* the image, or NoImage
  phase,    \* "mkfs", "open", "print", "extract", "done"
  stack,    \* the activations of print_tree or extract_all, innermost last
  visited,  \* the offsets of the tables gone into
  count,    \* printed[0] or extracted[0]
  listed,   \* the paths print_tree has printed
  made,     \* those extract_all has made, in order,
  out       \* and what it has made of them

vars == <<tree, image, phase, stack, visited, count, listed, made, out>>

Content(p, size) == [k \in 1 .. size |-> <<p, k>>]

-----------------------------------------------------------------------------
(* mkfs.py *)

Parent(p) == Front(p)  \* the root is its own
IsFile(p) == tree[p] # IsDir

\* The order in which the directories are gone through, each in the order of
\* its names: a path comes after its beginnings, and is before another one whose
\* name is the greater where they part.
Precedes(p, q) ==
  \E n \in 0 .. Len(p) :
    /\ n < Len(q) /\ \A k \in 1 .. n : p[k] = q[k]
    /\ n = Len(p) \/ p[n + 1] < q[n + 1]
InOrder(paths) ==
  [i \in 1 .. Cardinality(paths) |->
     CHOOSE p \in paths : Cardinality({q \in paths : Precedes(q, p)}) = i - 1]

\* All entries, and those whose parent is d: the root is in its own table.
Entries == InOrder(DOMAIN tree)
DirTree(d) == InOrder({p \in DOMAIN tree : Parent(p) = d})
TableLen(d) == Len(DirTree(d))

\* The order of the tables: collect_dirs goes into no directory twice.
DirOrder == InOrder({p \in DOMAIN tree : ~ IsFile(p)})
Files == InOrder({p \in DOMAIN tree : IsFile(p)})
Tables == FlattenSeq([i \in DOMAIN DirOrder |-> DirTree(DirOrder[i])])

\* Where things of these sizes begin, one behind the other, and where they end.
Offsets(start, sizes) ==
  LET at[i \in 1 .. Len(sizes) + 1] ==
        IF i = 1 THEN start ELSE at[i - 1] + sizes[i - 1]
  IN  at
PlaceIn(p, seq) == CHOOSE i \in DOMAIN seq : seq[i] = p

TableOffsets ==
  Offsets(SectorSize, [i \in DOMAIN DirOrder |-> EntrySize * TableLen(DirOrder[i])])
DirOffset(d) == TableOffsets[PlaceIn(d, DirOrder)]

\* File data begins at the sector behind the tables.
FileDataOffset ==
  LET end == TableOffsets[Len(DirOrder) + 1]
  IN  ((end + SectorSize - 1) \div SectorSize) * SectorSize
FileOffsets == Offsets(FileDataOffset, [i \in DOMAIN Files |-> tree[Files[i]]])
FileOffset(p) == FileOffsets[PlaceIn(p, Files)]

\* Wrong variant: the range ends one byte too far.
BugPlace(offset, size) ==
  [start_block |-> offset \div SectorSize, start_byte |-> offset % SectorSize,
   end_block |-> (offset + size) \div SectorSize,
   end_byte |-> (offset + size) % SectorSize]

\* The blocks and bytes in which the bytes of a range begin and end.
Place(offset, size) ==
  [start_block |-> offset \div SectorSize, start_byte |-> offset % SectorSize,
   end_block |-> (offset + size - 1) \div SectorSize,
   end_byte |-> (offset + size - 1) % SectorSize]

\* Nothing inside: the range of an empty file is its first byte, that of an
\* empty directory lies in the header; the root's leaves out its own entry.
PlaceOf(p) ==
  CASE IsFile(p) /\ tree[p] > 0 -> Place(FileOffset(p), tree[p])
    [] IsFile(p) /\ tree[p] = 0 -> Place(FileOffset(p), 1)
    [] ~ IsFile(p) /\ TableLen(p) = 0 -> Place(0, 1)
    [] p = Root -> [Place(DirOffset(p), TableLen(p) * EntrySize)
                      EXCEPT !.start_byte = EntrySize]
    [] OTHER -> Place(DirOffset(p), TableLen(p) * EntrySize)

pack_entry(p) ==
  [name |-> IF p = Root THEN NoName ELSE Stored(Last(p)),
   isfile |-> IsFile(p), size |-> IF IsFile(p) THEN tree[p] ELSE 0,
   place |-> PlaceOf(p)]

\* The image: the entry count of the header, the tables, the file data and the
\* offset of the data; zeros fill the last sector of each.
NoImage == [entries |-> 0]
Image ==
  [entries |-> Len(Entries), table |-> [i \in DOMAIN Tables |-> pack_entry(Tables[i])],
   base |-> FileDataOffset,
   data |-> FlattenSeq([i \in DOMAIN Files |-> Content(Files[i], tree[Files[i]])])]

-----------------------------------------------------------------------------
(* rdfs.py *)

StartOf(e) == e.place.start_block * SectorSize + e.place.start_byte
EndOf(e) == e.place.end_block * SectorSize + e.place.end_byte

\* The entries from an offset on; every offset asked for is that of an entry,
\* and the tables end only where all entries have been read.
read_dir_table(offset, n) ==
  LET i == (offset - SectorSize) \div EntrySize
  IN  SubSeq(image.table, i + 1, i + n)

read_file_data(e) ==
  [k \in 1 .. e.size |-> image.data[StartOf(e) - image.base + k]]

ChildCount(e) == (EndOf(e) - StartOf(e) + 1) \div EntrySize

\* The table of a directory not gone into yet.
Enters(e) ==
  /\ ~ e.isfile /\ (e.place.start_block # 0 \/ e.place.start_byte # 0)
  /\ StartOf(e) \notin visited

Frame(offset, n, path) ==
  [entries |-> read_dir_table(offset, n), at |-> 1, seen |-> {}, path |-> path]

\* Wrong variant: one entry too many, the root not taken off.
BugMaxEntries == image.entries
MaxEntries == image.entries - 1

Top == Last(stack)
Entry == Top.entries[Top.at]
FullPath == Append(Top.path, Entry.name)
Returns == Top.at > Len(Top.entries) \/ count >= MaxEntries

\* The rest of the loop over the table at hand, this entry seen.
Onward == [Top EXCEPT !.at = @ + 1, !.seen = @ \cup {Entry.name}]

Init ==
  /\ tree \in Trees
  /\ image = NoImage /\ phase = "mkfs"
  /\ stack = << >> /\ visited = {} /\ count = 0
  /\ listed = << >> /\ made = << >> /\ out = [p \in {Root} |-> IsDir]

makefs ==
  /\ phase = "mkfs"
  /\ image' = Image /\ phase' = "open"
  /\ UNCHANGED <<tree, stack, visited, count, listed, made, out>>

\* main calls print_tree and then extract_all on the root table, with the
\* number of all entries, which is more than the root table has; extract_all
\* passes over the first entry of that table.
Begin(walk, first) ==
  /\ phase' = walk
  /\ stack' = <<[Frame(SectorSize, image.entries, Root) EXCEPT !.at = first]>>
  /\ visited' = {} /\ count' = 0
  /\ UNCHANGED <<tree, image, listed, made, out>>

PrintBegins == phase = "open" /\ Begin("print", 1)
ExtractBegins == phase = "print" /\ stack = << >> /\ Begin("extract", 2)

Return ==
  /\ stack # << >> /\ Returns
  /\ stack' = Front(stack)
  /\ phase' = IF phase = "extract" /\ Len(stack) = 1 THEN "done" ELSE phase
  /\ UNCHANGED <<tree, image, visited, count, listed, made, out>>

\* Wrong variant: names already printed are printed again.
BugPrinted == Entry.name # NoName
Printed == Entry.name # NoName /\ Entry.name \notin Top.seen

\* The step into the table of the entry, or past it.
Descend(n) ==
  IF Enters(Entry)
  THEN /\ visited' = visited \cup {StartOf(Entry)}
       /\ stack' = IF n > 0
                   THEN Append(Front(stack), Onward)
                        \o <<Frame(StartOf(Entry), n, FullPath)>>
                   ELSE Append(Front(stack), Onward)
  ELSE stack' = Append(Front(stack), Onward) /\ UNCHANGED visited

Skip(shown) ==
  /\ stack # << >> /\ ~ Returns /\ ~ shown
  /\ stack' = Append(Front(stack), [Top EXCEPT !.at = @ + 1])
  /\ UNCHANGED <<tree, image, phase, visited, count, listed, made, out>>

PrintSkips == phase = "print" /\ Skip(Printed)

PrintEntry ==
  /\ phase = "print" /\ stack # << >> /\ ~ Returns /\ Printed
  /\ listed' = Append(listed, FullPath) /\ count' = count + 1
  /\ Descend(ChildCount(Entry))
  /\ UNCHANGED <<tree, image, phase, made, out>>

Extracted == Entry.name # NoName /\ Entry.name \notin Top.seen

ExtractSkips == phase = "extract" /\ Skip(Extracted)

\* The file or directory made, in the place of what was made there before.
Make(content) ==
  /\ out' = [p \in DOMAIN out \cup {FullPath} |->
               IF p = FullPath THEN content ELSE out[p]]
  /\ made' = Append(made, FullPath) /\ count' = count + 1

ExtractFile ==
  /\ phase = "extract" /\ stack # << >> /\ ~ Returns /\ Extracted
  /\ Entry.isfile
  /\ Make(read_file_data(Entry))
  /\ stack' = Append(Front(stack), Onward)
  /\ UNCHANGED <<tree, image, phase, visited, listed>>

ExtractDir ==
  /\ phase = "extract" /\ stack # << >> /\ ~ Returns /\ Extracted
  /\ ~ Entry.isfile
  /\ Make(IsDir)
  /\ Descend(ChildCount(Entry))
  /\ UNCHANGED <<tree, image, phase, listed>>

Next ==
  \/ makefs
  \/ PrintBegins \/ PrintSkips \/ PrintEntry
  \/ ExtractBegins \/ ExtractSkips \/ ExtractFile \/ ExtractDir
  \/ Return

Spec == Init /\ [][Next]_vars

-----------------------------------------------------------------------------

\* What is extracted from the image is the directory that was packed: every
\* file with its bytes, every directory, the empty ones too, and nothing else,
\* unless two names of one directory are the same in their first 32 bytes.
\* The walk over the root table goes on into the tables behind it; only the
\* count of all entries keeps it from making them again in the root.
StoredPath(p) == [i \in DOMAIN p |-> Stored(p[i])]
NamesDiffer ==
  \A p, q \in DOMAIN tree \ {Root} :
    p # q /\ Parent(p) = Parent(q) => Stored(Last(p)) # Stored(Last(q))
RoundTrip ==
  phase = "done" /\ NamesDiffer =>
    /\ DOMAIN out = {StoredPath(p) : p \in DOMAIN tree}
    /\ \A p \in DOMAIN tree :
         out[StoredPath(p)] = IF IsFile(p) THEN Content(p, tree[p]) ELSE IsDir

\* The listing shows what the extraction makes, in the same order, also where
\* stored names are the same and both walks lose their way.
ListingIsExtraction == phase = "done" => listed = made

\* Ranges in the image: those of directories that hold something and of files
\* that are not empty share no byte, none reaches into the header, together
\* with the entry of the root they fill the tables and the data, and the range
\* of a file is as long as its size.
Bytes(e) == StartOf(e) .. EndOf(e)
Taken(img) == {i \in DOMAIN img.table :
                 IF img.table[i].isfile THEN img.table[i].size > 0
                                        ELSE StartOf(img.table[i]) # 0}
RangesFit(img) ==
  LET range(i) == Bytes(img.table[i])
      root   == SectorSize .. SectorSize + EntrySize - 1
      tables == SectorSize .. SectorSize + EntrySize * img.entries - 1
      data   == img.base .. img.base + Len(img.data) - 1
  IN  /\ UNION {range(i) : i \in Taken(img)} = (tables \ root) \cup data
      /\ \A i, j \in Taken(img) : i # j => range(i) \cap range(j) = {}
      /\ \A i \in Taken(img) : range(i) \subseteq IF img.table[i].isfile THEN data ELSE tables
      /\ \A i \in Taken(img) : img.table[i].isfile => Cardinality(range(i)) = img.table[i].size
LayoutExact == [][phase = "mkfs" => RangesFit(image')]_vars
=============================================================================
