\* mount, find and read with the arguments of disk_read in their right order.
SPECIFICATION Spec
CONSTANTS
  SectorSize = 4
  FatEntrySize = 2
  DirEntrySize = 2
  WordMod = 256
  EntryMod <- MCEntryMod
  Eoc <- MCEoc
  Volumes <- MCVolumes
  Names = {"a", "b"}
  Ranges <- MCRanges
  Swapped = FALSE
  BufferAddress = 200
  JunkBpbs <- MCJunkBpbs
INVARIANTS
  TypeOK
  FindAnswer
  ReadAnswer
PROPERTIES
  FindReturns
  ReadReturns
\* A volume that is refused: the kernel panics.
CHECK_DEADLOCK FALSE
