\* fat32_mount with the arguments of disk_read as they are passed.
SPECIFICATION Spec
CONSTANTS
  SectorSize = 4
  FatEntrySize = 2
  DirEntrySize = 2
  WordMod = 256
  EntryMod <- MCEntryMod
  Eoc <- MCEoc
  Volumes <- MCVolumes
  Names = {"a", "b"}
  Ranges <- MCRanges
  Swapped = TRUE
  BufferAddress = 200
  JunkBpbs <- MCJunkBpbs
PROPERTY
  MountReadsBootSector
\* A volume that is refused: the kernel panics.
CHECK_DEADLOCK FALSE
