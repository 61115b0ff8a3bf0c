\* Disk constants as in Fat32_built.cfg: the arguments of disk_read as passed.
SPECIFICATION BootSpec
CONSTANTS
  SectorSize = 4
  FatEntrySize = 2
  DirEntrySize = 2
  WordMod = 256
  EntryMod <- MCEntryMod
  Eoc <- MCEoc
  Volumes <- BootVolumes
  Names = {"b"}
  Ranges <- MCRanges
  Swapped = TRUE
  BufferAddress = 200
  JunkBpbs <- MCJunkBpbs
  Starts <- MCStarts
  Masks <- MCMasks
  Lines = {0, 1, 8}
  Message <- MCMessage
  FifoSize = 2
  MaxKeys = 2
INVARIANTS
  OnlyKeyboardInterrupts
  SerialLosesNothing
PROPERTIES
  BootEnds
\* The kernel halts after a panic.
CHECK_DEADLOCK FALSE
