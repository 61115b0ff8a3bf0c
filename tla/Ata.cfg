\* disk_read and disk_write on sectors of two words, with good and bad drives.
SPECIFICATION Spec
CONSTANTS
  SectorCount = 9
  SectorWords = 2
  ByteMod = 2
  TopMod = 2
  WordMod = 64
  Requests <- MCRequests
  MaxCount = 3
  Drives <- MCDrives
INVARIANT
  TransferIsExact
PROPERTIES
  ProtocolKept
  Returns
\* A drive that reports an error: the driver waits for ever.
CHECK_DEADLOCK FALSE
