\* Requests that need one to four words or nearly the array, of 48 bytes.
SPECIFICATION Spec
CONSTANTS
  HeapSize = 48
  HeaderSize = 12
  SizeMod = 256
  Requests = {0, 1, 4, 7, 15, 40}
INVARIANTS
  TypeOK
  Tiling
  LiveBlocks
PROPERTIES
  ImplementsAllocator
  RefusalIsJustified
  MallocReturns
