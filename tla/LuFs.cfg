\* Sectors of 4 bytes, entries of 3: a table crosses sectors, and so does a file
\* of 5 bytes.  The tools end.
SPECIFICATION Spec
CHECK_DEADLOCK FALSE
CONSTANTS
  SectorSize = 4
  EntrySize = 3
  Depth = 3
  MaxNodes = 4
  Sizes = {0, 1, 5}
  Stored <- MCStored
  Trees <- MCTrees
INVARIANTS
  RoundTrip
  ListingIsExtraction
PROPERTIES
  LayoutExact
