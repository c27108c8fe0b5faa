\* One reader: what it gets, how far the table grows, and that a read ends.
CONSTANTS
  ChunkMax = 2
  Size = 5
  Readers = {r1}
  MaxEntries = 1
  MaxTime = 0
SPECIFICATION FairSpec
INVARIANTS
  TableIsBounded
PROPERTIES
  ImplementsByteFile
  ReadSettles
CHECK_DEADLOCK FALSE
