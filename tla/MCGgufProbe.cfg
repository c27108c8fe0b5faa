\* Sound, truncated and refused files, read from disk, from servers that
\* answer a range and from servers that send the whole file.
CONSTANTS
  Files <- SomeFiles
  FirstRead = 32
  MaxRead = 400
  MaxSafe = 1000
  MaxChunk = 12
SPECIFICATION FairSpec
INVARIANTS
  TypeOK
  NeverSlips
  ParsedIsWhole
  OvershootIsBounded
PROPERTIES
  RefusalIsGenuine
  ProbeIsOver
CHECK_DEADLOCK FALSE
