\* Bodies shorter than, as long as and longer than the announced size, in
\* pieces smaller and larger than a chunk.
CONSTANTS
  ChunkMax = 3
  Size = 8
  MaxBody = 10
  MaxPiece = 7
SPECIFICATION Spec
INVARIANTS
  StoredIsExact
  PreloadIsComplete
CHECK_DEADLOCK FALSE
