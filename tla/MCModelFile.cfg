\* Safety of the virtual file with two readers; the size is a multiple of
\* CHUNK_MAX, so that a read at the end touches an empty chunk.
CONSTANTS
  ChunkMax = 1
  Size = 2
  Readers = {r1, r2}
  MaxEntries = 1
  MaxTime = 1
SYMMETRY ReaderSymmetry
SPECIFICATION Spec
INVARIANTS
  LoadingIsLoaded
CHECK_DEADLOCK FALSE
