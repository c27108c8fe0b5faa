\* Liveness: stop() with no help from the WASM program or from startup, and
\* generations and the IndexedDB connection when both make progress.
CONSTANTS
  Calls = {c1, c2}
  Stops = {s1, s2}
  NoCall = NoCall
SPECIFICATION TimerSpec
PROPERTIES
  StopReleasesEveryone
  GenerationSettles
  CacheIsReleased
CHECK_DEADLOCK FALSE
