\* startPeer with overlapping calls of stop(); fair timers, which only the
\* liveness property needs.
CONSTANTS
  Stops = {s1, s2, s3}
SPECIFICATION TimerSpec
INVARIANTS
  DeathIsReported
  NoOrphanServer
  StopCleansUp
PROPERTIES
  NothingStartsAfterStop
  StopReleasesReady
CHECK_DEADLOCK FALSE
