\* Safety and the refinement of Session: three overlapping generate() calls
\* and two stop() calls.
CONSTANTS
  Calls = {c1, c2, c3}
  Stops = {s1, s2}
  NoCall = NoCall
SPECIFICATION Spec
SYMMETRY HandleSymmetry
INVARIANTS
  ParkedIsWakeable
  ActiveIsServed
  DeathIsReported
  StopCleansUp
PROPERTIES
  NothingStartsAfterStop
  ImplementsSession
CHECK_DEADLOCK FALSE
