\* The comment on tombstone() against the code.
CONSTANTS
  Clients = {a}
  Servers = {b}
  FdMax = 2
  MaxConnects = 2
  MaxResets = 1
  MaxFrames = 2
SPECIFICATION Spec
INVARIANTS
  TombstonesAreOwned
CHECK_DEADLOCK FALSE
