\* Two clients that compete for one server and reopen their connections,
\* close() on any side, and fd numbers that run out.
CONSTANTS
  Clients = {a1, a2}
  Servers = {b}
  FdMax = 2
  MaxConnects = 4
  MaxResets = 1
  MaxFrames = 2
SPECIFICATION FairSpec
INVARIANTS
  HeldFdKeepsItsConnection
  OneLivePerRemote
  ParkedOnLive
  NoConnectionStranded
  StreamsDoNotMix
  OthersLeaveNumber
PROPERTIES
  ServerReturnsToAccept
CHECK_DEADLOCK FALSE
