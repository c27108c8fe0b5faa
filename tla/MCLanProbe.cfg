\* One connection, three getStats() calls that settle in any order.
CONSTANTS
  Conns = {k1}
  Pairs = {p1, p2}
  Candidates = {a, b}
  Redacted = {a}
  a = a
  b = b
  p1 = p1
  p2 = p2
  base <- BaseOf
  key <- KeyOf
  Reports <- SomeReports
  NoPair = NoPair
  NoStat = NoStat
  NoDigest = NoDigest
  MaxLooks = 1
  MaxSnapshots = 3
  MaxSignaled = 2
SPECIFICATION FairSpec
INVARIANTS
  StatsAreNewest
  AggregateIsFold
  AddressIsRight
PROPERTIES
  AssociationIsMade
CHECK_DEADLOCK FALSE
