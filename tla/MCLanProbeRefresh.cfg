\* Two connections without candidates: a getStats() of each and one before, or
\* after, that throw, reject or answer separately and in any order.
CONSTANTS
  Conns = {k1, k2}
  Pairs = {p1, p2}
  Candidates = {a, b}
  Redacted = {a}
  a = a
  b = b
  p1 = p1
  p2 = p2
  base <- BaseOf
  key <- KeyOf
  Reports <- SomeReports
  NoPair = NoPair
  NoStat = NoStat
  NoDigest = NoDigest
  MaxLooks = 1
  MaxSnapshots = 3
  MaxSignaled = 0
SPECIFICATION FairSpec
PROPERTIES
  RefreshIsOver
CHECK_DEADLOCK FALSE
