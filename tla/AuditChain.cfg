SPECIFICATION MCSpec
CONSTANTS
  Writers = {w1, w2}
  Contents = {c1, c2}
  Labels = {l1}
  NoWriter = NoWriter
  MaxSequence = 4
  Limit = 3
  Connections = {k1}
  UseSlots = {u1, u2}
  Admins = {a1}
  Reapers = {r1}
  Pools = {p1, p2}
  NoPool = NoPool
  MaxSessions = 1
  MaxVersion = 1
  MaxUses = 2
CHECK_DEADLOCK FALSE
INVARIANTS
  ChainInvariant
PROPERTIES
  AppendsAtTheEnd
  ImplementsLog
  WaitsEnd
  PoolsPromise
