SPECIFICATION MCSpec
CONSTANTS
  Writers = {w1, w2}
  Contents = {c1, c2}
  Labels = {l1}
  NoWriter = NoWriter
  MaxSequence = 3
  Limit = 2
  Alerts = {"a"}
  Label <- MCLabel
  Operators = {"o1"}
  Sees <- MCSees
  AlertCalls = {c1, c2}
  Nil = Nil
  MaxEpisodes = 2
  MaxSubmits = 1
  MaxOutages = 1
  Streams = {s1}
  Polls = {q1, q2}
  MaxInserts = 2
  FirstId = 8
  LastId = 10
  MaxBatch = 2
  TailLimit = 2
  NoStream = NoStream
CHECK_DEADLOCK FALSE
INVARIANTS
  TamperInvariant
  AlertPromise
PROPERTIES
  TailPromise
  CatchUps
