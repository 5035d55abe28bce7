SPECIFICATION TamperSpec
CONSTANTS
  Writers = {w1}
  Contents = {c1, c2}
  Labels = {l1}
  NoWriter = NoWriter
  MaxSequence = 3
  Limit = 3
CHECK_DEADLOCK FALSE
INVARIANT DeletingIsDetectable
