SPECIFICATION LiveSpec
CONSTANTS
  w1 = w1
  w2 = w2
  Workers = {w1, w2}
  i1 = i1
  i2 = i2
  Indexes = {i1, i2}
  MaxAttempts = 2
  None = None
  Setups <- All
  MaxFaults = 2
INVARIANTS TypeOK ReadableExists NothingLeft
PROPERTIES EndIsFinal BuildEnds WaiterWakes
CHECK_DEADLOCK FALSE
