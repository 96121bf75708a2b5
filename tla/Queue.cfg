SPECIFICATION LiveSpec
CONSTANTS
  Jobs = {j1, j2}
  p1 = p1
  p2 = p2
  Procs = {p1, p2}
  l1 = l1
  l2 = l2
  Loops = {l1, l2}
  MaxAttempts = 2
  None = None
  Dead = Dead
  Setups <- Sound
  MaxFaults = 2
  MaxEnqueues = 3
INVARIANTS TypeOK OneHandlerAtATime
PROPERTIES KeepsPromise JobsEnd
