SPECIFICATION Spec
CONSTANTS
  Replicas = {r1, r2}
  MaxTime = 6
  MaxCatchUp = 2
  Grace = 1
  Jitter = 1
  None = None
  Setups <- Schedule
  MaxFaults = 2
SYMMETRY Symmetric
INVARIANTS PolicyIsKept OnePerSlot EverySlotAccounted NoOverlap
CHECK_DEADLOCK FALSE
