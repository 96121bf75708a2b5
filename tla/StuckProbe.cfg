SPECIFICATION Spec
CONSTANTS
  a = a
  b = b
  Providers = {a, b}
  Calls = {c1, c2}
  OpenAfter = 1
  MinSamples = 2
  MaxSamples = 2
  Setups <- Cancelled
SYMMETRY Symmetric
INVARIANTS AlwaysProbeOut
CHECK_DEADLOCK FALSE
