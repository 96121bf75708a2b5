SPECIFICATION LiveSpec
CONSTANTS
  a = a
  b = b
  Providers = {a, b}
  Calls = {c1, c2}
  OpenAfter = 1
  MinSamples = 2
  MaxSamples = 2
  Setups <- Both
INVARIANTS TypeOK ProbeIsOut
PROPERTIES OneText ProbeEnds
CHECK_DEADLOCK FALSE
