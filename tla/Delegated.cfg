SPECIFICATION LiveSpec
CONSTANTS
  Nodes = {n1, n2}
  Pool = {p1, p2}
  None = None
  Dead = Dead
  Setups <- AllSetups
  MaxFaults = 2
INVARIANTS TypeOK ClearedIsLogged ExecutedByOne HandoverIsTracked
PROPERTIES OutcomeIsKept DelegatedEnds
CHECK_DEADLOCK FALSE
