SPECIFICATION Spec
CONSTANTS
  send = send
  fetch = fetch
  gate = gate
  w1 = w1
  w2 = w2
  Workers = {w1, w2}
  None = None
  Dead = Dead
  NoRun = NoRun
  Same = Same
  Deadline = Deadline
  Nodes <- TwoTasks
  Kind <- TwoTasksKind
  Preds <- NoPreds
  Idempotency <- TwoTasksIdempotency
  OnError <- AllStop
  Expires <- NoneExpires
  AllowOnIrreversible <- NoneAllowed
  OnExpire <- AllFail
  MaxAttempts <- TwoAttempts
  Results <- SendAsks
  CheckpointEvery = 2
  Faults = {"crash", "stall"}
  MaxFaults = 1
  MaxTurns = 1
  MaxRestarts = 1
  CanCancel = FALSE
  CanTimeOut = FALSE
SYMMETRY Symmetric
INVARIANTS TypeOK MemoryIsReplay ExecutionsAreSound AttemptsAreBounded
PROPERTIES ExecutedOnce
CHECK_DEADLOCK FALSE
