SPECIFICATION Spec
CONSTANTS
  send = send
  fetch = fetch
  gate = gate
  w1 = w1
  w2 = w2
  Workers = {w1, w2}
  None = None
  Dead = Dead
  NoRun = NoRun
  Same = Same
  Deadline = Deadline
  Nodes <- OneTask
  Kind <- OneTaskKind
  Preds <- NoPreds
  Idempotency <- AllNone
  OnError <- AllStop
  Expires <- AllExpire
  AllowOnIrreversible <- NoneAllowed
  OnExpire <- AllFail
  MaxAttempts <- OneAttempt
  Results <- OkOrAsk
  CheckpointEvery = 2
  Faults = {"crash", "stall", "error", "close", "api"}
  MaxFaults = 1
  MaxTurns = 1
  MaxRestarts = 1
  CanCancel = FALSE
  CanTimeOut = TRUE
SYMMETRY Symmetric
INVARIANTS RowsMatchLog
PROPERTIES Sequential
CHECK_DEADLOCK FALSE
