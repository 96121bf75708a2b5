SPECIFICATION Spec
CONSTANTS
  send = send
  fetch = fetch
  gate = gate
  w1 = w1
  w2 = w2
  Workers = {w1, w2}
  None = None
  Dead = Dead
  NoRun = NoRun
  Same = Same
  Deadline = Deadline
  Nodes <- TaskAndWait
  Kind <- TaskAndHumanKind
  Preds <- NoPreds
  Idempotency <- AllSafe
  OnError <- AllStop
  Expires <- AllExpire
  AllowOnIrreversible <- NoneAllowed
  OnExpire <- AllFail
  MaxAttempts <- OneAttempt
  Results <- OnlyOk
  CheckpointEvery = 2
  Faults = {"crash"}
  MaxFaults = 1
  MaxTurns = 0
  MaxRestarts = 1
  CanCancel = TRUE
  CanTimeOut = FALSE
SYMMETRY Symmetric
INVARIANTS TerminalIsLast MarkedIsHandled RequestsArePending
CHECK_DEADLOCK FALSE
