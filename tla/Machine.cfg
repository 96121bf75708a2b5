SPECIFICATION MachineSpec
CONSTANTS
  fetch = fetch
  pause = pause
  gate = gate
  send = send
  note = note
  pay = pay
  MaxAttempt = 3
  MaxTurn = 2
  Deadline = Deadline
  Nodes <- Plan
  Kind <- PlanKind
  Preds <- PlanPreds
  Idempotency <- PlanIdempotency
  OnError <- PlanOnError
  OnExpire <- PlanOnExpire
  MaxAttempts <- PlanMaxAttempts
  Expires <- PlanExpires
  AllowOnIrreversible <- PlanAllows
CONSTRAINT FewAttempts
INVARIANTS MachineTypeOK Settled WaitersHaveTimers NoneKeepsItsPolicy
PROPERTIES Final
