---------------------------- MODULE OrchestratorMC ----------------------------
(***************************************************************************)
(* Instances of Orchestrator for TLC: small plans and the symmetry of the  *)
(* worker slots.                                                           *)
(***************************************************************************)
EXTENDS Orchestrator, TLC

CONSTANTS send, fetch, gate, w1, w2

Symmetric == Permutations(Workers)

\* Two parallel tasks: send must not be repeated, fetch may be.
TwoTasks == {send, fetch}
TwoTasksKind == (send :> "task") @@ (fetch :> "task")
TwoTasksIdempotency == (send :> "none") @@ (fetch :> "safe")

OneTask == {send}
OneTaskKind == (send :> "task")

\* The task send, and gate beside it: a wait or a human task.
TaskAndWait == {send, gate}
TaskAndWaitKind == (send :> "task") @@ (gate :> "wait")
TaskAndHumanKind == (send :> "task") @@ (gate :> "human")
TwoWaitsKind == (send :> "wait") @@ (gate :> "wait")

NoPreds == [n \in Nodes |-> {}]
AllStop == [n \in Nodes |-> "stop"]
AllFail == [n \in Nodes |-> "fail"]
OneAttempt == [n \in Nodes |-> 1]
TwoAttempts == [n \in Nodes |-> 2]
IgnoreTask == [n \in Nodes |-> IF n = send THEN "ignore" ELSE "stop"]
OkOrError == [n \in Nodes |-> {"ok", "error"}]
SendAsks == [n \in Nodes |-> IF n = send THEN {"ok", "ask"} ELSE {"ok", "error"}]
OkOrAsk == [n \in Nodes |-> {"ok", "ask"}]
OnlyOk == [n \in Nodes |-> {"ok"}]
AllSafe == [n \in Nodes |-> "safe"]
AllExpire == [n \in Nodes |-> TRUE]
NoneExpires == [n \in Nodes |-> FALSE]
NoneAllowed == [n \in Nodes |-> FALSE]
AllNone == [n \in Nodes |-> "none"]

=============================================================================
