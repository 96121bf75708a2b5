----------------------------- MODULE RunMachineMC -----------------------------
(***************************************************************************)
(* An instance of RunMachine for TLC.  The safe task fetch may ask a       *)
(* person with a time limit; behind it are the wait pause and the task     *)
(* send, which is not safe to repeat though its policy allows retries, may *)
(* ask without a limit, and whose failure is ignored; behind send the task *)
(* pay, which must not be repeated at all.  Beside them the human tasks    *)
(* gate, with a time limit, and behind it note, without one.               *)
(***************************************************************************)
EXTENDS RunMachine, TLC

CONSTANTS fetch, pause, gate, note, send, pay, MaxAttempt, MaxTurn

Plan == {fetch, pause, gate, note, send, pay}
PlanKind == [n \in Plan |-> CASE n = pause -> "wait"
                              [] n \in {gate, note} -> "human"
                              [] OTHER -> "task"]
PlanPreds == [n \in Plan |-> CASE n \in {pause, send} -> {fetch}
                               [] n = note -> {gate}
                               [] n = pay -> {send}
                               [] OTHER -> {}]
PlanIdempotency == [n \in Plan |-> IF n \in {send, pay} THEN "none" ELSE "safe"]
PlanOnError == [n \in Plan |-> IF n = send THEN "ignore" ELSE "stop"]
PlanOnExpire == [n \in Plan |-> "route"]
PlanExpires == [n \in Plan |-> n \in {fetch, gate}]
PlanMaxAttempts == [n \in Plan |-> 2]
PlanAllows == [n \in Plan |-> n = send]

\* Bounds: how often fetch is lost and started again, how often a node run asks.
FewAttempts == \A n \in Nodes : st.nodes[n].att <= MaxAttempt /\ st.nodes[n].turn <= MaxTurn

=============================================================================
