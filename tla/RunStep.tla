------------------------------- MODULE RunStep -------------------------------
(***************************************************************************)
(* The scheduler step of one run: packages/workflow-runtime/src/step.ts    *)
(* with the readiness rules of ready.ts, for flat plans of task, wait and  *)
(* human nodes.  step() is pure: from a scheduler state and a trigger it   *)
(* computes the next state and the effects to perform after the commit.    *)
(*                                                                         *)
(* Abstractions.  Outputs, expressions, usage and cost are left out.  The  *)
(* uuid the code draws for a node run is fresh for every NODE_SCHEDULED    *)
(* and a node is scheduled once per attempt: node and attempt name it.  A  *)
(* task may suspend its node run to ask a person, and the answer executes  *)
(* the same node run again: <<node, attempt, turn>> names one execution,   *)
(* turn being how many answers the node run has had.  (Suspending for an   *)
(* event is left out, as event waits are.)  All edges leave the port that  *)
(* a completed node, or a failed one with onError "ignore", fires, so      *)
(* nothing is ever pruned here; the plan has an output, and its limits on  *)
(* concurrency, node runs and cost are not reached.  The statuses starting *)
(* and running are merged, and waiting, waiting_for_human and retrying: no *)
(* guard here tells them apart.                                            *)
(***************************************************************************)
EXTENDS Integers, FiniteSets

CONSTANTS
  Nodes,        \* the nodes of the plan
  Kind,         \* Kind[n]: "task", "wait" or "human"
  Preds,        \* Preds[n]: the nodes n has a control edge from
  Idempotency,  \* Idempotency[n]: "none" or "safe" ("keyed" recovers as "safe")
  OnError,      \* OnError[n]: "stop" or "ignore"
  OnExpire,     \* OnExpire[n]: "fail" or "route", of a human node
  Expires,      \* Expires[n]: what n asks a person has an expiresAt
  MaxAttempts,  \* MaxAttempts[n]: policy.retry.maxAttempts
  AllowOnIrreversible, \* AllowOnIrreversible[n]: policy.retry.allowOnIrreversible
  Deadline      \* the id of the run_deadline timer, no node run

ASSUME PlanAssumption ==
  /\ IsFiniteSet(Nodes)
  /\ Kind \in [Nodes -> {"task", "wait", "human"}]
  /\ Preds \in [Nodes -> SUBSET Nodes]
  /\ Idempotency \in [Nodes -> {"none", "safe"}]
  /\ OnError \in [Nodes -> {"stop", "ignore"}]
  /\ OnExpire \in [Nodes -> {"fail", "route"}]
  /\ Expires \in [Nodes -> BOOLEAN]
  /\ MaxAttempts \in [Nodes -> Nat \ {0}]
  /\ AllowOnIrreversible \in [Nodes -> BOOLEAN]
  /\ Deadline \notin Nodes \X Nat \X Nat

\* The executions of node runs: node, attempt, turn.
NodeRun == Nodes \X Nat \X Nat
TimerId == NodeRun \cup {Deadline}

NodeStatus == {"idle", "running", "waiting", "retry_wait",
               "completed", "failed", "cancelled"}
Resolved == {"completed", "failed", "cancelled"}
Active == {"running", "waiting", "retry_wait"}

RunStatus == {"queued", "running", "waiting",
              "completed", "failed", "cancelled", "timed_out"}
Terminal == {"completed", "failed", "cancelled", "timed_out"}

NodeState == [status : NodeStatus, att : Nat, turn : Nat]
State == [run : RunStatus, nodes : [Nodes -> NodeState], timers : SUBSET TimerId]

InitialState == [run |-> "queued",
                 nodes |-> [n \in Nodes |-> [status |-> "idle", att |-> 1, turn |-> 0]],
                 timers |-> {}]

(***************************************************************************)
(* Triggers: type and the id they carry (a node run, a timer, a set of     *)
(* node runs, or Deadline where the type needs none).                      *)
(***************************************************************************)
ResultTypes == {"ok", "error", "fatal", "ask"}  \* fatal: an error that is not retryable

\* The node run n is at, and its turn.
RunOf(st, n) == <<n, st.nodes[n].att, st.nodes[n].turn>>

\* nodeRunId is the same.
SameRun(r, q) == r[1] = q[1] /\ r[2] = q[2]

\* locate(): the node run is its node's current one, at whatever turn.
Current(st, id) == id \in NodeRun /\ SameRun(id, RunOf(st, id[1]))
StatusOf(st, id) == st.nodes[id[1]].status

SetNode(st, n, status) == [st EXCEPT !.nodes[n].status = status]

\* Mutant of Resume: a parked run that progresses stays parked.
ResumeNever(st) == st

\* resumeIfWaiting(): a parked run that progresses is running again.
Resume(st) == IF st.run = "waiting" THEN [st EXCEPT !.run = "running"] ELSE st

\* Mutants of MayRetry: idempotency is not looked at; one attempt too many.
MayRetryAny(st, n) == st.nodes[n].att < MaxAttempts[n]
MayRetryOnceMore(st, n) == /\ Idempotency[n] = "safe" \/ AllowOnIrreversible[n]
                           /\ st.nodes[n].att <= MaxAttempts[n]

\* fail() with allowRetry: the retry is a durable timer of the failed node run.
MayRetry(st, n) == /\ Idempotency[n] = "safe" \/ AllowOnIrreversible[n]
                   /\ st.nodes[n].att < MaxAttempts[n]

\* Mutant of FailTask: the retry timer is set for the node, not the node run.
FailTaskOfNode(st, n, retryable) ==
  IF retryable /\ MayRetry(st, n)
  THEN [SetNode(st, n, "retry_wait") EXCEPT !.timers = st.timers \cup {n}]
  ELSE SetNode(st, n, "failed")

FailTask(st, n, retryable) ==
  IF retryable /\ MayRetry(st, n)
  THEN [SetNode(st, n, "retry_wait") EXCEPT
          !.timers = st.timers \cup {RunOf(st, n)}]
  ELSE SetNode(st, n, "failed")

\* The timers that ns set when they wait: the wait nodes, and those that ask a person
\* for as long as the request lives.
TimersOf(st, ns) ==
  {RunOf(st, n) : n \in {m \in ns : Kind[m] = "wait" \/ (Kind[m] = "human" /\ Expires[m])}}

\* nodeResult(suspend): the node run waits for the answer of a person.
Ask(st, n) ==
  [SetNode(st, n, "waiting") EXCEPT
     !.timers = st.timers \cup (IF Expires[n] THEN {RunOf(st, n)} ELSE {})]

\* reexecute(): the node run goes on, with the answer.
Reexecute(st, n) ==
  [st EXCEPT !.nodes[n] = [status |-> "running", att |-> @.att, turn |-> @.turn + 1]]

\* TIMER_FIRED{retry}: the reducer makes the node idle at the next attempt.
NextAttempt(st, n) ==
  [st EXCEPT !.nodes[n] = [status |-> "idle", att |-> @.att + 1, turn |-> 0]]

OnStart(st) == IF st.run = "queued" THEN [st EXCEPT !.run = "running"] ELSE st

OnNodeResult(st, id, result) ==
  IF Current(st, id) /\ StatusOf(st, id) = "running"
  THEN CASE result = "ok"  -> SetNode(st, id[1], "completed")
         [] result = "ask" -> Ask(st, id[1])
         [] OTHER          -> FailTask(st, id[1], result = "error")
  ELSE st

\* A cancelled timer stays in the state until its row fires; every branch below
\* checks that the timer's node run is still the current one.  A retry timer must
\* also be the one the node waits for (retryTimerId); an expiry timer is not tied to
\* a question: it expires the one that is open, a later one of the node run too.
OnNodeTimer(st, id) ==
  LET n    == id[1]
      gone == [st EXCEPT !.timers = @ \ {id}]
  IN  IF id \notin st.timers THEN st
      ELSE IF ~Current(st, id) THEN gone
      ELSE IF Kind[n] = "task"
           THEN CASE StatusOf(st, id) = "retry_wait" /\ id = RunOf(st, n) ->
                       Resume(NextAttempt(gone, n))
                  [] StatusOf(st, id) = "waiting" -> Resume(SetNode(gone, n, "failed"))
                  [] OTHER -> gone
      ELSE IF StatusOf(st, id) # "waiting" THEN gone
      ELSE IF Kind[n] = "wait" \/ OnExpire[n] = "route"
           THEN Resume(SetNode(gone, n, "completed"))
      ELSE Resume(SetNode(gone, n, "failed"))

\* humanResponse(): the answer completes a human node and resumes a task.
OnHumanResponse(st, n) ==
  IF st.nodes[n].status # "waiting" THEN st
  ELSE CASE Kind[n] = "human" -> Resume(SetNode(st, n, "completed"))
         [] Kind[n] = "task"  -> Resume(Reexecute(st, n))
         [] OTHER             -> st

\* Mutant of OnRecovered: a lost node run restarts whatever its node is.
OnRecoveredAny(st, lost) ==
  [st EXCEPT !.nodes = [n \in Nodes |->
     IF RunOf(st, n) \in lost /\ st.nodes[n].status = "running"
       THEN [status |-> "idle", att |-> st.nodes[n].att + 1, turn |-> 0]
     ELSE st.nodes[n]]]

\* recovered(): a lost node run restarts when it is safe to repeat, else fails.
OnRecovered(st, lost) ==
  [st EXCEPT !.nodes = [n \in Nodes |->
     IF RunOf(st, n) \notin lost \/ st.nodes[n].status # "running"
       THEN st.nodes[n]
     ELSE IF Idempotency[n] = "safe"
       THEN [status |-> "idle", att |-> st.nodes[n].att + 1, turn |-> 0]
     ELSE [st.nodes[n] EXCEPT !.status = "failed"]]]

\* Mutant of CancelActive: cancels what is over as well.
CancelAll(st) ==
  [st EXCEPT !.nodes = [n \in Nodes |->
     IF st.nodes[n].status # "idle"
       THEN [st.nodes[n] EXCEPT !.status = "cancelled"] ELSE st.nodes[n]]]

\* cancelActive(): every node that runs or waits.
CancelActive(st) ==
  [st EXCEPT !.nodes = [n \in Nodes |->
     IF st.nodes[n].status \in Active
       THEN [st.nodes[n] EXCEPT !.status = "cancelled"] ELSE st.nodes[n]]]

End(st, how) == [CancelActive(st) EXCEPT !.run = how]

(***************************************************************************)
(* process(): the loop that ends every step.  late says that the worker's  *)
(* clock is past the run's deadline (checkRunBounds).                      *)
(***************************************************************************)
Fires(st, p) == \/ st.nodes[p].status = "completed"
                \/ st.nodes[p].status = "failed" /\ OnError[p] = "ignore"

Ready(st) == {n \in Nodes : /\ st.nodes[n].status = "idle"
                            /\ \A p \in Preds[n] : Fires(st, p)}

Failed(st) == \E n \in Nodes : st.nodes[n].status = "failed" /\ OnError[n] = "stop"

Starting(st, ns) ==
  [n \in Nodes |-> IF n \in ns
     THEN [st.nodes[n] EXCEPT !.status = IF Kind[n] = "task" THEN "running" ELSE "waiting"]
     ELSE st.nodes[n]]

\* Mutant of StartNodes: a human node sets no expiry timer.
StartNodesNoExpiry(st, ns) ==
  [st EXCEPT !.nodes = Starting(st, ns),
             !.timers = @ \cup TimersOf(st, {n \in ns : Kind[n] # "human"})]

StartNodes(st, ns) ==
  [st EXCEPT !.nodes = Starting(st, ns),
             !.timers = @ \cup TimersOf(st, ns)]

AnyActive(st) == \E n \in Nodes : st.nodes[n].status \in Active
AnyRunning(st) == \E n \in Nodes : st.nodes[n].status = "running"

\* The end of the loop: a drained run ends, a run that only waits is parked.
Settle(st) ==
  IF ~AnyActive(st) THEN [st EXCEPT !.run = "completed"]
  ELSE IF ~AnyRunning(st) THEN [st EXCEPT !.run = "waiting"]
  ELSE st

Process(st, late) ==
  IF st.run = "queued" \/ st.run \in Terminal THEN st
  ELSE IF late THEN End(st, "timed_out")
  ELSE IF Failed(st) THEN End(st, "failed")
  ELSE Settle(StartNodes(st, Ready(st)))

OnTrigger(st, t) ==
  CASE t.type = "start"          -> OnStart(st)
    [] t.type = "node_result"    -> OnNodeResult(st, t.id, t.result)
    [] t.type = "timer"          -> IF t.id = Deadline THEN End(st, "timed_out")
                                                       ELSE OnNodeTimer(st, t.id)
    [] t.type = "human_response" -> OnHumanResponse(st, t.id)
    [] t.type = "recovered"      -> OnRecovered(st, t.id)
    [] t.type = "cancel"         -> End(st, "cancelled")
    [] OTHER                     -> st

Step(st, t, late) ==
  IF st.run \in Terminal THEN st ELSE Process(OnTrigger(st, t), late)

(***************************************************************************)
(* The effects of a step, read off the two states.                         *)
(***************************************************************************)
\* Mutant of Started: whatever runs after the step.
StartedAgain(a, b) ==
  {RunOf(b, n) : n \in {m \in Nodes : Kind[m] = "task" /\ b.nodes[m].status = "running"}}

\* NODE_STARTED and execute: the tasks that run since the step, and those an answer
\* resumed, even when the same step then ended the run.
Started(a, b) ==
  {RunOf(b, n) : n \in
     {m \in Nodes : /\ Kind[m] = "task"
                    /\ \/ b.nodes[m].status = "running" /\ b.nodes[m] # a.nodes[m]
                       \/ b.nodes[m].att = a.nodes[m].att /\ b.nodes[m].turn > a.nodes[m].turn}}

\* abort_node of what runs when the end of the run cancels it.
Aborted(a, b) ==
  {RunOf(b, n) : n \in
     {m \in Nodes : /\ b.nodes[m].status = "cancelled"
                    /\ a.nodes[m].status = "running" \/ RunOf(b, m) \in Started(a, b)}}

\* cancelTimersOf() of a node run that was answered or failed; at the end, all.
TimersCancelled(a, b) ==
  IF b.run \in Terminal THEN b.timers \cup {Deadline}
  ELSE {r \in b.timers :
          /\ Current(a, r) /\ Current(b, r)
          /\ \/ StatusOf(a, r) = "waiting" /\ b.nodes[r[1]] # a.nodes[r[1]]
             \/ StatusOf(a, r) \in Active /\ StatusOf(b, r) = "failed"}

\* The release_lease effect: the run ended, or was running and is parked now.  A
\* step that finds the run parked and resumes nothing does not release.
Releases(a, t, b) == \/ b.run \in Terminal
                     \/ b.run = "waiting" /\ OnTrigger(a, t).run = "running"

=============================================================================
