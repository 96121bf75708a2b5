---------------------------- MODULE RunStepProofs ----------------------------
(***************************************************************************)
(* Lemmas about the operators of RunStep: that every part of a scheduler   *)
(* step takes a scheduler state to a scheduler state, and what a step      *)
(* preserves, for every plan.                                              *)
(*                                                                         *)
(* The argument: a step is a trigger's handler and then process(), and     *)
(* each of them takes every node one move of its life cycle (Move) or      *)
(* leaves it.  The invariants that speak of single nodes (Tidy) follow     *)
(* from the moves; those that relate nodes, timers and the run's status    *)
(* (Timed, SettledState) follow from what the two halves do to a state.    *)
(***************************************************************************)
EXTENDS RunStep, TLAPS

\* setting the status of a node keeps the state well typed.
LEMMA SetNodeType ==
  ASSUME NEW st \in State, NEW n \in Nodes, NEW status \in NodeStatus
  PROVE  SetNode(st, n, status) \in State
BY DEF SetNode, State, NodeState

\* resumeIfWaiting() keeps the state well typed.
LEMMA ResumeType ==
  ASSUME NEW st \in State
  PROVE  Resume(st) \in State
BY DEF Resume, State, RunStatus

\* fail(), with or without a retry timer, keeps the state well typed.
LEMMA FailTaskType ==
  ASSUME NEW st \in State, NEW n \in Nodes, NEW retryable \in BOOLEAN
  PROVE  FailTask(st, n, retryable) \in State
<1>1. SetNode(st, n, "failed") \in State
  BY SetNodeType DEF NodeStatus
<1>2. SetNode(st, n, "retry_wait") \in State
  BY SetNodeType DEF NodeStatus
<1>3. RunOf(st, n) \in TimerId
  BY DEF RunOf, State, NodeState, TimerId, NodeRun
<1>4. st.timers \cup {RunOf(st, n)} \in SUBSET TimerId
  BY <1>3 DEF State
<1> QED
  BY <1>1, <1>2, <1>4 DEF FailTask, State

\* a fired retry timer leaves the node idle at the next attempt.
LEMMA NextAttemptType ==
  ASSUME NEW st \in State, NEW n \in Nodes
  PROVE  NextAttempt(st, n) \in State
<1>1. "idle" \in NodeStatus /\ st.nodes[n].att + 1 \in Nat
  BY DEF State, NodeState, NodeStatus
<1> QED
  BY <1>1 DEF NextAttempt, State, NodeState

\* a task that asks waits, with the timer of its request.
LEMMA AskType ==
  ASSUME NEW st \in State, NEW n \in Nodes
  PROVE  Ask(st, n) \in State
<1>1. SetNode(st, n, "waiting") \in State
  BY SetNodeType DEF NodeStatus
<1>2. RunOf(st, n) \in TimerId
  BY DEF RunOf, State, NodeState, TimerId, NodeRun
<1>3. st.timers \cup (IF Expires[n] THEN {RunOf(st, n)} ELSE {}) \in SUBSET TimerId
  BY <1>2 DEF State
<1> QED
  BY <1>1, <1>3 DEF Ask, State

\* an answered task runs again, at its next turn.
LEMMA ReexecuteType ==
  ASSUME NEW st \in State, NEW n \in Nodes
  PROVE  Reexecute(st, n) \in State
<1>1. "running" \in NodeStatus /\ st.nodes[n].att \in Nat /\ st.nodes[n].turn + 1 \in Nat
  BY DEF State, NodeState, NodeStatus
<1> QED
  BY <1>1 DEF Reexecute, State, NodeState

\* nodeResult(): a result is applied to a node of the plan or not at all.
LEMMA OnNodeResultType ==
  ASSUME NEW st \in State, NEW id, NEW result
  PROVE  OnNodeResult(st, id, result) \in State
<1>1. CASE Current(st, id) /\ StatusOf(st, id) = "running"
  <2>1. id[1] \in Nodes
    BY <1>1 DEF Current, NodeRun
  <2>2. SetNode(st, id[1], "completed") \in State
    BY <2>1, SetNodeType DEF NodeStatus
  <2>3. FailTask(st, id[1], result = "error") \in State
    BY <2>1, FailTaskType
  <2>4. Ask(st, id[1]) \in State
    BY <2>1, AskType
  <2> QED
    BY <2>2, <2>3, <2>4 DEF OnNodeResult
<1>2. CASE ~(Current(st, id) /\ StatusOf(st, id) = "running")
  BY <1>2 DEF OnNodeResult
<1> QED
  BY <1>1, <1>2

\* timer(): a timer is applied to a node of the plan or only closed.
LEMMA OnNodeTimerType ==
  ASSUME NEW st \in State, NEW id
  PROVE  OnNodeTimer(st, id) \in State
<1> DEFINE n    == id[1]
           gone == [st EXCEPT !.timers = @ \ {id}]
<1>1. gone \in State
  BY DEF State
<1>2. CASE Current(st, id)
  <2>1. n \in Nodes
    BY <1>2 DEF Current, NodeRun
  <2>2. Resume(NextAttempt(gone, n)) \in State
    BY <1>1, <2>1, NextAttemptType, ResumeType
  <2>3. /\ Resume(SetNode(gone, n, "completed")) \in State
        /\ Resume(SetNode(gone, n, "failed")) \in State
    BY <1>1, <2>1, SetNodeType, ResumeType DEF NodeStatus
  <2> QED
    BY <1>1, <2>2, <2>3 DEF OnNodeTimer
<1>3. CASE ~Current(st, id)
  BY <1>1, <1>3 DEF OnNodeTimer
<1> QED
  BY <1>2, <1>3

\* humanResponse() of a node of the plan.
LEMMA OnHumanResponseType ==
  ASSUME NEW st \in State, NEW n \in Nodes
  PROVE  OnHumanResponse(st, n) \in State
<1>1. Resume(SetNode(st, n, "completed")) \in State
  BY SetNodeType, ResumeType DEF NodeStatus
<1>2. Resume(Reexecute(st, n)) \in State
  BY ReexecuteType, ResumeType
<1> QED
  BY <1>1, <1>2 DEF OnHumanResponse

\* recovered() restarts or fails what was lost, whatever set it is told.
LEMMA OnRecoveredType ==
  ASSUME NEW st \in State, NEW lost
  PROVE  OnRecovered(st, lost) \in State
<1>1. \A n \in Nodes : /\ st.nodes[n] \in NodeState
                       /\ [status |-> "idle", att |-> st.nodes[n].att + 1, turn |-> 0] \in NodeState
                       /\ [st.nodes[n] EXCEPT !.status = "failed"] \in NodeState
  BY DEF State, NodeState, NodeStatus
<1> QED
  BY <1>1 DEF OnRecovered, State

\* cancelActive() and the status the run ends with.
LEMMA EndType ==
  ASSUME NEW st \in State, NEW how \in Terminal
  PROVE  End(st, how) \in State
<1>1. \A n \in Nodes : /\ st.nodes[n] \in NodeState
                       /\ [st.nodes[n] EXCEPT !.status = "cancelled"] \in NodeState
  BY DEF State, NodeState, NodeStatus
<1>2. CancelActive(st) \in State
  BY <1>1 DEF CancelActive, State
<1>3. how \in RunStatus
  BY DEF Terminal, RunStatus
<1> QED
  BY <1>2, <1>3 DEF End, State

\* starting nodes of the plan, with the timers the wait and human ones set.
LEMMA StartNodesType ==
  ASSUME NEW st \in State, NEW ns \in SUBSET Nodes
  PROVE  StartNodes(st, ns) \in State
<1>1. Starting(st, ns) \in [Nodes -> NodeState]
  <2>1. ASSUME NEW n \in Nodes, NEW s \in {"running", "waiting"}
        PROVE  [st.nodes[n] EXCEPT !.status = s] \in NodeState
    BY DEF State, NodeState, NodeStatus
  <2>2. \A n \in Nodes : st.nodes[n] \in NodeState
    BY DEF State
  <2> QED
    BY <2>1, <2>2 DEF Starting
<1>2. TimersOf(st, ns) \in SUBSET TimerId
  BY DEF TimersOf, RunOf, State, NodeState, TimerId, NodeRun
<1> QED
  BY <1>1, <1>2 DEF StartNodes, State

\* process(): the loop that ends a step.
LEMMA ProcessType ==
  ASSUME NEW st \in State, NEW late \in BOOLEAN
  PROVE  Process(st, late) \in State
<1>1. End(st, "timed_out") \in State /\ End(st, "failed") \in State
  BY EndType DEF Terminal
<1>2. StartNodes(st, Ready(st)) \in State
  BY StartNodesType DEF Ready
<1>3. ASSUME NEW s \in State PROVE Settle(s) \in State
  BY DEF Settle, State, RunStatus
<1> QED
  BY <1>1, <1>2, <1>3 DEF Process

\* What the code guarantees of the triggers it runs: a human response names a node.
Sound(t) == t.type = "human_response" => t.id \in Nodes

\* the handler of a trigger, before process().
LEMMA OnTriggerType ==
  ASSUME NEW st \in State, NEW t, Sound(t)
  PROVE  OnTrigger(st, t) \in State
<1>1. OnStart(st) \in State
  BY DEF OnStart, State, RunStatus
<1>2. OnNodeResult(st, t.id, t.result) \in State
  BY OnNodeResultType
<1>3. OnNodeTimer(st, t.id) \in State
  BY OnNodeTimerType
<1>4. t.type = "human_response" => OnHumanResponse(st, t.id) \in State
  BY OnHumanResponseType DEF Sound
<1>5. OnRecovered(st, t.id) \in State
  BY OnRecoveredType
<1>6. End(st, "timed_out") \in State /\ End(st, "cancelled") \in State
  BY EndType DEF Terminal
<1> QED
  BY <1>1, <1>2, <1>3, <1>4, <1>5, <1>6 DEF OnTrigger

\* step() takes a scheduler state to a scheduler state.
LEMMA StepType ==
  ASSUME NEW st \in State, NEW t, Sound(t), NEW late \in BOOLEAN
  PROVE  Step(st, t, late) \in State
BY OnTriggerType, ProcessType DEF Step

\* a run starts in a scheduler state.
LEMMA InitialStateType == InitialState \in State
BY DEF InitialState, State, RunStatus, NodeState, NodeStatus

----------------------------------------------------------------------------

(***************************************************************************)
(* The life cycle of a node.                                               *)
(***************************************************************************)
Restartable(n) == Idempotency[n] = "safe" \/ AllowOnIrreversible[n]

Move(n, x, y) ==
  \/ y = x
  \/ /\ x.status = "idle"
     /\ y = [status |-> IF Kind[n] = "task" THEN "running" ELSE "waiting",
             att |-> x.att, turn |-> x.turn]
  \/ /\ x.status \in Active
     /\ \E s \in Resolved : y = [status |-> s, att |-> x.att, turn |-> x.turn]
  \/ /\ x.status = "running"
     /\ \/ y = [status |-> "waiting", att |-> x.att, turn |-> x.turn]
        \/ /\ Restartable(n) /\ x.att < MaxAttempts[n]
           /\ y = [status |-> "retry_wait", att |-> x.att, turn |-> x.turn]
        \/ /\ Idempotency[n] = "safe"
           /\ y = [status |-> "idle", att |-> x.att + 1, turn |-> 0]
  \/ /\ x.status = "waiting" /\ Kind[n] = "task"
     /\ y = [status |-> "running", att |-> x.att, turn |-> x.turn + 1]
  \/ x.status = "retry_wait" /\ y = [status |-> "idle", att |-> x.att + 1, turn |-> 0]

Moves(a, b) == \A n \in Nodes : Move(n, a.nodes[n], b.nodes[n])

\* changing one node by a move.
LEMMA OneMove ==
  ASSUME NEW a \in State, NEW b \in State, NEW n \in Nodes,
         \A m \in Nodes \ {n} : b.nodes[m] = a.nodes[m],
         Move(n, a.nodes[n], b.nodes[n])
  PROVE  Moves(a, b)
BY DEF Moves, Move

\* a node of a state, written out.
LEMMA NodeFields ==
  ASSUME NEW s \in State, NEW n \in Nodes
  PROVE  /\ s.nodes[n] \in NodeState
         /\ s.nodes[n].status \in NodeStatus
         /\ s.nodes[n].att \in Nat /\ s.nodes[n].turn \in Nat
BY DEF State, NodeState

\* setting the status of one node changes nothing else.
LEMMA SetNodeEffect ==
  ASSUME NEW s \in State, NEW n \in Nodes, NEW status
  PROVE  /\ SetNode(s, n, status).run = s.run
         /\ SetNode(s, n, status).timers = s.timers
         /\ \A m \in Nodes \ {n} : SetNode(s, n, status).nodes[m] = s.nodes[m]
         /\ SetNode(s, n, status).nodes[n] = [status |-> status, att |-> s.nodes[n].att, turn |-> s.nodes[n].turn]
BY DEF SetNode, State, NodeState

\* Resume() changes the status of the run only.
LEMMA ResumeEffect ==
  ASSUME NEW s \in State
  PROVE  /\ Resume(s).nodes = s.nodes
         /\ Resume(s).timers = s.timers
         /\ Resume(s).run = IF s.run = "waiting" THEN "running" ELSE s.run
BY DEF Resume, State

\* a failed task waits for its retry, with its timer, or is failed.
LEMMA FailTaskEffect ==
  ASSUME NEW s \in State, NEW n \in Nodes, NEW retryable \in BOOLEAN
  PROVE  /\ FailTask(s, n, retryable).run = s.run
         /\ \A m \in Nodes \ {n} : FailTask(s, n, retryable).nodes[m] = s.nodes[m]
         /\ \/ /\ Restartable(n) /\ s.nodes[n].att < MaxAttempts[n]
               /\ FailTask(s, n, retryable).nodes[n] =
                    [status |-> "retry_wait", att |-> s.nodes[n].att, turn |-> s.nodes[n].turn]
               /\ FailTask(s, n, retryable).timers = s.timers \cup {RunOf(s, n)}
            \/ /\ FailTask(s, n, retryable).nodes[n] =
                    [status |-> "failed", att |-> s.nodes[n].att, turn |-> s.nodes[n].turn]
               /\ FailTask(s, n, retryable).timers = s.timers
<1>1. CASE retryable /\ MayRetry(s, n)
  BY <1>1 DEF FailTask, MayRetry, Restartable, SetNode, State, NodeState
<1>2. CASE ~(retryable /\ MayRetry(s, n))
  BY <1>2, SetNodeEffect DEF FailTask
<1> QED
  BY <1>1, <1>2

\* a task that asks waits.
LEMMA AskEffect ==
  ASSUME NEW s \in State, NEW n \in Nodes
  PROVE  /\ Ask(s, n).run = s.run
         /\ \A m \in Nodes \ {n} : Ask(s, n).nodes[m] = s.nodes[m]
         /\ Ask(s, n).nodes[n] =
              [status |-> "waiting", att |-> s.nodes[n].att, turn |-> s.nodes[n].turn]
         /\ Ask(s, n).timers = s.timers \cup IF Expires[n] THEN {RunOf(s, n)} ELSE {}
BY DEF Ask, SetNode, State, NodeState

\* What nodeResult() does to a state: nothing, or the node that runs is over, waits for
\* its retry, or waits for the person it asked.
Receives(a, b, n) ==
  /\ n \in Nodes /\ a.nodes[n].status = "running"
  /\ b.run = a.run
  /\ \A m \in Nodes \ {n} : b.nodes[m] = a.nodes[m]
  /\ \/ /\ \E s \in {"completed", "failed"} :
             b.nodes[n] = [status |-> s, att |-> a.nodes[n].att, turn |-> a.nodes[n].turn]
        /\ b.timers = a.timers
     \/ /\ Restartable(n) /\ a.nodes[n].att < MaxAttempts[n]
        /\ b.nodes[n] = [status |-> "retry_wait", att |-> a.nodes[n].att, turn |-> a.nodes[n].turn]
        /\ b.timers = a.timers \cup {RunOf(a, n)}
     \/ /\ b.nodes[n] = [status |-> "waiting", att |-> a.nodes[n].att, turn |-> a.nodes[n].turn]
        /\ b.timers = a.timers \cup IF Expires[n] THEN {RunOf(a, n)} ELSE {}

\* a result is received by the node run it is of, or does nothing.
LEMMA OnNodeResultEffect ==
  ASSUME NEW a \in State, NEW id, NEW result
  PROVE  LET b == OnNodeResult(a, id, result)
         IN  b = a \/ (Current(a, id) /\ Receives(a, b, id[1]))
<1> SUFFICES ASSUME NEW b, b = OnNodeResult(a, id, result), NEW n, n = id[1],
                    Current(a, id), a.nodes[n].status = "running"
             PROVE  Receives(a, b, n)
  BY DEF OnNodeResult, StatusOf
<1>1. n \in Nodes
  BY DEF Current, NodeRun
<1>2. b \in {SetNode(a, n, "completed"), Ask(a, n), FailTask(a, n, result = "error")}
  BY DEF OnNodeResult, StatusOf
<1>3. CASE b = SetNode(a, n, "completed")
  BY <1>1, <1>3, SetNodeEffect DEF Receives
<1>4. CASE b = Ask(a, n)
  BY <1>1, <1>4, AskEffect DEF Receives
<1>5. CASE \E retryable \in BOOLEAN : b = FailTask(a, n, retryable)
  BY <1>1, <1>5, FailTaskEffect DEF Receives
<1>6. (result = "error") \in BOOLEAN
  OBVIOUS
<1>7. b = FailTask(a, n, result = "error") => \E retryable \in BOOLEAN : b = FailTask(a, n, retryable)
  BY <1>6, Zenon
<1> QED
  BY <1>2, <1>3, <1>4, <1>5, <1>7

\* nodeResult() moves the node that runs, or nothing.
LEMMA OnNodeResultMoves ==
  ASSUME NEW a \in State, NEW id, NEW result
  PROVE  Moves(a, OnNodeResult(a, id, result))
<1> SUFFICES ASSUME NEW b, b = OnNodeResult(a, id, result), NEW n, n = id[1]
             PROVE  Moves(a, b)
  OBVIOUS
<1>1. b \in State
  BY OnNodeResultType
<1>2. CASE Receives(a, b, n)
  <2>1. Move(n, a.nodes[n], b.nodes[n])
    BY <1>2 DEF Receives, Move, Active, Resolved
  <2> QED
    BY <1>1, <1>2, <2>1, OneMove DEF Receives
<1>3. CASE b = a
  BY <1>3 DEF Moves, Move
<1> QED
  BY <1>2, <1>3, OnNodeResultEffect

\* What timer() does to a state: nothing; closes the timer; or closes it and wakes
\* the node that waits, with which a parked run resumes.
Closes(a, b, id) ==
  /\ b.timers = a.timers \ {id} /\ b.nodes = a.nodes /\ b.run = a.run
  /\ \/ ~Current(a, id)
     \/ /\ a.nodes[id[1]].status # "waiting"
        /\ Kind[id[1]] # "task" \/ a.nodes[id[1]].status # "retry_wait" \/ id # RunOf(a, id[1])

Wakes(a, b, id) ==
  /\ b.timers = a.timers \ {id} /\ Current(a, id)
  /\ b.run = IF a.run = "waiting" THEN "running" ELSE a.run
  /\ \A m \in Nodes \ {id[1]} : b.nodes[m] = a.nodes[m]
  /\ \/ /\ a.nodes[id[1]].status = "retry_wait"
        /\ b.nodes[id[1]] = [status |-> "idle", att |-> a.nodes[id[1]].att + 1, turn |-> 0]
     \/ /\ a.nodes[id[1]].status = "waiting"
        /\ \E s \in {"completed", "failed"} :
             b.nodes[id[1]] = [status |-> s, att |-> a.nodes[id[1]].att, turn |-> a.nodes[id[1]].turn]

\* a node timer the run does not know does nothing; another closes itself or wakes
\* its node.
LEMMA OnNodeTimerEffect ==
  ASSUME NEW a \in State, NEW id
  PROVE  LET b == OnNodeTimer(a, id)
         IN  (b = a /\ id \notin a.timers) \/ Closes(a, b, id) \/ Wakes(a, b, id)
<1> DEFINE n    == id[1]
           gone == [a EXCEPT !.timers = @ \ {id}]
<1> SUFFICES ASSUME NEW b, b = OnNodeTimer(a, id)
             PROVE  (b = a /\ id \notin a.timers) \/ Closes(a, b, id) \/ Wakes(a, b, id)
  OBVIOUS
<1>1. /\ gone \in State /\ gone.timers = a.timers \ {id}
      /\ gone.nodes = a.nodes /\ gone.run = a.run
  BY DEF State
<1> HIDE DEF gone
<1>2. CASE id \notin a.timers
  BY <1>2 DEF OnNodeTimer
<1>3. CASE id \in a.timers /\ ~Current(a, id)
  <2>1. b = gone
    BY <1>3 DEF OnNodeTimer, gone
  <2> QED
    BY <1>1, <1>3, <2>1 DEF Closes
<1>4. CASE id \in a.timers /\ Current(a, id)
  <2>1. n \in Nodes
    BY <1>4 DEF Current, NodeRun
  <2>2. CASE Kind[n] = "task" /\ a.nodes[n].status = "retry_wait" /\ id = RunOf(a, n)
    <3>1. b = Resume(NextAttempt(gone, n))
      BY <1>4, <2>2 DEF OnNodeTimer, StatusOf, gone
    <3>2. /\ NextAttempt(gone, n) \in State
          /\ NextAttempt(gone, n).run = a.run
          /\ NextAttempt(gone, n).timers = a.timers \ {id}
          /\ \A m \in Nodes \ {n} : NextAttempt(gone, n).nodes[m] = a.nodes[m]
          /\ NextAttempt(gone, n).nodes[n] = [status |-> "idle", att |-> a.nodes[n].att + 1, turn |-> 0]
      <4>1. NextAttempt(gone, n) \in State
        BY <1>1, <2>1, NextAttemptType
      <4> QED
        BY <4>1, <1>1, <2>1 DEF NextAttempt, State
    <3> QED
      BY <1>4, <2>2, <3>1, <3>2, ResumeEffect DEF Wakes
  <2>3. CASE /\ a.nodes[n].status # "waiting"
             /\ ~(Kind[n] = "task" /\ a.nodes[n].status = "retry_wait" /\ id = RunOf(a, n))
    <3>1. b = gone
      BY <1>4, <2>3 DEF OnNodeTimer, StatusOf, gone
    <3> QED
      BY <1>1, <2>3, <3>1 DEF Closes
  <2>4. CASE a.nodes[n].status = "waiting"
    <3>1. \/ b = Resume(SetNode(gone, n, "completed"))
          \/ b = Resume(SetNode(gone, n, "failed"))
      BY <1>4, <2>4 DEF OnNodeTimer, StatusOf, gone
    <3>2. ASSUME NEW g, g = SetNode(gone, n, "completed") \/ g = SetNode(gone, n, "failed")
          PROVE  /\ g \in State /\ g.run = a.run /\ g.timers = a.timers \ {id}
                 /\ \A m \in Nodes \ {n} : g.nodes[m] = a.nodes[m]
                 /\ \E x \in {"completed", "failed"} :
                      g.nodes[n] = [status |-> x, att |-> a.nodes[n].att, turn |-> a.nodes[n].turn]
      <4>1. g \in State
        BY <1>1, <2>1, <3>2, SetNodeType DEF NodeStatus
      <4> QED
        BY <4>1, <1>1, <2>1, <3>2, SetNodeEffect
    <3>3. PICK g : /\ b = Resume(g)
                   /\ g = SetNode(gone, n, "completed") \/ g = SetNode(gone, n, "failed")
      BY <3>1
    <3> QED
      BY <1>4, <2>4, <3>2, <3>3, ResumeEffect DEF Wakes
  <2> QED
    BY <2>2, <2>3, <2>4
<1> QED
  BY <1>2, <1>3, <1>4

\* timer() moves the node that waits for the timer, or nothing.
LEMMA OnNodeTimerMoves ==
  ASSUME NEW a \in State, NEW id
  PROVE  Moves(a, OnNodeTimer(a, id))
<1> SUFFICES ASSUME NEW b, b = OnNodeTimer(a, id), NEW n, n = id[1]
             PROVE  Moves(a, b)
  OBVIOUS
<1>1. b \in State
  BY OnNodeTimerType
<1>2. CASE b = a \/ Closes(a, b, id)
  BY <1>2 DEF Closes, Moves, Move
<1>3. CASE Wakes(a, b, id)
  <2>1. n \in Nodes
    BY <1>3 DEF Wakes, Current, NodeRun
  <2>2. Move(n, a.nodes[n], b.nodes[n])
    BY <1>3 DEF Wakes, Move, Active, Resolved
  <2> QED
    BY <1>1, <1>3, <2>1, <2>2, OneMove DEF Wakes
<1> QED
  BY <1>2, <1>3, OnNodeTimerEffect

\* What humanResponse() does to a state: nothing, or the node that waits is completed
\* or, a task, executed again.
Answers(a, b, n) ==
  /\ a.nodes[n].status = "waiting" /\ b.timers = a.timers
  /\ b.run = IF a.run = "waiting" THEN "running" ELSE a.run
  /\ \A m \in Nodes \ {n} : b.nodes[m] = a.nodes[m]
  /\ \/ /\ Kind[n] = "human"
        /\ b.nodes[n] = [status |-> "completed", att |-> a.nodes[n].att, turn |-> a.nodes[n].turn]
     \/ /\ Kind[n] = "task"
        /\ b.nodes[n] = [status |-> "running", att |-> a.nodes[n].att, turn |-> a.nodes[n].turn + 1]

\* an answer is taken by the node that waits for it, or does nothing.
LEMMA OnHumanResponseEffect ==
  ASSUME NEW a \in State, NEW n \in Nodes
  PROVE  LET b == OnHumanResponse(a, n)
         IN  /\ b = a \/ Answers(a, b, n)
             /\ a.nodes[n].status = "waiting" /\ Kind[n] # "wait" => Answers(a, b, n)
<1>1. SetNode(a, n, "completed") \in State
  BY SetNodeType DEF NodeStatus
<1>2. /\ Reexecute(a, n) \in State
      /\ Reexecute(a, n).run = a.run /\ Reexecute(a, n).timers = a.timers
      /\ \A m \in Nodes \ {n} : Reexecute(a, n).nodes[m] = a.nodes[m]
      /\ Reexecute(a, n).nodes[n] =
           [status |-> "running", att |-> a.nodes[n].att, turn |-> a.nodes[n].turn + 1]
  <2>1. Reexecute(a, n) \in State
    BY ReexecuteType
  <2> QED
    BY <2>1 DEF Reexecute, State
<1>3. Kind[n] \in {"task", "wait", "human"}
  BY PlanAssumption
<1>4. CASE Kind[n] = "human" /\ a.nodes[n].status = "waiting"
  <2>1. OnHumanResponse(a, n) = Resume(SetNode(a, n, "completed"))
    BY <1>4 DEF OnHumanResponse
  <2> QED
    BY <1>1, <1>4, <2>1, SetNodeEffect, ResumeEffect DEF Answers
<1>5. CASE Kind[n] = "task" /\ a.nodes[n].status = "waiting"
  <2>1. OnHumanResponse(a, n) = Resume(Reexecute(a, n))
    BY <1>5 DEF OnHumanResponse
  <2> QED
    BY <1>2, <1>5, <2>1, ResumeEffect DEF Answers
<1>6. CASE Kind[n] = "wait" \/ a.nodes[n].status # "waiting"
  BY <1>6 DEF OnHumanResponse
<1> QED
  BY <1>3, <1>4, <1>5, <1>6

\* an answer is a move of its node.
LEMMA OnHumanResponseMoves ==
  ASSUME NEW a \in State, NEW n \in Nodes
  PROVE  Moves(a, OnHumanResponse(a, n))
<1> SUFFICES ASSUME NEW b, b = OnHumanResponse(a, n)
             PROVE  Moves(a, b)
  OBVIOUS
<1>1. b \in State
  BY OnHumanResponseType
<1>2. CASE b = a
  BY <1>2 DEF Moves, Move
<1>3. CASE Answers(a, b, n)
  <2>1. Move(n, a.nodes[n], b.nodes[n])
    BY <1>3 DEF Answers, Move, Active, Resolved
  <2> QED
    BY <1>1, <1>3, <2>1, OneMove DEF Answers
<1> QED
  BY <1>2, <1>3, OnHumanResponseEffect

\* recovered() changes the nodes that run, and them by a move, and nothing else.
LEMMA OnRecoveredEffect ==
  ASSUME NEW a \in State, NEW lost
  PROVE  LET b == OnRecovered(a, lost)
         IN  /\ b.run = a.run /\ b.timers = a.timers
             /\ Moves(a, b)
             /\ \A n \in Nodes : a.nodes[n].status # "running" => b.nodes[n] = a.nodes[n]
             /\ \A n \in Nodes : b.nodes[n] = a.nodes[n] \/ b.nodes[n].status \in {"idle", "failed"}
<1> SUFFICES ASSUME NEW b, b = OnRecovered(a, lost)
             PROVE  /\ b.run = a.run /\ b.timers = a.timers
                    /\ Moves(a, b)
                    /\ \A n \in Nodes : a.nodes[n].status # "running" => b.nodes[n] = a.nodes[n]
                    /\ \A n \in Nodes : b.nodes[n] = a.nodes[n] \/ b.nodes[n].status \in {"idle", "failed"}
  OBVIOUS
<1>1. b.run = a.run /\ b.timers = a.timers
  BY DEF OnRecovered, State
<1>2. ASSUME NEW n \in Nodes
      PROVE  \/ b.nodes[n] = a.nodes[n]
             \/ /\ a.nodes[n].status = "running"
                /\ \/ /\ Idempotency[n] = "safe"
                      /\ b.nodes[n] = [status |-> "idle", att |-> a.nodes[n].att + 1, turn |-> 0]
                   \/ b.nodes[n] = [status |-> "failed", att |-> a.nodes[n].att, turn |-> a.nodes[n].turn]
  BY NodeFields DEF OnRecovered, State, NodeState
<1>3. ASSUME NEW n \in Nodes
      PROVE  Move(n, a.nodes[n], b.nodes[n])
  BY <1>2 DEF Move, Active, Resolved
<1>4. ASSUME NEW n \in Nodes
      PROVE  /\ a.nodes[n].status # "running" => b.nodes[n] = a.nodes[n]
             /\ b.nodes[n] = a.nodes[n] \/ b.nodes[n].status \in {"idle", "failed"}
  BY NodeFields DEF OnRecovered, State, NodeState
<1> QED
  BY <1>1, <1>3, <1>4 DEF Moves

\* the end of a run cancels what was active and leaves nothing active.
LEMMA EndEffect ==
  ASSUME NEW a \in State, NEW how \in Terminal
  PROVE  LET b == End(a, how)
         IN  /\ b.run = how /\ b.timers = a.timers
             /\ Moves(a, b)
             /\ \A n \in Nodes : b.nodes[n].status \notin Active
<1> SUFFICES ASSUME NEW b, b = End(a, how)
             PROVE  /\ b.run = how /\ b.timers = a.timers
                    /\ Moves(a, b)
                    /\ \A n \in Nodes : b.nodes[n].status \notin Active
  OBVIOUS
<1>1. b.run = how /\ b.timers = a.timers
  BY DEF End, CancelActive, State
<1>2. ASSUME NEW n \in Nodes
      PROVE  \/ a.nodes[n].status \notin Active /\ b.nodes[n] = a.nodes[n]
             \/ /\ a.nodes[n].status \in Active
                /\ b.nodes[n] = [status |-> "cancelled", att |-> a.nodes[n].att, turn |-> a.nodes[n].turn]
  BY NodeFields DEF End, CancelActive, State, NodeState
<1>3. ASSUME NEW n \in Nodes
      PROVE  Move(n, a.nodes[n], b.nodes[n]) /\ b.nodes[n].status \notin Active
  BY <1>2 DEF Move, Active, Resolved
<1> QED
  BY <1>1, <1>3 DEF Moves

\* A node that sets a timer when it waits.
SetsTimer(n) == Kind[n] = "wait" \/ (Kind[n] = "human" /\ Expires[n])

\* starting the ready nodes: they run or wait, the others stay as they are.
LEMMA StartNodesEffect ==
  ASSUME NEW a \in State, NEW ns \in SUBSET Nodes
  PROVE  LET b == StartNodes(a, ns)
         IN  /\ b.run = a.run
             /\ \A n \in Nodes \ ns : b.nodes[n] = a.nodes[n]
             /\ \A n \in ns : b.nodes[n] =
                  [status |-> IF Kind[n] = "task" THEN "running" ELSE "waiting",
                   att |-> a.nodes[n].att, turn |-> a.nodes[n].turn]
             /\ a.timers \subseteq b.timers
             /\ \A n \in ns : SetsTimer(n) => RunOf(a, n) \in b.timers
<1> SUFFICES ASSUME NEW b, b = StartNodes(a, ns)
             PROVE  /\ b.run = a.run
                    /\ \A n \in Nodes \ ns : b.nodes[n] = a.nodes[n]
                    /\ \A n \in ns : b.nodes[n] =
                         [status |-> IF Kind[n] = "task" THEN "running" ELSE "waiting",
                          att |-> a.nodes[n].att, turn |-> a.nodes[n].turn]
                    /\ a.timers \subseteq b.timers
                    /\ \A n \in ns : SetsTimer(n) => RunOf(a, n) \in b.timers
  OBVIOUS
<1>1. b.run = a.run /\ b.nodes = Starting(a, ns)
  BY DEF StartNodes, State
<1>2. b.timers = a.timers \cup {RunOf(a, n) : n \in {m \in ns : SetsTimer(m)}}
  BY DEF StartNodes, TimersOf, SetsTimer, State
<1>3. ASSUME NEW n \in ns
      PROVE  Starting(a, ns)[n] =
               [status |-> IF Kind[n] = "task" THEN "running" ELSE "waiting",
                att |-> a.nodes[n].att, turn |-> a.nodes[n].turn]
  BY NodeFields DEF Starting, NodeState
<1>4. ASSUME NEW n \in Nodes \ ns
      PROVE  Starting(a, ns)[n] = a.nodes[n]
  BY DEF Starting
<1> QED
  BY <1>1, <1>2, <1>3, <1>4

\* the ready nodes are idle nodes.
LEMMA ReadyIdle ==
  ASSUME NEW a
  PROVE  Ready(a) \in SUBSET Nodes /\ \A n \in Ready(a) : a.nodes[n].status = "idle"
BY DEF Ready

\* every handler moves each node at most once.
LEMMA OnTriggerMoves ==
  ASSUME NEW a \in State, NEW t, Sound(t)
  PROVE  Moves(a, OnTrigger(a, t))
<1>1. Moves(a, OnStart(a))
  BY DEF Moves, Move, OnStart, State
<1>2. Moves(a, OnNodeResult(a, t.id, t.result))
  BY OnNodeResultMoves
<1>3. Moves(a, OnNodeTimer(a, t.id))
  BY OnNodeTimerMoves
<1>4. t.type = "human_response" => Moves(a, OnHumanResponse(a, t.id))
  BY OnHumanResponseMoves DEF Sound
<1>5. Moves(a, OnRecovered(a, t.id))
  BY OnRecoveredEffect
<1>6. Moves(a, End(a, "timed_out")) /\ Moves(a, End(a, "cancelled"))
  BY EndEffect DEF Terminal
<1>7. Moves(a, a)
  BY DEF Moves, Move
<1> QED
  BY <1>1, <1>2, <1>3, <1>4, <1>5, <1>6, <1>7 DEF OnTrigger

\* process() moves each node at most once.
LEMMA ProcessMoves ==
  ASSUME NEW a \in State, NEW late \in BOOLEAN
  PROVE  Moves(a, Process(a, late))
<1>1. Moves(a, End(a, "timed_out")) /\ Moves(a, End(a, "failed"))
  BY EndEffect DEF Terminal
<1>2. Moves(a, Settle(StartNodes(a, Ready(a))))
  <2> SUFFICES ASSUME NEW b, b = StartNodes(a, Ready(a)), b \in State
               PROVE  Moves(a, Settle(b))
    BY StartNodesType, ReadyIdle
  <2>1. Settle(b).nodes = b.nodes
    BY DEF Settle, State
  <2>2. ASSUME NEW n \in Nodes PROVE Move(n, a.nodes[n], b.nodes[n])
    BY StartNodesEffect, ReadyIdle DEF Move
  <2> QED
    BY <2>1, <2>2 DEF Moves
<1>3. Moves(a, a)
  BY DEF Moves, Move
<1> QED
  BY <1>1, <1>2, <1>3 DEF Process

-----------------------------------------------------------------------------
(***************************************************************************)
(* A node that must not be repeated, and the end of a node run.            *)
(***************************************************************************)
\* What every move of every node keeps: only tasks run or await a retry; who awaits a
\* retry may have one; who may not be repeated is at the first attempt, or within its
\* policy.
TidyNode(n, x) ==
  /\ x.att >= 1 /\ (x.status = "idle" => x.turn = 0)
  /\ x.status \in {"running", "retry_wait"} => Kind[n] = "task"
  /\ x.status = "retry_wait" => Restartable(n) /\ x.att < MaxAttempts[n]
  /\ Idempotency[n] = "none" =>
       x.att <= IF AllowOnIrreversible[n] THEN MaxAttempts[n] ELSE 1
Tidy(a) == \A n \in Nodes : TidyNode(n, a.nodes[n])

\* a move keeps a node tidy.
LEMMA MoveTidy ==
  ASSUME NEW n \in Nodes, NEW x \in NodeState, NEW y \in NodeState,
         Move(n, x, y), TidyNode(n, x)
  PROVE  TidyNode(n, y)
<1>1. x.att \in Nat /\ MaxAttempts[n] \in Nat
  BY PlanAssumption DEF NodeState
<1>2. Idempotency[n] \in {"none", "safe"}
  BY PlanAssumption
<1>3. CASE y.att = x.att
  <2>1. y.status \in {"running", "retry_wait"} => Kind[n] = "task"
    BY <1>3 DEF Move, TidyNode, Active, Resolved
  <2>2. y.status = "retry_wait" => Restartable(n) /\ y.att < MaxAttempts[n]
    BY <1>3 DEF Move, TidyNode, Active, Resolved
  <2>3. y.status = "idle" => y = x
    BY <1>1, <1>3 DEF Move, Resolved
  <2> QED
    BY <1>3, <2>1, <2>2, <2>3 DEF TidyNode
<1>4. CASE y.att # x.att
  <2>1. /\ y = [status |-> "idle", att |-> x.att + 1, turn |-> 0]
        /\ x.status = "retry_wait" \/ Idempotency[n] = "safe"
    BY <1>4 DEF Move
  <2>2. Idempotency[n] = "none" => x.att < MaxAttempts[n] /\ AllowOnIrreversible[n]
    BY <1>2, <2>1 DEF TidyNode, Restartable
  <2> QED
    BY <1>1, <2>1, <2>2 DEF TidyNode
<1> QED
  BY <1>3, <1>4

\* moves keep nodes tidy.
LEMMA MovesTidy ==
  ASSUME NEW a \in State, NEW b \in State, Moves(a, b), Tidy(a)
  PROVE  Tidy(b)
BY NodeFields, MoveTidy DEF Tidy, Moves

\* moves leave what is over as it is.
LEMMA MovesFinal ==
  ASSUME NEW a \in State, NEW b \in State, Moves(a, b)
  PROVE  \A n \in Nodes : a.nodes[n].status \in Resolved => b.nodes[n] = a.nodes[n]
BY DEF Moves, Move, Resolved, Active

\* A step is up to two moves of each node, through the state process() starts from.
LEMMA StepMoves ==
  ASSUME NEW a \in State, NEW t, Sound(t), NEW late \in BOOLEAN,
         a.run \notin Terminal
  PROVE  LET s == OnTrigger(a, t)
         IN  /\ s \in State /\ Step(a, t, late) \in State
             /\ Moves(a, s) /\ Moves(s, Step(a, t, late))
             /\ Step(a, t, late) = Process(s, late)
BY OnTriggerType, OnTriggerMoves, ProcessType, ProcessMoves DEF Step

\* a whole step keeps nodes tidy.
LEMMA StepTidy ==
  ASSUME NEW a \in State, NEW t, Sound(t), NEW late \in BOOLEAN, Tidy(a)
  PROVE  Tidy(Step(a, t, late))
<1>1. CASE a.run \in Terminal
  BY <1>1 DEF Step
<1>2. CASE a.run \notin Terminal
  BY <1>2, StepMoves, MovesTidy
<1> QED
  BY <1>1, <1>2

\* idle nodes at their first attempt are tidy.
LEMMA InitialTidy == Tidy(InitialState)
BY PlanAssumption DEF Tidy, TidyNode, InitialState

-----------------------------------------------------------------------------
(***************************************************************************)
(* Whatever waits has an open timer, unless it asked without a time limit. *)
(***************************************************************************)
Waiting(x) == x.status \in {"waiting", "retry_wait"}
Timeless(n, x) == x.status = "waiting" /\ Kind[n] # "wait" /\ ~Expires[n]
Timed(a) ==
  \A n \in Nodes : Waiting(a.nodes[n]) => RunOf(a, n) \in a.timers \/ Timeless(n, a.nodes[n])

\* nothing waits that did not, and no timer is closed.
LEMMA NoNewWaiters ==
  ASSUME NEW a, NEW b, Timed(a), a.timers \subseteq b.timers,
         \A n \in Nodes : b.nodes[n] = a.nodes[n] \/ ~Waiting(b.nodes[n])
  PROVE  Timed(b)
BY DEF Timed, Timeless, Waiting, RunOf

\* a failed task that waits for its retry has set the timer, and one that asks with a
\* time limit too.
LEMMA OnNodeResultTimed ==
  ASSUME NEW a \in State, NEW id, NEW result, Timed(a), Tidy(a)
  PROVE  Timed(OnNodeResult(a, id, result))
<1> SUFFICES ASSUME NEW b, b = OnNodeResult(a, id, result), NEW n, n = id[1], Receives(a, b, n)
             PROVE  Timed(b)
  BY OnNodeResultEffect
<1>1. n \in Nodes /\ Kind[n] = "task"
  BY DEF Receives, Tidy, TidyNode
<1>2. a.timers \subseteq b.timers
  BY DEF Receives
<1>3. Waiting(b.nodes[n]) => RunOf(b, n) \in b.timers \/ Timeless(n, b.nodes[n])
  BY <1>1 DEF Receives, Waiting, Timeless, RunOf
<1>4. ASSUME NEW m \in Nodes \ {n}
      PROVE  b.nodes[m] = a.nodes[m]
  BY DEF Receives
<1> QED
  BY <1>2, <1>3, <1>4 DEF Timed, RunOf

\* the timer that timer() closes is one nobody waits for any longer.
LEMMA OnNodeTimerTimed ==
  ASSUME NEW a \in State, NEW id, Timed(a), Tidy(a)
  PROVE  Timed(OnNodeTimer(a, id))
<1> SUFFICES ASSUME NEW b, b = OnNodeTimer(a, id),
                    NEW m \in Nodes, Waiting(b.nodes[m]), ~Timeless(m, b.nodes[m])
             PROVE  RunOf(b, m) \in b.timers
  BY DEF Timed
<1>1. CASE b = a
  BY <1>1 DEF Timed
<1>2. CASE Closes(a, b, id)
  <2>1. b.nodes[m] = a.nodes[m] /\ RunOf(b, m) = RunOf(a, m) /\ RunOf(a, m) \in a.timers
    BY <1>2 DEF Closes, Timed, RunOf
  <2>2. RunOf(a, m) # id
    <3> SUFFICES ASSUME RunOf(a, m) = id PROVE FALSE
      OBVIOUS
    <3>1. Current(a, id) /\ id[1] = m
      BY NodeFields DEF Current, NodeRun, RunOf, SameRun
    <3>2. Kind[m] # "task" /\ a.nodes[m].status = "retry_wait"
      BY <1>2, <2>1, <3>1 DEF Closes, Waiting
    <3> QED
      BY <3>2 DEF Tidy, TidyNode
  <2> QED
    BY <1>2, <2>1, <2>2 DEF Closes
<1>3. CASE Wakes(a, b, id)
  <2>1. id[1] # m
    BY <1>3 DEF Wakes, Waiting
  <2>2. b.nodes[m] = a.nodes[m] /\ RunOf(b, m) = RunOf(a, m) /\ RunOf(a, m) # id
    BY <1>3, <2>1 DEF Wakes, RunOf
  <2>3. RunOf(a, m) \in a.timers
    BY <2>2 DEF Timed
  <2> QED
    BY <1>3, <2>2, <2>3 DEF Wakes
<1> QED
  BY <1>1, <1>2, <1>3, OnNodeTimerEffect

\* every handler keeps what waits timed.
LEMMA OnTriggerTimed ==
  ASSUME NEW a \in State, NEW t, Sound(t), Timed(a), Tidy(a)
  PROVE  Timed(OnTrigger(a, t))
<1>1. Timed(OnStart(a))
  BY DEF Timed, RunOf, OnStart, State
<1>2. Timed(OnNodeResult(a, t.id, t.result))
  BY OnNodeResultTimed
<1>3. Timed(OnNodeTimer(a, t.id))
  BY OnNodeTimerTimed
<1>4. ASSUME NEW n \in Nodes PROVE Timed(OnHumanResponse(a, n))
  <2> SUFFICES ASSUME NEW b, b = OnHumanResponse(a, n), Answers(a, b, n) PROVE Timed(b)
    BY OnHumanResponseEffect
  <2>1. ~Waiting(b.nodes[n])
    BY DEF Answers, Waiting
  <2> QED
    BY <2>1, NoNewWaiters DEF Answers
<1>5. Timed(OnRecovered(a, t.id))
  <2> SUFFICES ASSUME NEW b, b = OnRecovered(a, t.id) PROVE Timed(b)
    OBVIOUS
  <2> QED
    BY OnRecoveredEffect, NoNewWaiters DEF Waiting
<1>6. ASSUME NEW how \in Terminal PROVE Timed(End(a, how))
  <2> SUFFICES ASSUME NEW b, b = End(a, how) PROVE Timed(b)
    OBVIOUS
  <2> QED
    BY EndEffect DEF Timed, Waiting, Active
<1>7. "timed_out" \in Terminal /\ "cancelled" \in Terminal
  BY DEF Terminal
<1> QED
  BY <1>1, <1>2, <1>3, <1>4, <1>5, <1>6, <1>7 DEF OnTrigger, Sound

\* process() sets a timer for whatever it lets wait.
LEMMA ProcessTimed ==
  ASSUME NEW a \in State, NEW late \in BOOLEAN, Timed(a)
  PROVE  Timed(Process(a, late))
<1>1. ASSUME NEW how \in Terminal PROVE Timed(End(a, how))
  <2> SUFFICES ASSUME NEW b, b = End(a, how) PROVE Timed(b)
    OBVIOUS
  <2> QED
    BY EndEffect DEF Timed, Waiting, Active
<1>2. Timed(Settle(StartNodes(a, Ready(a))))
  <2> SUFFICES ASSUME NEW b, b = StartNodes(a, Ready(a)), b \in State
               PROVE  Timed(Settle(b))
    BY StartNodesType, ReadyIdle
  <2>1. Settle(b).nodes = b.nodes /\ Settle(b).timers = b.timers
    BY DEF Settle, State
  <2>2. Timed(b)
    <3> SUFFICES ASSUME NEW n \in Nodes, Waiting(b.nodes[n])
                 PROVE  RunOf(b, n) \in b.timers \/ Timeless(n, b.nodes[n])
      BY DEF Timed
    <3>1. CASE n \in Ready(a)
      <4>1. b.nodes[n] = [status |-> IF Kind[n] = "task" THEN "running" ELSE "waiting",
                          att |-> a.nodes[n].att, turn |-> a.nodes[n].turn]
        BY <3>1, StartNodesEffect, ReadyIdle
      <4>2. Kind[n] # "task" /\ RunOf(b, n) = RunOf(a, n) /\ b.nodes[n].status = "waiting"
        BY <4>1 DEF Waiting, RunOf
      <4>3. Kind[n] \in {"task", "wait", "human"}
        BY PlanAssumption
      <4>4. SetsTimer(n) => RunOf(a, n) \in b.timers
        BY <3>1, StartNodesEffect, ReadyIdle
      <4> QED
        BY <4>2, <4>3, <4>4 DEF SetsTimer, Timeless
    <3>2. CASE n \notin Ready(a)
      <4>1. b.nodes[n] = a.nodes[n] /\ a.timers \subseteq b.timers
        BY <3>2, StartNodesEffect, ReadyIdle
      <4> QED
        BY <4>1 DEF Timed, RunOf
    <3> QED
      BY <3>1, <3>2
  <2> QED
    BY <2>1, <2>2 DEF Timed, RunOf
<1>3. "timed_out" \in Terminal /\ "failed" \in Terminal
  BY DEF Terminal
<1> QED
  BY <1>1, <1>2, <1>3 DEF Process

\* a whole step keeps it.
LEMMA StepTimed ==
  ASSUME NEW a \in State, NEW t, Sound(t), NEW late \in BOOLEAN, Tidy(a), Timed(a)
  PROVE  Timed(Step(a, t, late))
<1>1. CASE a.run \in Terminal
  BY <1>1 DEF Step
<1>2. CASE a.run \notin Terminal
  <2>1. Timed(OnTrigger(a, t)) /\ OnTrigger(a, t) \in State
    BY OnTriggerTimed, OnTriggerType
  <2> QED
    BY <1>2, <2>1, ProcessTimed DEF Step
<1> QED
  BY <1>1, <1>2

-----------------------------------------------------------------------------
(***************************************************************************)
(* Every step ends settled.                                                *)
(***************************************************************************)
SettledState(a) ==
  /\ a.run \in {"running", "waiting"} => ~Failed(a) /\ Ready(a) = {} /\ AnyActive(a)
  /\ a.run = "running" => AnyRunning(a)
  /\ a.run = "waiting" => ~AnyRunning(a)
  /\ a.run \in Terminal \cup {"queued"} => ~AnyActive(a)

\* What a handler leaves process(): a run that runs, one as it was, or one that ended.
Handled(a, b) ==
  \/ b.run = "running"
  \/ b.run = a.run /\ b.nodes = a.nodes
  \/ b.run \in Terminal /\ ~AnyActive(b)

\* the end of a run leaves nothing active.
LEMMA EndHandled ==
  ASSUME NEW a \in State, NEW how \in Terminal
  PROVE  End(a, how).run = how /\ ~AnyActive(End(a, how))
BY EndEffect DEF AnyActive

\* every handler leaves process() a run it can settle.
LEMMA OnTriggerHandled ==
  ASSUME NEW a \in State, NEW t, Sound(t), SettledState(a), a.run \notin Terminal
  PROVE  Handled(a, OnTrigger(a, t))
<1>1. a.run \in {"queued", "running", "waiting"}
  BY DEF State, RunStatus, Terminal
<1>2. /\ a.run = "queued" => \A n \in Nodes : a.nodes[n].status \notin Active
      /\ a.run = "waiting" => \A n \in Nodes : a.nodes[n].status # "running"
  BY DEF SettledState, AnyActive, AnyRunning
<1>3. Handled(a, OnStart(a))
  BY <1>1 DEF Handled, OnStart, State
<1>4. Handled(a, OnNodeResult(a, t.id, t.result))
  <2> SUFFICES ASSUME NEW b, b = OnNodeResult(a, t.id, t.result), NEW n, Receives(a, b, n)
               PROVE  Handled(a, b)
    BY OnNodeResultEffect DEF Handled
  <2>1. a.run = "running"
    BY <1>1, <1>2 DEF Receives, Active
  <2> QED
    BY <2>1 DEF Receives, Handled
<1>5. Handled(a, OnNodeTimer(a, t.id))
  <2> SUFFICES ASSUME NEW b, b = OnNodeTimer(a, t.id) PROVE Handled(a, b)
    OBVIOUS
  <2>1. CASE b = a \/ Closes(a, b, t.id)
    BY <2>1 DEF Handled, Closes
  <2>2. CASE Wakes(a, b, t.id)
    <3>1. t.id[1] \in Nodes
      BY <2>2 DEF Wakes, Current, NodeRun
    <3>2. a.run # "queued"
      BY <1>2, <2>2, <3>1 DEF Wakes, Active
    <3> QED
      BY <1>1, <2>2, <3>2 DEF Wakes, Handled
  <2> QED
    BY <2>1, <2>2, OnNodeTimerEffect
<1>6. ASSUME NEW n \in Nodes PROVE Handled(a, OnHumanResponse(a, n))
  <2> SUFFICES ASSUME NEW b, b = OnHumanResponse(a, n), Answers(a, b, n) PROVE Handled(a, b)
    BY OnHumanResponseEffect DEF Handled
  <2>1. a.run # "queued"
    BY <1>2 DEF Answers, Active
  <2> QED
    BY <1>1, <2>1 DEF Answers, Handled
<1>7. Handled(a, OnRecovered(a, t.id))
  <2> SUFFICES ASSUME NEW b, b = OnRecovered(a, t.id) PROVE Handled(a, b)
    OBVIOUS
  <2>1. b.run = a.run /\ \A n \in Nodes : a.nodes[n].status # "running" => b.nodes[n] = a.nodes[n]
    BY OnRecoveredEffect
  <2>2. CASE a.run = "running"
    BY <2>1, <2>2 DEF Handled
  <2>3. CASE a.run # "running"
    <3>1. \A n \in Nodes : b.nodes[n] = a.nodes[n]
      BY <1>1, <1>2, <2>1, <2>3 DEF Active
    <3>2. b.nodes \in [Nodes -> NodeState] /\ a.nodes \in [Nodes -> NodeState]
      BY OnRecoveredType DEF State
    <3>3. b.nodes = a.nodes
      BY <3>1, <3>2
    <3> QED
      BY <2>1, <3>3 DEF Handled
  <2> QED
    BY <2>2, <2>3
<1>8. Handled(a, End(a, "timed_out")) /\ Handled(a, End(a, "cancelled"))
  BY EndHandled DEF Handled, Terminal
<1>9. Handled(a, a)
  BY DEF Handled
<1> QED
  BY <1>3, <1>4, <1>5, <1>6, <1>7, <1>8, <1>9 DEF OnTrigger, Sound

\* Failed, Ready, AnyActive and AnyRunning look at the nodes only.
LEMMA SameNodes ==
  ASSUME NEW a, NEW b, b.nodes = a.nodes
  PROVE  /\ Failed(b) <=> Failed(a)
         /\ Ready(b) = Ready(a)
         /\ AnyActive(b) <=> AnyActive(a)
         /\ AnyRunning(b) <=> AnyRunning(a)
BY DEF Failed, Ready, Fires, AnyActive, AnyRunning

\* once the ready nodes are started, nothing is ready and no failure is new.
LEMMA StartedAll ==
  ASSUME NEW a \in State
  PROVE  LET b == StartNodes(a, Ready(a))
         IN  Ready(b) = {} /\ (Failed(b) => Failed(a))
<1> SUFFICES ASSUME NEW b, b = StartNodes(a, Ready(a))
             PROVE  Ready(b) = {} /\ (Failed(b) => Failed(a))
  OBVIOUS
<1>1. ASSUME NEW n \in Ready(a)
      PROVE  b.nodes[n].status \in {"running", "waiting"}
  <2>1. b.nodes[n] = [status |-> IF Kind[n] = "task" THEN "running" ELSE "waiting",
                      att |-> a.nodes[n].att, turn |-> a.nodes[n].turn]
    BY StartNodesEffect, ReadyIdle
  <2> QED
    BY <2>1
<1>2. \A n \in Nodes \ Ready(a) : b.nodes[n] = a.nodes[n]
  BY StartNodesEffect, ReadyIdle
<1>3. ASSUME NEW p \in Nodes
      PROVE  Fires(b, p) => Fires(a, p)
  BY <1>1, <1>2 DEF Fires
<1>4. Ready(b) \subseteq Ready(a)
  <2>1. \A n \in Nodes : Preds[n] \subseteq Nodes
    BY PlanAssumption
  <2> QED
    BY <2>1, <1>1, <1>2, <1>3 DEF Ready
<1>5. Ready(b) = {}
  BY <1>1, <1>4 DEF Ready
<1>6. Failed(b) => Failed(a)
  BY <1>1, <1>2 DEF Failed
<1> QED
  BY <1>5, <1>6

\* process() settles whatever a handler leaves.
LEMMA ProcessSettled ==
  ASSUME NEW a \in State, NEW b \in State, NEW late \in BOOLEAN,
         SettledState(a), a.run \notin Terminal, Handled(a, b)
  PROVE  SettledState(Process(b, late))
<1>1. CASE b.run = "queued" \/ b.run \in Terminal
  <2>1. Process(b, late) = b
    BY <1>1 DEF Process
  <2>2. ~AnyActive(b)
    BY <1>1, SameNodes DEF Handled, SettledState, Terminal
  <2> QED
    BY <1>1, <2>1, <2>2 DEF SettledState, Terminal
<1>2. CASE b.run \notin Terminal /\ b.run # "queued"
  <2>1. ASSUME NEW how \in Terminal PROVE SettledState(End(b, how))
    BY EndHandled DEF SettledState, Terminal
  <2>2. CASE ~Failed(b)
    <3> SUFFICES ASSUME NEW c \in State, c = StartNodes(b, Ready(b))
                 PROVE  SettledState(Process(b, late))
      BY StartNodesType, ReadyIdle
    <3>1. Ready(c) = {} /\ ~Failed(c) /\ c.run = b.run
      BY <2>2, StartedAll, StartNodesEffect, ReadyIdle
    <3>2. c.run = "waiting" => ~AnyRunning(c)
      <4> SUFFICES ASSUME c.run = "waiting" PROVE ~AnyRunning(c)
        OBVIOUS
      <4>1. b.run = a.run /\ b.nodes = a.nodes
        BY <3>1 DEF Handled, Terminal
      <4>2. Ready(b) = {} /\ ~AnyRunning(b)
        BY <3>1, <4>1, SameNodes DEF SettledState
      <4>3. \A n \in Nodes : c.nodes[n] = b.nodes[n]
        BY <4>2, StartNodesEffect
      <4> QED
        BY <4>2, <4>3 DEF AnyRunning
    <3>3. c.run \in {"running", "waiting"}
      BY <1>2, <3>1 DEF State, RunStatus, Terminal
    <3>4. SettledState(Settle(c))
      <4> SUFFICES ASSUME NEW d, d = Settle(c) PROVE SettledState(d)
        OBVIOUS
      <4>1. d.nodes = c.nodes
        BY DEF Settle, State
      <4>2. d.run = IF ~AnyActive(c) THEN "completed"
                    ELSE IF ~AnyRunning(c) THEN "waiting" ELSE c.run
        BY DEF Settle, State
      <4>3. AnyRunning(c) => AnyActive(c)
        BY DEF AnyRunning, AnyActive, Active
      <4> QED
        BY <3>1, <3>2, <3>3, <4>1, <4>2, <4>3, SameNodes DEF SettledState, Terminal
    <3> QED
      BY <1>2, <2>1, <2>2, <3>4 DEF Process, Terminal
  <2>3. CASE Failed(b)
    BY <1>2, <2>1, <2>3 DEF Process, Terminal
  <2> QED
    BY <2>2, <2>3
<1> QED
  BY <1>1, <1>2

\* a whole step ends settled.
LEMMA StepSettled ==
  ASSUME NEW a \in State, NEW t, Sound(t), NEW late \in BOOLEAN, SettledState(a)
  PROVE  SettledState(Step(a, t, late))
<1>1. CASE a.run \in Terminal
  BY <1>1 DEF Step
<1>2. CASE a.run \notin Terminal
  <2>1. Handled(a, OnTrigger(a, t)) /\ OnTrigger(a, t) \in State
    BY <1>2, OnTriggerHandled, OnTriggerType
  <2> QED
    BY <1>2, <2>1, ProcessSettled DEF Step
<1> QED
  BY <1>1, <1>2

\* the state a run is created in is timed and settled.
LEMMA InitialSettled == Timed(InitialState) /\ SettledState(InitialState)
BY DEF InitialState, Timed, Waiting, SettledState, AnyActive, Active, Terminal

-----------------------------------------------------------------------------
(***************************************************************************)
(* A node is cancelled by the end of its run only.                         *)
(***************************************************************************)
\* Nothing is cancelled that was not, unless the run ended otherwise than completed.
Cancels(a, b) ==
  \A n \in Nodes : b.nodes[n].status = "cancelled" =>
    a.nodes[n].status = "cancelled" \/ b.run \in Terminal \ {"completed"}

\* a handler cancels nodes only with the run.
LEMMA OnTriggerCancels ==
  ASSUME NEW a \in State, NEW t, Sound(t)
  PROVE  Cancels(a, OnTrigger(a, t))
<1>1. Cancels(a, OnStart(a)) /\ Cancels(a, a)
  BY DEF Cancels, OnStart, State
<1>2. Cancels(a, OnNodeResult(a, t.id, t.result))
  <2> SUFFICES ASSUME NEW b, b = OnNodeResult(a, t.id, t.result), NEW n, Receives(a, b, n)
               PROVE  Cancels(a, b)
    BY <1>1, OnNodeResultEffect
  <2> QED
    BY DEF Receives, Cancels
<1>3. Cancels(a, OnNodeTimer(a, t.id))
  <2> SUFFICES ASSUME NEW b, b = OnNodeTimer(a, t.id) PROVE Cancels(a, b)
    OBVIOUS
  <2>1. CASE b = a \/ Closes(a, b, t.id)
    BY <2>1 DEF Closes, Cancels
  <2>2. CASE Wakes(a, b, t.id)
    BY <2>2 DEF Wakes, Cancels
  <2> QED
    BY <2>1, <2>2, OnNodeTimerEffect
<1>4. ASSUME NEW n \in Nodes PROVE Cancels(a, OnHumanResponse(a, n))
  <2> SUFFICES ASSUME NEW b, b = OnHumanResponse(a, n), Answers(a, b, n) PROVE Cancels(a, b)
    BY <1>1, OnHumanResponseEffect
  <2> QED
    BY DEF Answers, Cancels
<1>5. Cancels(a, OnRecovered(a, t.id))
  <2> SUFFICES ASSUME NEW b, b = OnRecovered(a, t.id) PROVE Cancels(a, b)
    OBVIOUS
  <2>1. \A n \in Nodes : b.nodes[n] = a.nodes[n] \/ b.nodes[n].status \in {"idle", "failed"}
    BY OnRecoveredEffect
  <2> QED
    BY <2>1 DEF Cancels
<1>6. Cancels(a, End(a, "timed_out")) /\ Cancels(a, End(a, "cancelled"))
  BY EndHandled DEF Cancels, Terminal
<1> QED
  BY <1>1, <1>2, <1>3, <1>4, <1>5, <1>6 DEF OnTrigger, Sound

\* process() cancels nodes only with the run.
LEMMA ProcessCancels ==
  ASSUME NEW a \in State, NEW late \in BOOLEAN
  PROVE  Cancels(a, Process(a, late))
<1>1. Cancels(a, End(a, "timed_out")) /\ Cancels(a, End(a, "failed")) /\ Cancels(a, a)
  BY EndHandled DEF Cancels, Terminal
<1>2. Cancels(a, Settle(StartNodes(a, Ready(a))))
  <2> SUFFICES ASSUME NEW b, b = StartNodes(a, Ready(a)), b \in State
               PROVE  Cancels(a, Settle(b))
    BY StartNodesType, ReadyIdle
  <2>1. Settle(b).nodes = b.nodes
    BY DEF Settle, State
  <2>2. ASSUME NEW n \in Ready(a)
        PROVE  b.nodes[n].status \in {"running", "waiting"}
    <3>1. b.nodes[n] = [status |-> IF Kind[n] = "task" THEN "running" ELSE "waiting",
                        att |-> a.nodes[n].att, turn |-> a.nodes[n].turn]
      BY StartNodesEffect, ReadyIdle
    <3> QED
      BY <3>1
  <2>3. \A n \in Nodes \ Ready(a) : b.nodes[n] = a.nodes[n]
    BY StartNodesEffect, ReadyIdle
  <2> QED
    BY <2>1, <2>2, <2>3 DEF Cancels
<1> QED
  BY <1>1, <1>2 DEF Process

\* a whole step cancels nodes only with the run.
LEMMA StepCancels ==
  ASSUME NEW a \in State, NEW t, Sound(t), NEW late \in BOOLEAN
  PROVE  Cancels(a, Step(a, t, late))
<1>1. CASE a.run \in Terminal
  BY <1>1 DEF Step, Cancels
<1>2. CASE a.run \notin Terminal
  <2> DEFINE s == OnTrigger(a, t)
             b == Process(s, late)
  <2>1. s \in State /\ Step(a, t, late) = b
    BY <1>2, StepMoves
  <2>2. Cancels(a, s) /\ Cancels(s, b)
    BY <2>1, OnTriggerCancels, ProcessCancels
  <2>3. s.run \in Terminal => b = s
    BY DEF Process
  <2> HIDE DEF s, b
  <2> QED
    BY <2>1, <2>2, <2>3 DEF Cancels
<1> QED
  BY <1>1, <1>2

-----------------------------------------------------------------------------
(***************************************************************************)
(* The attempts of a node.  A step begins at most one new attempt of each  *)
(* node: a retry, which the policy has granted when the last one failed,   *)
(* or the restart of a lost node run.                                      *)
(***************************************************************************)
\* Who waits for a retry may have one.
RetryGranted(a) ==
  \A n \in Nodes : a.nodes[n].status = "retry_wait" => a.nodes[n].att < MaxAttempts[n]

\* Each node is at the attempt it was at, or at the next one for one of the two reasons.
Attempts(a, b, restart) ==
  \A n \in Nodes :
    \/ b.nodes[n].att = a.nodes[n].att
    \/ /\ b.nodes[n].att = a.nodes[n].att + 1
       /\ b.nodes[n].att <= MaxAttempts[n] \/ restart

\* nodeResult() grants a retry within the policy.
LEMMA OnNodeResultAttempts ==
  ASSUME NEW a \in State, NEW id, NEW result, RetryGranted(a), NEW restart \in BOOLEAN
  PROVE  /\ RetryGranted(OnNodeResult(a, id, result))
         /\ Attempts(a, OnNodeResult(a, id, result), restart)
<1> SUFFICES ASSUME NEW b, b = OnNodeResult(a, id, result)
             PROVE  RetryGranted(b) /\ Attempts(a, b, restart)
  OBVIOUS
<1>1. CASE b = a
  BY <1>1 DEF Attempts
<1>2. ASSUME NEW m, Receives(a, b, m)
      PROVE  RetryGranted(b) /\ Attempts(a, b, restart)
  <2>1. ASSUME NEW n \in Nodes
        PROVE  /\ b.nodes[n].att = a.nodes[n].att
               /\ b.nodes[n].status = "retry_wait" => b.nodes[n].att < MaxAttempts[n]
    <3>1. CASE n = m
      BY <1>2, <3>1 DEF Receives
    <3>2. CASE n # m
      BY <1>2, <3>2 DEF Receives, RetryGranted
    <3> QED
      BY <3>1, <3>2
  <2> QED
    BY <2>1 DEF RetryGranted, Attempts
<1> QED
  BY <1>1, <1>2, OnNodeResultEffect

\* a retry timer begins the attempt that was granted.
LEMMA OnNodeTimerAttempts ==
  ASSUME NEW a \in State, NEW id, RetryGranted(a), NEW restart \in BOOLEAN
  PROVE  /\ RetryGranted(OnNodeTimer(a, id))
         /\ Attempts(a, OnNodeTimer(a, id), restart)
<1> SUFFICES ASSUME NEW b, b = OnNodeTimer(a, id), NEW m, m = id[1]
             PROVE  RetryGranted(b) /\ Attempts(a, b, restart)
  OBVIOUS
<1>1. CASE b = a \/ Closes(a, b, id)
  BY <1>1 DEF Closes, RetryGranted, Attempts
<1>2. CASE Wakes(a, b, id)
  <2>1. m \in Nodes
    BY <1>2 DEF Wakes, Current, NodeRun
  <2>2. a.nodes[m].att \in Nat /\ MaxAttempts[m] \in Nat
    BY <2>1, NodeFields, PlanAssumption
  <2>3. /\ \A n \in Nodes \ {m} : b.nodes[n] = a.nodes[n]
        /\ \/ /\ a.nodes[m].status = "retry_wait"
              /\ b.nodes[m] = [status |-> "idle", att |-> a.nodes[m].att + 1, turn |-> 0]
           \/ \E s \in {"completed", "failed"} :
                b.nodes[m] = [status |-> s, att |-> a.nodes[m].att, turn |-> a.nodes[m].turn]
    BY <1>2 DEF Wakes
  <2>4. a.nodes[m].status = "retry_wait" => a.nodes[m].att + 1 <= MaxAttempts[m]
    BY <2>1, <2>2 DEF RetryGranted
  <2>5. /\ b.nodes[m].status # "retry_wait"
        /\ \/ b.nodes[m].att = a.nodes[m].att
           \/ b.nodes[m].att = a.nodes[m].att + 1 /\ b.nodes[m].att <= MaxAttempts[m]
    BY <2>3, <2>4
  <2> QED
    BY <2>3, <2>5 DEF RetryGranted, Attempts
<1> QED
  BY <1>1, <1>2, OnNodeTimerEffect

\* recovered() restarts a lost node run at its next attempt.
LEMMA OnRecoveredAttempts ==
  ASSUME NEW a \in State, NEW lost, RetryGranted(a)
  PROVE  /\ RetryGranted(OnRecovered(a, lost))
         /\ Attempts(a, OnRecovered(a, lost), TRUE)
<1> SUFFICES ASSUME NEW b, b = OnRecovered(a, lost)
             PROVE  RetryGranted(b) /\ Attempts(a, b, TRUE)
  OBVIOUS
<1>1. /\ Moves(a, b)
      /\ \A n \in Nodes : b.nodes[n] = a.nodes[n] \/ b.nodes[n].status \in {"idle", "failed"}
  BY OnRecoveredEffect
<1>2. RetryGranted(b)
  BY <1>1 DEF RetryGranted
<1>3. ASSUME NEW n \in Nodes
      PROVE  b.nodes[n].att = a.nodes[n].att \/ b.nodes[n].att = a.nodes[n].att + 1
  <2>1. b.nodes[n].att = IF RunOf(a, n) \notin lost \/ a.nodes[n].status # "running"
                         THEN a.nodes[n].att
                         ELSE IF Idempotency[n] = "safe" THEN a.nodes[n].att + 1 ELSE a.nodes[n].att
    BY NodeFields DEF OnRecovered, State, NodeState
  <2> QED
    BY <2>1
<1> QED
  BY <1>2, <1>3 DEF Attempts

\* a handler begins at most one new attempt of each node, for one of the two reasons.
LEMMA OnTriggerAttempts ==
  ASSUME NEW a \in State, NEW t, Sound(t), RetryGranted(a)
  PROVE  /\ RetryGranted(OnTrigger(a, t))
         /\ Attempts(a, OnTrigger(a, t), t.type = "recovered")
<1> DEFINE re == t.type = "recovered"
<1>0. re \in BOOLEAN
  OBVIOUS
<1> HIDE DEF re
<1>1. RetryGranted(OnStart(a)) /\ Attempts(a, OnStart(a), re)
  BY DEF RetryGranted, Attempts, OnStart, State
<1>2. /\ RetryGranted(OnNodeResult(a, t.id, t.result))
      /\ Attempts(a, OnNodeResult(a, t.id, t.result), re)
  BY <1>0, OnNodeResultAttempts
<1>3. RetryGranted(OnNodeTimer(a, t.id)) /\ Attempts(a, OnNodeTimer(a, t.id), re)
  BY <1>0, OnNodeTimerAttempts
<1>4. ASSUME NEW n \in Nodes
      PROVE  RetryGranted(OnHumanResponse(a, n)) /\ Attempts(a, OnHumanResponse(a, n), re)
  <2> SUFFICES ASSUME NEW b, b = OnHumanResponse(a, n)
               PROVE  RetryGranted(b) /\ Attempts(a, b, re)
    OBVIOUS
  <2>1. CASE b = a
    BY <2>1 DEF Attempts
  <2>2. CASE Answers(a, b, n)
    <3>1. b.nodes[n].status # "retry_wait" /\ b.nodes[n].att = a.nodes[n].att
      BY <2>2 DEF Answers
    <3> QED
      BY <2>2, <3>1 DEF Answers, RetryGranted, Attempts
  <2> QED
    BY <2>1, <2>2, OnHumanResponseEffect
<1>5. RetryGranted(OnRecovered(a, t.id)) /\ Attempts(a, OnRecovered(a, t.id), TRUE)
  BY OnRecoveredAttempts
<1>6. ASSUME NEW how \in Terminal
      PROVE  RetryGranted(End(a, how)) /\ Attempts(a, End(a, how), re)
  <2> SUFFICES ASSUME NEW b, b = End(a, how) PROVE RetryGranted(b) /\ Attempts(a, b, re)
    OBVIOUS
  <2>1. \A n \in Nodes : /\ b.nodes[n].att = a.nodes[n].att
                         /\ b.nodes[n].status = "retry_wait" => b.nodes[n] = a.nodes[n]
    BY NodeFields DEF End, CancelActive, State, NodeState
  <2> QED
    BY <2>1 DEF RetryGranted, Attempts
<1>7. "timed_out" \in Terminal /\ "cancelled" \in Terminal
  BY DEF Terminal
<1>8. RetryGranted(a) /\ Attempts(a, a, re)
  BY DEF Attempts
<1>9. t.type = "recovered" => re = TRUE
  BY DEF re
<1>10. RetryGranted(OnTrigger(a, t)) /\ Attempts(a, OnTrigger(a, t), re)
  BY <1>1, <1>2, <1>3, <1>4, <1>5, <1>6, <1>7, <1>8, <1>9 DEF OnTrigger, Sound
<1> QED
  BY <1>10 DEF re

\* process() begins no attempt.
LEMMA ProcessAttempts ==
  ASSUME NEW a \in State, NEW late \in BOOLEAN, RetryGranted(a)
  PROVE  /\ RetryGranted(Process(a, late))
         /\ \A n \in Nodes : Process(a, late).nodes[n].att = a.nodes[n].att
<1>1. ASSUME NEW how \in Terminal
      PROVE  RetryGranted(End(a, how)) /\ \A n \in Nodes : End(a, how).nodes[n].att = a.nodes[n].att
  <2> SUFFICES ASSUME NEW b, b = End(a, how)
               PROVE  RetryGranted(b) /\ \A n \in Nodes : b.nodes[n].att = a.nodes[n].att
    OBVIOUS
  <2>1. \A n \in Nodes : /\ b.nodes[n].att = a.nodes[n].att
                         /\ b.nodes[n].status = "retry_wait" => b.nodes[n] = a.nodes[n]
    BY NodeFields DEF End, CancelActive, State, NodeState
  <2> QED
    BY <2>1 DEF RetryGranted
<1>2. /\ RetryGranted(Settle(StartNodes(a, Ready(a))))
      /\ \A n \in Nodes : Settle(StartNodes(a, Ready(a))).nodes[n].att = a.nodes[n].att
  <2> SUFFICES ASSUME NEW b, b = StartNodes(a, Ready(a)), b \in State
               PROVE  RetryGranted(Settle(b)) /\ \A n \in Nodes : Settle(b).nodes[n].att = a.nodes[n].att
    BY StartNodesType, ReadyIdle
  <2>1. Settle(b).nodes = b.nodes
    BY DEF Settle, State
  <2>2. ASSUME NEW n \in Ready(a)
        PROVE  b.nodes[n].status # "retry_wait" /\ b.nodes[n].att = a.nodes[n].att
    <3>1. b.nodes[n] = [status |-> IF Kind[n] = "task" THEN "running" ELSE "waiting",
                        att |-> a.nodes[n].att, turn |-> a.nodes[n].turn]
      BY StartNodesEffect, ReadyIdle
    <3> QED
      BY <3>1
  <2>3. \A n \in Nodes \ Ready(a) : b.nodes[n] = a.nodes[n]
    BY StartNodesEffect, ReadyIdle
  <2> QED
    BY <2>1, <2>2, <2>3 DEF RetryGranted
<1>3. "timed_out" \in Terminal /\ "failed" \in Terminal
  BY DEF Terminal
<1> QED
  BY <1>1, <1>2, <1>3 DEF Process

\* a whole step begins at most one new attempt of each node, for one of the two reasons.
LEMMA StepAttempts ==
  ASSUME NEW a \in State, NEW t, Sound(t), NEW late \in BOOLEAN, RetryGranted(a)
  PROVE  /\ RetryGranted(Step(a, t, late))
         /\ Attempts(a, Step(a, t, late), t.type = "recovered")
<1>1. CASE a.run \in Terminal
  BY <1>1 DEF Step, Attempts
<1>2. CASE a.run \notin Terminal
  <2> DEFINE s == OnTrigger(a, t)
             b == Process(s, late)
  <2>1. s \in State /\ Step(a, t, late) = b
    BY <1>2, StepMoves
  <2>2. RetryGranted(s) /\ Attempts(a, s, t.type = "recovered")
    BY OnTriggerAttempts
  <2>3. RetryGranted(b) /\ \A n \in Nodes : b.nodes[n].att = s.nodes[n].att
    BY <2>1, <2>2, ProcessAttempts
  <2> HIDE DEF s, b
  <2> QED
    BY <2>1, <2>2, <2>3 DEF Attempts
<1> QED
  BY <1>1, <1>2

-----------------------------------------------------------------------------
(***************************************************************************)
(* What a timer is about.  A timer is named by the node run that set it:   *)
(* that node run still waits for it, or it is over.                        *)
(***************************************************************************)
Awaited(a, r) ==
  LET x == a.nodes[r[1]]
  IN Waiting(x) /\ ~Timeless(r[1], x) /\ x.att = r[2] /\ x.turn = r[3]
Spent(a, r) ==
  LET x == a.nodes[r[1]]
  IN \/ r[2] < x.att
     \/ r[2] = x.att /\ (r[3] < x.turn \/ (r[3] = x.turn /\ x.status \in Resolved))
Named(a, r) == Awaited(a, r) \/ Spent(a, r)
TimersNamed(a) == \A r \in a.timers : r \in NodeRun /\ Named(a, r)

\* a node run that is over stays over, and one that waited waits or is over.
LEMMA MovesNamed ==
  ASSUME NEW a \in State, NEW b \in State, Moves(a, b), NEW r \in NodeRun
  PROVE  /\ Spent(a, r) => Spent(b, r)
         /\ Named(a, r) => Named(b, r)
<1> DEFINE x == a.nodes[r[1]]
           y == b.nodes[r[1]]
<1>1. r[1] \in Nodes /\ r[2] \in Nat /\ r[3] \in Nat
  BY DEF NodeRun
<1>2. x.att \in Nat /\ y.att \in Nat /\ x.turn \in Nat /\ y.turn \in Nat /\ Move(r[1], x, y)
  BY <1>1, NodeFields DEF Moves
<1> HIDE DEF x, y
<1>3. \/ y = x
      \/ y.att = x.att + 1
      \/ y.att = x.att /\ y.turn = x.turn + 1
      \/ /\ y.att = x.att /\ y.turn = x.turn /\ x.status \notin Resolved
         /\ Waiting(x) => y.status \in Resolved
  BY <1>1, <1>2 DEF Move, Waiting, Resolved, Active
<1>4. ASSUME \/ r[2] < x.att
             \/ r[2] = x.att /\ (r[3] < x.turn \/ (r[3] = x.turn /\ x.status \in Resolved))
      PROVE  \/ r[2] < y.att
             \/ r[2] = y.att /\ (r[3] < y.turn \/ (r[3] = y.turn /\ y.status \in Resolved))
  BY <1>1, <1>2, <1>3, <1>4
<1>5. ASSUME Waiting(x), x.att = r[2], x.turn = r[3]
      PROVE  \/ y = x
             \/ r[2] < y.att
             \/ r[2] = y.att /\ (r[3] < y.turn \/ (r[3] = y.turn /\ y.status \in Resolved))
  BY <1>1, <1>2, <1>3, <1>5
<1> QED
  BY <1>4, <1>5 DEF Named, Awaited, Spent, x, y

\* a node that moves keeps what its timers are about, and so do the timers it sets.
LEMMA MovesTimers ==
  ASSUME NEW a \in State, NEW b \in State, Moves(a, b), TimersNamed(a),
         \A r \in b.timers \ a.timers : r \in NodeRun /\ Named(b, r)
  PROVE  TimersNamed(b)
BY MovesNamed DEF TimersNamed

\* the timers handlers set are those of failed tasks that await their retry, and of
\* tasks that ask a person with a time limit.
LEMMA OnTriggerSets ==
  ASSUME NEW a \in State, NEW t, Sound(t), Tidy(a),
         NEW r \in OnTrigger(a, t).timers \ a.timers
  PROVE  r \in NodeRun /\ Named(OnTrigger(a, t), r)
<1>1. ASSUME NEW b, b.timers \subseteq a.timers, b = OnTrigger(a, t)
      PROVE  FALSE
  BY <1>1
<1>2. OnStart(a).timers = a.timers
  BY DEF OnStart, State
<1>3. OnNodeTimer(a, t.id).timers \subseteq a.timers
  <2> SUFFICES ASSUME NEW b, b = OnNodeTimer(a, t.id) PROVE b.timers \subseteq a.timers
    OBVIOUS
  <2>1. b = a \/ Closes(a, b, t.id) \/ Wakes(a, b, t.id)
    BY OnNodeTimerEffect
  <2> QED
    BY <2>1 DEF Closes, Wakes
<1>4. ASSUME NEW n \in Nodes PROVE OnHumanResponse(a, n).timers = a.timers
  <2> SUFFICES ASSUME NEW b, b = OnHumanResponse(a, n) PROVE b.timers = a.timers
    OBVIOUS
  <2> QED
    BY OnHumanResponseEffect DEF Answers
<1>5. OnRecovered(a, t.id).timers = a.timers
  BY OnRecoveredEffect
<1>6. End(a, "timed_out").timers = a.timers /\ End(a, "cancelled").timers = a.timers
  BY EndEffect DEF Terminal
<1>7. OnTrigger(a, t) = OnNodeResult(a, t.id, t.result)
  BY <1>1, <1>2, <1>3, <1>4, <1>5, <1>6 DEF OnTrigger, Sound
<1> DEFINE b == OnNodeResult(a, t.id, t.result)
           n == t.id[1]
<1>8. Receives(a, b, n)
  BY <1>1, <1>7, OnNodeResultEffect
<1> HIDE DEF n, b
<1>9. n \in Nodes /\ r = RunOf(a, n)
  BY <1>7, <1>8 DEF Receives, b
<1>10. /\ b.nodes[n].att = a.nodes[n].att /\ b.nodes[n].turn = a.nodes[n].turn
       /\ Waiting(b.nodes[n]) /\ ~Timeless(n, b.nodes[n])
  BY <1>7, <1>8 DEF Receives, Waiting, Timeless, b
<1>11. r \in NodeRun /\ r[1] = n /\ r[2] = a.nodes[n].att /\ r[3] = a.nodes[n].turn
  BY <1>9, NodeFields DEF NodeRun, RunOf
<1>12. Awaited(b, r)
  BY <1>10, <1>11 DEF Awaited
<1> QED
  BY <1>7, <1>11, <1>12 DEF Named, b

\* process() sets the timers of the nodes it lets wait, and closes none.
LEMMA ProcessSets ==
  ASSUME NEW a \in State, NEW late \in BOOLEAN
  PROVE  /\ a.timers \subseteq Process(a, late).timers
         /\ \A r \in Process(a, late).timers \ a.timers :
              r \in NodeRun /\ Named(Process(a, late), r)
<1>1. \A how \in Terminal : End(a, how).timers = a.timers
  BY EndEffect
<1>2. ASSUME NEW b, b = Settle(StartNodes(a, Ready(a)))
      PROVE  /\ a.timers \subseteq b.timers
             /\ \A r \in b.timers \ a.timers : r \in NodeRun /\ Named(b, r)
  <2> SUFFICES ASSUME NEW c, c = StartNodes(a, Ready(a)), c \in State
               PROVE  /\ a.timers \subseteq b.timers
                      /\ \A r \in b.timers \ a.timers : r \in NodeRun /\ Named(b, r)
    BY StartNodesType, ReadyIdle
  <2>1. b.nodes = c.nodes /\ b.timers = c.timers
    BY <1>2 DEF Settle, State
  <2>2. c.timers = a.timers \cup {RunOf(a, n) : n \in {m \in Ready(a) : SetsTimer(m)}}
    BY DEF StartNodes, TimersOf, SetsTimer, State
  <2>3. ASSUME NEW r \in b.timers \ a.timers
        PROVE  r \in NodeRun /\ Named(b, r)
    <3>1. PICK n \in Ready(a) : SetsTimer(n) /\ r = RunOf(a, n)
      BY <2>1, <2>2, <2>3
    <3>2. n \in Nodes
      BY <3>1, ReadyIdle
    <3>3. c.nodes[n] = [status |-> IF Kind[n] = "task" THEN "running" ELSE "waiting",
                        att |-> a.nodes[n].att, turn |-> a.nodes[n].turn]
      BY <3>1, StartNodesEffect, ReadyIdle
    <3>4. r \in NodeRun /\ r[1] = n /\ r[2] = a.nodes[n].att /\ r[3] = a.nodes[n].turn
      BY <3>1, <3>2, NodeFields DEF NodeRun, RunOf
    <3>5. Awaited(b, r)
      BY <2>1, <3>1, <3>3, <3>4 DEF Awaited, Waiting, Timeless, SetsTimer
    <3> QED
      BY <3>4, <3>5 DEF Named
  <2> QED
    BY <2>1, <2>2, <2>3
<1>3. "timed_out" \in Terminal /\ "failed" \in Terminal
  BY DEF Terminal
<1> QED
  BY <1>1, <1>2, <1>3 DEF Process

\* A whole step keeps what every timer is about, the timers it sets included.
LEMMA StepNamed ==
  ASSUME NEW a \in State, NEW t, Sound(t), NEW late \in BOOLEAN, Tidy(a), TimersNamed(a)
  PROVE  /\ TimersNamed(Step(a, t, late))
         /\ \A r \in NodeRun : /\ Spent(a, r) => Spent(Step(a, t, late), r)
                               /\ Named(a, r) => Named(Step(a, t, late), r)
<1>1. CASE a.run \in Terminal
  BY <1>1 DEF Step
<1>2. CASE a.run \notin Terminal
  <2> DEFINE s == OnTrigger(a, t)
             b == Process(s, late)
  <2>1. /\ s \in State /\ b \in State /\ Step(a, t, late) = b
        /\ Moves(a, s) /\ Moves(s, b)
    BY <1>2, StepMoves
  <2>2. TimersNamed(s)
    BY <2>1, OnTriggerSets, MovesTimers
  <2>3. \A r \in b.timers \ s.timers : r \in NodeRun /\ Named(b, r)
    BY <2>1, ProcessSets
  <2> HIDE DEF s, b
  <2>4. TimersNamed(b)
    BY <2>1, <2>2, <2>3, MovesTimers
  <2> QED
    BY <2>1, <2>4, MovesNamed
<1> QED
  BY <1>1, <1>2

\* a timer is closed only when its node run is over.
LEMMA OnTriggerCloses ==
  ASSUME NEW a \in State, NEW t, Sound(t), Tidy(a), TimersNamed(a),
         NEW r \in a.timers \ OnTrigger(a, t).timers
  PROVE  Spent(OnTrigger(a, t), r)
<1>1. ASSUME NEW b, a.timers \subseteq b.timers, b = OnTrigger(a, t)
      PROVE  FALSE
  BY <1>1
<1>2. a.timers \subseteq OnStart(a).timers
  BY DEF OnStart, State
<1>3. a.timers \subseteq OnNodeResult(a, t.id, t.result).timers
  <2> SUFFICES ASSUME NEW b, b = OnNodeResult(a, t.id, t.result)
               PROVE  a.timers \subseteq b.timers
    OBVIOUS
  <2>1. b = a \/ Receives(a, b, t.id[1])
    BY OnNodeResultEffect
  <2> QED
    BY <2>1 DEF Receives
<1>4. ASSUME NEW n \in Nodes PROVE a.timers \subseteq OnHumanResponse(a, n).timers
  <2> SUFFICES ASSUME NEW b, b = OnHumanResponse(a, n) PROVE a.timers \subseteq b.timers
    OBVIOUS
  <2> QED
    BY OnHumanResponseEffect DEF Answers
<1>5. a.timers \subseteq OnRecovered(a, t.id).timers
  BY OnRecoveredEffect
<1>6. a.timers \subseteq End(a, "timed_out").timers /\ a.timers \subseteq End(a, "cancelled").timers
  BY EndEffect DEF Terminal
<1>7. OnTrigger(a, t) = OnNodeTimer(a, t.id)
  BY <1>1, <1>2, <1>3, <1>4, <1>5, <1>6 DEF OnTrigger, Sound
<1> DEFINE b == OnNodeTimer(a, t.id)
<1>8. Closes(a, b, t.id) \/ Wakes(a, b, t.id)
  BY <1>7, OnNodeTimerEffect
<1> HIDE DEF b
<1>9. r = t.id /\ r \in NodeRun /\ Named(a, r) /\ r \in a.timers
  BY <1>7, <1>8 DEF Closes, Wakes, TimersNamed, b
<1>10. /\ r[1] \in Nodes /\ r[2] \in Nat /\ r[3] \in Nat
       /\ a.nodes[r[1]].att \in Nat /\ a.nodes[r[1]].turn \in Nat
       /\ r = <<r[1], r[2], r[3]>>
  BY <1>9, NodeFields DEF NodeRun
<1>11. CASE Closes(a, b, r)
  <2>1. ~Awaited(a, r)
    <3> SUFFICES ASSUME Awaited(a, r) PROVE FALSE
      OBVIOUS
    <3>1. r = RunOf(a, r[1]) /\ Current(a, r)
      BY <1>9, <1>10 DEF Awaited, RunOf, Current, SameRun
    <3>2. Kind[r[1]] # "task" /\ a.nodes[r[1]].status = "retry_wait"
      BY <1>11, <3>1 DEF Closes, Awaited, Waiting
    <3> QED
      BY <1>10, <3>2 DEF Tidy, TidyNode
  <2> QED
    BY <1>7, <1>9, <1>11, <2>1 DEF Named, Closes, Spent, b
<1>12. CASE Wakes(a, b, r)
  <2>1. a.nodes[r[1]].att = r[2] /\ Waiting(a.nodes[r[1]])
    BY <1>12 DEF Wakes, Current, RunOf, SameRun, Waiting
  <2>2. r[3] <= a.nodes[r[1]].turn
    BY <1>9, <1>10, <2>1 DEF Named, Awaited, Spent
  <2>3. \/ b.nodes[r[1]] = [status |-> "idle", att |-> r[2] + 1, turn |-> 0]
        \/ \E s \in {"completed", "failed"} :
             b.nodes[r[1]] = [status |-> s, att |-> r[2], turn |-> a.nodes[r[1]].turn]
    BY <1>12, <2>1 DEF Wakes
  <2>4. Spent(b, r)
    BY <1>10, <2>2, <2>3 DEF Spent, Resolved
  <2> QED
    BY <1>7, <2>4 DEF b
<1> QED
  BY <1>8, <1>9, <1>11, <1>12

\* A whole step closes a timer only when its node run is over, and the trigger of a
\* timer leaves its node run over.
LEMMA StepCloses ==
  ASSUME NEW a \in State, NEW t, Sound(t), NEW late \in BOOLEAN, Tidy(a), TimersNamed(a)
  PROVE  \A r \in a.timers \ Step(a, t, late).timers : Spent(Step(a, t, late), r)
<1>1. CASE a.run \in Terminal
  BY <1>1 DEF Step
<1>2. CASE a.run \notin Terminal
  <2> DEFINE s == OnTrigger(a, t)
             b == Process(s, late)
  <2>1. /\ s \in State /\ b \in State /\ Step(a, t, late) = b
        /\ Moves(s, b) /\ s.timers \subseteq b.timers
    BY <1>2, StepMoves, ProcessSets
  <2>2. \A r \in a.timers \ s.timers : r \in NodeRun /\ Spent(s, r)
    BY OnTriggerCloses DEF TimersNamed
  <2> HIDE DEF s, b
  <2> QED
    BY <2>1, <2>2, MovesNamed
<1> QED
  BY <1>1, <1>2

LEMMA TimerSpends ==
  ASSUME NEW a \in State, NEW t, NEW late \in BOOLEAN, Tidy(a), Timed(a), SettledState(a),
         TimersNamed(a), t.type = "timer", t.id \in NodeRun, Named(a, t.id)
  PROVE  Spent(Step(a, t, late), t.id)
<1>1. CASE Spent(a, t.id)
  BY <1>1, StepNamed DEF Sound
<1>2. CASE Awaited(a, t.id)
  <2>1. t.id[1] \in Nodes /\ t.id = <<t.id[1], t.id[2], t.id[3]>>
    BY DEF NodeRun
  <2>2. t.id \in a.timers
    BY <1>2, <2>1 DEF Awaited, Timed, RunOf
  <2>3. AnyActive(a) /\ a.run \notin Terminal
    BY <1>2, <2>1 DEF Awaited, Waiting, AnyActive, Active, SettledState
  <2> DEFINE s == OnTrigger(a, t)
             b == Process(s, late)
  <2>4. s \in State /\ b \in State /\ Step(a, t, late) = b /\ Moves(s, b)
    BY <2>3, StepMoves DEF Sound
  <2>5. s = OnNodeTimer(a, t.id)
    BY PlanAssumption DEF OnTrigger, NodeRun
  <2>6. t.id \notin s.timers
    <3> SUFFICES ASSUME NEW c, c = OnNodeTimer(a, t.id) PROVE t.id \notin c.timers
      BY <2>5
    <3>1. (c = a /\ t.id \notin a.timers) \/ Closes(a, c, t.id) \/ Wakes(a, c, t.id)
      BY OnNodeTimerEffect
    <3> QED
      BY <2>2, <3>1 DEF Closes, Wakes
  <2>7. Spent(s, t.id)
    BY <2>2, <2>6, OnTriggerCloses DEF Sound
  <2> HIDE DEF s, b
  <2> QED
    BY <2>4, <2>7, MovesNamed
<1> QED
  BY <1>1, <1>2 DEF Named

-----------------------------------------------------------------------------
(***************************************************************************)
(* What a recovery may do.  A node that was ever started has its           *)
(* predecessors behind it, so a lost one that may be repeated is started   *)
(* again by the step that recovers it.                                     *)
(***************************************************************************)
Enabled(a) ==
  \A n \in Nodes : (a.nodes[n].status # "idle" \/ a.nodes[n].att # 1)
                     => \A p \in Preds[n] : Fires(a, p)

\* who has fired has fired, and who was not idle had been started.
LEMMA MovesEnabled ==
  ASSUME NEW a \in State, NEW b \in State, Moves(a, b), Enabled(a),
         \A n \in Nodes : a.nodes[n].status = "idle" /\ b.nodes[n] # a.nodes[n]
                            => \A p \in Preds[n] : Fires(a, p)
  PROVE  Enabled(b)
<1> SUFFICES ASSUME NEW n \in Nodes, b.nodes[n].status # "idle" \/ b.nodes[n].att # 1,
                    NEW p \in Preds[n]
             PROVE  Fires(b, p)
  BY DEF Enabled
<1>1. p \in Nodes
  BY PlanAssumption
<1>2. Fires(a, p)
  <2>1. a.nodes[n].status # "idle" \/ a.nodes[n].att # 1 \/ b.nodes[n] # a.nodes[n]
    OBVIOUS
  <2> QED
    BY <2>1 DEF Enabled
<1> QED
  BY <1>1, <1>2, MovesFinal DEF Fires, Resolved

\* no handler moves an idle node.
LEMMA OnTriggerIdle ==
  ASSUME NEW a \in State, NEW t, Sound(t), NEW n \in Nodes, a.nodes[n].status = "idle"
  PROVE  OnTrigger(a, t).nodes[n] = a.nodes[n]
<1>1. OnStart(a).nodes[n] = a.nodes[n]
  BY DEF OnStart, State
<1>2. OnNodeResult(a, t.id, t.result).nodes[n] = a.nodes[n]
  <2> SUFFICES ASSUME NEW b, b = OnNodeResult(a, t.id, t.result) PROVE b.nodes[n] = a.nodes[n]
    OBVIOUS
  <2>1. b = a \/ Receives(a, b, t.id[1])
    BY OnNodeResultEffect
  <2>2. Receives(a, b, t.id[1]) => n # t.id[1]
    BY DEF Receives
  <2> QED
    BY <2>1, <2>2 DEF Receives
<1>3. OnNodeTimer(a, t.id).nodes[n] = a.nodes[n]
  <2> SUFFICES ASSUME NEW b, b = OnNodeTimer(a, t.id) PROVE b.nodes[n] = a.nodes[n]
    OBVIOUS
  <2>1. b = a \/ Closes(a, b, t.id) \/ Wakes(a, b, t.id)
    BY OnNodeTimerEffect
  <2>2. CASE Wakes(a, b, t.id)
    <3>1. n # t.id[1]
      BY <2>2 DEF Wakes
    <3> QED
      BY <2>2, <3>1 DEF Wakes
  <2> QED
    BY <2>1, <2>2 DEF Closes
<1>4. ASSUME NEW m \in Nodes PROVE OnHumanResponse(a, m).nodes[n] = a.nodes[n]
  <2> SUFFICES ASSUME NEW b, b = OnHumanResponse(a, m) PROVE b.nodes[n] = a.nodes[n]
    OBVIOUS
  <2>1. b = a \/ Answers(a, b, m)
    BY OnHumanResponseEffect
  <2>2. Answers(a, b, m) => n # m
    BY DEF Answers
  <2> QED
    BY <2>1, <2>2 DEF Answers
<1>5. OnRecovered(a, t.id).nodes[n] = a.nodes[n]
  BY OnRecoveredEffect
<1>6. ASSUME NEW how \in Terminal PROVE End(a, how).nodes[n] = a.nodes[n]
  BY DEF End, CancelActive, State, Active
<1>7. "timed_out" \in Terminal /\ "cancelled" \in Terminal
  BY DEF Terminal
<1> QED
  BY <1>1, <1>2, <1>3, <1>4, <1>5, <1>6, <1>7 DEF OnTrigger, Sound

\* process() moves idle nodes that are ready only.
LEMMA ProcessIdle ==
  ASSUME NEW a \in State, NEW late \in BOOLEAN, NEW n \in Nodes \ Ready(a),
         a.nodes[n].status = "idle"
  PROVE  Process(a, late).nodes[n] = a.nodes[n]
<1>1. ASSUME NEW how \in Terminal PROVE End(a, how).nodes[n] = a.nodes[n]
  BY DEF End, CancelActive, State, Active
<1>2. Settle(StartNodes(a, Ready(a))).nodes[n] = a.nodes[n]
  <2> SUFFICES ASSUME NEW b, b = StartNodes(a, Ready(a)), b \in State
               PROVE  Settle(b).nodes[n] = a.nodes[n]
    BY StartNodesType, ReadyIdle
  <2> QED
    BY StartNodesEffect, ReadyIdle DEF Settle, State
<1>3. "timed_out" \in Terminal /\ "failed" \in Terminal
  BY DEF Terminal
<1> QED
  BY <1>1, <1>2, <1>3 DEF Process

\* a whole step keeps it.
LEMMA StepEnabled ==
  ASSUME NEW a \in State, NEW t, Sound(t), NEW late \in BOOLEAN, Enabled(a)
  PROVE  Enabled(Step(a, t, late))
<1>1. CASE a.run \in Terminal
  BY <1>1 DEF Step
<1>2. CASE a.run \notin Terminal
  <2> DEFINE s == OnTrigger(a, t)
             b == Process(s, late)
  <2>1. /\ s \in State /\ b \in State /\ Step(a, t, late) = b
        /\ Moves(a, s) /\ Moves(s, b)
    BY <1>2, StepMoves
  <2>2. \A n \in Nodes : a.nodes[n].status = "idle" => s.nodes[n] = a.nodes[n]
    BY OnTriggerIdle
  <2>3. \A n \in Nodes \ Ready(s) : s.nodes[n].status = "idle" => b.nodes[n] = s.nodes[n]
    BY <2>1, ProcessIdle
  <2> HIDE DEF s, b
  <2>4. Enabled(s)
    BY <2>1, <2>2, MovesEnabled
  <2> QED
    BY <2>1, <2>3, <2>4, MovesEnabled DEF Ready
<1> QED
  BY <1>1, <1>2

\* a run in which a task runs, or is ready to, is not parked by process().
LEMMA ProcessRuns ==
  ASSUME NEW a \in State, NEW late \in BOOLEAN, a.run = "running", NEW n \in Nodes,
         \/ a.nodes[n].status = "running"
         \/ n \in Ready(a) /\ Kind[n] = "task"
  PROVE  Process(a, late).run # "waiting"
<1>1. ASSUME NEW how \in Terminal PROVE End(a, how).run # "waiting"
  BY <1>1, EndHandled DEF Terminal
<1>2. Settle(StartNodes(a, Ready(a))).run # "waiting"
  <2> SUFFICES ASSUME NEW b, b = StartNodes(a, Ready(a)), b \in State
               PROVE  Settle(b).run # "waiting"
    BY StartNodesType, ReadyIdle
  <2>1. b.run = "running"
    BY StartNodesEffect, ReadyIdle
  <2>2. b.nodes[n].status = "running"
    <3>1. CASE n \in Ready(a)
      <4>1. b.nodes[n] = [status |-> IF Kind[n] = "task" THEN "running" ELSE "waiting",
                          att |-> a.nodes[n].att, turn |-> a.nodes[n].turn]
        BY <3>1, StartNodesEffect, ReadyIdle
      <4>2. Kind[n] = "task"
        BY <3>1, ReadyIdle
      <4> QED
        BY <4>1, <4>2
    <3>2. CASE n \notin Ready(a)
      BY <3>2, StartNodesEffect, ReadyIdle
    <3> QED
      BY <3>1, <3>2
  <2> QED
    BY <2>1, <2>2 DEF Settle, AnyRunning, State
<1>3. "timed_out" \in Terminal /\ "failed" \in Terminal
  BY DEF Terminal
<1> QED
  BY <1>1, <1>2, <1>3 DEF Process, Terminal

\* A recovered node run starts again or ends the run: where no lost node is passed over,
\* no recovery parks the run.
RecoveryResumes ==
  \A n \in Nodes : Kind[n] = "task" => Idempotency[n] = "safe" \/ OnError[n] = "stop"

LEMMA RecoveryParksNobody ==
  ASSUME RecoveryResumes, NEW a \in State, NEW t, NEW late \in BOOLEAN,
         t.type = "recovered", Tidy(a), SettledState(a), Enabled(a),
         Releases(a, t, Step(a, t, late))
  PROVE  Step(a, t, late).run \in Terminal
<1> SUFFICES ASSUME Step(a, t, late).run = "waiting", OnTrigger(a, t).run = "running",
                    a.run \notin Terminal
             PROVE  FALSE
  BY DEF Releases, Step, Terminal
<1> DEFINE s == OnTrigger(a, t)
           b == Process(s, late)
<1>1. s \in State /\ Step(a, t, late) = b
  BY StepMoves DEF Sound
<1>2. s = OnRecovered(a, t.id)
  BY DEF OnTrigger
<1>3. a.run = "running" /\ Moves(a, s)
  BY <1>2, OnRecoveredEffect
<1>4. PICK n \in Nodes : a.nodes[n].status = "running"
  BY <1>3 DEF SettledState, AnyRunning
<1>5. Kind[n] = "task"
  BY <1>4 DEF Tidy, TidyNode
<1>6. \/ s.nodes[n] = a.nodes[n]
      \/ /\ Idempotency[n] = "safe"
         /\ s.nodes[n] = [status |-> "idle", att |-> a.nodes[n].att + 1, turn |-> 0]
      \/ /\ Idempotency[n] # "safe"
         /\ s.nodes[n] = [status |-> "failed", att |-> a.nodes[n].att, turn |-> a.nodes[n].turn]
  BY <1>2, <1>4, NodeFields DEF OnRecovered, State, NodeState
<1> HIDE DEF s
<1>7. CASE s.nodes[n] = a.nodes[n]
  BY <1>1, <1>3, <1>4, <1>7, ProcessRuns DEF s
<1>8. CASE s.nodes[n] = [status |-> "idle", att |-> a.nodes[n].att + 1, turn |-> 0]
  <2>1. \A p \in Preds[n] : p \in Nodes /\ Fires(a, p)
    BY <1>4, PlanAssumption DEF Enabled
  <2>2. \A p \in Preds[n] : Fires(s, p)
    BY <1>1, <1>3, <2>1, MovesFinal DEF Fires, Resolved
  <2>3. n \in Ready(s)
    BY <1>8, <2>2 DEF Ready
  <2> QED
    BY <1>1, <1>5, <2>3, ProcessRuns DEF s
<1>9. CASE Idempotency[n] # "safe" /\ s.nodes[n] = [status |-> "failed", att |-> a.nodes[n].att, turn |-> a.nodes[n].turn]
  <2>1. Failed(s)
    BY <1>5, <1>9 DEF Failed, RecoveryResumes
  <2>2. b.run \in Terminal
    BY <1>1, <2>1, EndHandled DEF Process, Terminal
  <2> QED
    BY <1>1, <2>2 DEF Terminal
<1> QED
  BY <1>6, <1>7, <1>8, <1>9

\* a trigger that tells the run nothing does not park it.
LEMMA ResumeParksNobody ==
  ASSUME NEW a \in State, NEW t, NEW late \in BOOLEAN, t.type = "resume", SettledState(a),
         Releases(a, t, Step(a, t, late))
  PROVE  Step(a, t, late).run \in Terminal
<1> SUFFICES ASSUME Step(a, t, late).run = "waiting", OnTrigger(a, t).run = "running",
                    a.run \notin Terminal
             PROVE  FALSE
  BY DEF Releases, Step, Terminal
<1>1. OnTrigger(a, t) = a
  BY DEF OnTrigger
<1>2. PICK n \in Nodes : a.nodes[n].status = "running"
  BY <1>1 DEF SettledState, AnyRunning
<1> QED
  BY <1>1, <1>2, ProcessRuns DEF Step

\* a cancelled run has ended.
LEMMA CancelEnds ==
  ASSUME NEW a \in State, NEW t, NEW late \in BOOLEAN, t.type = "cancel"
  PROVE  Step(a, t, late).run \in Terminal
<1>1. OnTrigger(a, t) = End(a, "cancelled")
  BY DEF OnTrigger
<1>2. End(a, "cancelled").run \in Terminal
  BY EndHandled DEF Terminal
<1> QED
  BY <1>1, <1>2 DEF Step, Process

\* process() leaves what has started as it is, or cancels it.
LEMMA ProcessKeeps ==
  ASSUME NEW a \in State, NEW late \in BOOLEAN, NEW n \in Nodes, a.nodes[n].status # "idle"
  PROVE  \/ Process(a, late).nodes[n] = a.nodes[n]
         \/ Process(a, late).nodes[n] = [a.nodes[n] EXCEPT !.status = "cancelled"]
<1>1. ASSUME NEW how \in Terminal
      PROVE  End(a, how).nodes[n] \in {a.nodes[n], [a.nodes[n] EXCEPT !.status = "cancelled"]}
  BY DEF End, CancelActive, State
<1>2. Settle(StartNodes(a, Ready(a))).nodes[n] = a.nodes[n]
  <2> SUFFICES ASSUME NEW b, b = StartNodes(a, Ready(a)), b \in State
               PROVE  Settle(b).nodes[n] = a.nodes[n]
    BY StartNodesType, ReadyIdle
  <2>1. n \notin Ready(a)
    BY ReadyIdle
  <2> QED
    BY <2>1, StartNodesEffect, ReadyIdle DEF Settle, State
<1>3. "timed_out" \in Terminal /\ "failed" \in Terminal
  BY DEF Terminal
<1> QED
  BY <1>1, <1>2, <1>3 DEF Process

\* no handler but that of an answer lets a node run.
LEMMA OnTriggerRuns ==
  ASSUME NEW a \in State, NEW t, t.type # "human_response", NEW n \in Nodes,
         OnTrigger(a, t).nodes[n].status = "running"
  PROVE  OnTrigger(a, t).nodes[n] = a.nodes[n]
<1> DEFINE b == OnTrigger(a, t)
<1> SUFFICES b.nodes[n] = a.nodes[n]
  OBVIOUS
<1>1. CASE b.nodes = a.nodes
  BY <1>1
<1>2. CASE t.type = "start"
  <2>1. b.nodes = a.nodes
    BY <1>2 DEF OnTrigger, OnStart, State
  <2> QED
    BY <1>1, <2>1
<1>3. CASE t.type = "node_result"
  <2>1. b = OnNodeResult(a, t.id, t.result) /\ b.nodes[n].status = "running"
    BY <1>3 DEF OnTrigger
  <2> HIDE DEF b
  <2>2. b = a \/ Receives(a, b, t.id[1])
    BY <2>1, OnNodeResultEffect
  <2> QED
    BY <1>1, <2>1, <2>2 DEF Receives
<1>4. CASE t.type = "timer" /\ t.id # Deadline
  <2>1. b = OnNodeTimer(a, t.id) /\ b.nodes[n].status = "running"
    BY <1>4 DEF OnTrigger
  <2> HIDE DEF b
  <2>2. b = a \/ Closes(a, b, t.id) \/ Wakes(a, b, t.id)
    BY <2>1, OnNodeTimerEffect
  <2> QED
    BY <1>1, <2>1, <2>2 DEF Closes, Wakes
<1>5. CASE t.type = "cancel" \/ (t.type = "timer" /\ t.id = Deadline)
  <2>1. PICK how \in Terminal : b = End(a, how)
    BY <1>5 DEF OnTrigger, Terminal
  <2> QED
    BY <2>1, EndEffect DEF Active
<1>6. CASE t.type = "recovered"
  <2>1. b = OnRecovered(a, t.id)
    BY <1>6 DEF OnTrigger
  <2> QED
    BY <2>1, OnRecoveredEffect
<1>7. CASE t.type \notin {"start", "node_result", "timer", "cancel", "recovered"}
  BY <1>1, <1>7 DEF OnTrigger
<1> QED
  BY <1>2, <1>3, <1>4, <1>5, <1>6, <1>7

\* an execution after the first of its node run is started by an answer.
LEMMA OnlyAnswersResume ==
  ASSUME NEW a \in State, NEW t, Sound(t), NEW late \in BOOLEAN, Tidy(a),
         NEW r \in Started(a, Step(a, t, late)), r[3] > 0
  PROVE  t.type = "human_response"
<1> DEFINE s == OnTrigger(a, t)
           b == Step(a, t, late)
<1>1. PICK n \in Nodes :
        /\ r = RunOf(b, n)
        /\ \/ b.nodes[n].status = "running" /\ b.nodes[n] # a.nodes[n]
           \/ b.nodes[n].att = a.nodes[n].att /\ b.nodes[n].turn > a.nodes[n].turn
  BY DEF Started
<1>2. a.run \notin Terminal
  <2> SUFFICES ASSUME a.run \in Terminal PROVE FALSE
    OBVIOUS
  <2> QED
    BY <1>1, NodeFields DEF Step
<1>3. /\ s \in State /\ Moves(a, s) /\ Moves(s, b) /\ b = Process(s, late)
  BY <1>2, StepMoves
<1> HIDE DEF s, b
<1>4. /\ a.nodes[n].turn \in Nat /\ s.nodes[n].turn \in Nat
      /\ Move(n, a.nodes[n], s.nodes[n]) /\ Move(n, s.nodes[n], b.nodes[n])
  BY <1>3, NodeFields DEF Moves
<1>5. b.nodes[n].turn > 0
  BY <1>1 DEF RunOf
<1>6. CASE s.nodes[n].status = "idle"
  <2>1. TidyNode(n, s.nodes[n])
    BY <1>3, MovesTidy DEF Tidy
  <2> QED
    BY <1>4, <1>5, <1>6, <2>1 DEF Move, TidyNode, Active
<1>7. CASE s.nodes[n].status # "idle"
  <2>1. \/ b.nodes[n] = s.nodes[n]
        \/ b.nodes[n] = [s.nodes[n] EXCEPT !.status = "cancelled"]
    BY <1>3, <1>7, ProcessKeeps
  <2>2. s.nodes[n] \in NodeState
    BY <1>3, NodeFields
  <2>3. CASE b.nodes[n].status = "running" /\ b.nodes[n] # a.nodes[n]
    <3>1. b.nodes[n] = s.nodes[n]
      BY <2>1, <2>2, <2>3 DEF NodeState
    <3> QED
      BY <2>3, <3>1, OnTriggerRuns DEF s
  <2>4. CASE b.nodes[n].att = a.nodes[n].att /\ b.nodes[n].turn > a.nodes[n].turn
    <3>1. s.nodes[n].turn > a.nodes[n].turn
      BY <2>1, <2>2, <2>4 DEF NodeState
    <3>2. s.nodes[n].status = "running" /\ s.nodes[n] # a.nodes[n]
      <4> DEFINE x == a.nodes[n]
                 y == s.nodes[n]
      <4>1. Move(n, x, y) /\ x.turn \in Nat /\ y.turn > x.turn
        BY <1>4, <3>1
      <4> HIDE DEF x, y
      <4>2. y.turn # x.turn /\ y.turn # 0 /\ y # x
        BY <4>1
      <4>3. y.status = "running"
        BY <4>1, <4>2 DEF Move
      <4> QED
        BY <4>2, <4>3 DEF x, y
    <3> QED
      BY <3>2, OnTriggerRuns DEF s
  <2> QED
    BY <1>1, <2>3, <2>4
<1> QED
  BY <1>6, <1>7

\* an answered node waits no longer.
LEMMA ResponseAnswers ==
  ASSUME NEW a \in State, NEW n \in Nodes, NEW t, NEW late \in BOOLEAN,
         t.type = "human_response", t.id = n, Kind[n] # "wait", a.run \notin Terminal
  PROVE  a.nodes[n].status = "waiting" =>
           /\ Step(a, t, late).nodes[n].status # "waiting"
           /\ Kind[n] = "task" =>
                Step(a, t, late).nodes[n].status \in {"running", "cancelled"}
<1> DEFINE s == OnTrigger(a, t)
           b == Process(s, late)
<1>1. s \in State /\ Step(a, t, late) = b
  BY StepMoves DEF Sound
<1>2. s = OnHumanResponse(a, n)
  BY DEF OnTrigger
<1> HIDE DEF s
<1>3. CASE a.nodes[n].status = "waiting"
  <2>1. Answers(a, s, n)
    BY <1>2, <1>3, OnHumanResponseEffect
  <2>2. /\ s.nodes[n].status \in {"completed", "running"}
        /\ Kind[n] = "task" => s.nodes[n].status = "running"
    BY <2>1 DEF Answers
  <2>3. b.nodes[n] = s.nodes[n] \/ b.nodes[n].status = "cancelled"
    <3>1. s.nodes[n] \in NodeState
      BY <1>1, NodeFields
    <3>2. [s.nodes[n] EXCEPT !.status = "cancelled"].status = "cancelled"
      BY <3>1 DEF NodeState
    <3>3. s.nodes[n].status # "idle"
      BY <2>2
    <3>4. b.nodes[n] = s.nodes[n] \/ b.nodes[n] = [s.nodes[n] EXCEPT !.status = "cancelled"]
      BY <1>1, <3>3, ProcessKeeps
    <3> QED
      BY <3>2, <3>4
  <2> QED
    BY <1>1, <2>2, <2>3
<1> QED
  BY <1>3

=============================================================================
