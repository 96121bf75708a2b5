----------------------------- MODULE RunMachine -----------------------------
(***************************************************************************)
(* What a run promises: the states of one sequential machine that takes    *)
(* one scheduler step after the other and never loses, forks or repeats    *)
(* its history.  Orchestrator, with its leases, crashes and stale copies,  *)
(* implements it: the state is the reduction of the log.                   *)
(***************************************************************************)
EXTENDS RunStep

VARIABLE st  \* the scheduler state of the run

RunningRuns == {RunOf(st, n) : n \in {m \in Nodes : st.nodes[m].status = "running"}}
Asking == {n \in Nodes : Kind[n] # "wait" /\ st.nodes[n].status = "waiting"}

T(type, id, result) == [type |-> type, id |-> id, result |-> result]

\* One step of the scheduler, on the current state.
Advance(t) == \E late \in BOOLEAN : st' = Step(st, t, late)

StartRun == Advance(T("start", Deadline, "ok"))
Result == \E r \in RunningRuns, result \in ResultTypes : Advance(T("node_result", r, result))
FireTimer == \E t \in st.timers \cup {Deadline} : Advance(T("timer", t, "ok"))
Answer == \E n \in Asking : Advance(T("human_response", n, "ok"))
Recover_ == \E lost \in SUBSET RunningRuns : Advance(T("recovered", lost, "ok"))
Cancel == Advance(T("cancel", Deadline, "ok"))
Look == Advance(T("resume", Deadline, "ok"))

MachineInit == st = InitialState
MachineNext == StartRun \/ Result \/ FireTimer \/ Answer \/ Recover_ \/ Cancel \/ Look
MachineSpec == MachineInit /\ [][MachineNext]_st

-----------------------------------------------------------------------------
MachineTypeOK == st \in State

\* Every step ends settled: a failure has ended the run, everything that may start
\* has started, and the run is parked exactly when nothing executes but something
\* waits.  A run that has ended has nothing active.
Settled ==
  /\ st.run \in {"running", "waiting"} => ~Failed(st) /\ Ready(st) = {} /\ AnyActive(st)
  /\ st.run = "running" => AnyRunning(st)
  /\ st.run = "waiting" => ~AnyRunning(st)
  /\ st.run \in Terminal \cup {"queued"} => ~AnyActive(st)

\* Whatever waits can be woken: the timer of its very turn is open, or it waits for a
\* person it asked without a time limit.
WaitersHaveTimers ==
  \A n \in Nodes :
    /\ st.nodes[n].status = "retry_wait" => RunOf(st, n) \in st.timers
    /\ st.nodes[n].status = "waiting" => RunOf(st, n) \in st.timers \/ (n \in Asking /\ ~Expires[n])

\* A node that is not safe to repeat gets a second attempt only where its policy
\* allows retries all the same, and within that policy: a recovery never adds one.
NoneKeepsItsPolicy ==
  \A n \in Nodes : Idempotency[n] = "none" =>
    st.nodes[n].att <= IF AllowOnIrreversible[n] THEN MaxAttempts[n] ELSE 1

\* History is never taken back: the end of a run and the end of a node run are final.
Final == [][/\ st.run \in Terminal => st' = st
            /\ \A n \in Nodes :
                 st.nodes[n].status \in Resolved => st'.nodes[n] = st.nodes[n]]_st

=============================================================================
