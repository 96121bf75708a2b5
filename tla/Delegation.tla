----------------------------- MODULE Delegation -----------------------------
(***************************************************************************)
(* Delegated nodes: the orchestrating worker writes the call, a worker of  *)
(* the pool claims, executes and completes it, and a signal job takes the  *)
(* outcome back to the run.                                                *)
(*                                                                         *)
(* Queues are at-least-once (QueueJobs): a job is delivered again when its *)
(* handler throws or its consumer dies.  A node run is waiting from the    *)
(* commit of NODE_DELEGATED until the run settles it; the run may settle   *)
(* it for other reasons (cancel, deadline).  Execution and payloads are    *)
(* left out.                                                               *)
(***************************************************************************)
EXTENDS Naturals, FiniteSets

CONSTANTS
    Nodes,          \* delegated node runs
    Pool,           \* the pool's workers, one loop each
    None, Dead,
    Setups,         \* kinds of faults, points where a pool worker may die, and whether
                    \* a dead worker's job is delivered only after its claim is stale
    MaxFaults

ASSUME DelegationAssumption ==
    /\ None \notin Pool \cup Nodes \cup {Dead} /\ Dead \notin Pool
    /\ (Pool \cup {None, Dead}) \cap {"ready", "finished"} = {}
    /\ MaxFaults \in Nat
    /\ \A s \in Setups : s.staleFirst \in BOOLEAN

VARIABLES
    setup,      \* the faults of this behaviour; never changes
    node,       \* per node run: idle, waiting, over (in the run's log)
    effect,     \* the delegate effect in the orchestrator's memory: none, row, job
    call,       \* the row of delegated_nodes
    job,        \* node.exec: none, ready, held by a pool worker
    signal,     \* run.signal and the loop that handles it
    worker,     \* per pool worker: where its handler is
    faults

moving == <<node, effect, call, job, signal, worker, faults>>
vars == <<setup, moving>>

Statuses == {"none", "pending", "running", "done", "cleared"}
Call == [status : Statuses, by : Pool \cup {None, Dead}, stale : BOOLEAN]
NoCall == [status |-> "none", by |-> None, stale |-> FALSE]
Points == {"claim", "execute", "complete", "signal", "return"}
Idle == [pc |-> "idle", node |-> None]
Fault(kind) == kind \in setup.kinds /\ faults < MaxFaults /\ faults' = faults + 1

Init ==
    /\ setup \in Setups
    /\ node = [n \in Nodes |-> "idle"]
    /\ effect = [n \in Nodes |-> "none"]
    /\ call = [n \in Nodes |-> NoCall]
    /\ job = [n \in Nodes |-> None]
    /\ signal = [n \in Nodes |-> "none"]
    /\ worker = [p \in Pool |-> Idle]
    /\ faults = 0

----------------------------------------------------------------------------
\* The orchestrating worker.

\* runStep commits NODE_STARTED and NODE_DELEGATED; the effect follows.
Start(n) ==
    /\ node[n] = "idle"
    /\ node' = [node EXCEPT ![n] = "waiting"]
    /\ effect' = [effect EXCEPT ![n] = "row"]
    /\ UNCHANGED <<call, job, signal, worker, faults>>

\* delegateNode: insert the call unless there is one ...
WriteCall(n) ==
    /\ effect[n] = "row"
    /\ call' = IF call[n].status = "none" THEN [call EXCEPT ![n].status = "pending"] ELSE call
    /\ effect' = [effect EXCEPT ![n] = "job"]
    /\ UNCHANGED <<node, job, signal, worker, faults>>

\* ... then enqueue node.exec under the node run's jobId.
EnqueueCall(n) ==
    /\ effect[n] = "job"
    /\ job' = IF job[n] = None THEN [job EXCEPT ![n] = "ready"] ELSE job
    /\ effect' = [effect EXCEPT ![n] = "none"]
    /\ UNCHANGED <<node, call, signal, worker, faults>>

\* The orchestrating worker dies between the commit and its effects.
LoseEffects ==
    /\ Fault("orchestrator")
    /\ effect' = [n \in Nodes |-> "none"]
    /\ UNCHANGED <<node, call, job, signal, worker>>

\* The run settles the node without its result: cancelled, timed out, raced.
Settle(n) ==
    /\ node[n] = "waiting"
    /\ node' = [node EXCEPT ![n] = "over"]
    /\ UNCHANGED <<effect, call, job, signal, worker, faults>>

----------------------------------------------------------------------------
\* A worker of the pool: poolExecutor.handle.
At(p, pc) == worker[p].pc = pc
Goto(p, pc) == worker' = [worker EXCEPT ![p].pc = pc]
DoneNot(n) == job
Done(n) == [job EXCEPT ![n] = "finished"]

Take(p, n) ==
    /\ At(p, "idle")
    /\ job[n] = "ready"
    /\ job' = [job EXCEPT ![n] = p]
    /\ worker' = [worker EXCEPT ![p] = [pc |-> "claim", node |-> n]]
    /\ UNCHANGED <<node, effect, call, signal, faults>>

\* flowaid_delegated_claim
ClaimablePending(c) == c.status = "pending"
ClaimableRunning(c) == c.status \in {"pending", "running"}
ClaimableByAge(c) == c.status = "pending" \/ c.stale
Claimable(c) == c.status = "pending" \/ (c.status = "running" /\ c.stale)

Claim(p) ==
    /\ At(p, "claim")
    /\ Claimable(call[worker[p].node])
    /\ call' = [call EXCEPT ![worker[p].node] = [status |-> "running", by |-> p, stale |-> FALSE]]
    /\ Goto(p, "execute")
    /\ UNCHANGED <<node, effect, job, signal, faults>>

\* "done, or held by a live worker": the handler returns.
ClaimNothing(p) ==
    /\ At(p, "claim")
    /\ ~Claimable(call[worker[p].node])
    /\ Goto(p, "return")
    /\ UNCHANGED <<node, effect, call, job, signal, faults>>

Execute(p) ==
    /\ At(p, "execute")
    /\ Goto(p, "complete")
    /\ UNCHANGED <<node, effect, call, job, signal, faults>>

\* flowaid_delegated_complete; a claim that was taken over is dropped.
Completes(p, c) == c.status = "running" /\ c.by = p

Complete(p) ==
    /\ At(p, "complete")
    /\ IF Completes(p, call[worker[p].node])
       THEN /\ call' = [call EXCEPT ![worker[p].node].status = "done"]
            /\ Goto(p, "signal")
       ELSE Goto(p, "return") /\ UNCHANGED call
    /\ UNCHANGED <<node, effect, job, signal, faults>>

EnqueueSignal(p) ==
    /\ At(p, "signal")
    /\ signal' = [signal EXCEPT ![worker[p].node] = "ready"]
    /\ Goto(p, "return")
    /\ UNCHANGED <<node, effect, call, job, faults>>

\* The handler returned: the queue finishes the job (if this worker still has it).
Return(p) ==
    /\ At(p, "return")
    /\ job' = IF job[worker[p].node] = p THEN Done(worker[p].node) ELSE job
    /\ worker' = [worker EXCEPT ![p] = Idle]
    /\ UNCHANGED <<node, effect, call, signal, faults>>

\* The handler threw: the queue delivers the job again after its backoff.
Throw(p, pc, kind) ==
    /\ At(p, pc)
    /\ Fault(kind)
    /\ job' = IF job[worker[p].node] = p THEN [job EXCEPT ![worker[p].node] = "ready"] ELSE job
    /\ worker' = [worker EXCEPT ![p] = Idle]
    /\ UNCHANGED <<node, effect, call, signal>>

\* A pool worker dies.
Crash(p) ==
    /\ worker[p].pc \in setup.points
    /\ Fault("crash")
    /\ worker' = [worker EXCEPT ![p] = Idle]
    /\ job' = [n \in Nodes |-> IF job[n] = p THEN Dead ELSE job[n]]
    /\ call' = [n \in Nodes |-> IF call[n].by = p THEN [call[n] EXCEPT !.by = Dead] ELSE call[n]]
    /\ UNCHANGED <<node, effect, signal>>

GoesStaleLive(n) ==
    /\ call[n].status = "running" /\ ~call[n].stale
    /\ call[n].by # Dead /\ "slow" \in setup.kinds
    /\ call' = [call EXCEPT ![n].stale = TRUE]
    /\ UNCHANGED <<node, effect, job, signal, worker, faults>>

\* The stale window of a claim passes; nothing extends it while a worker executes.
GoesStale(n) ==
    /\ call[n].status = "running" /\ ~call[n].stale
    /\ call[n].by = Dead \/ "slow" \in setup.kinds
    /\ call' = [call EXCEPT ![n].stale = TRUE]
    /\ UNCHANGED <<node, effect, job, signal, worker, faults>>

\* The queue delivers the job of a dead consumer again.
Redeliver(n) ==
    /\ job[n] = Dead
    /\ setup.staleFirst => ~(call[n].status = "running" /\ ~call[n].stale)
    /\ job' = [job EXCEPT ![n] = "ready"]
    /\ UNCHANGED <<node, effect, call, signal, worker, faults>>

\* ... or of one that stalled past its visibility lease.
RedeliverStalled(n) ==
    /\ job[n] \in Pool
    /\ Fault("stall")
    /\ job' = [job EXCEPT ![n] = "ready"]
    /\ UNCHANGED <<node, effect, call, signal, worker>>

----------------------------------------------------------------------------
\* The signal job: readDelegatedResult, orchestrator.handle, clearDelegatedResult.
ReadResult(n) ==
    /\ signal[n] = "ready"
    /\ signal' = [signal EXCEPT ![n] = IF call[n].status = "done" THEN "read" ELSE "finished"]
    /\ UNCHANGED <<node, effect, call, job, worker, faults>>

Handle(n) ==
    /\ signal[n] = "read"
    /\ node' = [node EXCEPT ![n] = "over"]
    /\ signal' = [signal EXCEPT ![n] = "handled"]
    /\ UNCHANGED <<effect, call, job, worker, faults>>

\* busy or lost: the job goes back on its queue; so it does when handle() throws
\* or the consumer dies.
AfterBusyDone == "handled"
AfterBusy == "ready"
HandleBusy(n) ==
    /\ signal[n] = "read"
    /\ Fault("busy")
    /\ signal' = [signal EXCEPT ![n] = AfterBusy]
    /\ UNCHANGED <<node, effect, call, job, worker>>

\* handle() returns "ok" without the trigger: the recovery before it parked the run.
HandleSwallowed(n) ==
    /\ signal[n] = "read"
    /\ Fault("swallow")
    /\ signal' = [signal EXCEPT ![n] = "handled"]
    /\ UNCHANGED <<node, effect, call, job, worker>>

Clear(n) ==
    /\ signal[n] = "handled"
    /\ call' = IF call[n].status = "done" THEN [call EXCEPT ![n].status = "cleared"] ELSE call
    /\ signal' = [signal EXCEPT ![n] = "finished"]
    /\ UNCHANGED <<node, effect, job, worker, faults>>

CrashSignal(n) ==
    /\ signal[n] \in {"read", "handled"}
    /\ Fault("crash")
    /\ signal' = [signal EXCEPT ![n] = "ready"]
    /\ UNCHANGED <<node, effect, call, job, worker>>

----------------------------------------------------------------------------
Orchestrate(n) == WriteCall(n) \/ EnqueueCall(n)
PoolStep(p) ==
    \/ \E n \in Nodes : Take(p, n)
    \/ Claim(p) \/ ClaimNothing(p) \/ Execute(p) \/ Complete(p) \/ EnqueueSignal(p) \/ Return(p)
SignalStep(n) == ReadResult(n) \/ Handle(n) \/ Clear(n)

Next ==
    /\ \/ \E n \in Nodes : Start(n) \/ Settle(n) \/ Orchestrate(n) \/ SignalStep(n)
       \/ \E n \in Nodes : GoesStale(n) \/ Redeliver(n) \/ RedeliverStalled(n)
       \/ \E n \in Nodes : HandleBusy(n) \/ HandleSwallowed(n) \/ CrashSignal(n)
       \/ \E p \in Pool : PoolStep(p) \/ Crash(p)
       \/ \E p \in Pool : Throw(p, "complete", "store") \/ Throw(p, "signal", "signal")
       \/ LoseEffects
    /\ UNCHANGED setup

Spec == Init /\ [][Next]_vars

\* Workers run, queues deliver, clocks pass; nothing is assumed of Settle.
Fairness ==
    /\ \A n \in Nodes : WF_moving(Orchestrate(n)) /\ WF_moving(SignalStep(n))
    /\ \A n \in Nodes : WF_moving(GoesStale(n)) /\ WF_moving(Redeliver(n))
    /\ \A p \in Pool : WF_moving(PoolStep(p))
LiveSpec == Spec /\ Fairness

----------------------------------------------------------------------------
TypeOK ==
    /\ setup \in Setups
    /\ node \in [Nodes -> {"idle", "waiting", "over"}]
    /\ effect \in [Nodes -> {"none", "row", "job"}]
    /\ call \in [Nodes -> Call]
    /\ job \in [Nodes -> Pool \cup {None, Dead, "ready", "finished"}]
    /\ signal \in [Nodes -> {"none", "ready", "read", "handled", "finished"}]
    /\ worker \in [Pool -> [pc : Points \cup {"idle"}, node : Nodes \cup {None}]]
    /\ \A n \in Nodes : job[n] \in Pool => worker[job[n]].node = n
    /\ faults \in 0..MaxFaults

\* Who carries a delegated node on: the orchestrator's effect, the pool's queue, a
\* worker on its way to an outcome, or the signal of a stored one.
CarriedOn(n) ==
    \/ effect[n] # "none"
    \/ job[n] \in {"ready", Dead}
    \/ \E p \in Pool : worker[p].node = n /\ worker[p].pc \in {"claim", "execute", "complete", "signal"}
    \/ call[n].status = "done" /\ signal[n] \in {"ready", "read", "handled"}

\* The faults this hand-over is built for: pool workers die anywhere but between the
\* outcome and its signal, leases of the run are busy, and no job of a dead worker
\* comes back while its claim still looks alive.
Foreseen ==
    /\ setup.kinds \subseteq {"crash", "busy"}
    /\ "signal" \notin setup.points
    /\ setup.staleFirst

\* While a run waits for a delegated node, somebody carries it on: no crash,
\* retry or takeover of delegateNode, of the pool's handler or of the signal may
\* leave a run waiting for an outcome nobody computes.
AlwaysCarriedOn == \A n \in Nodes : node[n] = "waiting" => CarriedOn(n)
HandoverIsTracked == Foreseen => AlwaysCarriedOn

\* An outcome is removed only after the run has settled its node, unless the
\* orchestrator says "ok" without having taken it.
ClearedIsLogged ==
    "swallow" \notin setup.kinds =>
        \A n \in Nodes : call[n].status = "cleared" => node[n] = "over"

\* Unless its worker is slower than the stale window, a delegated node is executed by
\* one worker at a time, whatever the queue delivers twice.
ExecutedByOne ==
    "slow" \notin setup.kinds =>
        \A p, q \in Pool :
            At(p, "execute") /\ At(q, "execute") /\ worker[p].node = worker[q].node => p = q

\* An outcome, once stored, is replaced by nobody: a worker whose claim was taken
\* over, or a job delivered twice, does not complete the call again.
OutcomeIsKept ==
    [][\A n \in Nodes : call[n].status = "done" => call'[n].status \in {"done", "cleared"}]_vars

\* A run that waits for a delegated node goes on.
DelegatedEnds == Foreseen => \A n \in Nodes : node[n] = "waiting" ~> node[n] = "over"

=============================================================================
