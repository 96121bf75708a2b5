-------------------------- MODULE DelegationProofs --------------------------
(***************************************************************************)
(* The hand-over of nodes to a pool, for any nodes, any pool, any kinds    *)
(* and any number of faults.                                               *)
(*                                                                         *)
(* The argument: a worker that executes or completes a call is the one the *)
(* call names, because a claim grows stale only when its worker is dead    *)
(* (Owned); and as long as no job is in two hands, whoever stops working   *)
(* on a node leaves its job, its claim or its outcome in a state from      *)
(* which somebody else goes on (Tracked).                                  *)
(***************************************************************************)
EXTENDS Delegation, TLAPS

Working(p) == worker[p].pc \in {"claim", "execute", "complete", "signal"}

\* An idle worker has no node, and a busy one has one.
Placed == \A p \in Pool : worker[p].pc = "idle" <=> worker[p].node = None

\* A signal is handled, and an outcome removed, only after its node is over.
Logged ==
    "swallow" \notin setup.kinds =>
        \A n \in Nodes : signal[n] = "handled" \/ call[n].status = "cleared" => node[n] = "over"

\* The call a worker executes or completes is its own; stale claims are of the dead.
Owned ==
    "slow" \notin setup.kinds =>
        /\ \A p \in Pool :
              worker[p].pc \in {"execute", "complete"} =>
                  call[worker[p].node].status = "running" /\ call[worker[p].node].by = p
        /\ \A n \in Nodes : call[n].status = "running" /\ call[n].stale => call[n].by = Dead

\* The order in which a hand-over begins: the call, then its job.
Begun(n) ==
    /\ node[n] = "idle" => effect[n] = "none" /\ job[n] = None
    /\ effect[n] # "none" => job[n] = None
    /\ effect[n] = "job" \/ job[n] # None => call[n].status # "none"
    /\ job[n] = None => call[n].status \in {"none", "pending"}

\* A job that is ready is claimed for a call that is not being executed.
Fresh(n) == ~(call[n].status = "running" /\ ~call[n].stale)

\* A stored outcome has a signal, or a worker about to send it.
Told(n) ==
    /\ call[n].status = "done" =>
          \/ signal[n] \in {"ready", "read", "handled"}
          \/ \E p \in Pool : worker[p].node = n /\ worker[p].pc = "signal"
    /\ signal[n] # "none" => call[n].status \in {"done", "cleared"}

\* What a worker on its way to an outcome may rely on.
Held(p) ==
    /\ Working(p) => job[worker[p].node] = p
    /\ worker[p].pc = "claim" => Fresh(worker[p].node)
    /\ worker[p].pc = "signal" => call[worker[p].node].status \in {"done", "cleared"}

Tracked ==
    Foreseen =>
        /\ \A n \in Nodes : Begun(n) /\ Told(n) /\ (job[n] = "ready" => Fresh(n))
        /\ \A p \in Pool : Held(p)
        /\ AlwaysCarriedOn

IInv == TypeOK /\ Placed /\ Logged /\ Owned /\ Tracked

----------------------------------------------------------------------------
LEMMA InitIInv == Init => IInv
  BY DelegationAssumption
  DEF Init, IInv, TypeOK, Placed, Logged, Owned, Tracked, Begun, Fresh, Told, Held, Working,
      AlwaysCarriedOn, CarriedOn, Call, NoCall, Idle, Statuses, Points

\* The actions by what they are about: a node run, or a worker of the pool.
NodeStep(n) ==
    \/ Start(n) \/ Settle(n) \/ Orchestrate(n) \/ SignalStep(n)
    \/ GoesStale(n) \/ Redeliver(n) \/ RedeliverStalled(n)
    \/ HandleBusy(n) \/ HandleSwallowed(n) \/ CrashSignal(n)
WorkerStep(p) ==
    PoolStep(p) \/ Crash(p) \/ Throw(p, "complete", "store") \/ Throw(p, "signal", "signal")

LEMMA NextSteps ==
  ASSUME [Next]_vars
  PROVE  \/ \E n \in Nodes : NodeStep(n) /\ setup' = setup
         \/ \E p \in Pool : WorkerStep(p) /\ setup' = setup
         \/ LoseEffects /\ setup' = setup
         \/ UNCHANGED vars
  BY DEF Next, NodeStep, WorkerStep
LEMMA CallKept ==
  ASSUME NEW c \in Call
  PROVE  /\ [c EXCEPT !.status = "pending"] \in Call
         /\ [c EXCEPT !.stale = TRUE] \in Call
         /\ [c EXCEPT !.by = Dead] \in Call
  BY DEF Call, Statuses

LEMMA TypeNode ==
  ASSUME IInv, NEW n \in Nodes, NodeStep(n), setup' = setup
  PROVE  TypeOK'
<1> USE DelegationAssumption DEF IInv, TypeOK, Placed, Call, Statuses, Points, Idle, At, Goto,
       Fault
<1>1. CASE Start(n)
  BY <1>1 DEF Start
<1>2. CASE Settle(n)
  BY <1>2 DEF Settle
<1>3. CASE WriteCall(n)
  <2> HIDE DEF Call
  <2>1. [call[n] EXCEPT !.status = "pending"] \in Call
    BY CallKept
  <2>2. call' \in [Nodes -> Call]
    BY <1>3, <2>1 DEF WriteCall
  <2>3. QED
    BY <1>3, <2>2 DEF WriteCall
<1>4. CASE EnqueueCall(n)
  BY <1>4 DEF EnqueueCall
<1>5. CASE ReadResult(n)
  BY <1>5 DEF ReadResult
<1>6. CASE Handle(n)
  BY <1>6 DEF Handle
<1>7. CASE Clear(n)
  BY <1>7 DEF Clear
<1>8. CASE GoesStale(n)
  <2> HIDE DEF Call
  <2>1. [call[n] EXCEPT !.stale = TRUE] \in Call
    BY CallKept
  <2>2. call' \in [Nodes -> Call]
    BY <1>8, <2>1 DEF GoesStale
  <2>3. QED
    BY <1>8, <2>2 DEF GoesStale
<1>9. CASE Redeliver(n)
  BY <1>9 DEF Redeliver
<1>10. CASE RedeliverStalled(n)
  BY <1>10 DEF RedeliverStalled
<1>11. CASE HandleBusy(n)
  BY <1>11 DEF HandleBusy, AfterBusy
<1>12. CASE HandleSwallowed(n)
  BY <1>12 DEF HandleSwallowed
<1>13. CASE CrashSignal(n)
  BY <1>13 DEF CrashSignal
<1>14. QED
  BY <1>1, <1>2, <1>3, <1>4, <1>5, <1>6, <1>7, <1>8, <1>9, <1>10, <1>11, <1>12, <1>13
  DEF NodeStep, Orchestrate, SignalStep

LEMMA TypeWorker ==
  ASSUME IInv, NEW p \in Pool, WorkerStep(p), setup' = setup
  PROVE  TypeOK'
<1> USE DelegationAssumption DEF IInv, TypeOK, Placed, Call, Statuses, Points, Idle, At, Goto,
       Fault
<1>1. CASE \E n \in Nodes : Take(p, n)
  BY <1>1 DEF Take
<1>2. CASE Claim(p)
  BY <1>2 DEF Claim, Claimable
<1>3. CASE ClaimNothing(p)
  BY <1>3 DEF ClaimNothing, Claimable
<1>4. CASE Execute(p)
  BY <1>4 DEF Execute
<1>5. CASE Complete(p)
  <2>1. worker[p].pc = "complete" /\ worker[p].node \in Nodes
    BY <1>5 DEF Complete
  <2>2. CASE Completes(p, call[worker[p].node])
    <3>1. /\ call' = [call EXCEPT ![worker[p].node] = [call[worker[p].node] EXCEPT !.status = "done"]]
          /\ worker' = [worker EXCEPT ![p] = [pc |-> "signal", node |-> worker[p].node]]
          /\ UNCHANGED <<node, effect, job, signal, faults>>
      BY <1>5, <2>1, <2>2 DEF Complete
    <3>2. QED
      BY <2>1, <2>2, <3>1 DEF Completes
  <2>3. CASE ~Completes(p, call[worker[p].node])
    <3>1. /\ worker' = [worker EXCEPT ![p] = [pc |-> "return", node |-> worker[p].node]]
          /\ UNCHANGED <<node, effect, call, job, signal, faults>>
      BY <1>5, <2>1, <2>3 DEF Complete
    <3>2. QED
      BY <2>1, <2>3, <3>1
  <2>4. QED
    BY <2>2, <2>3
<1>6. CASE EnqueueSignal(p)
  BY <1>6 DEF EnqueueSignal
<1>7. CASE Return(p)
  BY <1>7 DEF Return, Done
<1>8. CASE Crash(p)
  <2>1. /\ worker' = [worker EXCEPT ![p] = [pc |-> "idle", node |-> None]]
        /\ job' = [n \in Nodes |-> IF job[n] = p THEN Dead ELSE job[n]]
        /\ call' = [n \in Nodes |-> IF call[n].by = p THEN [call[n] EXCEPT !.by = Dead] ELSE call[n]]
    BY <1>8 DEF Crash
  <2>2. job' \in [Nodes -> Pool \cup {None, Dead, "ready", "finished"}] /\ call' \in [Nodes -> Call]
    <3> HIDE DEF Call
    <3>1. \A c \in Call : [c EXCEPT !.by = Dead] \in Call
      BY CallKept
    <3>2. call' \in [Nodes -> Call]
      BY <2>1, <3>1
    <3>3. QED
      BY <2>1, <3>2
  <2>3. \A n \in Nodes : job'[n] \in Pool => worker'[job'[n]].node = n
    BY <2>1
  <2>4. QED
    BY <1>8, <2>1, <2>2, <2>3 DEF Crash
<1>9. CASE Throw(p, "complete", "store")
  <2>1. worker[p].pc # "idle" /\ worker[p].node \in Nodes
    BY <1>9 DEF Throw
  <2>2. /\ job' = IF job[worker[p].node] = p THEN [job EXCEPT ![worker[p].node] = "ready"] ELSE job
        /\ worker' = [worker EXCEPT ![p] = [pc |-> "idle", node |-> None]]
    BY <1>9 DEF Throw
  <2>3. job' \in [Nodes -> Pool \cup {None, Dead, "ready", "finished"}]
    BY <2>1, <2>2
  <2>4. \A n \in Nodes : job'[n] \in Pool => worker'[job'[n]].node = n
    BY <2>1, <2>2
  <2>5. QED
    BY <1>9, <2>2, <2>3, <2>4 DEF Throw
<1>10. CASE Throw(p, "signal", "signal")
  <2>1. worker[p].pc # "idle" /\ worker[p].node \in Nodes
    BY <1>10 DEF Throw
  <2>2. /\ job' = IF job[worker[p].node] = p THEN [job EXCEPT ![worker[p].node] = "ready"] ELSE job
        /\ worker' = [worker EXCEPT ![p] = [pc |-> "idle", node |-> None]]
    BY <1>10 DEF Throw
  <2>3. job' \in [Nodes -> Pool \cup {None, Dead, "ready", "finished"}]
    BY <2>1, <2>2
  <2>4. \A n \in Nodes : job'[n] \in Pool => worker'[job'[n]].node = n
    BY <2>1, <2>2
  <2>5. QED
    BY <1>10, <2>2, <2>3, <2>4 DEF Throw
<1>11. QED
  BY <1>1, <1>2, <1>3, <1>4, <1>5, <1>6, <1>7, <1>8, <1>9, <1>10 DEF WorkerStep, PoolStep

LEMMA LoggedNode ==
  ASSUME IInv, NEW n \in Nodes, NodeStep(n), setup' = setup
  PROVE  Placed' /\ Logged'
<1> USE DelegationAssumption DEF IInv, TypeOK, Placed, Call, Statuses, Points, Idle, At, Goto,
       Fault, Logged
<1>1. CASE Start(n)
  BY <1>1 DEF Start
<1>2. CASE Settle(n)
  BY <1>2 DEF Settle
<1>3. CASE WriteCall(n)
  BY <1>3 DEF WriteCall
<1>4. CASE EnqueueCall(n)
  BY <1>4 DEF EnqueueCall
<1>5. CASE ReadResult(n)
  BY <1>5 DEF ReadResult
<1>6. CASE Handle(n)
  BY <1>6 DEF Handle
<1>7. CASE Clear(n)
  BY <1>7 DEF Clear
<1>8. CASE GoesStale(n)
  BY <1>8 DEF GoesStale
<1>9. CASE Redeliver(n)
  BY <1>9 DEF Redeliver
<1>10. CASE RedeliverStalled(n)
  BY <1>10 DEF RedeliverStalled
<1>11. CASE HandleBusy(n)
  BY <1>11 DEF HandleBusy, AfterBusy
<1>12. CASE HandleSwallowed(n)
  BY <1>12 DEF HandleSwallowed
<1>13. CASE CrashSignal(n)
  BY <1>13 DEF CrashSignal
<1>14. QED
  BY <1>1, <1>2, <1>3, <1>4, <1>5, <1>6, <1>7, <1>8, <1>9, <1>10, <1>11, <1>12, <1>13
  DEF NodeStep, Orchestrate, SignalStep

LEMMA LoggedWorker ==
  ASSUME IInv, NEW p \in Pool, WorkerStep(p), setup' = setup
  PROVE  Placed' /\ Logged'
<1> USE DelegationAssumption DEF IInv, TypeOK, Placed, Call, Statuses, Points, Idle, At, Goto,
       Fault, Logged
<1>1. CASE \E n \in Nodes : Take(p, n)
  BY <1>1 DEF Take
<1>2. CASE Claim(p)
  BY <1>2 DEF Claim, Claimable
<1>3. CASE ClaimNothing(p)
  BY <1>3 DEF ClaimNothing, Claimable
<1>4. CASE Execute(p)
  BY <1>4 DEF Execute
<1>5. CASE Complete(p)
  <2>1. worker[p].pc = "complete" /\ worker[p].node \in Nodes
    BY <1>5 DEF Complete
  <2>2. CASE Completes(p, call[worker[p].node])
    <3>1. /\ call' = [call EXCEPT ![worker[p].node] = [call[worker[p].node] EXCEPT !.status = "done"]]
          /\ worker' = [worker EXCEPT ![p] = [pc |-> "signal", node |-> worker[p].node]]
          /\ UNCHANGED <<node, effect, job, signal, faults>>
      BY <1>5, <2>1, <2>2 DEF Complete
    <3>2. QED
      BY <2>1, <2>2, <3>1 DEF Completes
  <2>3. CASE ~Completes(p, call[worker[p].node])
    <3>1. /\ worker' = [worker EXCEPT ![p] = [pc |-> "return", node |-> worker[p].node]]
          /\ UNCHANGED <<node, effect, call, job, signal, faults>>
      BY <1>5, <2>1, <2>3 DEF Complete
    <3>2. QED
      BY <2>1, <2>3, <3>1
  <2>4. QED
    BY <2>2, <2>3
<1>6. CASE EnqueueSignal(p)
  BY <1>6 DEF EnqueueSignal
<1>7. CASE Return(p)
  BY <1>7 DEF Return, Done
<1>8. CASE Crash(p)
  BY <1>8 DEF Crash
<1>9. CASE Throw(p, "complete", "store")
  BY <1>9 DEF Throw
<1>10. CASE Throw(p, "signal", "signal")
  BY <1>10 DEF Throw
<1>11. QED
  BY <1>1, <1>2, <1>3, <1>4, <1>5, <1>6, <1>7, <1>8, <1>9, <1>10 DEF WorkerStep, PoolStep

LEMMA OwnedNode ==
  ASSUME IInv, NEW n \in Nodes, NodeStep(n), setup' = setup
  PROVE  Owned'
<1> USE DelegationAssumption DEF IInv, TypeOK, Placed, Call, Statuses, Points, Idle, At, Goto,
       Fault, Owned
<1>1. CASE Start(n)
  BY <1>1 DEF Start
<1>2. CASE Settle(n)
  BY <1>2 DEF Settle
<1>3. CASE WriteCall(n)
  BY <1>3 DEF WriteCall
<1>4. CASE EnqueueCall(n)
  BY <1>4 DEF EnqueueCall
<1>5. CASE ReadResult(n)
  BY <1>5 DEF ReadResult
<1>6. CASE Handle(n)
  BY <1>6 DEF Handle
<1>7. CASE Clear(n)
  BY <1>7 DEF Clear
<1>8. CASE GoesStale(n)
  BY <1>8 DEF GoesStale
<1>9. CASE Redeliver(n)
  BY <1>9 DEF Redeliver
<1>10. CASE RedeliverStalled(n)
  BY <1>10 DEF RedeliverStalled
<1>11. CASE HandleBusy(n)
  BY <1>11 DEF HandleBusy, AfterBusy
<1>12. CASE HandleSwallowed(n)
  BY <1>12 DEF HandleSwallowed
<1>13. CASE CrashSignal(n)
  BY <1>13 DEF CrashSignal
<1>14. QED
  BY <1>1, <1>2, <1>3, <1>4, <1>5, <1>6, <1>7, <1>8, <1>9, <1>10, <1>11, <1>12, <1>13
  DEF NodeStep, Orchestrate, SignalStep

LEMMA OwnedWorker ==
  ASSUME IInv, NEW p \in Pool, WorkerStep(p), setup' = setup
  PROVE  Owned'
<1> USE DelegationAssumption DEF IInv, TypeOK, Placed, Call, Statuses, Points, Idle, At, Goto,
       Fault, Owned
<1>1. CASE \E n \in Nodes : Take(p, n)
  BY <1>1 DEF Take
<1>2. CASE Claim(p)
  BY <1>2 DEF Claim, Claimable
<1>3. CASE ClaimNothing(p)
  BY <1>3 DEF ClaimNothing, Claimable
<1>4. CASE Execute(p)
  BY <1>4 DEF Execute
<1>5. CASE Complete(p)
  <2>1. worker[p].pc = "complete" /\ worker[p].node \in Nodes
    BY <1>5 DEF Complete
  <2>2. CASE Completes(p, call[worker[p].node])
    <3>1. /\ call' = [call EXCEPT ![worker[p].node] = [call[worker[p].node] EXCEPT !.status = "done"]]
          /\ worker' = [worker EXCEPT ![p] = [pc |-> "signal", node |-> worker[p].node]]
          /\ UNCHANGED <<node, effect, job, signal, faults>>
      BY <1>5, <2>1, <2>2 DEF Complete
    <3>2. QED
      BY <2>1, <2>2, <3>1 DEF Completes
  <2>3. CASE ~Completes(p, call[worker[p].node])
    <3>1. /\ worker' = [worker EXCEPT ![p] = [pc |-> "return", node |-> worker[p].node]]
          /\ UNCHANGED <<node, effect, call, job, signal, faults>>
      BY <1>5, <2>1, <2>3 DEF Complete
    <3>2. QED
      BY <2>1, <2>3, <3>1
  <2>4. QED
    BY <2>2, <2>3
<1>6. CASE EnqueueSignal(p)
  BY <1>6 DEF EnqueueSignal
<1>7. CASE Return(p)
  BY <1>7 DEF Return, Done
<1>8. CASE Crash(p)
  BY <1>8 DEF Crash
<1>9. CASE Throw(p, "complete", "store")
  BY <1>9 DEF Throw
<1>10. CASE Throw(p, "signal", "signal")
  BY <1>10 DEF Throw
<1>11. QED
  BY <1>1, <1>2, <1>3, <1>4, <1>5, <1>6, <1>7, <1>8, <1>9, <1>10 DEF WorkerStep, PoolStep

LEMMA Unforeseen ==
  ASSUME setup.kinds \cap {"store", "signal", "orchestrator"} # {}, setup' = setup
  PROVE  Tracked'
  BY DEF Tracked, Foreseen

LEMMA ClearedIsOver ==
  ASSUME IInv, Foreseen, NEW n \in Nodes, call[n].status = "cleared"
  PROVE  node[n] = "over"
  BY DEF IInv, Logged, Foreseen

LEMMA TrackedNode ==
  ASSUME IInv, NEW n \in Nodes, NodeStep(n), setup' = setup
  PROVE  Tracked'
<1> USE DelegationAssumption DEF IInv, TypeOK, Placed, Call, Statuses, Points, Idle, At, Goto,
       Fault, Logged, Owned,
       Tracked, Begun, Fresh, Told, Held, Working, AlwaysCarriedOn, CarriedOn, Foreseen
<1>1. CASE Start(n)
  BY <1>1 DEF Start
<1>2. CASE Settle(n)
  BY <1>2 DEF Settle
<1>3. CASE WriteCall(n)
  BY <1>3 DEF WriteCall
<1>4. CASE EnqueueCall(n)
  BY <1>4 DEF EnqueueCall
<1>5. CASE ReadResult(n)
  BY <1>5 DEF ReadResult
<1>6. CASE Handle(n)
  BY <1>6 DEF Handle
<1>7. CASE Clear(n)
  BY <1>7 DEF Clear
<1>8. CASE GoesStale(n)
  BY <1>8 DEF GoesStale
<1>9. CASE Redeliver(n)
  BY <1>9 DEF Redeliver
<1>10. CASE RedeliverStalled(n)
  BY <1>10 DEF RedeliverStalled
<1>11. CASE HandleBusy(n)
  BY <1>11 DEF HandleBusy, AfterBusy
<1>12. CASE HandleSwallowed(n)
  BY <1>12 DEF HandleSwallowed
<1>13. CASE CrashSignal(n)
  BY <1>13 DEF CrashSignal
<1>14. QED
  BY <1>1, <1>2, <1>3, <1>4, <1>5, <1>6, <1>7, <1>8, <1>9, <1>10, <1>11, <1>12, <1>13
  DEF NodeStep, Orchestrate, SignalStep

LEMMA TrackedWorker ==
  ASSUME IInv, NEW p \in Pool, WorkerStep(p), setup' = setup
  PROVE  Tracked'
<1> USE DelegationAssumption DEF IInv, TypeOK, Placed, Call, Statuses, Points, Idle, At, Goto,
       Fault, Logged, Owned,
       Tracked, Begun, Fresh, Told, Held, Working, AlwaysCarriedOn, CarriedOn, Foreseen
<1>1. CASE \E n \in Nodes : Take(p, n)
  BY <1>1 DEF Take
<1>2. CASE Claim(p)
  BY <1>2 DEF Claim, Claimable
<1>3. CASE ClaimNothing(p)
  <2> DEFINE x == worker[p].node
  <2> SUFFICES ASSUME Foreseen
               PROVE  Tracked'
    OBVIOUS
  <2>1. x \in Nodes /\ worker[p] = [pc |-> "claim", node |-> x]
    BY <1>3 DEF ClaimNothing
  <2>2. call[x].status \in {"done", "cleared"} /\ job[x] = p
    BY <2>1, <1>3 DEF ClaimNothing, Claimable
  <2>3. /\ worker' = [worker EXCEPT ![p] = [worker[p] EXCEPT !.pc = "return"]]
        /\ UNCHANGED <<node, effect, call, job, signal, faults>>
    BY <1>3, <2>1, <2>2 DEF ClaimNothing
  <2>4. call[x].status = "cleared" => node[x] = "over"
    BY <2>1, ClearedIsOver
  <2>5. ASSUME NEW n \in Nodes
        PROVE  Begun(n)' /\ Told(n)' /\ (job'[n] = "ready" => Fresh(n)')
    BY <2>1, <2>2, <2>3, <2>4
  <2>6. \A q \in Pool : Held(q)'
    BY <2>1, <2>2, <2>3
  <2>7. ASSUME NEW n \in Nodes, node'[n] = "waiting"
        PROVE  CarriedOn(n)'
    <3>1. CarriedOn(n) /\ node[n] = "waiting"
      BY <2>3, <2>7
    <3>2. ASSUME NEW q \in Pool, q # p, worker[q].node = n,
                 worker[q].pc \in {"claim", "execute", "complete", "signal"}
          PROVE  CarriedOn(n)'
      BY <2>3, <3>2
    <3>3. CASE n # x
      BY <2>1, <2>3, <3>1, <3>2, <3>3
    <3>4. CASE n = x
      BY <2>1, <2>2, <2>3, <2>4, <2>7, <3>1, <3>2, <3>4
    <3>5. QED
      BY <3>3, <3>4
  <2>8. QED
    BY <2>3, <2>5, <2>6, <2>7
<1>4. CASE Execute(p)
  BY <1>4 DEF Execute
<1>5. CASE Complete(p)
  <2> DEFINE x == worker[p].node
  <2> SUFFICES ASSUME Foreseen
               PROVE  Tracked'
    OBVIOUS
  <2>1. x \in Nodes /\ worker[p] = [pc |-> "complete", node |-> x]
    BY <1>5 DEF Complete
  <2>2. call[x].status = "running" /\ call[x].by = p /\ job[x] = p
    BY <2>1
  <2>3. /\ worker' = [worker EXCEPT ![p] = [worker[p] EXCEPT !.pc = "signal"]]
        /\ call' = [call EXCEPT ![x] = [call[x] EXCEPT !.status = "done"]]
        /\ UNCHANGED <<node, effect, job, signal, faults>>
    BY <1>5, <2>1, <2>2 DEF Complete, Completes
  <2>4. ASSUME NEW n \in Nodes
        PROVE  Begun(n)' /\ Told(n)' /\ (job'[n] = "ready" => Fresh(n)')
    BY <2>1, <2>2, <2>3
  <2>5. \A q \in Pool : Held(q)'
    BY <2>1, <2>2, <2>3
  <2>6. ASSUME NEW n \in Nodes, node'[n] = "waiting"
        PROVE  CarriedOn(n)'
    <3>1. CarriedOn(n) /\ node[n] = "waiting"
      BY <2>3, <2>6
    <3>2. ASSUME NEW q \in Pool, q # p, worker[q].node = n,
                 worker[q].pc \in {"claim", "execute", "complete", "signal"}
          PROVE  CarriedOn(n)'
      BY <2>3, <3>2
    <3>3. CASE n # x
      BY <2>1, <2>3, <3>1, <3>2, <3>3
    <3>4. CASE n = x
      BY <2>1, <2>2, <2>3, <2>6, <3>1, <3>2, <3>4
    <3>5. QED
      BY <3>3, <3>4
  <2>7. QED
    BY <2>3, <2>4, <2>5, <2>6
<1>6. CASE EnqueueSignal(p)
  <2> DEFINE x == worker[p].node
  <2> SUFFICES ASSUME Foreseen
               PROVE  Tracked'
    OBVIOUS
  <2>1. x \in Nodes /\ worker[p] = [pc |-> "signal", node |-> x]
    BY <1>6 DEF EnqueueSignal
  <2>2. call[x].status \in {"done", "cleared"} /\ job[x] = p
    BY <2>1
  <2>3. /\ worker' = [worker EXCEPT ![p] = [worker[p] EXCEPT !.pc = "return"]]
        /\ signal' = [signal EXCEPT ![x] = "ready"]
        /\ UNCHANGED <<node, effect, call, job, faults>>
    BY <1>6, <2>1, <2>2 DEF EnqueueSignal
  <2>4. call[x].status = "cleared" => node[x] = "over"
    BY <2>1, ClearedIsOver
  <2>5. ASSUME NEW n \in Nodes
        PROVE  Begun(n)' /\ Told(n)' /\ (job'[n] = "ready" => Fresh(n)')
    BY <2>1, <2>2, <2>3, <2>4
  <2>6. \A q \in Pool : Held(q)'
    BY <2>1, <2>2, <2>3
  <2>7. ASSUME NEW n \in Nodes, node'[n] = "waiting"
        PROVE  CarriedOn(n)'
    <3>1. CarriedOn(n) /\ node[n] = "waiting"
      BY <2>3, <2>7
    <3>2. ASSUME NEW q \in Pool, q # p, worker[q].node = n,
                 worker[q].pc \in {"claim", "execute", "complete", "signal"}
          PROVE  CarriedOn(n)'
      BY <2>3, <3>2
    <3>3. CASE n # x
      BY <2>1, <2>3, <3>1, <3>2, <3>3
    <3>4. CASE n = x
      BY <2>1, <2>2, <2>3, <2>4, <2>7, <3>1, <3>2, <3>4
    <3>5. QED
      BY <3>3, <3>4
  <2>8. QED
    BY <2>3, <2>5, <2>6, <2>7
<1>7. CASE Return(p)
  <2> DEFINE x == worker[p].node
  <2> SUFFICES ASSUME Foreseen
               PROVE  Tracked'
    OBVIOUS
  <2>1. x \in Nodes /\ worker[p].pc = "return"
    BY <1>7 DEF Return
  <2>2. /\ worker' = [worker EXCEPT ![p] = [pc |-> "idle", node |-> None]]
        /\ job' = IF job[x] = p THEN [job EXCEPT ![x] = "finished"] ELSE job
        /\ UNCHANGED <<node, effect, call, signal, faults>>
    BY <1>7, <2>1 DEF Return, Done
  <2>3. ASSUME NEW n \in Nodes
        PROVE  job'[n] = IF n = x /\ job[x] = p THEN "finished" ELSE job[n]
    BY <2>1, <2>2
  <2>4. ASSUME NEW n \in Nodes
        PROVE  Begun(n)' /\ Told(n)' /\ (job'[n] = "ready" => Fresh(n)')
    BY <2>1, <2>2, <2>3
  <2>5. \A q \in Pool : Held(q)'
    BY <2>1, <2>2, <2>3
  <2>6. ASSUME NEW n \in Nodes, node'[n] = "waiting"
        PROVE  CarriedOn(n)'
    <3>1. CarriedOn(n)
      BY <2>2, <2>6
    <3>2. QED
      BY <2>1, <2>2, <2>3, <3>1
  <2>7. QED
    BY <2>2, <2>4, <2>5, <2>6
<1>8. CASE Crash(p)
  BY <1>8 DEF Crash
<1>9. CASE Throw(p, "complete", "store")
  <2>1. "store" \in setup.kinds
    BY <1>9 DEF Throw
  <2>2. QED
    BY <2>1, Unforeseen
<1>10. CASE Throw(p, "signal", "signal")
  <2>1. "signal" \in setup.kinds
    BY <1>10 DEF Throw
  <2>2. QED
    BY <2>1, Unforeseen
<1>11. QED
  BY <1>1, <1>2, <1>3, <1>4, <1>5, <1>6, <1>7, <1>8, <1>9, <1>10 DEF WorkerStep, PoolStep

LEMMA EffectsInv ==
  ASSUME IInv, LoseEffects, setup' = setup
  PROVE  IInv'
<1>1. "orchestrator" \in setup.kinds /\ effect' = [n \in Nodes |-> "none"] /\ faults' \in 0..MaxFaults
  BY DelegationAssumption DEF LoseEffects, Fault, IInv, TypeOK
<1>2. TypeOK' /\ Placed' /\ Logged' /\ Owned'
  BY <1>1 DEF LoseEffects, IInv, TypeOK, Placed, Logged, Owned
<1>3. Tracked'
  BY <1>1, Unforeseen
<1>4. QED
  BY <1>2, <1>3 DEF IInv

LEMMA StutterInv ==
  ASSUME IInv, UNCHANGED vars
  PROVE  IInv'
  BY DEF IInv, vars, moving, TypeOK, Placed, Logged, Owned, Tracked, Begun, Fresh, Told, Held,
         Working, AlwaysCarriedOn, CarriedOn, Foreseen

LEMMA NextInv == IInv /\ [Next]_vars => IInv'
<1> SUFFICES ASSUME IInv, [Next]_vars
             PROVE  IInv'
  OBVIOUS
<1>1. CASE UNCHANGED vars
  BY <1>1, StutterInv
<1>2. ASSUME NEW n \in Nodes, NodeStep(n), setup' = setup
      PROVE  IInv'
  BY <1>2, TypeNode, LoggedNode, OwnedNode, TrackedNode DEF IInv
<1>3. ASSUME NEW p \in Pool, WorkerStep(p), setup' = setup
      PROVE  IInv'
  BY <1>3, TypeWorker, LoggedWorker, OwnedWorker, TrackedWorker DEF IInv
<1>4. QED
  BY <1>1, <1>2, <1>3, EffectsInv, NextSteps

LEMMA Invariance == Spec => []IInv
<1>1. Init => IInv
  BY InitIInv
<1>2. IInv /\ [Next]_vars => IInv'
  BY NextInv
<1>3. QED
  BY <1>1, <1>2, PTL DEF Spec

----------------------------------------------------------------------------
\* The rows, jobs and workers are what their types say, in every reachable state.
THEOREM DelegationType == Spec => []TypeOK
<1>1. IInv => TypeOK
  BY DEF IInv
<1>2. QED
  BY <1>1, Invariance, PTL

\* No outcome is removed before the run has settled its node (worker.ts: the signal
\* job clears the result last), unless the orchestrator swallows the trigger.
THEOREM OutcomesAreLogged == Spec => []ClearedIsLogged
<1>1. IInv => ClearedIsLogged
  BY DEF IInv, Logged, ClearedIsLogged
<1>2. QED
  BY <1>1, Invariance, PTL

\* The claim keeps a second worker from executing a node whose first is alive and in time.
THEOREM OneExecutes == Spec => []ExecutedByOne
<1>1. IInv => ExecutedByOne
  BY DEF IInv, Owned, ExecutedByOne, At
<1>2. QED
  BY <1>1, Invariance, PTL

\* Under the faults the hand-over is built for, a node whose run waits for it always has
\* somebody who carries it on.
THEOREM NobodyForgets == Spec => []HandoverIsTracked
<1>1. IInv => HandoverIsTracked
  BY DEF IInv, Tracked, HandoverIsTracked
<1>2. QED
  BY <1>1, Invariance, PTL

Kept == \A n \in Nodes : call[n].status = "done" => call'[n].status \in {"done", "cleared"}

\* A stored outcome is replaced by nobody, whatever the queue delivers twice.
THEOREM OutcomesAreKept == Spec => OutcomeIsKept
<1>1. ASSUME IInv, [Next]_vars
      PROVE  [Kept]_vars
  <2>1. CASE UNCHANGED vars
    BY <2>1
  <2>2. ASSUME NEW n \in Nodes, NodeStep(n)
        PROVE  Kept
    BY <1>1, <2>2
    DEF IInv, TypeOK, Call, Kept, NodeStep, Orchestrate, SignalStep, Start, Settle, WriteCall,
        EnqueueCall, ReadResult, Handle, Clear, GoesStale, Redeliver, RedeliverStalled, HandleBusy,
        HandleSwallowed, CrashSignal
  <2>3. ASSUME NEW p \in Pool, WorkerStep(p)
        PROVE  Kept
    <3>1. CASE Claim(p)
      BY <1>1, <3>1 DEF IInv, TypeOK, Placed, Call, Kept, Claim, Claimable, At
    <3>2. CASE Complete(p)
      BY <1>1, <3>2 DEF IInv, TypeOK, Placed, Call, Kept, Complete, Completes, At
    <3>3. CASE Crash(p)
      BY <1>1, <3>3 DEF IInv, TypeOK, Call, Kept, Crash
    <3>4. CASE \/ \E n \in Nodes : Take(p, n)
               \/ ClaimNothing(p) \/ Execute(p) \/ EnqueueSignal(p) \/ Return(p)
               \/ Throw(p, "complete", "store") \/ Throw(p, "signal", "signal")
      BY <3>4 DEF Kept, Take, ClaimNothing, Execute, EnqueueSignal, Return, Throw
    <3>5. QED
      BY <2>3, <3>1, <3>2, <3>3, <3>4 DEF WorkerStep, PoolStep
  <2>4. CASE LoseEffects
    BY <2>4 DEF LoseEffects, Kept
  <2>5. QED
    BY <1>1, <2>1, <2>2, <2>3, <2>4, NextSteps
<1>2. QED
  BY <1>1, Invariance, PTL DEF Spec, OutcomeIsKept, Kept

=============================================================================
