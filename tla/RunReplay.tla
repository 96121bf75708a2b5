------------------------------ MODULE RunReplay ------------------------------
(***************************************************************************)
(* The event log of a run and its reduction to a scheduler state:          *)
(* packages/workflow-runtime/src/reduce.ts and Orchestrator.recover().     *)
(*                                                                         *)
(* One entry of the log stands for the events of one commit (one fenced    *)
(* transaction).  It keeps what the reducer keeps of them: the status each *)
(* node they name is left in, the timers they set and fire, and the run's  *)
(* status; and, for the reader of the log only, which executions they      *)
(* start (NODE_STARTED).  The sequence number counts entries.              *)
(***************************************************************************)
EXTENDS RunStep, Sequences

CONSTANT Same  \* no event of the commit names the node

ASSUME SameAssumption == Same \notin NodeState

Why == {"start", "node_result", "timer", "human_response", "recovered",
        "cancel", "resume", "lease_taken"}

Entry == [why : Why, run : RunStatus, nodes : [Nodes -> NodeState \cup {Same}],
          set : SUBSET TimerId, fired : SUBSET TimerId, started : SUBSET NodeRun]

\* The events a step emits to take the state from a to b.
EntryOf(why, a, b) ==
  [why   |-> why,
   run   |-> b.run,
   nodes |-> [n \in Nodes |-> IF b.nodes[n] = a.nodes[n] THEN Same ELSE b.nodes[n]],
   set   |-> b.timers \ a.timers,
   fired |-> a.timers \ b.timers,
   started |-> Started(a, b)]

\* RUN_LEASE_TAKEN: recorded in the log, ignored by the reducer.
LeaseTaken(a) == EntryOf("lease_taken", a, a)

\* reduce(): one commit applied to a state.
Reduce(st, e) ==
  [run    |-> e.run,
   nodes  |-> [n \in Nodes |-> IF e.nodes[n] = Same THEN st.nodes[n] ELSE e.nodes[n]],
   timers |-> (st.timers \cup e.set) \ e.fired]

(***************************************************************************)
(* reduceAll(): every node is as the last entry that names it left it, a   *)
(* timer is open when the last entry that names it set it, the run has the *)
(* status of the last entry.                                               *)
(***************************************************************************)
NamesTimer(e, t) == t \in e.set \cup e.fired

LastOnNode(es, n) ==
  {i \in DOMAIN es : /\ es[i].nodes[n] # Same
                     /\ \A j \in DOMAIN es : j > i => es[j].nodes[n] = Same}
LastOnTimer(es, t) ==
  {i \in DOMAIN es : /\ NamesTimer(es[i], t)
                     /\ \A j \in DOMAIN es : j > i => ~NamesTimer(es[j], t)}

ReplayNode(st, es, n) ==
  IF LastOnNode(es, n) = {} THEN st.nodes[n]
  ELSE es[CHOOSE i \in LastOnNode(es, n) : TRUE].nodes[n]

TimerOpen(st, es, t) ==
  IF LastOnTimer(es, t) = {} THEN t \in st.timers
  ELSE \E i \in LastOnTimer(es, t) : t \notin es[i].fired

Replay(st, es) ==
  [run    |-> IF es = <<>> THEN st.run ELSE es[Len(es)].run,
   nodes  |-> [n \in Nodes |-> ReplayNode(st, es, n)],
   timers |-> {t \in st.timers \cup UNION {es[i].set : i \in DOMAIN es} : TimerOpen(st, es, t)}]

\* The entries after the first seq of the log: listEvents(runId, afterSeq).
TailFrom(log, seq) == SubSeq(log, seq + 1, Len(log))

\* Mutant of Recover: the entry after the checkpoint is skipped.
RecoverSkipping(ckpt, log) == Replay(ckpt.st, TailFrom(log, ckpt.seq + 1))

\* recover(): the latest checkpoint and the tail of the log.
Recover(ckpt, log) == Replay(ckpt.st, TailFrom(log, ckpt.seq))

=============================================================================
