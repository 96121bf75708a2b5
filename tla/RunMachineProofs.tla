--------------------------- MODULE RunMachineProofs ---------------------------
(***************************************************************************)
(* What the sequential machine of a run guarantees, for every plan: the    *)
(* invariants of RunStepProofs, each kept by every step.                   *)
(***************************************************************************)
EXTENDS RunMachine, RunStepProofs

MachineTriggers ==
  {t \in [type : {"start", "node_result", "timer", "human_response",
                  "recovered", "cancel", "resume"},
          id : NodeRun \cup TimerId \cup Nodes \cup SUBSET NodeRun,
          result : ResultTypes] : Sound(t)}

\* every step of the machine is a scheduler step on one trigger.
LEMMA NextIsStep ==
  ASSUME st \in State, MachineNext
  PROVE  \E t \in MachineTriggers, late \in BOOLEAN : st' = Step(st, t, late)
<1> USE DEF MachineTriggers, Sound, T, ResultTypes
<1>1. RunningRuns \in SUBSET NodeRun
  BY DEF RunningRuns, RunOf, NodeRun, State, NodeState
<1>2. st.timers \cup {Deadline} \in SUBSET TimerId
  BY DEF State, TimerId
<1>3. Deadline \in TimerId
  BY DEF TimerId
<1>4. CASE StartRun
  BY <1>3, <1>4 DEF StartRun, Advance
<1>5. CASE Result
  BY <1>1, <1>5 DEF Result, Advance
<1>6. CASE FireTimer
  BY <1>2, <1>6 DEF FireTimer, Advance
<1>7. CASE Answer
  BY <1>7 DEF Answer, Advance, Asking
<1>8. CASE Recover_
  BY <1>1, <1>8 DEF Recover_, Advance
<1>9. CASE Cancel
  BY <1>3, <1>9 DEF Cancel, Advance
<1>10. CASE Look
  BY <1>3, <1>10 DEF Look, Advance
<1> QED
  BY <1>4, <1>5, <1>6, <1>7, <1>8, <1>9, <1>10 DEF MachineNext

\* The state of a run is a scheduler state.
THEOREM MachineType == MachineSpec => []MachineTypeOK
<1>1. MachineInit => MachineTypeOK
  BY InitialStateType DEF MachineInit, MachineTypeOK
<1>2. MachineTypeOK /\ [MachineNext]_st => MachineTypeOK'
  BY NextIsStep, StepType DEF MachineTypeOK, MachineTriggers
<1> QED
  BY <1>1, <1>2, PTL DEF MachineSpec

-----------------------------------------------------------------------------
\* What every move of a node keeps holds of every state of the run.
THEOREM MachineTidy == MachineSpec => []Tidy(st)
<1>1. MachineInit => Tidy(st)
  BY InitialTidy DEF MachineInit
<1>2. MachineTypeOK /\ Tidy(st) /\ [MachineNext]_st => Tidy(st)'
  BY NextIsStep, StepTidy DEF MachineTypeOK, MachineTriggers
<1> QED
  BY <1>1, <1>2, MachineType, PTL DEF MachineSpec

\* A node that is not safe to repeat is given a second attempt by a retry its policy
\* allows all the same and by nothing else: never by a recovery, whatever the plan.
THEOREM NoneOnce == MachineSpec => []NoneKeepsItsPolicy
<1>1. Tidy(st) => NoneKeepsItsPolicy
  BY DEF Tidy, TidyNode, NoneKeepsItsPolicy
<1> QED
  BY <1>1, MachineTidy, PTL

\* The end of a run and the end of a node run are final.
THEOREM EndsAreFinal == MachineSpec => Final
<1> DEFINE A == /\ st.run \in Terminal => st' = st
                /\ \A n \in Nodes : st.nodes[n].status \in Resolved => st'.nodes[n] = st.nodes[n]
<1>1. MachineTypeOK /\ [MachineNext]_st => [A]_st
  <2> SUFFICES ASSUME MachineTypeOK, MachineNext PROVE A
    OBVIOUS
  <2>1. PICK t \in MachineTriggers, late \in BOOLEAN : st' = Step(st, t, late)
    BY NextIsStep DEF MachineTypeOK
  <2>2. CASE st.run \in Terminal
    BY <2>1, <2>2 DEF Step
  <2>3. CASE st.run \notin Terminal
    <3> DEFINE s == OnTrigger(st, t)
    <3>1. s \in State /\ st' \in State /\ Moves(st, s) /\ Moves(s, st')
      BY <2>1, <2>3, StepMoves DEF MachineTypeOK, MachineTriggers
    <3> QED
      BY <2>3, <3>1, MovesFinal DEF MachineTypeOK
  <2> QED
    BY <2>2, <2>3
<1> QED
  BY <1>1, MachineType, PTL DEF MachineSpec, Final

\* What waits has the open timer of its very turn, or asked a person without a time
\* limit: a parked run can be woken.
THEOREM NobodyHangs == MachineSpec => []WaitersHaveTimers
<1>1. MachineInit => Timed(st)
  BY InitialSettled DEF MachineInit
<1>2. MachineTypeOK /\ Tidy(st) /\ Timed(st) /\ [MachineNext]_st => Timed(st)'
  BY NextIsStep, StepTimed DEF MachineTypeOK, MachineTriggers
<1>3. Timed(st) => WaitersHaveTimers
  BY DEF Timed, Waiting, Timeless, WaitersHaveTimers, Asking
<1> QED
  BY <1>1, <1>2, <1>3, MachineType, MachineTidy, PTL DEF MachineSpec

\* Every step ends settled: a failure has ended the run, whatever may start has
\* started, and the run is parked exactly when nothing executes but something waits.
THEOREM EveryStepSettles == MachineSpec => []Settled
<1>1. MachineInit => SettledState(st)
  BY InitialSettled DEF MachineInit
<1>2. MachineTypeOK /\ SettledState(st) /\ [MachineNext]_st => SettledState(st)'
  <2> SUFFICES ASSUME MachineTypeOK, SettledState(st), MachineNext PROVE SettledState(st')
    BY DEF SettledState, Failed, Ready, Fires, AnyActive, AnyRunning
  <2> QED
    BY NextIsStep, StepSettled DEF MachineTypeOK, MachineTriggers
<1>3. SettledState(st) => Settled
  BY DEF SettledState, Settled
<1> QED
  BY <1>1, <1>2, <1>3, MachineType, PTL DEF MachineSpec
=============================================================================
