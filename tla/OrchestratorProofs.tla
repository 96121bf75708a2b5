--------------------------- MODULE OrchestratorProofs ---------------------------
(***************************************************************************)
(* What holds of a run whatever the plan, the workers and the faults.      *)
(***************************************************************************)
EXTENDS Orchestrator, RunStepProofs, SequenceTheorems, FiniteSetTheorems

-----------------------------------------------------------------------------
(***************************************************************************)
(* The log and its reduction: a commit appended to the log is one more     *)
(* application of the reducer, and the events of a step take the state     *)
(* before it to the state after it.                                        *)
(***************************************************************************)
\* the events of a step are a log entry.
LEMMA EntryType ==
  ASSUME NEW why \in Why, NEW a \in State, NEW b \in State
  PROVE  EntryOf(why, a, b) \in Entry
<1>1. \A n \in Nodes : RunOf(b, n) \in NodeRun
  BY DEF RunOf, State, NodeState, NodeRun
<1>2. Started(a, b) \in SUBSET NodeRun
  BY <1>1 DEF Started
<1> QED
  BY <1>2 DEF EntryOf, Entry, State

\* the events of the step from a to b take a to b.
LEMMA ReduceEntry ==
  ASSUME NEW why, NEW a \in State, NEW b \in State
  PROVE  Reduce(a, EntryOf(why, a, b)) = b
<1>1. \A n \in Nodes : a.nodes[n] \in NodeState /\ b.nodes[n] \in NodeState
  BY DEF State
<1>2. Reduce(a, EntryOf(why, a, b)).nodes = b.nodes
  <2>1. \A n \in Nodes : b.nodes[n] # Same
    BY <1>1, SameAssumption
  <2>2. b.nodes = [n \in Nodes |-> b.nodes[n]]
    BY DEF State
  <2> QED
    BY <2>1, <2>2 DEF Reduce, EntryOf
<1>3. Reduce(a, EntryOf(why, a, b)).timers = b.timers
  BY DEF Reduce, EntryOf
<1>4. b = [run |-> b.run, nodes |-> b.nodes, timers |-> b.timers]
  BY DEF State
<1>5. Reduce(a, EntryOf(why, a, b)) =
        [run |-> b.run, nodes |-> Reduce(a, EntryOf(why, a, b)).nodes,
         timers |-> Reduce(a, EntryOf(why, a, b)).timers]
  BY DEF Reduce, EntryOf
<1> QED
  BY <1>2, <1>3, <1>4, <1>5

\* the reduction of no events.
LEMMA ReplayEmpty ==
  ASSUME NEW a \in State
  PROVE  Replay(a, <<>>) = a
<1>1. \A n \in Nodes : ReplayNode(a, <<>>, n) = a.nodes[n]
  BY DEF ReplayNode, LastOnNode
<1>2. \A t : TimerOpen(a, <<>>, t) <=> t \in a.timers
  BY DEF TimerOpen, LastOnTimer
<1>3. a = [run |-> a.run, nodes |-> [n \in Nodes |-> a.nodes[n]], timers |-> a.timers]
  BY DEF State
<1>4. {t \in a.timers \cup UNION {<<>>[i].set : i \in DOMAIN <<>>} : TimerOpen(a, <<>>, t)} = a.timers
  BY <1>2
<1> QED
  BY <1>1, <1>3, <1>4 DEF Replay

\* the entries of an appended log.
LEMMA AppendEntries ==
  ASSUME NEW es \in Seq(Entry), NEW e \in Entry
  PROVE  /\ Append(es, e) \in Seq(Entry)
         /\ Len(Append(es, e)) = Len(es) + 1
         /\ DOMAIN Append(es, e) = DOMAIN es \cup {Len(es) + 1}
         /\ \A i \in DOMAIN es : Append(es, e)[i] = es[i] /\ i < Len(es) + 1
         /\ Append(es, e)[Len(es) + 1] = e
         /\ Len(es) \in Nat /\ DOMAIN es = 1 .. Len(es)
BY AppendProperties

\* a node after one more entry: what the entry says of it, else what it was.
LEMMA ReplayNodeAppend ==
  ASSUME NEW a \in State, NEW es \in Seq(Entry), NEW e \in Entry, NEW n \in Nodes
  PROVE  ReplayNode(a, Append(es, e), n) =
           IF e.nodes[n] = Same THEN ReplayNode(a, es, n) ELSE e.nodes[n]
<1> SUFFICES ASSUME NEW fs, fs = Append(es, e), NEW k, k = Len(es) + 1
             PROVE  ReplayNode(a, fs, n) =
                      IF e.nodes[n] = Same THEN ReplayNode(a, es, n) ELSE e.nodes[n]
  OBVIOUS
<1>1. /\ DOMAIN fs = DOMAIN es \cup {k} /\ k \notin DOMAIN es
      /\ \A i \in DOMAIN es : fs[i] = es[i] /\ i < k /\ ~(k > k) /\ ~(i > k)
      /\ fs[k] = e
  BY AppendEntries
<1>2. CASE e.nodes[n] = Same
  <2>1. LastOnNode(fs, n) = LastOnNode(es, n)
    BY <1>1, <1>2 DEF LastOnNode
  <2>2. CASE LastOnNode(es, n) = {}
    BY <1>2, <2>1, <2>2 DEF ReplayNode
  <2>3. CASE LastOnNode(es, n) # {}
    <3>1. (CHOOSE i \in LastOnNode(es, n) : TRUE) \in DOMAIN es
      BY <2>3 DEF LastOnNode
    <3> QED
      BY <1>1, <1>2, <2>1, <2>3, <3>1 DEF ReplayNode
  <2> QED
    BY <2>2, <2>3
<1>3. CASE e.nodes[n] # Same
  <2>1. LastOnNode(fs, n) = {k}
    BY <1>1, <1>3 DEF LastOnNode
  <2>2. (CHOOSE i \in {k} : TRUE) = k
    OBVIOUS
  <2> QED
    BY <1>1, <1>3, <2>1, <2>2 DEF ReplayNode
<1> QED
  BY <1>2, <1>3

\* a timer after one more entry: open if set by it, closed if fired by it.
LEMMA TimerOpenAppend ==
  ASSUME NEW a \in State, NEW es \in Seq(Entry), NEW e \in Entry, NEW t
  PROVE  TimerOpen(a, Append(es, e), t) <=>
           IF NamesTimer(e, t) THEN t \notin e.fired ELSE TimerOpen(a, es, t)
<1> SUFFICES ASSUME NEW fs, fs = Append(es, e), NEW k, k = Len(es) + 1
             PROVE  TimerOpen(a, fs, t) <=>
                      IF NamesTimer(e, t) THEN t \notin e.fired ELSE TimerOpen(a, es, t)
  OBVIOUS
<1>1. /\ DOMAIN fs = DOMAIN es \cup {k} /\ k \notin DOMAIN es
      /\ \A i \in DOMAIN es : fs[i] = es[i] /\ i < k /\ ~(k > k) /\ ~(i > k)
      /\ fs[k] = e
  BY AppendEntries
<1>2. CASE ~NamesTimer(e, t)
  <2>1. LastOnTimer(fs, t) = LastOnTimer(es, t)
    BY <1>1, <1>2 DEF LastOnTimer
  <2>2. \A i \in LastOnTimer(es, t) : fs[i] = es[i]
    BY <1>1 DEF LastOnTimer
  <2> QED
    BY <1>2, <2>1, <2>2 DEF TimerOpen
<1>3. CASE NamesTimer(e, t)
  <2>1. LastOnTimer(fs, t) = {k}
    BY <1>1, <1>3 DEF LastOnTimer
  <2> QED
    BY <1>1, <1>3, <2>1 DEF TimerOpen
<1> QED
  BY <1>2, <1>3

\* reduceAll() reduces a longer log by one more reduce().
LEMMA ReplayAppend ==
  ASSUME NEW a \in State, NEW es \in Seq(Entry), NEW e \in Entry
  PROVE  Replay(a, Append(es, e)) = Reduce(Replay(a, es), e)
<1> SUFFICES ASSUME NEW fs, fs = Append(es, e)
             PROVE  Replay(a, fs) = Reduce(Replay(a, es), e)
  OBVIOUS
<1>1. Replay(a, fs).run = e.run
  BY AppendEntries DEF Replay
<1>2. [n \in Nodes |-> ReplayNode(a, fs, n)] =
      [n \in Nodes |-> IF e.nodes[n] = Same THEN ReplayNode(a, es, n) ELSE e.nodes[n]]
  BY ReplayNodeAppend
<1>3. Replay(a, fs).timers = (Replay(a, es).timers \cup e.set) \ e.fired
  <2>1. UNION {fs[i].set : i \in DOMAIN fs} = (UNION {es[i].set : i \in DOMAIN es}) \cup e.set
    <3>1. /\ DOMAIN fs = DOMAIN es \cup {Len(es) + 1}
          /\ \A i \in DOMAIN es : fs[i] = es[i]
          /\ fs[Len(es) + 1] = e
      BY AppendEntries
    <3> QED
      BY <3>1
  <2>2. ASSUME NEW t
        PROVE  t \in Replay(a, fs).timers <=> t \in (Replay(a, es).timers \cup e.set) \ e.fired
    <3>1. TimerOpen(a, fs, t) <=>
            IF NamesTimer(e, t) THEN t \notin e.fired ELSE TimerOpen(a, es, t)
      BY TimerOpenAppend
    <3>2. t \in Replay(a, fs).timers <=>
            /\ t \in a.timers \cup (UNION {es[i].set : i \in DOMAIN es}) \cup e.set
            /\ TimerOpen(a, fs, t)
      BY <2>1 DEF Replay
    <3>3. t \in Replay(a, es).timers <=>
            /\ t \in a.timers \cup UNION {es[i].set : i \in DOMAIN es}
            /\ TimerOpen(a, es, t)
      BY DEF Replay
    <3>4. NamesTimer(e, t) <=> t \in e.set \/ t \in e.fired
      BY DEF NamesTimer
    <3> QED
      BY <3>1, <3>2, <3>3, <3>4
  <2> QED
    BY <2>2
<1>4. Replay(a, es).nodes = [n \in Nodes |-> ReplayNode(a, es, n)]
  BY DEF Replay
<1>5. Replay(a, fs) = [run |-> Replay(a, fs).run,
                       nodes |-> [n \in Nodes |-> ReplayNode(a, fs, n)],
                       timers |-> Replay(a, fs).timers]
  BY DEF Replay
<1>6. Reduce(Replay(a, es), e).nodes =
        [n \in Nodes |-> IF e.nodes[n] = Same THEN ReplayNode(a, es, n) ELSE e.nodes[n]]
  BY <1>4 DEF Reduce
<1>7. Reduce(Replay(a, es), e) =
        [run |-> e.run, nodes |-> Reduce(Replay(a, es), e).nodes,
         timers |-> (Replay(a, es).timers \cup e.set) \ e.fired]
  BY DEF Reduce
<1> QED
  BY <1>1, <1>2, <1>3, <1>5, <1>6, <1>7

\* the reduction of a log is a scheduler state.
LEMMA ReplayType ==
  ASSUME NEW a \in State, NEW es \in Seq(Entry)
  PROVE  Replay(a, es) \in State
<1>0. \A i \in DOMAIN es : es[i] \in Entry
  BY ElementOfSeq
<1>1. (IF es = <<>> THEN a.run ELSE es[Len(es)].run) \in RunStatus
  <2>1. CASE es = <<>>
    BY <2>1 DEF State
  <2>2. CASE es # <<>>
    <3>1. Len(es) \in DOMAIN es
      BY <2>2, EmptySeq, LenProperties
    <3> QED
      BY <2>2, <3>1, <1>0 DEF Entry
  <2> QED
    BY <2>1, <2>2
<1>2. ASSUME NEW n \in Nodes
      PROVE  ReplayNode(a, es, n) \in NodeState
  <2>1. CASE LastOnNode(es, n) = {}
    BY <2>1 DEF ReplayNode, State
  <2>2. CASE LastOnNode(es, n) # {}
    <3>1. PICK i \in LastOnNode(es, n) : i = CHOOSE j \in LastOnNode(es, n) : TRUE
      BY <2>2
    <3>2. i \in DOMAIN es /\ es[i].nodes[n] # Same
      BY <3>1 DEF LastOnNode
    <3>3. es[i].nodes[n] \in NodeState
      BY <3>2, <1>0 DEF Entry
    <3> QED
      BY <2>2, <3>1, <3>3 DEF ReplayNode
  <2> QED
    BY <2>1, <2>2
<1>3. a.timers \cup UNION {es[i].set : i \in DOMAIN es} \subseteq TimerId
  BY <1>0 DEF Entry, State
<1> QED
  BY <1>1, <1>2, <1>3 DEF Replay, State

\* nothing is left of a log after its last entry.
LEMMA TailOfAll ==
  ASSUME NEW es \in Seq(Entry)
  PROVE  TailFrom(es, Len(es)) = <<>>
BY DEF TailFrom

\* the tail of a log is a log, and grows with it.
LEMMA TailAppend ==
  ASSUME NEW es \in Seq(Entry), NEW e \in Entry, NEW seq \in 0 .. Len(es)
  PROVE  /\ TailFrom(es, seq) \in Seq(Entry)
         /\ TailFrom(Append(es, e), seq) = Append(TailFrom(es, seq), e)
<1> DEFINE k    == Len(es)
           more == Append(es, e)
           long == SubSeq(more, seq + 1, k + 1)
           tail == SubSeq(es, seq + 1, k)
<1>1. /\ more \in Seq(Entry) /\ Len(more) = k + 1
      /\ \A i \in 1 .. k : more[i] = es[i]
      /\ more[k + 1] = e
  BY AppendProperties
<1>2. k \in Nat /\ seq \in Nat /\ seq <= k
  BY LenProperties
<1>3. \A i \in 1 .. k : es[i] \in Entry
  BY ElementOfSeq
<1>4. \A i \in 1 .. k + 1 : more[i] \in Entry
  BY <1>1, ElementOfSeq
<1> HIDE DEF k, more
<1>5. /\ tail \in Seq(Entry) /\ Len(tail) = k - seq
      /\ \A i \in 1 .. k - seq : tail[i] = es[seq + i]
  <2>1. \A i \in seq + 1 .. k : es[i] \in Entry
    BY <1>2, <1>3
  <2>2. /\ tail \in Seq(Entry)
        /\ Len(tail) = IF seq + 1 <= k THEN k - (seq + 1) + 1 ELSE 0
        /\ \A i \in 1 .. k - (seq + 1) + 1 : tail[i] = es[(seq + 1) + i - 1]
    BY <1>2, <2>1, SubSeqProperties
  <2> HIDE DEF tail
  <2>3. Len(tail) = k - seq
    BY <1>2, <2>2
  <2>4. ASSUME NEW i \in 1 .. k - seq
        PROVE  tail[i] = es[seq + i]
    <3>1. i \in 1 .. k - (seq + 1) + 1 /\ (seq + 1) + i - 1 = seq + i
      BY <1>2
    <3> QED
      BY <2>2, <3>1
  <2> QED
    BY <2>2, <2>3, <2>4
<1>6. /\ long \in Seq(Entry) /\ Len(long) = k + 1 - seq
      /\ \A i \in 1 .. k + 1 - seq : long[i] = more[seq + i]
  <2>1. \A i \in seq + 1 .. k + 1 : more[i] \in Entry
    BY <1>2, <1>4
  <2>2. /\ long \in Seq(Entry)
        /\ Len(long) = IF seq + 1 <= k + 1 THEN (k + 1) - (seq + 1) + 1 ELSE 0
        /\ \A i \in 1 .. (k + 1) - (seq + 1) + 1 : long[i] = more[(seq + 1) + i - 1]
    BY <1>2, <2>1, SubSeqProperties
  <2> HIDE DEF long
  <2>3. Len(long) = k + 1 - seq
    BY <1>2, <2>2
  <2>4. ASSUME NEW i \in 1 .. k + 1 - seq
        PROVE  long[i] = more[seq + i]
    <3>1. i \in 1 .. (k + 1) - (seq + 1) + 1 /\ (seq + 1) + i - 1 = seq + i
      BY <1>2
    <3> QED
      BY <2>2, <3>1
  <2> QED
    BY <2>2, <2>3, <2>4
<1> HIDE DEF tail, long
<1>7. /\ Append(tail, e) \in Seq(Entry)
      /\ Len(Append(tail, e)) = k - seq + 1
      /\ \A i \in 1 .. k - seq : Append(tail, e)[i] = tail[i]
      /\ Append(tail, e)[k - seq + 1] = e
  BY <1>5, AppendProperties
<1>8. ASSUME NEW i \in 1 .. k + 1 - seq
      PROVE  long[i] = Append(tail, e)[i]
  <2>1. CASE i = k + 1 - seq
    <3>1. i = k - seq + 1 /\ seq + i = k + 1
      BY <1>2, <2>1
    <3> QED
      BY <1>1, <1>6, <1>7, <3>1
  <2>2. CASE i # k + 1 - seq
    <3>1. i \in 1 .. k - seq /\ seq + i \in 1 .. k
      BY <1>2, <2>2
    <3> QED
      BY <1>1, <1>5, <1>6, <1>7, <3>1
  <2> QED
    BY <2>1, <2>2
<1>9. long = Append(tail, e)
  BY <1>2, <1>6, <1>7, <1>8, SeqEqual
<1> QED
  BY <1>1, <1>5, <1>9 DEF TailFrom, k, more, tail, long

-----------------------------------------------------------------------------
(***************************************************************************)
(* Type correctness, one lemma per part of an action.                      *)
(***************************************************************************)
Held == [seq : Nat, st : State, saved : Nat]
LeaseType == [owner : Workers \cup {None, Dead}, expired : BOOLEAN]

\* a worker whose handler is past take(), or that holds the run, has a copy of it.
Working(w) == pc[w] \in {"taken", "recover", "trigger", "human", "perform"} \/ held[w]

\* a handler past take() works on a typed copy.
LEMMA CopyType ==
  ASSUME TypeOK, NEW w \in Workers, Working(w)
  PROVE  copy[w] \in Held /\ copy[w] # NoRun
BY DEF TypeOK, Working, Held

\* the trigger a handler works on is one of the triggers.
LEMMA HeadType ==
  ASSUME TypeOK, NEW w \in Workers, queue[w] # <<>>
  PROVE  Head(queue[w]) \in Triggers
BY HeadTailProperties DEF TypeOK

\* a trigger enters the mutex.
LEMMA EnqueueType ==
  ASSUME TypeOK, NEW w \in Workers, NEW t \in Triggers, Enqueue(w, t)
  PROVE  /\ queue' \in [Workers -> Seq(Triggers)]
         /\ \A v \in Workers : queue'[v] = <<>> => queue[v] = <<>>
<1>1. queue \in [Workers -> Seq(Triggers)]
  BY DEF TypeOK
<1>2. Append(queue[w], t) \in Seq(Triggers) /\ Append(queue[w], t) # <<>>
  BY <1>1, AppendProperties
<1> QED
  BY <1>1, <1>2 DEF Enqueue

\* a handler returns.
LEMMA ReturnType ==
  ASSUME TypeOK, NEW w \in Workers, NEW result, queue[w] # <<>>, Return(w, result)
  PROVE  /\ queue' \in [Workers -> Seq(Triggers)]
         /\ pc' \in [Workers -> PcValues] /\ pc'[w] = "idle"
         /\ \A v \in Workers \ {w} : queue'[v] = queue[v] /\ pc'[v] = pc[v]
         /\ jobs' \subseteq Jobs
         /\ armed' \subseteq TimerId /\ marked' \subseteq TimerId
<1>1. queue \in [Workers -> Seq(Triggers)] /\ pc \in [Workers -> PcValues]
  BY DEF TypeOK
<1>2. Tail(queue[w]) \in Seq(Triggers)
  BY <1>1, HeadTailProperties
<1>3. Head(queue[w]).src = "job" => JobOf(Head(queue[w])) \in Jobs
  BY HeadType DEF Triggers
<1>4. jobs' \subseteq Jobs
  BY <1>3 DEF Return, JobsAfter, TypeOK
<1>5. armed' \subseteq TimerId /\ marked' \subseteq TimerId
  BY DEF Return, FiresRow, TypeOK
<1>6. "idle" \in PcValues
  BY DEF PcValues
<1> QED
  BY <1>1, <1>2, <1>4, <1>5, <1>6 DEF Return

\* a handler ends in an error.
LEMMA ErrorType ==
  ASSUME TypeOK, NEW w \in Workers, queue[w] # <<>>,
         queue' = [queue EXCEPT ![w] = Tail(@)], Goto(w, "idle"),
         jobs' = JobsAfter(w, "error")
  PROVE  /\ queue' \in [Workers -> Seq(Triggers)]
         /\ pc' \in [Workers -> PcValues] /\ pc'[w] = "idle"
         /\ \A v \in Workers \ {w} : queue'[v] = queue[v] /\ pc'[v] = pc[v]
         /\ jobs' \subseteq Jobs
<1>1. Tail(queue[w]) \in Seq(Triggers)
  BY HeadTailProperties DEF TypeOK
<1>2. Head(queue[w]).src = "job" => JobOf(Head(queue[w])) \in Jobs
  BY HeadType DEF Triggers
<1>3. jobs' \subseteq Jobs
  BY <1>2 DEF JobsAfter, TypeOK
<1> QED
  BY <1>1, <1>3 DEF Goto, TypeOK, PcValues

\* the effects of a step.
LEMMA EffectsType ==
  ASSUME NEW a \in State, NEW b \in State, NEW t, NEW next \in PcValues
  PROVE  EffectsOf(a, b, t, next) \in Effects
<1>1. ASSUME NEW s \in State, NEW n \in Nodes
      PROVE  RunOf(s, n) \in NodeRun
  BY DEF RunOf, State, NodeState, NodeRun
<1>2. Started(a, b) \in SUBSET NodeRun
  BY <1>1 DEF Started
<1>3. Aborted(a, b) \in SUBSET NodeRun
  BY <1>1 DEF Aborted
<1>4. TimersCancelled(a, b) \in SUBSET TimerId
  BY DEF TimersCancelled, State, TimerId
<1>5. Releases(a, t, b) \in BOOLEAN
  BY DEF Releases
<1> QED
  BY <1>2, <1>3, <1>4, <1>5 DEF EffectsOf, Effects

\* the rows the projections write.
LEMMA ProjectType ==
  ASSUME TypeOK, NEW a \in State, NEW b \in State, NEW t, Project(a, b, t)
  PROVE  /\ armed' \subseteq TimerId /\ marked' \subseteq TimerId
         /\ tasks' \in [HumanNodes -> TaskStatus]
         /\ lease' \in [owner : Workers \cup {None, Dead}, expired : BOOLEAN]
<1>1. a.timers \subseteq TimerId /\ b.timers \subseteq TimerId /\ Deadline \in TimerId
  BY DEF State, TimerId
<1>2. armed' \subseteq TimerId /\ marked' \subseteq TimerId
  BY <1>1 DEF Project, TypeOK
<1>3. \A n \in HumanNodes : TaskRow(n, a, b, t) \in TaskStatus
  BY DEF TaskRow, TaskStatus, TypeOK
<1>4. lease' \in [owner : Workers \cup {None, Dead}, expired : BOOLEAN]
  BY DEF Project, TypeOK
<1> QED
  BY <1>2, <1>3, <1>4 DEF Project

\* the tail of the log is a log.
LEMMA TailType ==
  ASSUME NEW es \in Seq(Entry), NEW seq \in Nat
  PROVE  TailFrom(es, seq) \in Seq(Entry)
<1>1. \A i \in seq + 1 .. Len(es) : es[i] \in Entry
  BY ElementOfSeq, LenProperties
<1> QED
  BY <1>1, SubSeqProperties, LenProperties DEF TailFrom

\* What the handlers commit with: recovered, the trigger, a response of a human node.
Handles(t) == t.type \in Why /\ Sound(t)

\* one step of a handler and its commit, in whichever way the append ends.
LEMMA CommitType ==
  ASSUME TypeOK, NEW w \in Workers, NEW t, Handles(t), NEW next \in PcValues,
         Working(w), queue[w] # <<>>, next \in {"trigger", "human"}, Commit(w, t, next)
  PROVE  TypeOK'
<1>1. PICK past \in {FALSE, late} :
        LET a == copy[w].st
            b == Step(a, t, past /\ a.run # "queued")
        IN IF b = a
           THEN /\ Goto(w, next)
                /\ UNCHANGED <<log, lease, armed, marked, tasks, jobs,
                               copy, held, active, queue, todo, faults>>
           ELSE \/ Append_(w, a, b, t, next)
                \/ Refused(w)
                \/ Broken(w, a, b, t)
  BY DEF Commit
<1>2. UNCHANGED <<ckpt, cancelReq, closing, late, ran>>
  BY DEF Commit
<1> DEFINE a == copy[w].st
           b == Step(a, t, past /\ a.run # "queued")
<1>3. copy[w] \in Held /\ copy[w] # NoRun /\ a \in State
  BY CopyType DEF Held
<1>4. b \in State
  <2>1. PICK lt \in BOOLEAN : b = Step(a, t, lt)
    BY Zenon
  <2> QED
    BY <1>3, <2>1, StepType DEF Handles
<1> HIDE DEF a, b
<1>5. EntryOf(t.type, a, b) \in Entry
  BY <1>3, <1>4, EntryType DEF Handles
<1>6. CASE /\ Goto(w, next)
           /\ UNCHANGED <<log, lease, armed, marked, tasks, jobs,
                          copy, held, active, queue, todo, faults>>
  BY <1>2, <1>3, <1>6 DEF Goto, TypeOK, Working
<1>7. CASE Append_(w, a, b, t, next)
  <2>1. log' \in Seq(Entry)
    BY <1>5, <1>7, AppendProperties DEF Append_, TypeOK
  <2>2. /\ armed' \subseteq TimerId /\ marked' \subseteq TimerId
        /\ tasks' \in [HumanNodes -> TaskStatus]
        /\ lease' \in [owner : Workers \cup {None, Dead}, expired : BOOLEAN]
    BY <1>3, <1>4, <1>7, ProjectType DEF Append_
  <2>3. /\ copy' \in [Workers -> Held \cup {NoRun}] /\ copy'[w] # NoRun
        /\ \A v \in Workers \ {w} : copy'[v] = copy[v]
    <3>1. [seq |-> copy[w].seq + 1, st |-> b, saved |-> copy[w].saved] \in Held
      BY <1>3, <1>4 DEF Held
    <3>2. copy' = [copy EXCEPT ![w] =
                     [seq |-> copy[w].seq + 1, st |-> b, saved |-> copy[w].saved]]
      BY <1>7 DEF Append_, TypeOK
    <3>3. NoRun \notin Held
      BY OrchestratorAssumption DEF Held
    <3> QED
      BY <3>1, <3>2, <3>3 DEF TypeOK, Held
  <2>4. todo' \in [Workers -> Effects]
    <3>1. EffectsOf(a, b, t, next) \in Effects
      BY <1>3, <1>4, EffectsType
    <3> QED
      BY <1>7, <3>1 DEF Append_, TypeOK
  <2>5. /\ pc' \in [Workers -> PcValues]
        /\ \A v \in Workers \ {w} : pc'[v] = pc[v]
    BY <1>7 DEF Append_, Goto, TypeOK, PcValues
  <2>6. UNCHANGED <<jobs, held, active, queue, faults>>
    BY <1>7 DEF Append_
  <2> QED
    BY <1>2, <2>1, <2>2, <2>3, <2>4, <2>5, <2>6 DEF TypeOK, Held
<1>8. CASE Refused(w)
  BY <1>2, <1>8, ReturnType DEF Refused, Drop, TypeOK
<1>9. CASE Broken(w, a, b, t)
  <2>1. /\ queue' \in [Workers -> Seq(Triggers)]
        /\ pc' \in [Workers -> PcValues] /\ pc'[w] = "idle"
        /\ \A v \in Workers \ {w} : queue'[v] = queue[v] /\ pc'[v] = pc[v]
        /\ jobs' \subseteq Jobs
    BY <1>9, ErrorType DEF Broken
  <2>3. /\ log' \in Seq(Entry)
        /\ armed' \subseteq TimerId /\ marked' \subseteq TimerId
        /\ tasks' \in [HumanNodes -> TaskStatus]
        /\ lease' \in [owner : Workers \cup {None, Dead}, expired : BOOLEAN]
    <3>1. CASE UNCHANGED <<log, lease, armed, marked, tasks>>
      BY <3>1 DEF TypeOK
    <3>2. CASE log' = Append(log, EntryOf(t.type, a, b)) /\ Project(a, b, t)
      BY <1>3, <1>4, <1>5, <3>2, ProjectType, AppendProperties DEF TypeOK
    <3> QED
      BY <1>9, <3>1, <3>2 DEF Broken
  <2>4. /\ held' \in [Workers -> BOOLEAN]
        /\ \A v \in Workers : held'[v] => held[v]
        /\ active' \in [Workers -> SUBSET NodeRun]
        /\ faults' \in Nat
        /\ UNCHANGED <<copy, todo>>
    BY <1>9 DEF Broken, Caught, TypeOK
  <2> QED
    BY <1>2, <2>1, <2>3, <2>4 DEF TypeOK
<1> QED
  BY <1>1, <1>6, <1>7, <1>8, <1>9 DEF a, b

\* saveCheckpoint() and the checkpointSeq of the held object.
LEMMA SaveCheckpointType ==
  ASSUME TypeOK, NEW w \in Workers, Working(w),
         SaveCheckpoint(w) \/ UNCHANGED <<ckpt, copy>>
  PROVE  /\ ckpt' \in [seq : Nat, st : State]
         /\ copy' \in [Workers -> Held \cup {NoRun}] /\ copy'[w] # NoRun
         /\ \A v \in Workers \ {w} : copy'[v] = copy[v]
<1>1. copy[w] \in Held /\ copy[w] # NoRun /\ copy \in [Workers -> Held \cup {NoRun}]
  BY CopyType DEF TypeOK, Held
<1>2. CASE UNCHANGED <<ckpt, copy>>
  BY <1>1, <1>2 DEF TypeOK
<1>3. CASE SaveCheckpoint(w) /\ SavesCheckpoint(w)
  <2>1. copy' = [copy EXCEPT ![w] =
                   [seq |-> copy[w].seq, st |-> copy[w].st, saved |-> copy[w].seq]]
    BY <1>1, <1>3 DEF SaveCheckpoint, Held
  <2>2. [seq |-> copy[w].seq, st |-> copy[w].st, saved |-> copy[w].seq] \in Held
    BY <1>1 DEF Held
  <2>3. ckpt' \in [seq : Nat, st : State]
    BY <1>1, <1>3 DEF SaveCheckpoint, TypeOK, Held
  <2>4. NoRun \notin Held
    BY OrchestratorAssumption DEF Held
  <2> QED
    BY <1>1, <2>1, <2>2, <2>3, <2>4
<1>4. CASE SaveCheckpoint(w) /\ ~SavesCheckpoint(w)
  BY <1>1, <1>4 DEF SaveCheckpoint, TypeOK
<1> QED
  BY <1>2, <1>3, <1>4

\* the jobs of a run, and what their triggers are made of.
LEMMA JobValues ==
  /\ Job("start") \in Jobs /\ Job("resume") \in Jobs /\ Job("cancel") \in Jobs
  /\ \A n \in HumanNodes : AnswerJob(n) \in Jobs
  /\ \A j \in Jobs : /\ j.type \in JobTypes /\ j.id \in TimerId
                     /\ j = [type |-> j.type, id |-> j.id]
<1>1. \A n \in HumanNodes : <<n, 1, 0>> \in TimerId
  BY DEF HumanNodes, TimerId, NodeRun
<1>2. /\ Job("start") \in Jobs /\ Job("resume") \in Jobs /\ Job("cancel") \in Jobs
      /\ \A n \in HumanNodes : AnswerJob(n) \in Jobs
  BY DEF Jobs, JobTypes
<1>3. ASSUME NEW j \in Jobs
      PROVE  /\ j.type \in JobTypes /\ j.id \in TimerId
             /\ j = [type |-> j.type, id |-> j.id]
  <2>1. CASE \E type \in JobTypes : j = Job(type)
    BY <2>1 DEF Job, TimerId
  <2>2. CASE \E n \in HumanNodes : j = AnswerJob(n)
    BY <1>1, <2>2 DEF AnswerJob, JobTypes
  <2> QED
    BY <2>1, <2>2 DEF Jobs
<1> QED
  BY <1>2, <1>3

\* every action keeps every variable well typed.
LEMMA NextType ==
  ASSUME TypeOK, [Next]_vars
  PROVE  TypeOK'
<1> USE DEF Held
<1>1. CASE UNCHANGED vars
  BY <1>1 DEF TypeOK, vars
<1>2. ASSUME NEW w \in Workers, NEW j \in Jobs, ClaimJob(w, j)
      PROVE  TypeOK'
  <2>1. Trigger(j.type, j.id, "ok", "job") \in Triggers
    BY JobValues DEF Trigger, Triggers, JobOf, ResultTypes, Sources
  <2> QED
    BY <1>2, <2>1, EnqueueType DEF ClaimJob, TypeOK
<1>3. ASSUME NEW w \in Workers, NEW t \in armed, PollTimer(w, t)
      PROVE  TypeOK'
  <2>1. Trigger("timer", t, "ok", "timer") \in Triggers
    BY DEF Trigger, Triggers, TypeOK, ResultTypes, Sources
  <2> QED
    BY <1>3, <2>1, EnqueueType DEF PollTimer, TypeOK, store
<1>4. ASSUME NEW w \in Workers, NEW r \in active[w], Finish(w, r)
      PROVE  TypeOK'
  <2>1. PICK result \in ResultTypes : FinishExecution(w, r, result)
    BY <1>4 DEF Finish
  <2>2. Trigger("node_result", r, result, "exec") \in Triggers
    BY DEF Trigger, Triggers, TypeOK, TimerId, Sources
  <2>3. active' \in [Workers -> SUBSET NodeRun]
    BY <2>1 DEF FinishExecution, TypeOK
  <2> QED
    BY <2>1, <2>2, <2>3, EnqueueType DEF FinishExecution, TypeOK, store
<1>5. ASSUME NEW w \in Workers, Reap(w)
      PROVE  TypeOK'
  <2>1. Plain("resume", "reap") \in Triggers
    BY DEF Plain, Trigger, Triggers, TimerId, ResultTypes, Sources, JobTypes
  <2> QED
    BY <1>5, <2>1, EnqueueType DEF Reap, TypeOK, store
<1>6. ASSUME NEW w \in Workers, Renew(w)
      PROVE  TypeOK'
  <2>1. Plain("cancel", "heartbeat") \in Triggers
    BY DEF Plain, Trigger, Triggers, TimerId, ResultTypes, Sources, JobTypes
  <2>2. lease' \in [owner : Workers \cup {None, Dead}, expired : BOOLEAN]
    BY <1>6 DEF Renew, TypeOK
  <2>3. /\ queue' \in [Workers -> Seq(Triggers)]
        /\ \A v \in Workers : queue'[v] = <<>> => queue[v] = <<>>
    <3>1. Enqueue(w, Plain("cancel", "heartbeat")) \/ UNCHANGED queue
      BY <1>6 DEF Renew
    <3> QED
      BY <2>1, <3>1, EnqueueType DEF TypeOK
  <2> QED
    BY <1>6, <2>2, <2>3 DEF Renew, TypeOK
<1>7. ASSUME NEW w \in Workers, LoseLease(w)
      PROVE  TypeOK'
  BY <1>7 DEF LoseLease, Drop, TypeOK, store
<1>8. ASSUME NEW w \in Workers, TakeHeld(w) \/ TakeRead(w) \/ TakeAcquire(w)
      PROVE  TypeOK'
  <2>1. CASE TakeHeld(w)
    BY <2>1 DEF TakeHeld, Goto, TypeOK, PcValues, store
  <2>2. CASE TakeRead(w)
    <3>1. CASE DbStatus \in Terminal
      <4>1. Return(w, "terminal") /\ queue[w] # <<>>
        BY <2>2, <3>1 DEF TakeRead
      <4> QED
        BY <2>2, <4>1, ReturnType DEF TakeRead, TypeOK
    <3>2. CASE DbStatus \notin Terminal
      BY <2>2, <3>2 DEF TakeRead, Goto, TypeOK, PcValues
    <3> QED
      BY <3>1, <3>2
  <2>3. CASE TakeAcquire(w)
    <3>1. CASE Leasable(w)
      <4>1. /\ lease' \in LeaseType
            /\ pc' \in [Workers -> PcValues] /\ queue[w] # <<>>
            /\ pc'[w] \in {"loadNew", "load"}
            /\ \A v \in Workers \ {w} : pc'[v] = pc[v]
            /\ UNCHANGED <<log, ckpt, armed, marked, tasks, cancelReq, jobs, copy, held,
                           active, queue, todo, closing, late, faults, ran>>
        <5>1. lease' = [owner |-> w, expired |-> FALSE]
          BY <2>3, <3>1 DEF TakeAcquire
        <5>2. Goto(w, "loadNew") \/ Goto(w, "load")
          BY <2>3, <3>1 DEF TakeAcquire, Goto
        <5>3. queue[w] # <<>>
          BY <2>3 DEF TakeAcquire, TypeOK
        <5>4. UNCHANGED <<log, ckpt, armed, marked, tasks, cancelReq, jobs, copy, held,
                          active, queue, todo, closing, late, faults, ran>>
          BY <2>3, <3>1 DEF TakeAcquire
        <5> QED
          BY <5>1, <5>2, <5>3, <5>4 DEF Goto, LeaseType, TypeOK, PcValues
      <4> QED
        BY <4>1 DEF TypeOK, LeaseType
    <3>2. CASE ~Leasable(w)
      <4>1. Return(w, "busy") /\ queue[w] # <<>>
        BY <2>3, <3>2 DEF TakeAcquire, TypeOK
      <4> QED
        BY <2>3, <3>2, <4>1, ReturnType DEF TakeAcquire, TypeOK
    <3> QED
      BY <3>1, <3>2
  <2> QED
    BY <1>8, <2>1, <2>2, <2>3
<1>9. ASSUME NEW w \in Workers, TakeLoad(w)
      PROVE  TypeOK'
  <2>1. Recover(ckpt, log) \in State /\ Len(log) \in Nat
    BY ReplayType, TailType, LenProperties DEF Recover, TypeOK
  <2>2. [seq |-> Len(log), st |-> Recover(ckpt, log), saved |-> ckpt.seq] \in Held
    BY <2>1 DEF TypeOK
  <2>3. NoRun \notin Held
    BY OrchestratorAssumption
  <2>4. /\ copy' \in [Workers -> Held \cup {NoRun}] /\ copy'[w] # NoRun
        /\ \A v \in Workers \ {w} : copy'[v] = copy[v]
    BY <1>9, <2>2, <2>3 DEF TakeLoad, TypeOK
  <2>5. queue[w] # <<>>
    BY <1>9 DEF TakeLoad, TypeOK
  <2> QED
    BY <1>9, <2>4, <2>5 DEF TakeLoad, Goto, TypeOK, PcValues, store
<1>10. ASSUME NEW w \in Workers, TakeRecord(w)
       PROVE  TypeOK'
  <2>1. copy[w] \in Held /\ copy[w] # NoRun /\ queue[w] # <<>>
    BY <1>10, CopyType DEF TakeRecord, Working, TypeOK
  <2>2. CASE Fenced(w)
    <3>1. log' \in Seq(Entry)
      <4>1. LeaseTaken(copy[w].st) \in Entry
        BY <2>1, EntryType DEF LeaseTaken, Why
      <4>2. log' = Append(log, LeaseTaken(copy[w].st)) /\ log \in Seq(Entry)
        BY <1>10, <2>2 DEF TakeRecord, TypeOK
      <4> QED
        BY <4>1, <4>2, AppendProperties
    <3>2. /\ copy' \in [Workers -> Held \cup {NoRun}] /\ copy'[w] # NoRun
          /\ \A v \in Workers \ {w} : copy'[v] = copy[v]
      <4>1. [seq |-> copy[w].seq + 1, st |-> copy[w].st, saved |-> copy[w].saved] \in Held
        BY <2>1
      <4>2. copy' = [copy EXCEPT ![w] =
                       [seq |-> copy[w].seq + 1, st |-> copy[w].st, saved |-> copy[w].saved]]
        BY <1>10, <2>1, <2>2 DEF TakeRecord
      <4>3. NoRun \notin Held
        BY OrchestratorAssumption
      <4> QED
        BY <4>1, <4>2, <4>3 DEF TypeOK
    <3> QED
      BY <1>10, <2>1, <2>2, <3>1, <3>2 DEF TakeRecord, Goto, TypeOK, PcValues
  <2>3. CASE ~Fenced(w)
    <3>1. Return(w, "error")
      BY <1>10, <2>3 DEF TakeRecord
    <3> QED
      BY <1>10, <2>1, <2>3, <3>1, ReturnType DEF TakeRecord, TypeOK
  <2> QED
    BY <2>2, <2>3
<1>11. ASSUME NEW w \in Workers, RecoverLost(w) \/ RunTrigger(w) \/ HandleResponse(w)
       PROVE  TypeOK'
  <2>1. Working(w) /\ queue[w] # <<>>
    BY <1>11 DEF RecoverLost, RunTrigger, NothingLost, HandleResponse, Working, TypeOK
  <2>2. "trigger" \in PcValues /\ "human" \in PcValues
    BY DEF PcValues
  <2>3. CASE RecoverLost(w)
    <3>1. Handles(Recovered(Lost(w)))
      BY DEF Handles, Recovered, Trigger, Why, Sound
    <3> QED
      BY <2>1, <2>2, <2>3, <3>1, CommitType DEF RecoverLost
  <2>4. CASE RunTrigger(w)
    <3>1. Handles(Head(queue[w]))
      BY <2>1, HeadType DEF Handles, Triggers, JobTypes, Why, Sound
    <3> QED
      BY <2>1, <2>2, <2>4, <3>1, CommitType DEF RunTrigger
  <2>5. CASE HandleResponse(w)
    <3>1. PICK n \in Answered(w) : Commit(w, Response(n), "human")
      BY <2>5 DEF HandleResponse
    <3>2. Handles(Response(n))
      BY DEF Handles, Response, Trigger, Why, Sound, Answered, HumanNodes
    <3> QED
      BY <2>1, <2>2, <3>1, <3>2, CommitType
  <2> QED
    BY <1>11, <2>3, <2>4, <2>5
<1>12. ASSUME NEW w \in Workers, SkipTrigger(w) \/ FinishTrigger(w)
       PROVE  TypeOK'
  <2>1. Return(w, "ok") /\ queue[w] # <<>>
    BY <1>12 DEF SkipTrigger, NothingLost, FinishTrigger, TypeOK
  <2> QED
    BY <1>12, <2>1, ReturnType DEF SkipTrigger, FinishTrigger, TypeOK
<1>13. ASSUME NEW w \in Workers, Perform(w)
       PROVE  TypeOK'
  <2>1. Working(w) /\ queue[w] # <<>>
    BY <1>13 DEF Perform, Working, TypeOK
  <2>2. /\ ckpt' \in [seq : Nat, st : State]
        /\ copy' \in [Workers -> Held \cup {NoRun}] /\ copy'[w] # NoRun
        /\ \A v \in Workers \ {w} : copy'[v] = copy[v]
    BY <1>13, <2>1, SaveCheckpointType DEF Perform
  <2>3. todo[w] \in Effects
    BY DEF TypeOK
  <2>4. /\ todo' \in [Workers -> Effects]
        /\ pc' \in [Workers -> PcValues]
        /\ \A v \in Workers \ {w} : pc'[v] = pc[v]
    <3>1. NoEffects \in Effects
      BY DEF NoEffects, Effects, PcValues
    <3> QED
      BY <1>13, <2>3, <3>1 DEF Perform, Goto, TypeOK, Effects
  <2>5. /\ armed' \subseteq TimerId /\ ran' \subseteq NodeRun
        /\ active' \in [Workers -> SUBSET NodeRun]
    <3>1. Begun(w) \subseteq NodeRun /\ Executing(w) \subseteq NodeRun
      BY <2>3 DEF Begun, Executing, Without, Effects, TypeOK
    <3> QED
      BY <1>13, <3>1 DEF Perform, TypeOK
  <2>6. /\ held' \in [Workers -> BOOLEAN]
        /\ \A v \in Workers : held'[v] => held[v]
        /\ lease' \in LeaseType
    <3>1. lease \in LeaseType /\ [owner |-> None, expired |-> FALSE] \in LeaseType
      BY DEF TypeOK, LeaseType
    <3>2. lease' = [owner |-> None, expired |-> FALSE] \/ lease' = lease
      BY <1>13 DEF Perform
    <3>3. held' = [held EXCEPT ![w] = FALSE] \/ held' = held
      BY <1>13 DEF Perform
    <3> QED
      BY <3>1, <3>2, <3>3 DEF TypeOK
  <2>7. UNCHANGED <<log, marked, tasks, cancelReq, jobs, queue, closing, late, faults>>
    BY <1>13 DEF Perform
  <2> QED
    BY <2>1, <2>2, <2>4, <2>5, <2>6, <2>7 DEF TypeOK, LeaseType
<1>14. ASSUME NEW w \in Workers, PerformFails(w)
       PROVE  TypeOK'
  <2>1. Working(w) /\ queue[w] # <<>>
    BY <1>14 DEF PerformFails, Working, TypeOK
  <2>2. /\ ckpt' \in [seq : Nat, st : State]
        /\ copy' \in [Workers -> Held \cup {NoRun}] /\ copy'[w] # NoRun
        /\ \A v \in Workers \ {w} : copy'[v] = copy[v]
    <3>1. SaveCheckpoint(w) \/ UNCHANGED <<ckpt, copy>>
      BY <1>14 DEF PerformFails
    <3> QED
      BY <2>1, <3>1, SaveCheckpointType
  <2>3. /\ todo' \in [Workers -> Effects]
        /\ active' \in [Workers -> SUBSET NodeRun]
        /\ held' \in [Workers -> BOOLEAN] /\ faults' \in Nat
        /\ \A v \in Workers : held'[v] => held[v]
        /\ armed' \subseteq TimerId /\ ran' \subseteq NodeRun
    <3>1. NoEffects \in Effects
      BY DEF NoEffects, Effects, PcValues
    <3>2. /\ active' \in [Workers -> SUBSET NodeRun]
          /\ armed' \subseteq TimerId /\ ran' \subseteq NodeRun
      <4>0. /\ active \in [Workers -> SUBSET NodeRun] /\ armed \subseteq TimerId
            /\ ran \subseteq NodeRun /\ Begun(w) \subseteq NodeRun
            /\ Caught(w) \subseteq NodeRun
        BY DEF TypeOK, Begun, Caught, Effects
      <4>1. ASSUME NEW left \in SUBSET NodeRun, NEW begun \in SUBSET Begun(w), NEW done,
                   active' = [active EXCEPT ![w] = left],
                   armed' = armed \ done, ran' = ran \cup begun
            PROVE  /\ active' \in [Workers -> SUBSET NodeRun]
                   /\ armed' \subseteq TimerId /\ ran' \subseteq NodeRun
        BY <4>0, <4>1
      <4>2. PICK left \in SUBSET NodeRun, begun \in SUBSET Begun(w), done \in SUBSET TimerId :
              /\ active' = [active EXCEPT ![w] = left]
              /\ armed' = armed \ done /\ ran' = ran \cup begun
        <5>1. CASE active' = [active EXCEPT ![w] = Caught(w)] /\ UNCHANGED <<armed, ran>>
          <6>1. armed' = armed \ {} /\ ran' = ran \cup {}
            BY <5>1
          <6>2. Caught(w) \in SUBSET NodeRun /\ {} \in SUBSET Begun(w) /\ {} \in SUBSET TimerId
            BY <4>0
          <6> QED
            BY <5>1, <6>1, <6>2, Zenon
        <5>2. ASSUME NEW begun \in SUBSET (Begun(w) \cap todo[w].abort),
                     NEW aborted \in SUBSET todo[w].abort, NEW done \in SUBSET todo[w].cancel,
                     active' = [active EXCEPT ![w] = Without(Caught(w) \cup begun, aborted)],
                     armed' = armed \ done, ran' = ran \cup begun
              PROVE  \E left \in SUBSET NodeRun, b \in SUBSET Begun(w), d \in SUBSET TimerId :
                       /\ active' = [active EXCEPT ![w] = left]
                       /\ armed' = armed \ d /\ ran' = ran \cup b
          <6>1. Without(Caught(w) \cup begun, aborted) \subseteq NodeRun
            BY <4>0 DEF Without
          <6>2. done \in SUBSET TimerId
            BY DEF TypeOK, Effects
          <6> QED
            BY <5>2, <6>1, <6>2
        <5>3. CASE /\ active' = [active EXCEPT ![w] = {}]
                   /\ armed' = armed \ todo[w].cancel /\ UNCHANGED ran
          <6>1. ran' = ran \cup {}
            BY <5>3
          <6>2. {} \in SUBSET NodeRun /\ {} \in SUBSET Begun(w) /\ todo[w].cancel \in SUBSET TimerId
            BY DEF TypeOK, Effects
          <6> QED
            BY <5>3, <6>1, <6>2, Zenon
        <5> QED
          BY <1>14, <5>1, <5>2, <5>3, Zenon DEF PerformFails
      <4> QED
        BY <4>1, <4>2
    <3>3. held' = [held EXCEPT ![w] = FALSE] /\ todo' = [todo EXCEPT ![w] = NoEffects]
          /\ faults' = faults + 1
      BY <1>14 DEF PerformFails
    <3> QED
      BY <3>1, <3>2, <3>3 DEF TypeOK
  <2>4. UNCHANGED <<log, lease, marked, tasks, cancelReq, closing, late>>
    BY <1>14 DEF PerformFails
  <2>5. /\ queue' \in [Workers -> Seq(Triggers)]
        /\ pc' \in [Workers -> PcValues] /\ pc'[w] = "idle"
        /\ \A v \in Workers \ {w} : queue'[v] = queue[v] /\ pc'[v] = pc[v]
        /\ jobs' \subseteq Jobs
    BY <1>14, <2>1, ErrorType DEF PerformFails
  <2> QED
    BY <2>1, <2>2, <2>3, <2>4, <2>5 DEF TypeOK
<1>15. ASSUME RequestCancel \/ DeadlinePasses \/ LeaseLapses \/ \E n \in HumanNodes : Respond(n)
       PROVE  TypeOK'
  <2>0. ASSUME NEW j \in Jobs, ApiEnqueues(j)
        PROVE  jobs' \subseteq Jobs /\ faults' \in Nat
    BY <2>0 DEF ApiEnqueues, Fault, TypeOK
  <2>1. CASE RequestCancel
    <3>1. jobs' \subseteq Jobs /\ faults' \in Nat
      BY <2>0, <2>1, JobValues DEF RequestCancel
    <3> QED
      BY <2>1, <3>1 DEF RequestCancel, TypeOK, workers
  <2>2. CASE DeadlinePasses
    BY <2>2 DEF DeadlinePasses, TypeOK, store, workers
  <2>3. CASE LeaseLapses
    <3>1. lease' \in LeaseType /\ faults' \in Nat
      <4>1. /\ lease' = [lease EXCEPT !.expired = TRUE]
            /\ faults' = faults \/ faults' = faults + 1
        BY <2>3 DEF LeaseLapses, Fault
      <4>2. faults \in Nat /\ lease \in LeaseType
        BY DEF TypeOK, LeaseType
      <4>3. faults' \in Nat
        BY <4>1, <4>2
      <4>4. [lease EXCEPT !.expired = TRUE] \in LeaseType
        BY <4>2 DEF LeaseType
      <4> QED
        BY <4>1, <4>3, <4>4
    <3> QED
      BY <2>3, <3>1 DEF LeaseLapses, TypeOK, LeaseType, workers
  <2>4. CASE \E n \in HumanNodes : Respond(n)
    <3>1. PICK n \in HumanNodes : Respond(n)
      BY <2>4
    <3>2. jobs' \subseteq Jobs /\ faults' \in Nat
      BY <2>0, <3>1, JobValues DEF Respond
    <3>3. tasks' \in [HumanNodes -> TaskStatus]
      BY <3>1 DEF Respond, TaskStatus, TypeOK
    <3> QED
      BY <3>1, <3>2, <3>3 DEF Respond, TypeOK, workers
  <2> QED
    BY <1>15, <2>1, <2>2, <2>3, <2>4
<1>16. ASSUME NEW w \in Workers
       PROVE  JobsOf(w) \subseteq Jobs
  <2>1. \A i \in DOMAIN queue[w] : queue[w][i] \in Triggers
    BY ElementOfSeq, LenProperties DEF TypeOK
  <2> QED
    BY <2>1 DEF JobsOf, Triggers
<1>17. ASSUME NEW w \in Workers, RedeliverJob(w) \/ BeginClose(w)
       PROVE  TypeOK'
  <2>1. CASE RedeliverJob(w)
    <3>1. jobs' \subseteq Jobs /\ faults' \in Nat
      BY <1>16, <2>1 DEF RedeliverJob, Fault, TypeOK
    <3> QED
      BY <2>1, <3>1 DEF RedeliverJob, TypeOK, workers
  <2>2. CASE BeginClose(w)
    <3>1. /\ closing' \in [Workers -> BOOLEAN] /\ faults' \in Nat
          /\ active' \in [Workers -> SUBSET NodeRun]
      BY <2>2 DEF BeginClose, Fault, TypeOK
    <3> QED
      BY <2>2, <3>1 DEF BeginClose, TypeOK, store
  <2> QED
    BY <1>17, <2>1, <2>2
<1>18. ASSUME NEW w \in Workers, Crash(w) \/ EndClose(w)
       PROVE  TypeOK'
  <2>1. Forget(w) /\ UNCHANGED <<log, ckpt, armed, marked, tasks, cancelReq, late, ran>>
    BY <1>18 DEF Crash, EndClose
  <2>2. /\ copy' \in [Workers -> Held \cup {NoRun}]
        /\ held' \in [Workers -> BOOLEAN] /\ ~held'[w]
        /\ active' \in [Workers -> SUBSET NodeRun]
        /\ queue' \in [Workers -> Seq(Triggers)]
        /\ pc' \in [Workers -> PcValues] /\ pc'[w] = "idle"
        /\ todo' \in [Workers -> Effects]
        /\ closing' \in [Workers -> BOOLEAN]
        /\ \A v \in Workers \ {w} : /\ copy'[v] = copy[v] /\ held'[v] = held[v]
                                    /\ queue'[v] = queue[v] /\ pc'[v] = pc[v]
    <3>1. NoEffects \in Effects /\ <<>> \in Seq(Triggers) /\ "idle" \in PcValues
      BY EmptySeq DEF NoEffects, Effects, PcValues
    <3> QED
      BY <2>1, <3>1 DEF Forget, TypeOK
  <2>3. /\ jobs' \subseteq Jobs /\ faults' \in Nat
        /\ lease' \in [owner : Workers \cup {None, Dead}, expired : BOOLEAN]
    <3>1. CASE Crash(w)
      <4>1. jobs' = jobs \cup JobsOf(w) /\ faults' = faults + 1
            /\ (lease' = [lease EXCEPT !.owner = Dead] \/ lease' = lease)
        BY <3>1 DEF Crash, Fault
      <4>2. [lease EXCEPT !.owner = Dead] \in LeaseType
        BY DEF TypeOK, LeaseType
      <4> QED
        BY <1>16, <4>1, <4>2 DEF TypeOK, LeaseType
    <3>2. CASE EndClose(w)
      BY <3>2, JobValues DEF EndClose, TypeOK
    <3> QED
      BY <1>18, <3>1, <3>2
  <2> QED
    BY <2>1, <2>2, <2>3 DEF TypeOK
<1> QED
  BY <1>1, <1>2, <1>3, <1>4, <1>5, <1>6, <1>7, <1>8, <1>9, <1>10, <1>11, <1>12, <1>13,
     <1>14, <1>15, <1>17, <1>18 DEF Next, Handle, Maintain

\* the initial state is well typed.
LEMMA InitType ==
  ASSUME Init
  PROVE  TypeOK
<1>1. <<>> \in Seq(Entry) /\ <<>> \in Seq(Triggers)
  BY EmptySeq
<1>2. NoEffects \in Effects
  BY DEF NoEffects, Effects, PcValues
<1> QED
  BY <1>1, <1>2, InitialStateType, JobValues
     DEF Init, TypeOK, NoCopy, TaskStatus, PcValues

\* Every variable keeps to its values, and a handler past take() has its trigger and a
\* copy of the run.
THEOREM TypeCorrect == Spec => []TypeOK
<1>1. Init => TypeOK
  BY InitType
<1>2. TypeOK /\ [Next]_vars => TypeOK'
  BY NextType
<1> QED
  BY <1>1, <1>2, PTL DEF Spec

-----------------------------------------------------------------------------
(***************************************************************************)
(* What workers hold in memory is the log.                                 *)
(*                                                                         *)
(* A step of the system either leaves the log alone (Quiet) or appends one *)
(* entry to it through the fence of one worker (Commits), whose copy is    *)
(* then, by the invariant itself, the reduction of the whole log.          *)
(***************************************************************************)
\* s is the reduction of the log up to seq.
OnLog(seq, s) == seq <= Len(log) /\ Replay(s, TailFrom(log, seq)) = LogState

\* MemoryIsReplay, said of one pair of a sequence number and a state at a time.
LEMMA MemoryOnLog ==
  MemoryIsReplay <=>
    /\ OnLog(ckpt.seq, ckpt.st)
    /\ \A w \in Workers : copy[w] # NoRun => OnLog(copy[w].seq, copy[w].st)
BY DEF MemoryIsReplay, OnLog

\* the state the log tells of is a scheduler state.
LEMMA LogStateType ==
  ASSUME TypeOK
  PROVE  LogState \in State
BY ReplayType, InitialStateType DEF TypeOK, LogState

\* the fence lets only a copy of the whole log through.
LEMMA FencedIsLogState ==
  ASSUME TypeOK, MemoryIsReplay, NEW w \in Workers, Working(w), Fenced(w)
  PROVE  copy[w].st = LogState
<1>1. copy[w] \in Held /\ copy[w] # NoRun
  BY CopyType
<1>2. Replay(copy[w].st, TailFrom(log, Len(log))) = LogState
  BY <1>1 DEF MemoryIsReplay, Fenced
<1> QED
  BY <1>1, <1>2, TailOfAll, ReplayEmpty DEF TypeOK, Held

\* one more entry: what was the log's remains so, and the log's state is reduced once.
LEMMA LogGrows ==
  ASSUME TypeOK, NEW e \in Entry, log' = Append(log, e)
  PROVE  /\ LogState' = Reduce(LogState, e)
         /\ Len(log') = Len(log) + 1
         /\ \A seq \in Nat, s \in State : OnLog(seq, s) => OnLog(seq, s)'
<1>1. log \in Seq(Entry) /\ Len(log) \in Nat
  BY LenProperties DEF TypeOK
<1>2. LogState' = Reduce(LogState, e)
  BY <1>1, ReplayAppend, InitialStateType DEF LogState
<1>3. Len(log') = Len(log) + 1
  BY <1>1, AppendProperties
<1>4. ASSUME NEW seq \in Nat, NEW s \in State, OnLog(seq, s)
      PROVE  OnLog(seq, s)'
  <2>1. seq \in 0 .. Len(log)
    BY <1>1, <1>4 DEF OnLog
  <2>2. /\ TailFrom(log, seq) \in Seq(Entry)
        /\ TailFrom(log', seq) = Append(TailFrom(log, seq), e)
    BY <1>1, <2>1, TailAppend
  <2>3. Replay(s, TailFrom(log', seq)) = Reduce(LogState, e)
    BY <1>4, <2>2, ReplayAppend DEF OnLog
  <2> QED
    BY <1>1, <1>2, <1>3, <2>1, <2>3 DEF OnLog
<1> QED
  BY <1>2, <1>3, <1>4

\* The whole log's state is on the log.
LEMMA LogStateOnLog ==
  ASSUME log \in Seq(Entry), LogState \in State
  PROVE  OnLog(Len(log), LogState)
BY TailOfAll, ReplayEmpty, LenProperties DEF OnLog

SameCopy(c, d) == c # NoRun /\ d # NoRun /\ d.seq = c.seq /\ d.st = c.st

Quiet ==
  /\ log' = log
  /\ \/ ckpt' = ckpt
     \/ \E w \in Workers : copy[w] # NoRun /\ ckpt' = [seq |-> copy[w].seq, st |-> copy[w].st]
  /\ \A w \in Workers : \/ copy'[w] = copy[w] \/ copy'[w] = NoRun
                        \/ SameCopy(copy[w], copy'[w])
                        \/ copy'[w].seq = Len(log) /\ copy'[w].st = Recover(ckpt, log)

Commits(w, why, b) ==
  /\ Working(w) /\ Fenced(w)
  /\ log' = Append(log, EntryOf(why, copy[w].st, b))
  /\ ckpt' = ckpt
  /\ \A v \in Workers \ {w} : copy'[v] = copy[v]
  /\ \/ copy'[w] = copy[w]
     \/ copy'[w].seq = copy[w].seq + 1 /\ copy'[w].st = b

\* The triggers a handler applies to a state: a result of an execution, and only node
\* runs that are running in that state can be lost.
RunningIn(a) == {RunOf(a, n) : n \in {m \in Nodes : a.nodes[m].status = "running"}}
Applies(t, a) == /\ Handles(t)
                 /\ t.result \in ResultTypes
                 /\ t.type = "recovered" => t.id \subseteq RunningIn(a)

\* A commit of a worker: the lease's event, which changes nothing, or a scheduler step.
Steps(w) ==
  \/ Commits(w, "lease_taken", copy[w].st)
  \/ \E t, b, lt : /\ lt \in BOOLEAN /\ Applies(t, copy[w].st)
                   /\ b \in State /\ b = Step(copy[w].st, t, lt)
                   /\ Commits(w, t.type, b)

\* a handler's step() and append change nothing, or commit one scheduler step.
LEMMA CommitShape ==
  ASSUME TypeOK, NEW w \in Workers, NEW t, Handles(t), NEW next,
         Working(w), Commit(w, t, next)
  PROVE  \/ Quiet
         \/ \E b \in State : Commits(w, t.type, b) /\ \E lt \in BOOLEAN : b = Step(copy[w].st, t, lt)
<1>1. PICK past \in {FALSE, late} :
        LET a == copy[w].st
            b == Step(a, t, past /\ a.run # "queued")
        IN IF b = a
           THEN /\ Goto(w, next)
                /\ UNCHANGED <<log, lease, armed, marked, tasks, jobs,
                               copy, held, active, queue, todo, faults>>
           ELSE \/ Append_(w, a, b, t, next)
                \/ Refused(w)
                \/ Broken(w, a, b, t)
  BY DEF Commit
<1>2. UNCHANGED <<ckpt, cancelReq, closing, late, ran>>
  BY DEF Commit
<1> DEFINE a == copy[w].st
           b == Step(a, t, past /\ a.run # "queued")
<1>3. a \in State /\ copy \in [Workers -> Held \cup {NoRun}]
  BY CopyType DEF Held, TypeOK
<1>4. PICK lt \in BOOLEAN : b = Step(a, t, lt)
  BY Zenon
<1>5. b \in State
  BY <1>3, <1>4, StepType DEF Handles
<1> HIDE DEF b
<1>6. CASE UNCHANGED <<log, copy>>
  BY <1>2, <1>6 DEF Quiet
<1>7. CASE Append_(w, a, b, t, next)
  <2>1. Commits(w, t.type, b)
    BY <1>2, <1>3, <1>7 DEF Append_, Commits
  <2> QED
    BY <1>4, <1>5, <2>1
<1>8. CASE /\ Fenced(w)
           /\ log' = Append(log, EntryOf(t.type, a, b))
           /\ UNCHANGED copy
  <2>1. Commits(w, t.type, b)
    BY <1>2, <1>8 DEF Commits
  <2> QED
    BY <1>4, <1>5, <2>1
<1>9. \/ UNCHANGED <<log, copy>>
      \/ Append_(w, a, b, t, next)
      \/ /\ Fenced(w)
         /\ log' = Append(log, EntryOf(t.type, a, b))
         /\ UNCHANGED copy
  BY <1>1 DEF Refused, Broken, b
<1> QED
  BY <1>6, <1>7, <1>8, <1>9

\* every step of the system is quiet or a commit.
LEMMA NextShape ==
  ASSUME TypeOK, [Next]_vars
  PROVE  Quiet \/ \E w \in Workers : Steps(w)
<1> USE DEF Quiet
<1>1. CASE UNCHANGED vars
  BY <1>1 DEF vars
<1>2. CASE UNCHANGED <<log, ckpt, copy>>
  BY <1>2
<1>3. ASSUME NEW w \in Workers,
             \/ Maintain(w) \/ RedeliverJob(w) \/ BeginClose(w)
             \/ \E j \in Jobs : ClaimJob(w, j)
             \/ \E t \in armed : PollTimer(w, t)
             \/ \E r \in active[w] : Finish(w, r)
      PROVE  UNCHANGED <<log, ckpt, copy>>
  BY <1>3 DEF Maintain, Reap, Renew, LoseLease, RedeliverJob, BeginClose, ClaimJob, PollTimer,
              Finish, FinishExecution, store, workers
<1>4. ASSUME RequestCancel \/ DeadlinePasses \/ LeaseLapses \/ \E n \in HumanNodes : Respond(n)
      PROVE  UNCHANGED <<log, ckpt, copy>>
  BY <1>4 DEF RequestCancel, DeadlinePasses, LeaseLapses, Respond, store, workers
<1>5. ASSUME NEW w \in Workers,
             TakeHeld(w) \/ TakeRead(w) \/ TakeAcquire(w) \/ SkipTrigger(w) \/ FinishTrigger(w)
      PROVE  UNCHANGED <<log, ckpt, copy>>
  BY <1>5 DEF TakeHeld, TakeRead, TakeAcquire, SkipTrigger, FinishTrigger, store
<1>6. ASSUME NEW w \in Workers, Crash(w) \/ EndClose(w)
      PROVE  Quiet
  BY <1>6 DEF Crash, EndClose, Forget, TypeOK
<1>7. ASSUME NEW w \in Workers, TakeLoad(w)
      PROVE  Quiet
  BY <1>7 DEF TakeLoad, TypeOK, store
<1>8. ASSUME NEW w \in Workers, TakeRecord(w)
      PROVE  Quiet \/ Steps(w)
  <2>1. copy[w] \in Held /\ copy[w] # NoRun /\ Working(w)
    BY <1>8, CopyType DEF TakeRecord, Working
  <2>2. CASE Fenced(w)
    BY <1>8, <2>1, <2>2 DEF TakeRecord, Steps, Commits, LeaseTaken, TypeOK, Held
  <2>3. CASE ~Fenced(w)
    BY <1>8, <2>3 DEF TakeRecord
  <2> QED
    BY <2>2, <2>3
<1>9. ASSUME NEW w \in Workers, NEW t, NEW next, Applies(t, copy[w].st),
             Working(w), Commit(w, t, next)
      PROVE  Quiet \/ Steps(w)
  <2> HIDE DEF Quiet
  <2>1. \/ Quiet
        \/ \E b \in State : Commits(w, t.type, b) /\ \E lt \in BOOLEAN : b = Step(copy[w].st, t, lt)
    BY <1>9, CommitShape DEF Applies
  <2> QED
    BY <1>9, <2>1 DEF Steps
<1>10. ASSUME NEW w \in Workers, RecoverLost(w)
       PROVE  Quiet \/ Steps(w)
  <2>1. Working(w) /\ Commit(w, Recovered(Lost(w)), "trigger")
    BY <1>10 DEF RecoverLost, Working
  <2>2. Lost(w) \subseteq RunningIn(copy[w].st)
    BY DEF Lost, RunningIn
  <2>3. Applies(Recovered(Lost(w)), copy[w].st)
    BY <2>2 DEF Applies, Handles, Recovered, Trigger, Why, Sound, ResultTypes
  <2> QED
    BY <1>9, <2>1, <2>3
<1>11. ASSUME NEW w \in Workers, RunTrigger(w)
       PROVE  Quiet \/ Steps(w)
  <2>1. Working(w) /\ queue[w] # <<>> /\ Commit(w, Head(queue[w]), "human")
    BY <1>11 DEF RunTrigger, Working, NothingLost, TypeOK
  <2>2. Applies(Head(queue[w]), copy[w].st)
    BY <2>1, HeadType DEF Applies, Handles, Triggers, JobTypes, Why, Sound
  <2> QED
    BY <1>9, <2>1, <2>2
<1>12. ASSUME NEW w \in Workers, HandleResponse(w)
       PROVE  Quiet \/ Steps(w)
  <2>1. PICK n \in Answered(w) : Commit(w, Response(n), "human")
    BY <1>12 DEF HandleResponse
  <2>2. Working(w)
    BY <1>12 DEF HandleResponse, Working
  <2>3. Applies(Response(n), copy[w].st)
    BY DEF Applies, Handles, Response, Trigger, Why, Sound, Answered, HumanNodes, ResultTypes
  <2> QED
    BY <1>9, <2>1, <2>2, <2>3
<1>13. ASSUME NEW w \in Workers, Perform(w) \/ PerformFails(w)
       PROVE  Quiet
  <2>1. copy[w] \in Held /\ copy[w] # NoRun
    BY <1>13, CopyType DEF Perform, PerformFails, Working
  <2>2. UNCHANGED log /\ (SaveCheckpoint(w) \/ UNCHANGED <<ckpt, copy>>)
    BY <1>13 DEF Perform, PerformFails
  <2>3. CASE SaveCheckpoint(w) /\ SavesCheckpoint(w)
    <3>1. /\ copy'[w].seq = copy[w].seq /\ copy'[w].st = copy[w].st
          /\ copy'[w] = [copy[w] EXCEPT !.saved = copy[w].seq]
          /\ \A v \in Workers \ {w} : copy'[v] = copy[v]
      BY <2>1, <2>3 DEF SaveCheckpoint, TypeOK, Held
    <3>2. copy'[w] # NoRun
      BY <1>13, <2>2, SaveCheckpointType DEF Perform, PerformFails, Working
    <3>3. ckpt' = ckpt \/ ckpt' = [seq |-> copy[w].seq, st |-> copy[w].st]
      BY <2>3 DEF SaveCheckpoint
    <3> QED
      BY <2>1, <2>2, <3>1, <3>2, <3>3 DEF SameCopy
  <2>4. CASE UNCHANGED <<ckpt, copy>>
    BY <2>2, <2>4
  <2> QED
    BY <2>2, <2>3, <2>4 DEF SaveCheckpoint
<1> HIDE DEF Quiet
<1> QED
  BY <1>1, <1>2, <1>3, <1>4, <1>5, <1>6, <1>7, <1>8, <1>10, <1>11, <1>12, <1>13
     DEF Next, Handle

\* a commit takes the log's state to the step's.
LEMMA CommitsToLog ==
  ASSUME TypeOK, MemoryIsReplay, NEW w \in Workers, NEW why \in Why, NEW b \in State,
         Commits(w, why, b)
  PROVE  /\ copy[w].st = LogState /\ LogState' = b
         /\ copy[w].seq = Len(log) /\ Len(log') = Len(log) + 1
         /\ \A seq \in Nat, s \in State : OnLog(seq, s) => OnLog(seq, s)'
<1>1. copy[w] \in Held /\ copy[w].st = LogState /\ copy[w].seq = Len(log)
  BY CopyType, FencedIsLogState DEF Commits, Fenced
<1>2. EntryOf(why, LogState, b) \in Entry
  BY LogStateType, EntryType
<1>3. log' = Append(log, EntryOf(why, LogState, b))
  BY <1>1 DEF Commits
<1>4. Reduce(LogState, EntryOf(why, LogState, b)) = b
  BY LogStateType, ReduceEntry
<1> QED
  BY <1>1, <1>2, <1>3, <1>4, LogGrows

\* either kind of commit appends the events from the copy to some state.
LEMMA StepsCommit ==
  ASSUME TypeOK, NEW w \in Workers, Steps(w)
  PROVE  \E why \in Why, b \in State : Commits(w, why, b)
<1>1. "lease_taken" \in Why
  BY DEF Why
<1>2. Commits(w, "lease_taken", copy[w].st) => copy[w].st \in State
  BY CopyType DEF Commits, Held
<1> QED
  BY <1>1, <1>2 DEF Steps, Applies, Handles

\* every action keeps the copies and the checkpoint on the log.
LEMMA NextMemory ==
  ASSUME TypeOK, TypeOK', MemoryIsReplay, [Next]_vars
  PROVE  MemoryIsReplay'
<1>1. CASE Quiet
  <2>1. log' = log /\ LogState' = LogState
    BY <1>1 DEF Quiet, LogState
  <2>2. OnLog(ckpt'.seq, ckpt'.st)
    BY <1>1, MemoryOnLog DEF Quiet
  <2>3. ASSUME NEW w \in Workers, copy'[w] # NoRun
        PROVE  OnLog(copy'[w].seq, copy'[w].st)
    <3>1. CASE copy'[w].seq = Len(log) /\ copy'[w].st = Recover(ckpt, log)
      <4>1. Recover(ckpt, log) = LogState
        BY DEF MemoryIsReplay, Recover
      <4> QED
        BY <3>1, <4>1, LogStateOnLog, LogStateType DEF TypeOK
    <3>2. CASE copy'[w] = copy[w] \/ SameCopy(copy[w], copy'[w])
      BY <2>3, <3>2, MemoryOnLog DEF SameCopy
    <3> QED
      BY <1>1, <2>3, <3>1, <3>2 DEF Quiet
  <2> QED
    BY <2>1, <2>2, <2>3 DEF MemoryIsReplay, OnLog
<1>2. ASSUME NEW w \in Workers, Steps(w)
      PROVE  MemoryIsReplay'
  <2>1. PICK why \in Why, b \in State : Commits(w, why, b)
    BY <1>2, StepsCommit
  <2>2. /\ LogState' = b /\ copy[w].seq = Len(log) /\ Len(log') = Len(log) + 1
        /\ \A seq \in Nat, s \in State : OnLog(seq, s) => OnLog(seq, s)'
    BY <2>1, CommitsToLog
  <2>3. OnLog(ckpt.seq, ckpt.st)'
    <3>1. ckpt' = ckpt /\ ckpt.seq \in Nat /\ ckpt.st \in State
      BY <2>1 DEF Commits, TypeOK
    <3>2. OnLog(ckpt.seq, ckpt.st)
      BY MemoryOnLog
    <3> QED
      BY <2>2, <3>1, <3>2 DEF OnLog
  <2>4. ASSUME NEW v \in Workers, copy[v] # NoRun, copy'[v] = copy[v]
        PROVE  OnLog(copy[v].seq, copy[v].st)'
    <3>1. copy[v].seq \in Nat /\ copy[v].st \in State
      BY <2>4 DEF TypeOK
    <3>2. OnLog(copy[v].seq, copy[v].st)
      BY <2>4, MemoryOnLog
    <3> QED
      BY <2>2, <2>4, <3>1, <3>2 DEF OnLog
  <2>5. ASSUME copy'[w].seq = copy[w].seq + 1, copy'[w].st = b
        PROVE  OnLog(copy[w].seq, copy[w].st)'
    <3>1. log' \in Seq(Entry) /\ LogState' \in State
      BY <2>2 DEF TypeOK
    <3>2. OnLog(Len(log), LogState)'
      BY <3>1, TailOfAll, ReplayEmpty, LenProperties DEF OnLog
    <3> QED
      BY <2>2, <2>5, <3>2 DEF OnLog
  <2> QED
    BY <2>1, <2>3, <2>4, <2>5, MemoryOnLog DEF Commits, MemoryIsReplay, OnLog
<1> QED
  BY <1>1, <1>2, NextShape

\* nothing is held and the checkpoint is of the empty log.
LEMMA InitMemory ==
  ASSUME Init
  PROVE  MemoryIsReplay
<1>1. log = <<>> /\ ckpt = [seq |-> 0, st |-> InitialState] /\ \A w \in Workers : copy[w] = NoRun
  BY DEF Init, NoCopy
<1>2. <<>> \in Seq(Entry) /\ Len(<<>>) = 0
  BY EmptySeq
<1>3. TailFrom(<<>>, 0) = <<>>
  BY <1>2, TailOfAll
<1> QED
  BY <1>1, <1>2, <1>3 DEF MemoryIsReplay, LogState

\* A worker's copy and the checkpoint are the reduction of the log up to their sequence
\* numbers, whatever workers crash, stall and write late.
THEOREM MemoryCorrect == Spec => []MemoryIsReplay
<1>1. Init => MemoryIsReplay
  BY InitMemory
<1>2. TypeOK /\ TypeOK' /\ MemoryIsReplay /\ [Next]_vars => MemoryIsReplay'
  BY NextMemory
<1> QED
  BY <1>1, <1>2, TypeCorrect, PTL DEF Spec

-----------------------------------------------------------------------------
(***************************************************************************)
(* The log is one sequential machine's.                                    *)
(***************************************************************************)
\* The operators of the machine's instance are those of this module.
LEMMA SameSets ==
  /\ Machine!NodeRun = NodeRun
  /\ Machine!TimerId = TimerId
  /\ Machine!Active = Active
  /\ Machine!Resolved = Resolved
  /\ Machine!Terminal = Terminal
BY DEF NodeRun, Machine!NodeRun, TimerId, Machine!TimerId, Active, Machine!Active,
       Resolved, Machine!Resolved, Terminal, Machine!Terminal

\* the handlers of the instance are those of this module.
LEMMA SameHandlers ==
  ASSUME NEW a, NEW id, NEW x
  PROVE  /\ Machine!OnStart(a) = OnStart(a)
         /\ Machine!OnNodeResult(a, id, x) = OnNodeResult(a, id, x)
         /\ Machine!OnNodeTimer(a, id) = OnNodeTimer(a, id)
         /\ Machine!OnHumanResponse(a, id) = OnHumanResponse(a, id)
         /\ Machine!OnRecovered(a, id) = OnRecovered(a, id)
         /\ Machine!End(a, x) = End(a, x)
BY SameSets
   DEF RunOf, Machine!RunOf, SameRun, Machine!SameRun, Ask, Machine!Ask, Reexecute,
       Machine!Reexecute, Current, Machine!Current, StatusOf, Machine!StatusOf, SetNode,
       Machine!SetNode, Resume, Machine!Resume, MayRetry, Machine!MayRetry,
       FailTask, Machine!FailTask, NextAttempt, Machine!NextAttempt,
       CancelActive, Machine!CancelActive, OnStart, Machine!OnStart,
       OnNodeResult, Machine!OnNodeResult, OnNodeTimer, Machine!OnNodeTimer,
       OnHumanResponse, Machine!OnHumanResponse, OnRecovered,
       Machine!OnRecovered, End, Machine!End

\* process() of the instance is that of this module.
LEMMA SameProcess ==
  ASSUME NEW a, NEW x
  PROVE  Machine!Process(a, x) = Process(a, x)
BY SameSets, SameHandlers
   DEF Fires, Machine!Fires, Ready, Machine!Ready, Failed, Machine!Failed,
       Starting, Machine!Starting, RunOf, Machine!RunOf, TimersOf, Machine!TimersOf,
       StartNodes, Machine!StartNodes, AnyActive, Machine!AnyActive, AnyRunning, Machine!AnyRunning, Settle,
       Machine!Settle, Process, Machine!Process

\* step() of the instance is that of this module.
LEMMA SameStep ==
  ASSUME NEW a, NEW t, NEW x
  PROVE  Machine!Step(a, t, x) = Step(a, t, x)
BY SameSets, SameHandlers, SameProcess
   DEF OnTrigger, Machine!OnTrigger, Step, Machine!Step

\* a trigger that changes nothing before process() does what any other such one does.
LEMMA SameTrigger ==
  ASSUME NEW a, NEW t, NEW u, NEW lt, OnTrigger(a, t) = OnTrigger(a, u)
  PROVE  Step(a, t, lt) = Step(a, u, lt)
BY DEF Step

\* a commit of a scheduler step is a step of the machine.
LEMMA StepIsMachines ==
  ASSUME NEW t, NEW lt \in BOOLEAN, LogState \in State, Applies(t, LogState),
         LogState' = Step(LogState, t, lt)
  PROVE  Machine!MachineNext
<1> DEFINE a == LogState
<1>1. ASSUME NEW u, OnTrigger(a, t) = OnTrigger(a, u)
      PROVE  Machine!Advance(u)
  BY <1>1, SameTrigger, SameStep DEF Machine!Advance
<1>2. OnTrigger(a, t) = a => Machine!Look
  <2> SUFFICES ASSUME OnTrigger(a, t) = a PROVE Machine!Look
    OBVIOUS
  <2>1. OnTrigger(a, Machine!T("resume", Deadline, "ok")) = a
    BY DEF OnTrigger, Machine!T
  <2> QED
    BY <1>1, <2>1 DEF Machine!Look
<1>3. CASE t.type = "start"
  <2>1. OnTrigger(a, Machine!T("start", Deadline, "ok")) = OnTrigger(a, t)
    BY <1>3 DEF OnTrigger, Machine!T
  <2> QED
    BY <1>1, <2>1 DEF Machine!StartRun, Machine!MachineNext
<1>4. CASE t.type = "node_result"
  <2>1. CASE Current(a, t.id) /\ StatusOf(a, t.id) = "running"
    <3> DEFINE r == RunOf(a, t.id[1])
    <3>1. r \in Machine!RunningRuns /\ Current(a, r) /\ r[1] = t.id[1]
      <4>1. t.id[1] \in Nodes /\ a.nodes[t.id[1]].status = "running"
        BY <2>1 DEF Current, StatusOf, NodeRun
      <4>2. r \in NodeRun
        BY <4>1 DEF RunOf, NodeRun, State, NodeState
      <4> QED
        BY <4>1, <4>2 DEF Current, RunOf, SameRun, Machine!RunningRuns, Machine!RunOf
    <3>2. OnTrigger(a, Machine!T("node_result", r, t.result)) = OnTrigger(a, t)
      <4> HIDE DEF r
      <4>1. StatusOf(a, r) = StatusOf(a, t.id)
        BY <3>1 DEF StatusOf
      <4> QED
        BY <1>4, <2>1, <3>1, <4>1 DEF OnTrigger, OnNodeResult, Machine!T
    <3>3. t.result \in Machine!ResultTypes
      BY DEF Applies, ResultTypes, Machine!ResultTypes
    <3> QED
      BY <1>1, <3>1, <3>2, <3>3 DEF Machine!Result, Machine!MachineNext
  <2>2. CASE ~(Current(a, t.id) /\ StatusOf(a, t.id) = "running")
    <3>1. OnTrigger(a, t) = a
      BY <1>4, <2>2 DEF OnTrigger, OnNodeResult
    <3> QED
      BY <1>2, <3>1 DEF Machine!MachineNext
  <2> QED
    BY <2>1, <2>2
<1>5. CASE t.type = "timer"
  <2>1. CASE t.id \in a.timers \cup {Deadline}
    <3>1. OnTrigger(a, Machine!T("timer", t.id, "ok")) = OnTrigger(a, t)
      BY <1>5 DEF OnTrigger, Machine!T
    <3> QED
      BY <1>1, <2>1, <3>1 DEF Machine!FireTimer, Machine!MachineNext
  <2>2. CASE t.id \notin a.timers \cup {Deadline}
    <3>1. OnTrigger(a, t) = a
      BY <1>5, <2>2 DEF OnTrigger, OnNodeTimer
    <3> QED
      BY <1>2, <3>1 DEF Machine!MachineNext
  <2> QED
    BY <2>1, <2>2
<1>6. CASE t.type = "human_response"
  <2>1. t.id \in Nodes
    BY <1>6 DEF Applies, Handles, Sound
  <2>2. CASE Kind[t.id] # "wait" /\ a.nodes[t.id].status = "waiting"
    <3>1. t.id \in Machine!Asking
      BY <2>1, <2>2 DEF Machine!Asking
    <3>2. OnTrigger(a, Machine!T("human_response", t.id, "ok")) = OnTrigger(a, t)
      BY <1>6 DEF OnTrigger, Machine!T
    <3> QED
      BY <1>1, <3>1, <3>2 DEF Machine!Answer, Machine!MachineNext
  <2>3. CASE ~(Kind[t.id] # "wait" /\ a.nodes[t.id].status = "waiting")
    <3>1. OnTrigger(a, t) = a
      BY <1>6, <2>1, <2>3, PlanAssumption DEF OnTrigger, OnHumanResponse
    <3> QED
      BY <1>2, <3>1 DEF Machine!MachineNext
  <2> QED
    BY <2>2, <2>3
<1>7. CASE t.type = "recovered"
  <2>1. t.id \in SUBSET Machine!RunningRuns
    BY <1>7 DEF Applies, RunningIn, Machine!RunningRuns, RunOf, Machine!RunOf
  <2>2. OnTrigger(a, Machine!T("recovered", t.id, "ok")) = OnTrigger(a, t)
    BY <1>7 DEF OnTrigger, Machine!T
  <2> QED
    BY <1>1, <2>1, <2>2 DEF Machine!Recover_, Machine!MachineNext
<1>8. CASE t.type = "cancel"
  <2>1. OnTrigger(a, Machine!T("cancel", Deadline, "ok")) = OnTrigger(a, t)
    BY <1>8 DEF OnTrigger, Machine!T
  <2> QED
    BY <1>1, <2>1 DEF Machine!Cancel, Machine!MachineNext
<1>9. CASE t.type \in {"resume", "lease_taken"}
  <2>1. OnTrigger(a, t) = a
    BY <1>9 DEF OnTrigger
  <2> QED
    BY <1>2, <2>1 DEF Machine!MachineNext
<1> QED
  BY <1>3, <1>4, <1>5, <1>6, <1>7, <1>8, <1>9 DEF Applies, Handles, Why

\* The log only ever tells of one sequential machine: however workers crash, stall and
\* take the run over, each commit is a scheduler step from the state the log is in.
THEOREM LogIsSequential == Spec => Sequential
<1>1. Init => Machine!MachineInit
  <2>1. Machine!InitialState = InitialState
    BY DEF Machine!InitialState, InitialState
  <2> QED
    BY <2>1, ReplayEmpty, InitialStateType DEF Init, LogState, Machine!MachineInit
<1>2. TypeOK /\ MemoryIsReplay /\ [Next]_vars => [Machine!MachineNext]_LogState
  <2> SUFFICES ASSUME TypeOK, MemoryIsReplay, [Next]_vars
               PROVE  Machine!MachineNext \/ LogState' = LogState
    OBVIOUS
  <2>1. CASE Quiet
    BY <2>1 DEF Quiet, LogState
  <2>2. ASSUME NEW w \in Workers, Commits(w, "lease_taken", copy[w].st)
        PROVE  LogState' = LogState
    <3>1. copy[w].st \in State
      BY <2>2, CopyType DEF Commits, Held
    <3> QED
      BY <2>2, <3>1, CommitsToLog DEF Why
  <2>3. ASSUME NEW w \in Workers, NEW t, NEW b \in State, NEW lt \in BOOLEAN,
               Applies(t, copy[w].st), b = Step(copy[w].st, t, lt), Commits(w, t.type, b)
        PROVE  Machine!MachineNext
    <3>1. copy[w].st = LogState /\ LogState' = b
      BY <2>3, CommitsToLog DEF Applies, Handles
    <3> QED
      BY <2>3, <3>1, LogStateType, StepIsMachines
  <2> QED
    BY <2>1, <2>2, <2>3, NextShape DEF Steps
<1> QED
  BY <1>1, <1>2, TypeCorrect, MemoryCorrect, PTL DEF Spec, Sequential, Machine!MachineSpec

-----------------------------------------------------------------------------
(***************************************************************************)
(* The end of a run.  TerminalIsLast is not inductive: what keeps the log  *)
(* closed is that a run that has ended is leased to nobody, so no fence    *)
(* lets an append through.                                                 *)
(***************************************************************************)
EndedIsUnleased == DbStatus \in Terminal => lease.owner = None

\* the projected status of the run is the log's.
LEMMA DbStatusIsLog ==
  ASSUME TypeOK
  PROVE  DbStatus = LogState.run
BY DEF DbStatus, LogState, Replay, InitialState

\* Who may lease the run after a step that appends nothing.
LeaseKept ==
  /\ log' = log
  /\ \/ lease'.owner \in {lease.owner, None}
     \/ lease.owner \in Workers
     \/ DbStatus \notin Terminal

\* A step that appends an entry went through a fence; the entry that ends the run
\* releases it.
LeaseEnds ==
  \E w \in Workers, e \in Entry :
    /\ Working(w) /\ Fenced(w)
    /\ log' = Append(log, e)
    /\ e.run \in Terminal => lease'.owner = None \/ e.run = copy[w].st.run

\* an append goes through the fence, and the one that ends the run unleases it.
LEMMA CommitLease ==
  ASSUME TypeOK, NEW w \in Workers, NEW t, Handles(t), NEW next,
         Working(w), Commit(w, t, next)
  PROVE  LeaseKept \/ LeaseEnds
<1>1. PICK past \in {FALSE, late} :
        LET a == copy[w].st
            b == Step(a, t, past /\ a.run # "queued")
        IN IF b = a
           THEN /\ Goto(w, next)
                /\ UNCHANGED <<log, lease, armed, marked, tasks, jobs,
                               copy, held, active, queue, todo, faults>>
           ELSE \/ Append_(w, a, b, t, next)
                \/ Refused(w)
                \/ Broken(w, a, b, t)
  BY DEF Commit
<1> DEFINE a == copy[w].st
           b == Step(a, t, past /\ a.run # "queued")
<1>2. a \in State
  BY CopyType DEF Held
<1>3. b \in State
  <2>1. PICK lt \in BOOLEAN : b = Step(a, t, lt)
    BY Zenon
  <2> QED
    BY <1>2, <2>1, StepType DEF Handles
<1> HIDE DEF b, a
<1>4. \/ UNCHANGED <<log, lease>>
      \/ /\ Fenced(w)
         /\ log' = Append(log, EntryOf(t.type, a, b))
         /\ Project(a, b, t)
  BY <1>1 DEF Append_, Refused, Broken, a, b
<1>5. CASE UNCHANGED <<log, lease>>
  BY <1>5 DEF LeaseKept
<1>6. CASE /\ Fenced(w)
           /\ log' = Append(log, EntryOf(t.type, a, b))
           /\ Project(a, b, t)
  <2>1. EntryOf(t.type, a, b) \in Entry
    BY <1>2, <1>3, EntryType DEF Handles
  <2>2. EntryOf(t.type, a, b).run = b.run
    BY DEF EntryOf
  <2>3. b.run \in Terminal => lease'.owner = None
    BY <1>6 DEF Project
  <2> QED
    BY <1>6, <2>1, <2>2, <2>3 DEF LeaseEnds
<1> QED
  BY <1>4, <1>5, <1>6

\* whatever a handler steps is a trigger of the scheduler.
LEMMA HandlersCommit ==
  ASSUME TypeOK, NEW w \in Workers, RecoverLost(w) \/ RunTrigger(w) \/ HandleResponse(w)
  PROVE  \E t, next : Handles(t) /\ Commit(w, t, next)
<1>1. CASE RecoverLost(w)
  <2>1. Handles(Recovered(Lost(w)))
    BY DEF Handles, Recovered, Trigger, Why, Sound
  <2> QED
    BY <1>1, <2>1 DEF RecoverLost
<1>2. CASE RunTrigger(w)
  <2>1. queue[w] # <<>>
    BY <1>2 DEF RunTrigger, NothingLost, TypeOK
  <2>2. Handles(Head(queue[w]))
    BY <2>1, HeadType DEF Handles, Triggers, JobTypes, Why, Sound
  <2> QED
    BY <1>2, <2>2 DEF RunTrigger
<1>3. CASE HandleResponse(w)
  <2>1. PICK n \in Answered(w) : Commit(w, Response(n), "human")
    BY <1>3 DEF HandleResponse
  <2>2. Handles(Response(n))
    BY DEF Handles, Response, Trigger, Why, Sound, Answered, HumanNodes
  <2> QED
    BY <2>1, <2>2
<1> QED
  BY <1>1, <1>2, <1>3

\* no other action appends, or leases a run that has ended.
LEMMA NextLease ==
  ASSUME TypeOK, [Next]_vars
  PROVE  LeaseKept \/ LeaseEnds
<1>1. CASE UNCHANGED <<log, lease>>
  BY <1>1 DEF LeaseKept
<1>2. ASSUME NEW w \in Workers,
             \/ Reap(w) \/ LoseLease(w) \/ RedeliverJob(w) \/ BeginClose(w)
             \/ \E j \in Jobs : ClaimJob(w, j)
             \/ \E t \in armed : PollTimer(w, t)
             \/ \E r \in active[w] : Finish(w, r)
             \/ TakeHeld(w) \/ TakeRead(w) \/ TakeLoad(w) \/ SkipTrigger(w) \/ FinishTrigger(w)
      PROVE  UNCHANGED <<log, lease>>
  BY <1>2 DEF Reap, LoseLease, RedeliverJob, BeginClose, ClaimJob, PollTimer, Finish,
              FinishExecution, TakeHeld, TakeRead, TakeLoad, SkipTrigger, FinishTrigger, store
<1>3. ASSUME RequestCancel \/ DeadlinePasses \/ \E n \in HumanNodes : Respond(n)
      PROVE  UNCHANGED <<log, lease>>
  BY <1>3 DEF RequestCancel, DeadlinePasses, Respond, store
<1>4. ASSUME NEW w \in Workers, Renew(w) \/ TakeAcquire(w) \/ Crash(w) \/ EndClose(w)
      PROVE  LeaseKept
  BY <1>4 DEF Renew, TakeAcquire, Leasable, Crash, EndClose, LeaseKept, TypeOK
<1>5. ASSUME LeaseLapses
      PROVE  LeaseKept
  BY <1>5 DEF LeaseLapses, LeaseKept, TypeOK
<1>6. ASSUME NEW w \in Workers, Perform(w) \/ PerformFails(w)
      PROVE  LeaseKept
  BY <1>6 DEF Perform, PerformFails, LeaseKept
<1>7. ASSUME NEW w \in Workers, TakeRecord(w)
      PROVE  LeaseKept \/ LeaseEnds
  <2>1. CASE ~Fenced(w)
    BY <1>7, <2>1 DEF TakeRecord, LeaseKept
  <2>2. CASE Fenced(w)
    <3>1. Working(w) /\ copy[w].st \in State
      BY <1>7, CopyType DEF TakeRecord, Working, Held
    <3>2. LeaseTaken(copy[w].st) \in Entry /\ LeaseTaken(copy[w].st).run = copy[w].st.run
      BY <3>1, EntryType DEF LeaseTaken, EntryOf, Why
    <3> QED
      BY <1>7, <2>2, <3>1, <3>2 DEF TakeRecord, LeaseEnds
  <2> QED
    BY <2>1, <2>2
<1>8. ASSUME NEW w \in Workers, RecoverLost(w) \/ RunTrigger(w) \/ HandleResponse(w)
      PROVE  LeaseKept \/ LeaseEnds
  <2>1. Working(w)
    BY <1>8 DEF RecoverLost, RunTrigger, HandleResponse, Working
  <2>2. PICK t, next : Handles(t) /\ Commit(w, t, next)
    BY <1>8, HandlersCommit
  <2> QED
    BY <2>1, <2>2, CommitLease
<1> QED
  BY <1>1, <1>2, <1>3, <1>4, <1>5, <1>6, <1>7, <1>8 DEF Next, Handle, Maintain, vars

\* the invariant is kept: only who leases the run may append to it, and nobody leases
\* a run that has ended.
LEMMA NextLast ==
  ASSUME TypeOK, TypeOK', MemoryIsReplay, EndedIsUnleased, TerminalIsLast, [Next]_vars
  PROVE  EndedIsUnleased' /\ TerminalIsLast'
<1>1. CASE LeaseKept
  <2>1. DbStatus' = DbStatus /\ TerminalIsLast'
    BY <1>1 DEF LeaseKept, DbStatus, TerminalIsLast
  <2>2. ASSUME DbStatus \in Terminal
        PROVE  lease'.owner = None
    BY <1>1, <2>2, OrchestratorAssumption DEF LeaseKept, EndedIsUnleased
  <2> QED
    BY <2>1, <2>2 DEF EndedIsUnleased
<1>2. CASE LeaseEnds
  <2>1. PICK w \in Workers, e \in Entry :
          /\ Working(w) /\ Fenced(w)
          /\ log' = Append(log, e)
          /\ e.run \in Terminal => lease'.owner = None \/ e.run = copy[w].st.run
    BY <1>2 DEF LeaseEnds
  <2>2. DbStatus \notin Terminal
    BY <2>1, OrchestratorAssumption DEF Fenced, EndedIsUnleased
  <2>3. copy[w].st.run \notin Terminal
    BY <2>1, <2>2, FencedIsLogState, DbStatusIsLog
  <2>4. /\ Len(log) \in Nat /\ Len(log') = Len(log) + 1
        /\ log'[Len(log) + 1] = e
        /\ \A i \in 1 .. Len(log) : log'[i] = log[i]
        /\ DOMAIN log = 1 .. Len(log) /\ DOMAIN log' = 1 .. Len(log) + 1
    BY <2>1, AppendProperties, LenProperties DEF TypeOK
  <2>5. DbStatus' = e.run
    BY <2>1, <2>4 DEF DbStatus
  <2>6. ASSUME NEW i \in DOMAIN log, log[i].run \in Terminal
        PROVE  FALSE
    <3>1. i = Len(log) /\ log # <<>>
      BY <2>6 DEF TerminalIsLast
    <3> QED
      BY <2>2, <2>6, <3>1 DEF DbStatus
  <2>7. TerminalIsLast'
    BY <2>4, <2>6 DEF TerminalIsLast
  <2> QED
    BY <2>1, <2>3, <2>5, <2>7 DEF EndedIsUnleased
<1> QED
  BY <1>1, <1>2, NextLease

\* Both, as invariants of the system.
LEMMA EndIsKept == Spec => [](EndedIsUnleased /\ TerminalIsLast)
<1>1. Init => EndedIsUnleased /\ TerminalIsLast
  BY DEF Init, EndedIsUnleased, TerminalIsLast, DbStatus, Terminal
<1>2. TypeOK /\ TypeOK' /\ MemoryIsReplay /\ EndedIsUnleased /\ TerminalIsLast /\ [Next]_vars
        => EndedIsUnleased' /\ TerminalIsLast'
  BY NextLast
<1> QED
  BY <1>1, <1>2, TypeCorrect, MemoryCorrect, PTL DEF Spec

\* A run's terminal event is its last, whoever took the run over: the run that has
\* ended is leased to nobody, and only the owner of the lease passes the fence.
THEOREM EndIsLast == Spec => []TerminalIsLast
<1> QED
  BY EndIsKept, PTL

-----------------------------------------------------------------------------
(***************************************************************************)
(* What every scheduler step keeps, the log keeps.                         *)
(***************************************************************************)
\* a step of the system leaves the state the log tells of, or takes it one scheduler
\* step further.
LEMMA LogSteps ==
  ASSUME TypeOK, MemoryIsReplay, [Next]_vars
  PROVE  \/ LogState' = LogState
         \/ \E t, lt : Sound(t) /\ lt \in BOOLEAN /\ LogState' = Step(LogState, t, lt)
<1>1. CASE Quiet
  BY <1>1 DEF Quiet, LogState
<1>2. ASSUME NEW w \in Workers, Commits(w, "lease_taken", copy[w].st)
      PROVE  LogState' = LogState
  <2>1. copy[w].st \in State
    BY <1>2, CopyType DEF Commits, Held
  <2> QED
    BY <1>2, <2>1, CommitsToLog DEF Why
<1>3. ASSUME NEW w \in Workers, NEW t, NEW b \in State, NEW lt \in BOOLEAN,
             Applies(t, copy[w].st), b = Step(copy[w].st, t, lt), Commits(w, t.type, b)
      PROVE  Sound(t) /\ LogState' = Step(LogState, t, lt)
  BY <1>3, CommitsToLog DEF Applies, Handles
<1> QED
  BY <1>1, <1>2, <1>3, NextShape DEF Steps

\* The invariant of the scheduler holds of the log: only tasks run, what waits has an
\* open timer or waits for a person without a time limit, and every commit ends settled.
LogInvariant == Tidy(LogState) /\ Timed(LogState) /\ SettledState(LogState)

\* every action keeps the scheduler's invariant of the log.
LEMMA LogKeeps ==
  ASSUME TypeOK, TypeOK', MemoryIsReplay, LogInvariant, [Next]_vars
  PROVE  LogInvariant'
<1>1. LogState \in State
  BY LogStateType
<1>2. ASSUME NEW s, s = LogState', Tidy(s), Timed(s), SettledState(s)
      PROVE  LogInvariant'
  BY <1>2 DEF LogInvariant, Tidy, TidyNode, Timed, Timeless, RunOf, SettledState, Waiting,
              Failed, Ready, Fires, AnyActive, AnyRunning
<1>3. ASSUME NEW t, NEW lt \in BOOLEAN, Sound(t)
      PROVE  LET s == Step(LogState, t, lt)
             IN  Tidy(s) /\ Timed(s) /\ SettledState(s)
  BY <1>1, <1>3, StepTidy, StepTimed, StepSettled DEF LogInvariant
<1>4. CASE LogState' = LogState
  BY <1>4 DEF LogInvariant, Tidy, TidyNode, Timed, Timeless, RunOf, SettledState, Waiting,
              Failed, Ready, Fires, AnyActive, AnyRunning
<1>5. ASSUME NEW t, NEW lt \in BOOLEAN, Sound(t), LogState' = Step(LogState, t, lt)
      PROVE  LogInvariant'
  <2> DEFINE s == Step(LogState, t, lt)
  <2>1. Tidy(s) /\ Timed(s) /\ SettledState(s)
    BY <1>3, <1>5
  <2> HIDE DEF s
  <2>2. s = LogState'
    BY <1>5 DEF s
  <2> QED
    BY <1>2, <2>1, <2>2
<1> QED
  BY <1>4, <1>5, LogSteps

\* The scheduler's invariant of the log, as an invariant of the system.
LEMMA LogIsKept == Spec => []LogInvariant
<1>1. Init => LogInvariant
  <2>1. Init => LogState = InitialState
    BY ReplayEmpty, InitialStateType DEF Init, LogState
  <2> QED
    BY <2>1, InitialTidy, InitialSettled DEF LogInvariant
<1>2. TypeOK /\ TypeOK' /\ MemoryIsReplay /\ LogInvariant /\ [Next]_vars => LogInvariant'
  BY LogKeeps
<1> QED
  BY <1>1, <1>2, TypeCorrect, MemoryCorrect, PTL DEF Spec

\* Whatever workers crash, stall or take the run over: after every commit each node
\* that waits has an open timer, so nobody has to remember that it waits, or has asked a
\* person without a time limit; what is not safe to repeat is at its first attempt, or
\* at one its policy allows all the same; and the run is parked, going on or over
\* exactly as its nodes are.
THEOREM LogIsSettled ==
  Spec => [](/\ Machine!WaitersHaveTimers
             /\ Machine!NoneKeepsItsPolicy
             /\ Machine!Settled)
<1>1. LogInvariant => /\ Machine!WaitersHaveTimers
                      /\ Machine!NoneKeepsItsPolicy
                      /\ Machine!Settled
  <2>1. LogInvariant => Machine!WaitersHaveTimers /\ Machine!NoneKeepsItsPolicy
    BY DEF LogInvariant, Tidy, TidyNode, Timed, Timeless, Waiting, RunOf, Machine!RunOf,
           Machine!Asking, Machine!WaitersHaveTimers, Machine!NoneKeepsItsPolicy
  <2>2. /\ Machine!Failed(LogState) = Failed(LogState)
        /\ Machine!Ready(LogState) = Ready(LogState)
        /\ Machine!AnyActive(LogState) = AnyActive(LogState)
        /\ Machine!AnyRunning(LogState) = AnyRunning(LogState)
    BY SameSets
       DEF Failed, Machine!Failed, Ready, Machine!Ready, Fires, Machine!Fires,
           AnyActive, Machine!AnyActive, AnyRunning, Machine!AnyRunning
  <2> QED
    BY <2>1, <2>2, SameSets DEF LogInvariant, SettledState, Machine!Settled
<1> QED
  BY <1>1, LogIsKept, PTL

-----------------------------------------------------------------------------
(***************************************************************************)
(* The attempts.  AttemptsAreBounded is not inductive by itself: that a    *)
(* timer may start the next attempt rests on the retry having been granted *)
(* within the policy when the node went to wait (RetryGranted), and an     *)
(* attempt beyond the policy on the entry that records the recovery.       *)
(***************************************************************************)
\* The entries of a log that restart a node whose worker was lost.
RecoveriesIn(es, n) == {i \in DOMAIN es : es[i].why = "recovered" /\ es[i].nodes[n] # Same}

\* the recoveries of a log are counted.
LEMMA RecoveriesCounted ==
  ASSUME NEW es \in Seq(Entry), NEW n \in Nodes
  PROVE  /\ IsFiniteSet(RecoveriesIn(es, n))
         /\ Cardinality(RecoveriesIn(es, n)) \in Nat
<1>1. Len(es) \in Nat /\ DOMAIN es = 1 .. Len(es)
  BY LenProperties
<1>2. IsFiniteSet(DOMAIN es)
  BY <1>1, FS_Interval
<1>3. RecoveriesIn(es, n) \subseteq DOMAIN es
  BY DEF RecoveriesIn
<1> QED
  BY <1>2, <1>3, FS_Subset, FS_CardinalityType

\* one more entry counts one more recovery, if it is one and names the node.
LEMMA RecoveriesGrow ==
  ASSUME NEW es \in Seq(Entry), NEW e \in Entry, NEW n \in Nodes,
         NEW c, c = Cardinality(RecoveriesIn(es, n)),
         NEW d, d = Cardinality(RecoveriesIn(Append(es, e), n))
  PROVE  /\ c \in Nat /\ d \in Nat
         /\ d = IF e.why = "recovered" /\ e.nodes[n] # Same THEN c + 1 ELSE c
<1> DEFINE k == Len(es) + 1
           fs == Append(es, e)
<1>1. /\ Len(es) \in Nat /\ DOMAIN es = 1 .. Len(es)
      /\ DOMAIN fs = 1 .. k
      /\ fs[k] = e /\ \A i \in 1 .. Len(es) : fs[i] = es[i]
      /\ fs \in Seq(Entry)
  BY LenProperties, AppendProperties
<1>2. k \notin DOMAIN es /\ DOMAIN fs = DOMAIN es \cup {k}
  BY <1>1
<1> HIDE DEF fs, k
<1>3. CASE e.why = "recovered" /\ e.nodes[n] # Same
  <2>1. RecoveriesIn(fs, n) = RecoveriesIn(es, n) \cup {k}
    BY <1>1, <1>2, <1>3 DEF RecoveriesIn
  <2>2. k \notin RecoveriesIn(es, n)
    BY <1>2 DEF RecoveriesIn
  <2>3. IsFiniteSet(RecoveriesIn(es, n)) /\ c \in Nat
    BY RecoveriesCounted
  <2>4. d = c + 1
    BY <2>1, <2>2, <2>3, FS_AddElement DEF fs
  <2> QED
    BY <1>3, <2>3, <2>4
<1>4. CASE ~(e.why = "recovered" /\ e.nodes[n] # Same)
  <2>1. RecoveriesIn(fs, n) = RecoveriesIn(es, n)
    BY <1>1, <1>2, <1>4 DEF RecoveriesIn
  <2> QED
    BY <1>4, <2>1, RecoveriesCounted DEF fs
<1> QED
  BY <1>3, <1>4

\* The recoveries the log records pay for the attempts beyond the policy.
Paid(s, es) ==
  \A n \in Nodes : s.nodes[n].att <= MaxAttempts[n] + Cardinality(RecoveriesIn(es, n))

AttemptsKept == Paid(LogState, log) /\ RetryGranted(LogState)

\* a scheduler step takes an attempt within the policy, or its entry pays for it.
LEMMA StepPaid ==
  ASSUME NEW a \in State, NEW b \in State, NEW why \in Why, NEW es \in Seq(Entry),
         Paid(a, es), Attempts(a, b, why = "recovered")
  PROVE  Paid(b, Append(es, EntryOf(why, a, b)))
<1> SUFFICES ASSUME NEW n \in Nodes,
                    NEW c, c = Cardinality(RecoveriesIn(es, n)),
                    NEW d, d = Cardinality(RecoveriesIn(Append(es, EntryOf(why, a, b)), n))
             PROVE  b.nodes[n].att <= MaxAttempts[n] + d
  BY DEF Paid
<1> DEFINE e == EntryOf(why, a, b)
<1>1. /\ a.nodes[n] \in NodeState /\ a.nodes[n].att \in Nat
      /\ b.nodes[n] \in NodeState /\ b.nodes[n].att \in Nat
      /\ MaxAttempts[n] \in Nat
  BY PlanAssumption DEF State, NodeState
<1>2. e \in Entry
  BY EntryType
<1>3. /\ c \in Nat /\ d \in Nat
      /\ d = IF e.why = "recovered" /\ e.nodes[n] # Same THEN c + 1 ELSE c
  BY <1>2, RecoveriesGrow
<1>4. e.why = why /\ (b.nodes[n] # a.nodes[n] => e.nodes[n] # Same)
  BY <1>1, SameAssumption DEF EntryOf
<1> HIDE DEF e
<1>5. a.nodes[n].att <= MaxAttempts[n] + c
  BY DEF Paid
<1>6. CASE b.nodes[n].att = a.nodes[n].att
  BY <1>1, <1>3, <1>5, <1>6
<1>7. CASE b.nodes[n].att <= MaxAttempts[n]
  BY <1>1, <1>3, <1>7
<1>8. CASE b.nodes[n].att = a.nodes[n].att + 1 /\ why = "recovered"
  <2>1. b.nodes[n] # a.nodes[n]
    BY <1>1, <1>8
  <2>2. d = c + 1
    BY <1>3, <1>4, <1>8, <2>1
  <2> QED
    BY <1>1, <1>3, <1>5, <1>8, <2>2
<1> QED
  BY <1>6, <1>7, <1>8 DEF Attempts

\* every action keeps the attempts paid for.
LEMMA NextAttempts ==
  ASSUME TypeOK, MemoryIsReplay, AttemptsKept, [Next]_vars
  PROVE  AttemptsKept'
<1>1. LogState \in State /\ log \in Seq(Entry)
  BY LogStateType DEF TypeOK
<1>2. ASSUME NEW s \in State, NEW es \in Seq(Entry), LogState' = s, log' = es,
             Paid(s, es), RetryGranted(s)
      PROVE  AttemptsKept'
  BY <1>2 DEF AttemptsKept, Paid, RetryGranted
<1>3. CASE Quiet
  BY <1>1, <1>2, <1>3 DEF Quiet, LogState, AttemptsKept
<1>4. ASSUME NEW w \in Workers, NEW why \in Why, NEW b \in State, Commits(w, why, b),
             RetryGranted(b), Attempts(LogState, b, why = "recovered")
      PROVE  AttemptsKept'
  <2>1. copy[w].st = LogState /\ LogState' = b
    BY <1>4, CommitsToLog
  <2>2. log' = Append(log, EntryOf(why, LogState, b))
    BY <1>4, <2>1 DEF Commits
  <2>3. Append(log, EntryOf(why, LogState, b)) \in Seq(Entry)
    BY <1>1, EntryType, AppendProperties
  <2>4. Paid(b, Append(log, EntryOf(why, LogState, b)))
    BY <1>1, <1>4, StepPaid DEF AttemptsKept
  <2> QED
    BY <1>2, <1>4, <2>1, <2>2, <2>3, <2>4
<1>5. ASSUME NEW w \in Workers, Commits(w, "lease_taken", copy[w].st)
      PROVE  AttemptsKept'
  <2>1. copy[w].st = LogState
    BY <1>5, FencedIsLogState DEF Commits
  <2>2. Attempts(LogState, LogState, FALSE) /\ "lease_taken" \in Why
    BY DEF Attempts, Why
  <2> QED
    BY <1>1, <1>4, <1>5, <2>1, <2>2 DEF AttemptsKept
<1>6. ASSUME NEW w \in Workers, NEW t, NEW b \in State, NEW lt \in BOOLEAN,
             Applies(t, copy[w].st), b = Step(copy[w].st, t, lt), Commits(w, t.type, b)
      PROVE  AttemptsKept'
  <2>1. copy[w].st = LogState
    BY <1>6, FencedIsLogState DEF Commits
  <2>2. RetryGranted(b) /\ Attempts(LogState, b, t.type = "recovered")
    BY <1>1, <1>6, <2>1, StepAttempts DEF AttemptsKept, Applies, Handles
  <2> QED
    BY <1>4, <1>6, <2>2 DEF Applies, Handles
<1> QED
  BY <1>3, <1>5, <1>6, NextShape DEF Steps

\* A node is tried at most maxAttempts times and once more for each time the worker that
\* executed it was lost, whoever grants the retry, fires its timer or finds the loss.
THEOREM AttemptsBounded == Spec => []AttemptsAreBounded
<1>1. Init => AttemptsKept
  <2> SUFFICES ASSUME Init PROVE AttemptsKept
    OBVIOUS
  <2>1. LogState = InitialState /\ log \in Seq(Entry)
    BY ReplayEmpty, InitialStateType DEF Init, LogState
  <2>2. \A n \in Nodes : /\ InitialState.nodes[n].att = 1
                         /\ InitialState.nodes[n].status = "idle"
    BY DEF InitialState
  <2>3. \A n \in Nodes : MaxAttempts[n] \in Nat \ {0}
    BY PlanAssumption
  <2> QED
    BY <2>1, <2>2, <2>3, RecoveriesCounted DEF AttemptsKept, Paid, RetryGranted
<1>2. TypeOK /\ MemoryIsReplay /\ AttemptsKept /\ [Next]_vars => AttemptsKept'
  BY NextAttempts
<1>3. AttemptsKept => AttemptsAreBounded
  BY DEF AttemptsKept, Paid, AttemptsAreBounded, Recoveries, RecoveriesIn
<1> QED
  BY <1>1, <1>2, <1>3, TypeCorrect, MemoryCorrect, PTL DEF Spec

-----------------------------------------------------------------------------
(***************************************************************************)
(* Executions.  Each turn of a node run starts in exactly one entry of the *)
(* log: once a node is past a turn it stays past it, and a step starts     *)
(* only what the log's state is not past.  Its execution then goes through *)
(* one worker's effects to `ran`, and never back.                          *)
(***************************************************************************)
\* the node has begun turn j of attempt k of its life, or left it behind.
Past(x, k, j) ==
  k < x.att \/ (k = x.att /\ (j < x.turn \/ (j = x.turn /\ x.status # "idle")))

\* a move leaves behind what was left behind.
LEMMA MovePast ==
  ASSUME NEW n \in Nodes, NEW x \in NodeState, NEW y \in NodeState, Move(n, x, y),
         NEW k \in Nat, NEW j \in Nat, Past(x, k, j)
  PROVE  Past(y, k, j)
<1>1. x.att \in Nat /\ y.att \in Nat /\ x.turn \in Nat /\ y.turn \in Nat
  BY DEF NodeState
<1>2. CASE y.att = x.att /\ y.turn = x.turn
  <2>1. y.status = "idle" => x.status = "idle"
    BY <1>1, <1>2 DEF Move, Resolved
  <2> QED
    BY <1>2, <2>1 DEF Past
<1>3. CASE y.att = x.att /\ y.turn # x.turn
  <2>1. y.turn = x.turn + 1
    BY <1>1, <1>3 DEF Move
  <2> QED
    BY <1>1, <1>3, <2>1 DEF Past
<1>4. CASE y.att # x.att
  <2>1. y.att = x.att + 1
    BY <1>1, <1>4 DEF Move
  <2> QED
    BY <1>1, <2>1 DEF Past
<1> QED
  BY <1>2, <1>3, <1>4

\* what a move starts was not left behind.
LEMMA MoveStarts ==
  ASSUME NEW n \in Nodes, NEW x \in NodeState, NEW y \in NodeState, Move(n, x, y),
         y.status = "running", y # x
  PROVE  ~Past(x, y.att, y.turn)
<1>1. x.att \in Nat /\ x.turn \in Nat
  BY DEF NodeState
<1>2. \/ x.status = "idle" /\ y.att = x.att /\ y.turn = x.turn
      \/ y.att = x.att /\ y.turn = x.turn + 1
  BY DEF Move, Resolved
<1> QED
  BY <1>1, <1>2 DEF Past

\* what is past stays past, and only what is not is started.
LEMMA StepAdvances ==
  ASSUME NEW a \in State, NEW t, Sound(t), NEW lt \in BOOLEAN,
         NEW b, b = Step(a, t, lt)
  PROVE  /\ \A n \in Nodes, k \in Nat, j \in Nat :
              Past(a.nodes[n], k, j) => Past(b.nodes[n], k, j)
         /\ \A r \in Started(a, b) : ~Past(a.nodes[r[1]], r[2], r[3])
<1>1. CASE a.run \in Terminal
  <2>1. b = a /\ \A n \in Nodes : a.nodes[n].turn \in Nat
    BY <1>1, NodeFields DEF Step
  <2> QED
    BY <2>1 DEF Started
<1>2. CASE a.run \notin Terminal
  <2>1. PICK s \in State : Moves(a, s) /\ Moves(s, b) /\ b \in State
    BY <1>2, StepMoves
  <2>2. ASSUME NEW n \in Nodes, NEW k \in Nat, NEW j \in Nat, Past(a.nodes[n], k, j)
        PROVE  Past(s.nodes[n], k, j) /\ Past(b.nodes[n], k, j)
    <3>1. Past(s.nodes[n], k, j)
      BY <2>1, <2>2, MovePast, NodeFields DEF Moves
    <3> QED
      BY <2>1, <3>1, MovePast, NodeFields DEF Moves
  <2>3. ASSUME NEW r \in Started(a, b)
        PROVE  ~Past(a.nodes[r[1]], r[2], r[3])
    <3>1. PICK n \in Nodes :
            /\ r = RunOf(b, n)
            /\ \/ b.nodes[n].status = "running" /\ b.nodes[n] # a.nodes[n]
               \/ b.nodes[n].att = a.nodes[n].att /\ b.nodes[n].turn > a.nodes[n].turn
      BY DEF Started
    <3> DEFINE x == a.nodes[n]
               y == s.nodes[n]
               z == b.nodes[n]
    <3>2. /\ r[1] = n /\ r[2] = z.att /\ r[3] = z.turn
          /\ z.att \in Nat /\ z.turn \in Nat /\ x.att \in Nat /\ x.turn \in Nat
          /\ x \in NodeState /\ y \in NodeState /\ z \in NodeState
          /\ Move(n, x, y) /\ Move(n, y, z)
      BY <2>1, <3>1, NodeFields DEF RunOf, Moves
    <3>3. Past(x, z.att, z.turn) => Past(y, z.att, z.turn)
      BY <2>2, <3>2
    <3> HIDE DEF x, y, z
    <3>4. CASE z.att = x.att /\ z.turn > x.turn
      BY <3>2, <3>4 DEF Past, x
    <3>5. CASE z.status = "running" /\ z # x
      <4>1. CASE z = y
        BY <3>2, <3>5, <4>1, MoveStarts DEF x
      <4>2. CASE z # y
        BY <3>2, <3>3, <3>5, <4>2, MoveStarts DEF x
      <4> QED
        BY <4>1, <4>2
    <3> QED
      BY <3>1, <3>4, <3>5 DEF x, z
  <2> QED
    BY <2>2, <2>3
<1> QED
  BY <1>1, <1>2

\* What an action does to the effects that wait and to what was executed: nothing new,
\* the effects of a commit, or their performance.
EffectsKept ==
  /\ ran' = ran
  /\ \A w \in Workers : todo'[w].exec = todo[w].exec \/ todo'[w].exec = {}
EffectsMade(w) ==
  /\ ran' = ran
  /\ \A v \in Workers \ {w} : todo'[v] = todo[v]
  /\ \E t, lt, b : /\ Handles(t) /\ lt \in BOOLEAN /\ b \in State
                   /\ b = Step(copy[w].st, t, lt)
                   /\ Commits(w, t.type, b)
                   /\ todo'[w].exec = Started(copy[w].st, b)
EffectsDone(w) ==
  /\ log' = log
  /\ ran \subseteq ran' /\ ran' \subseteq ran \cup todo[w].exec
  /\ todo'[w].exec = {}
  /\ \A v \in Workers \ {w} : todo'[v] = todo[v]

\* Executions begin only when the effects that contain them are performed.
NoneStarts == \A w \in Workers : active'[w] \subseteq active[w] \cup todo[w].exec

\* a commit makes its effects, or none.
LEMMA CommitEffects ==
  ASSUME TypeOK, NEW w \in Workers, NEW t, Handles(t), NEW next,
         Working(w), Commit(w, t, next)
  PROVE  NoneStarts /\ (EffectsKept \/ EffectsMade(w))
<1>1. PICK past \in {FALSE, late} :
        LET a == copy[w].st
            b == Step(a, t, past /\ a.run # "queued")
        IN IF b = a
           THEN /\ Goto(w, next)
                /\ UNCHANGED <<log, lease, armed, marked, tasks, jobs,
                               copy, held, active, queue, todo, faults>>
           ELSE \/ Append_(w, a, b, t, next)
                \/ Refused(w)
                \/ Broken(w, a, b, t)
  BY DEF Commit
<1>2. UNCHANGED <<ckpt, ran>>
  BY DEF Commit
<1> DEFINE a == copy[w].st
           b == Step(a, t, past /\ a.run # "queued")
<1>3. a \in State /\ copy \in [Workers -> Held \cup {NoRun}]
  BY CopyType DEF Held, TypeOK
<1>4. PICK lt \in BOOLEAN : b = Step(a, t, lt)
  BY Zenon
<1>5. b \in State
  BY <1>3, <1>4, StepType DEF Handles
<1>6. /\ active \in [Workers -> SUBSET NodeRun] /\ todo \in [Workers -> Effects]
  BY DEF TypeOK
<1> HIDE DEF b
<1>7. CASE Append_(w, a, b, t, next)
  <2>1. Commits(w, t.type, b)
    BY <1>2, <1>3, <1>7 DEF Append_, Commits
  <2>2. /\ todo'[w] = EffectsOf(a, b, t, next) /\ active' = active
        /\ \A v \in Workers \ {w} : todo'[v] = todo[v]
    BY <1>6, <1>7 DEF Append_
  <2>3. todo'[w].exec = Started(a, b)
    BY <2>2 DEF EffectsOf
  <2>4. NoneStarts
    BY <2>2 DEF NoneStarts
  <2> QED
    BY <1>2, <1>4, <1>5, <2>1, <2>2, <2>3, <2>4 DEF EffectsMade
<1>8. CASE UNCHANGED todo /\ (UNCHANGED active \/ Drop(w))
  BY <1>2, <1>6, <1>8 DEF EffectsKept, NoneStarts, Drop
<1>10. CASE UNCHANGED todo /\ active' = [active EXCEPT ![w] = Caught(w)]
  BY <1>2, <1>6, <1>10 DEF EffectsKept, NoneStarts, Caught
<1>9. \/ UNCHANGED todo /\ (UNCHANGED active \/ Drop(w))
      \/ UNCHANGED todo /\ active' = [active EXCEPT ![w] = Caught(w)]
      \/ Append_(w, a, b, t, next)
  BY <1>1 DEF Refused, Broken, b
<1> QED
  BY <1>7, <1>8, <1>9, <1>10

\* every action, by what it does to the effects and the executions.
LEMMA NextEffects ==
  ASSUME TypeOK, [Next]_vars
  PROVE  NoneStarts /\ (EffectsKept \/ \E w \in Workers : EffectsMade(w) \/ EffectsDone(w))
<1>1. active \in [Workers -> SUBSET NodeRun] /\ todo \in [Workers -> Effects]
  BY DEF TypeOK
<1>2. CASE UNCHANGED <<todo, ran, active>>
  BY <1>2 DEF EffectsKept, NoneStarts
<1>3. ASSUME NEW w \in Workers,
             \/ Reap(w) \/ Renew(w) \/ RedeliverJob(w)
             \/ \E j \in Jobs : ClaimJob(w, j)
             \/ \E t \in armed : PollTimer(w, t)
             \/ TakeHeld(w) \/ TakeRead(w) \/ TakeAcquire(w) \/ TakeLoad(w) \/ TakeRecord(w)
             \/ SkipTrigger(w) \/ FinishTrigger(w)
      PROVE  UNCHANGED <<todo, ran, active>>
  BY <1>3 DEF Reap, Renew, RedeliverJob, ClaimJob, PollTimer, TakeHeld, TakeRead, TakeAcquire,
              TakeLoad, TakeRecord, SkipTrigger, FinishTrigger, workers
<1>4. ASSUME RequestCancel \/ DeadlinePasses \/ LeaseLapses \/ \E n \in HumanNodes : Respond(n)
      PROVE  UNCHANGED <<todo, ran, active>>
  BY <1>4 DEF RequestCancel, DeadlinePasses, LeaseLapses, Respond, workers
<1>5. ASSUME NEW w \in Workers, LoseLease(w) \/ BeginClose(w) \/ \E r \in active[w] : Finish(w, r)
      PROVE  NoneStarts /\ EffectsKept
  BY <1>1, <1>5 DEF LoseLease, Drop, BeginClose, Finish, FinishExecution, NoneStarts, EffectsKept
<1>6. NoEffects.exec = {}
  BY DEF NoEffects
<1>7. ASSUME NEW w \in Workers, todo' = [todo EXCEPT ![w] = NoEffects]
      PROVE  todo'[w].exec = {} /\ \A v \in Workers \ {w} : todo'[v] = todo[v]
  BY <1>1, <1>6, <1>7
<1>8. ASSUME NEW w \in Workers, Crash(w) \/ EndClose(w)
      PROVE  NoneStarts /\ EffectsKept
  <2>1. ran' = ran /\ todo' = [todo EXCEPT ![w] = NoEffects]
    BY <1>8 DEF Crash, EndClose, Forget
  <2>2. NoneStarts
    BY <1>1, <1>8 DEF Crash, EndClose, Forget, NoneStarts
  <2> QED
    BY <1>7, <2>1, <2>2 DEF EffectsKept
<1>11. ASSUME NEW w \in Workers, PerformFails(w)
       PROVE  NoneStarts /\ EffectsDone(w)
  <2>1. log' = log /\ todo' = [todo EXCEPT ![w] = NoEffects]
    BY <1>11 DEF PerformFails
  <2>2. PICK begun \in SUBSET Begun(w) :
          ran' = ran \cup begun /\ active'[w] \subseteq active[w] \cup begun
    <3>1. Caught(w) \subseteq active[w]
      BY DEF Caught
    <3>2. CASE active' = [active EXCEPT ![w] = Caught(w)] /\ UNCHANGED ran
      <4>1. ran' = ran \cup {} /\ active'[w] \subseteq active[w] \cup {}
        BY <1>1, <3>1, <3>2
      <4> QED
        BY <4>1
    <3>3. ASSUME NEW begun \in SUBSET (Begun(w) \cap todo[w].abort),
                 NEW aborted \in SUBSET todo[w].abort,
                 active' = [active EXCEPT ![w] = Without(Caught(w) \cup begun, aborted)],
                 ran' = ran \cup begun
          PROVE  \E started \in SUBSET Begun(w) :
                   ran' = ran \cup started /\ active'[w] \subseteq active[w] \cup started
      BY <1>1, <3>1, <3>3 DEF Without
    <3>4. CASE active' = [active EXCEPT ![w] = {}] /\ UNCHANGED ran
      BY <1>1, <3>4
    <3> QED
      BY <1>11, <3>2, <3>3, <3>4, Zenon DEF PerformFails
  <2>3. \A v \in Workers \ {w} : active'[v] = active[v]
    BY <1>1, <1>11 DEF PerformFails
  <2>4. Begun(w) \subseteq todo[w].exec
    BY DEF Begun
  <2> QED
    BY <1>7, <2>1, <2>2, <2>3, <2>4 DEF NoneStarts, EffectsDone
<1>9. ASSUME NEW w \in Workers, Perform(w)
      PROVE  NoneStarts /\ EffectsDone(w)
  <2>1. /\ log' = log /\ ran' = ran \cup Begun(w)
        /\ todo' = [todo EXCEPT ![w] = NoEffects]
        /\ active' = [active EXCEPT ![w] = Executing(w)]
    BY <1>9 DEF Perform
  <2>2. Begun(w) \subseteq todo[w].exec
    BY DEF Begun
  <2>3. NoneStarts
    BY <1>1, <2>1, <2>2 DEF NoneStarts, Executing, Without
  <2> QED
    BY <1>7, <2>1, <2>2, <2>3 DEF EffectsDone
<1>10. ASSUME NEW w \in Workers, RecoverLost(w) \/ RunTrigger(w) \/ HandleResponse(w)
       PROVE  NoneStarts /\ (EffectsKept \/ EffectsMade(w))
  <2>1. Working(w)
    BY <1>10 DEF RecoverLost, RunTrigger, HandleResponse, Working
  <2>2. PICK t, next : Handles(t) /\ Commit(w, t, next)
    BY <1>10, HandlersCommit
  <2> QED
    BY <2>1, <2>2, CommitEffects
<1> QED
  BY <1>2, <1>3, <1>4, <1>5, <1>8, <1>9, <1>10, <1>11 DEF Next, Handle, Maintain, vars

\* the log keeps its entries; an action adds at most one.
LEMMA LogExtends ==
  ASSUME TypeOK, [Next]_vars
  PROVE  log' = log \/ \E e \in Entry : log' = Append(log, e)
<1>1. ASSUME NEW w \in Workers, Steps(w)
      PROVE  \E e \in Entry : log' = Append(log, e)
  <2>1. PICK why \in Why, b \in State : Commits(w, why, b)
    BY <1>1, StepsCommit
  <2>2. copy[w].st \in State
    BY <2>1, CopyType DEF Commits, Held
  <2> QED
    BY <2>1, <2>2, EntryType DEF Commits
<1> QED
  BY <1>1, NextShape DEF Quiet

IsRecorded(r) ==
  \E i \in DOMAIN log : StartsIn(i, r) /\ (r[3] > 0 => log[i].why = "human_response")

\* What the log started is past, and of the first attempt if it must not be repeated.
StartsArePast ==
  \A i \in DOMAIN log, r \in NodeRun : StartsIn(i, r) =>
    /\ Past(LogState.nodes[r[1]], r[2], r[3])
    /\ Idempotency[r[1]] = "none" /\ ~AllowOnIrreversible[r[1]] => r[2] = 1

\* What waits to be executed or was executed is recorded, and in one place only.
ExecutionsAreOne ==
  /\ \A r \in ran : IsRecorded(r)
  /\ \A w \in Workers : \A r \in todo[w].exec : IsRecorded(r) /\ r \notin ran
  /\ \A v, w \in Workers : v # w => todo[v].exec \cap todo[w].exec = {}

\* what a commit does to the node runs the log has started.
LEMMA CommitStarts ==
  ASSUME TypeOK, TypeOK', MemoryIsReplay, StartsArePast, Tidy(LogState)',
         NEW w \in Workers, NEW why \in Why, NEW b \in State, Commits(w, why, b),
         \A n \in Nodes, k \in Nat, j \in Nat :
           Past(LogState.nodes[n], k, j) => Past(b.nodes[n], k, j),
         \A r \in Started(LogState, b) :
           ~Past(LogState.nodes[r[1]], r[2], r[3]) /\ (r[3] > 0 => why = "human_response")
  PROVE  /\ StartsArePast'
         /\ \A r \in Started(LogState, b) : IsRecorded(r)' /\ ~IsRecorded(r) /\ r \in NodeRun
<1> DEFINE a == LogState
           e == EntryOf(why, a, b)
<1>1. copy[w].st = a /\ LogState' = b /\ log' = Append(log, e)
  BY CommitsToLog DEF Commits
<1>2. a \in State /\ log \in Seq(Entry)
  BY LogStateType DEF TypeOK
<1>a. PICK k \in Nat : k = Len(log) + 1
  BY <1>2
<1>3. /\ DOMAIN log' = DOMAIN log \cup {k} /\ k \in DOMAIN log'
      /\ log'[k] = e
      /\ \A i \in DOMAIN log : log'[i] = log[i]
  BY <1>1, <1>2, <1>a
<1>4. e.started = Started(a, b) /\ e.why = why
  BY DEF EntryOf
<1> HIDE DEF e, a
<1>5. ASSUME NEW r \in Started(a, b)
      PROVE  /\ r \in NodeRun /\ Past(b.nodes[r[1]], r[2], r[3])
             /\ Idempotency[r[1]] = "none" /\ ~AllowOnIrreversible[r[1]] => r[2] = 1
  <2>1. PICK n \in Nodes :
          /\ r = RunOf(b, n)
          /\ \/ b.nodes[n].status = "running" /\ b.nodes[n] # a.nodes[n]
             \/ b.nodes[n].att = a.nodes[n].att /\ b.nodes[n].turn > a.nodes[n].turn
    BY DEF Started
  <2>2. /\ b.nodes[n].att \in Nat /\ b.nodes[n].turn \in Nat /\ a.nodes[n].turn \in Nat
        /\ TidyNode(n, b.nodes[n])
    BY <1>1, <1>2, NodeFields DEF Tidy
  <2>3. r \in NodeRun /\ r[1] = n /\ r[2] = b.nodes[n].att /\ r[3] = b.nodes[n].turn
    BY <2>1, <2>2 DEF RunOf, NodeRun
  <2>4. b.nodes[n].status # "idle"
    BY <2>1, <2>2 DEF TidyNode
  <2>5. Idempotency[n] = "none" /\ ~AllowOnIrreversible[n] => b.nodes[n].att = 1
    BY <2>2 DEF TidyNode
  <2> QED
    BY <2>3, <2>4, <2>5 DEF Past
<1>6. ASSUME NEW i \in DOMAIN log', NEW r \in NodeRun, StartsIn(i, r)'
      PROVE  /\ Past(b.nodes[r[1]], r[2], r[3])
             /\ Idempotency[r[1]] = "none" /\ ~AllowOnIrreversible[r[1]] => r[2] = 1
  <2>1. r[1] \in Nodes /\ r[2] \in Nat /\ r[3] \in Nat
    BY DEF NodeRun
  <2>2. CASE i \in DOMAIN log
    <3>1. StartsIn(i, r)
      BY <1>3, <1>6, <2>2 DEF StartsIn
    <3> QED
      BY <2>1, <2>2, <3>1 DEF StartsArePast
  <2>3. CASE i = k
    BY <1>3, <1>4, <1>5, <1>6, <2>3 DEF StartsIn
  <2> QED
    BY <1>3, <2>2, <2>3
<1>7. StartsArePast'
  BY <1>1, <1>6 DEF StartsArePast
<1>8. ASSUME NEW r \in Started(a, b)
      PROVE  IsRecorded(r)' /\ ~IsRecorded(r) /\ r \in NodeRun
  <2>1. r \in NodeRun
    BY <1>5
  <2>2. StartsIn(k, r)' /\ (r[3] > 0 => log'[k].why = "human_response")
    BY <1>3, <1>4 DEF StartsIn, a
  <2>3. IsRecorded(r)'
    BY <1>3, <2>2 DEF IsRecorded
  <2>4. ~IsRecorded(r)
    BY <2>1 DEF IsRecorded, StartsArePast, a
  <2> QED
    BY <2>1, <2>3, <2>4
<1> QED
  BY <1>7, <1>8 DEF a

\* a step of the system leaves what is recorded and what is past as they are; what a
\* handler's commit starts was not recorded before.
LEMMA CommitsAdvance ==
  ASSUME TypeOK, TypeOK', MemoryIsReplay, StartsArePast, Tidy(LogState), Tidy(LogState)',
         NEW w \in Workers, NEW t, Handles(t), NEW lt \in BOOLEAN, NEW b \in State,
         b = Step(copy[w].st, t, lt), Commits(w, t.type, b)
  PROVE  /\ StartsArePast'
         /\ copy[w].st = LogState
         /\ \A r \in Started(LogState, b) : IsRecorded(r)' /\ ~IsRecorded(r) /\ r \in NodeRun
<1>1. t.type \in Why /\ Sound(t)
  BY DEF Handles
<1>2. copy[w].st = LogState
  BY <1>1, CommitsToLog
<1>3. LogState \in State /\ b = Step(LogState, t, lt)
  BY <1>2, LogStateType
<1>4. /\ \A n \in Nodes, k \in Nat, j \in Nat :
           Past(LogState.nodes[n], k, j) => Past(b.nodes[n], k, j)
      /\ \A r \in Started(LogState, b) : ~Past(LogState.nodes[r[1]], r[2], r[3])
  BY <1>1, <1>3, StepAdvances
<1>5. \A r \in Started(LogState, b) : r[3] > 0 => t.type = "human_response"
  BY <1>1, <1>3, OnlyAnswersResume
<1> QED
  BY <1>1, <1>2, <1>4, <1>5, CommitStarts

\* every action keeps what the log started past.
LEMMA NextStarts ==
  ASSUME TypeOK, TypeOK', MemoryIsReplay, StartsArePast, Tidy(LogState), Tidy(LogState)',
         [Next]_vars
  PROVE  StartsArePast'
<1>1. CASE Quiet
  BY <1>1 DEF Quiet, StartsArePast, StartsIn, LogState
<1>2. ASSUME NEW w \in Workers, Commits(w, "lease_taken", copy[w].st)
      PROVE  StartsArePast'
  <2>1. copy[w].st \in State /\ "lease_taken" \in Why
    BY <1>2, CopyType DEF Commits, Held, Why
  <2>2. copy[w].st = LogState /\ LogState \in State
    BY <1>2, <2>1, CommitsToLog
  <2>3. Started(LogState, LogState) = {}
    BY <2>2, NodeFields DEF Started
  <2> QED
    BY <1>2, <2>1, <2>2, <2>3, CommitStarts
<1>3. ASSUME NEW w \in Workers, NEW t, NEW b \in State, NEW lt \in BOOLEAN,
             Applies(t, copy[w].st), b = Step(copy[w].st, t, lt), Commits(w, t.type, b)
      PROVE  StartsArePast'
  BY <1>3, CommitsAdvance DEF Applies
<1> QED
  BY <1>1, <1>2, <1>3, NextShape DEF Steps

\* what the log recorded stays recorded.
LEMMA StillRecorded ==
  ASSUME TypeOK, [Next]_vars, NEW r, IsRecorded(r)
  PROVE  IsRecorded(r)'
<1>1. CASE log' = log
  BY <1>1 DEF IsRecorded, StartsIn
<1>2. ASSUME NEW e \in Entry, log' = Append(log, e)
      PROVE  IsRecorded(r)'
  <2>1. PICK i \in DOMAIN log :
          StartsIn(i, r) /\ (r[3] > 0 => log[i].why = "human_response")
    BY DEF IsRecorded
  <2>2. log \in Seq(Entry)
    BY DEF TypeOK
  <2>3. i \in DOMAIN log' /\ log'[i] = log[i]
    BY <1>2, <2>1, <2>2
  <2>4. StartsIn(i, r)'
    BY <2>1, <2>3 DEF StartsIn
  <2> QED
    BY <2>1, <2>3, <2>4 DEF IsRecorded
<1> QED
  BY <1>1, <1>2, LogExtends

\* every action keeps each node run in one place: to be executed, or executed.
LEMMA NextExecutions ==
  ASSUME TypeOK, TypeOK', MemoryIsReplay, StartsArePast, Tidy(LogState), Tidy(LogState)',
         ExecutionsAreOne, [Next]_vars
  PROVE  ExecutionsAreOne'
<1>1. \A r : IsRecorded(r) => IsRecorded(r)'
  BY StillRecorded
<1>2. CASE EffectsKept
  BY <1>1, <1>2 DEF EffectsKept, ExecutionsAreOne
<1>3. ASSUME NEW w \in Workers, EffectsDone(w)
      PROVE  ExecutionsAreOne'
  BY <1>1, <1>3 DEF EffectsDone, ExecutionsAreOne
<1>4. ASSUME NEW w \in Workers, EffectsMade(w)
      PROVE  ExecutionsAreOne'
  <2>1. PICK t, lt, b : /\ Handles(t) /\ lt \in BOOLEAN /\ b \in State
                        /\ b = Step(copy[w].st, t, lt)
                        /\ Commits(w, t.type, b)
                        /\ todo'[w].exec = Started(copy[w].st, b)
    BY <1>4 DEF EffectsMade
  <2>2. \A r \in todo'[w].exec : IsRecorded(r)' /\ ~IsRecorded(r)
    BY <2>1, CommitsAdvance
  <2> QED
    BY <1>1, <1>4, <2>2 DEF EffectsMade, ExecutionsAreOne
<1> QED
  BY <1>2, <1>3, <1>4, NextEffects

ExecInvariant == StartsArePast /\ ExecutionsAreOne

\* every action keeps the invariant.
LEMMA ExecutionsKeep ==
  ASSUME TypeOK, TypeOK', MemoryIsReplay, LogInvariant, LogInvariant', ExecInvariant,
         [Next]_vars
  PROVE  ExecInvariant'
<1>1. Tidy(LogState) /\ Tidy(LogState)'
  BY DEF LogInvariant
<1>2. StartsArePast'
  BY <1>1, NextStarts DEF ExecInvariant
<1>3. ExecutionsAreOne'
  BY <1>1, NextExecutions DEF ExecInvariant
<1> QED
  BY <1>2, <1>3 DEF ExecInvariant

\* Executions stay in one place, as an invariant of the system.
LEMMA ExecutionsAreKept == Spec => []ExecInvariant
<1>1. Init => ExecInvariant
  BY DEF Init, NoEffects, ExecInvariant, StartsArePast, ExecutionsAreOne
<1>2. TypeOK /\ TypeOK' /\ MemoryIsReplay /\ LogInvariant /\ LogInvariant'
        /\ ExecInvariant /\ [Next]_vars => ExecInvariant'
  BY ExecutionsKeep
<1> QED
  BY <1>1, <1>2, LogIsKept, TypeCorrect, MemoryCorrect, PTL DEF Spec

\* A node run is executed at most once, and once more for each answer it is given,
\* wherever workers crash, stall or are taken over between a commit, its execution and
\* its result: each turn starts in one entry of the log, goes from one worker's effects
\* to its execution, and never back.
THEOREM OnceOnly == Spec => ExecutedOnce
<1>1. TypeOK /\ ExecInvariant /\ [Next]_vars
        => [\A w \in Workers : (active'[w] \ active[w]) \cap ran = {}]_vars
  <2> SUFFICES ASSUME TypeOK, ExecInvariant, [Next]_vars, NEW w \in Workers
               PROVE  (active'[w] \ active[w]) \cap ran = {}
    OBVIOUS
  <2>1. active'[w] \subseteq active[w] \cup todo[w].exec
    BY NextEffects DEF NoneStarts
  <2>2. todo[w].exec \cap ran = {}
    BY DEF ExecInvariant, ExecutionsAreOne
  <2> QED
    BY <2>1, <2>2
<1> QED
  BY <1>1, TypeCorrect, ExecutionsAreKept, PTL DEF Spec, ExecutedOnce

\* What was executed is in the log, every execution of a node run after its first by the
\* commit of an answer; and a node that is not safe to repeat, and whose policy does not
\* allow it, was executed in one node run only, retries and takeovers included.
THEOREM ExecutionsSound == Spec => []ExecutionsAreSound
<1>1. TypeOK /\ ExecInvariant => ExecutionsAreSound
  <2> SUFFICES ASSUME TypeOK, ExecInvariant PROVE ExecutionsAreSound
    OBVIOUS
  <2>1. ExecutedIsRecorded
    BY DEF ExecInvariant, ExecutionsAreOne, ExecutedIsRecorded, IsRecorded
  <2>2. ASSUME NEW r \in ran, Idempotency[r[1]] = "none", ~AllowOnIrreversible[r[1]]
        PROVE  r[2] = 1
    <3>1. r \in NodeRun /\ IsRecorded(r)
      BY DEF ExecInvariant, ExecutionsAreOne, TypeOK
    <3> QED
      BY <2>2, <3>1 DEF ExecInvariant, StartsArePast, IsRecorded
  <2>3. NeverRepeated
    BY <2>2 DEF NeverRepeated, SameRun
  <2> QED
    BY <2>1, <2>3 DEF ExecutionsAreSound
<1> QED
  BY <1>1, TypeCorrect, ExecutionsAreKept, PTL DEF Spec

-----------------------------------------------------------------------------
(***************************************************************************)
(* The rows the API reads.  The projections of a commit and the answer of  *)
(* a person are all that changes a task; each keeps it in step with the    *)
(* node that waits for it.                                                 *)
(***************************************************************************)
TasksMatch ==
  \A n \in HumanNodes :
    /\ tasks[n] = "open" => LogState.nodes[n].status = "waiting"
    /\ LogState.nodes[n].status = "waiting" => tasks[n] \in {"open", "responded"}
    /\ Kind[n] = "human" /\ LogState.nodes[n].status = "idle" => tasks[n] = "none"

\* What an action does to the tasks: an answer without a commit, a commit of no step
\* without them, or the projection of a step in the commit that records it.
TasksAnswered ==
  /\ log' = log
  /\ \/ tasks' = tasks
     \/ \E n \in HumanNodes : Respond(n)
TasksProjected(w) ==
  \E t, lt, b : /\ Handles(t) /\ lt \in BOOLEAN /\ b \in State
                /\ b = Step(copy[w].st, t, lt)
                /\ Commits(w, t.type, b)
                /\ tasks' = [n \in HumanNodes |-> TaskRow(n, copy[w].st, b, t)]
TasksShape ==
  \/ TasksAnswered
  \/ \E w \in Workers : \/ Commits(w, "lease_taken", copy[w].st) /\ tasks' = tasks
                        \/ TasksProjected(w)

\* a commit projects the tasks with the entry it appends, or touches neither.
LEMMA CommitTasks ==
  ASSUME TypeOK, NEW w \in Workers, NEW t, Handles(t), NEW next,
         Working(w), Commit(w, t, next)
  PROVE  TasksAnswered \/ TasksProjected(w)
<1>1. PICK past \in {FALSE, late} :
        LET a == copy[w].st
            b == Step(a, t, past /\ a.run # "queued")
        IN IF b = a
           THEN /\ Goto(w, next)
                /\ UNCHANGED <<log, lease, armed, marked, tasks, jobs,
                               copy, held, active, queue, todo, faults>>
           ELSE \/ Append_(w, a, b, t, next)
                \/ Refused(w)
                \/ Broken(w, a, b, t)
  BY DEF Commit
<1>2. UNCHANGED ckpt
  BY DEF Commit
<1> DEFINE a == copy[w].st
           b == Step(a, t, past /\ a.run # "queued")
<1>3. a \in State /\ copy \in [Workers -> Held \cup {NoRun}]
  BY CopyType DEF Held, TypeOK
<1>4. PICK lt \in BOOLEAN : b = Step(a, t, lt)
  BY Zenon
<1>5. b \in State
  BY <1>3, <1>4, StepType DEF Handles
<1> HIDE DEF b
<1>6. CASE UNCHANGED <<log, tasks>>
  BY <1>6 DEF TasksAnswered
<1>7. CASE /\ Fenced(w)
           /\ log' = Append(log, EntryOf(t.type, a, b))
           /\ Project(a, b, t)
           /\ copy' = copy \/ copy' = [copy EXCEPT ![w] = [seq |-> copy[w].seq + 1, st |-> b,
                                                           saved |-> copy[w].saved]]
  <2>1. Commits(w, t.type, b)
    BY <1>2, <1>3, <1>7 DEF Commits
  <2>2. tasks' = [n \in HumanNodes |-> TaskRow(n, a, b, t)]
    BY <1>7 DEF Project
  <2> QED
    BY <1>4, <1>5, <2>1, <2>2 DEF TasksProjected
<1>8. \/ UNCHANGED <<log, tasks>>
      \/ /\ Fenced(w)
         /\ log' = Append(log, EntryOf(t.type, a, b))
         /\ Project(a, b, t)
         /\ copy' = copy \/ copy' = [copy EXCEPT ![w] = [seq |-> copy[w].seq + 1, st |-> b,
                                                         saved |-> copy[w].saved]]
  BY <1>1 DEF Append_, Refused, Broken, b
<1> QED
  BY <1>6, <1>7, <1>8

\* every action, by what it does to the tasks.
LEMMA NextTasks ==
  ASSUME TypeOK, [Next]_vars
  PROVE  TasksShape
<1>1. CASE UNCHANGED <<log, tasks>>
  BY <1>1 DEF TasksShape, TasksAnswered
<1>2. ASSUME NEW w \in Workers,
             \/ Reap(w) \/ Renew(w) \/ LoseLease(w) \/ RedeliverJob(w) \/ BeginClose(w)
             \/ \E j \in Jobs : ClaimJob(w, j)
             \/ \E t \in armed : PollTimer(w, t)
             \/ \E r \in active[w] : Finish(w, r)
             \/ TakeHeld(w) \/ TakeRead(w) \/ TakeAcquire(w) \/ TakeLoad(w)
             \/ SkipTrigger(w) \/ FinishTrigger(w)
      PROVE  UNCHANGED <<log, tasks>>
  BY <1>2 DEF Reap, Renew, LoseLease, RedeliverJob, BeginClose, ClaimJob, PollTimer, Finish,
              FinishExecution, TakeHeld, TakeRead, TakeAcquire, TakeLoad, SkipTrigger,
              FinishTrigger, store
<1>3. ASSUME RequestCancel \/ DeadlinePasses \/ LeaseLapses
      PROVE  UNCHANGED <<log, tasks>>
  BY <1>3 DEF RequestCancel, DeadlinePasses, LeaseLapses, store
<1>4. ASSUME NEW n \in HumanNodes, Respond(n)
      PROVE  TasksShape
  BY <1>4 DEF Respond, TasksShape, TasksAnswered
<1>5. ASSUME NEW w \in Workers, Crash(w) \/ EndClose(w) \/ Perform(w) \/ PerformFails(w)
      PROVE  UNCHANGED <<log, tasks>>
  BY <1>5 DEF Crash, EndClose, Perform, PerformFails
<1>6. ASSUME NEW w \in Workers, TakeRecord(w)
      PROVE  TasksShape
  <2>1. copy[w] \in Held /\ Working(w)
    BY <1>6, CopyType DEF TakeRecord, Working
  <2>2. CASE Fenced(w)
    <3>1. Commits(w, "lease_taken", copy[w].st)
      BY <1>6, <2>1, <2>2 DEF TakeRecord, Commits, LeaseTaken, TypeOK, Held
    <3> QED
      BY <1>6, <3>1 DEF TakeRecord, TasksShape
  <2>3. CASE ~Fenced(w)
    BY <1>6, <2>3 DEF TakeRecord, TasksShape, TasksAnswered
  <2> QED
    BY <2>2, <2>3
<1>7. ASSUME NEW w \in Workers, RecoverLost(w) \/ RunTrigger(w) \/ HandleResponse(w)
      PROVE  TasksShape
  <2>1. Working(w)
    BY <1>7 DEF RecoverLost, RunTrigger, HandleResponse, Working
  <2>2. PICK t, next : Handles(t) /\ Commit(w, t, next)
    BY <1>7, HandlersCommit
  <2> QED
    BY <2>1, <2>2, CommitTasks DEF TasksShape
<1> QED
  BY <1>1, <1>2, <1>3, <1>4, <1>5, <1>6, <1>7 DEF Next, Handle, Maintain, vars

\* a step leaves a node that waits as it is, decides or answers what it asked, or
\* cancels it.
LEMMA StepOfWaiting ==
  ASSUME NEW a \in State, NEW t, Sound(t), NEW lt \in BOOLEAN,
         NEW n \in Nodes, a.nodes[n].status = "waiting", NEW b, b = Step(a, t, lt)
  PROVE  \/ b.nodes[n] = a.nodes[n]
         \/ /\ b.nodes[n].status # "waiting"
            /\ Decided(n, a, b) \/ b.nodes[n].status = "cancelled"
<1>1. CASE a.run \in Terminal
  BY <1>1 DEF Step
<1>2. CASE a.run \notin Terminal
  <2>1. PICK s \in State : Moves(a, s) /\ b = Process(s, lt)
    BY <1>2, StepMoves
  <2>2. Move(n, a.nodes[n], s.nodes[n]) /\ a.nodes[n].turn \in Nat /\ s.nodes[n] \in NodeState
    BY <2>1, NodeFields DEF Moves
  <2>3. s.nodes[n].status # "idle"
    BY <2>2 DEF Move, Resolved
  <2>4. \/ b.nodes[n] = s.nodes[n]
        \/ b.nodes[n] = [s.nodes[n] EXCEPT !.status = "cancelled"]
    BY <2>1, <2>3, ProcessKeeps
  <2>5. CASE b.nodes[n] = s.nodes[n]
    <3>1. \/ s.nodes[n] = a.nodes[n]
          \/ s.nodes[n].status \in Resolved
          \/ s.nodes[n].status = "running" /\ s.nodes[n].turn # a.nodes[n].turn
      <4> DEFINE x == a.nodes[n]
                 y == s.nodes[n]
      <4>1. Move(n, x, y) /\ x.turn \in Nat /\ x.status = "waiting"
        BY <2>2
      <4> HIDE DEF x, y
      <4>2. y = x \/ y.status \in Resolved \/ (y.status = "running" /\ y.turn # x.turn)
        BY <4>1 DEF Move, Active
      <4> QED
        BY <4>2 DEF x, y
    <3> QED
      BY <2>5, <3>1 DEF Decided, Resolved
  <2>6. CASE b.nodes[n] = [s.nodes[n] EXCEPT !.status = "cancelled"]
    BY <2>2, <2>6 DEF NodeState
  <2> QED
    BY <2>4, <2>5, <2>6
<1> QED
  BY <1>1, <1>2

\* a human node waits once: nothing makes it idle again, or lets it run.
LEMMA StepOfHuman ==
  ASSUME NEW a \in State, Tidy(a), NEW t, Sound(t), NEW lt \in BOOLEAN,
         NEW n \in Nodes, Kind[n] = "human", NEW b, b = Step(a, t, lt)
  PROVE  /\ b.nodes[n].status = "waiting" => a.nodes[n].status \in {"idle", "waiting"}
         /\ b.nodes[n].status = "idle" => a.nodes[n].status = "idle"
<1>1. CASE a.run \in Terminal
  BY <1>1 DEF Step
<1>2. CASE a.run \notin Terminal
  <2>1. PICK s \in State : Moves(a, s) /\ Moves(s, b)
    BY <1>2, StepMoves
  <2>2. Tidy(s)
    BY <2>1, MovesTidy
  <2>3. /\ Move(n, a.nodes[n], s.nodes[n]) /\ Move(n, s.nodes[n], b.nodes[n])
        /\ a.nodes[n].status \notin {"running", "retry_wait"}
        /\ s.nodes[n].status \notin {"running", "retry_wait"}
    BY <2>1, <2>2 DEF Moves, Tidy, TidyNode
  <2> QED
    BY <2>3 DEF Move, Active, Resolved
<1> QED
  BY <1>1, <1>2

\* every action keeps the tasks in step with the log.
LEMMA NextTasksMatch ==
  ASSUME TypeOK, TypeOK', MemoryIsReplay, LogInvariant, LogInvariant', TasksMatch, [Next]_vars
  PROVE  TasksMatch'
<1>1. tasks \in [HumanNodes -> TaskStatus]
  BY DEF TypeOK
<1>2. CASE TasksAnswered
  <2>1. LogState' = LogState
    BY <1>2 DEF TasksAnswered, LogState
  <2>2. ASSUME NEW n \in HumanNodes
        PROVE  \/ tasks'[n] = tasks[n]
               \/ tasks[n] = "open" /\ tasks'[n] = "responded"
    BY <1>1, <1>2 DEF TasksAnswered, Respond
  <2> QED
    BY <2>1, <2>2 DEF TasksMatch
<1>3. ASSUME NEW w \in Workers, Commits(w, "lease_taken", copy[w].st), tasks' = tasks
      PROVE  TasksMatch'
  <2>1. copy[w].st \in State /\ "lease_taken" \in Why
    BY <1>3, CopyType DEF Commits, Held, Why
  <2>2. LogState' = LogState
    BY <1>3, <2>1, CommitsToLog
  <2> QED
    BY <1>3, <2>2 DEF TasksMatch
<1>4. ASSUME NEW w \in Workers, TasksProjected(w)
      PROVE  TasksMatch'
  <2>1. PICK t, lt, b : /\ Handles(t) /\ lt \in BOOLEAN /\ b \in State
                        /\ b = Step(copy[w].st, t, lt)
                        /\ Commits(w, t.type, b)
                        /\ tasks' = [n \in HumanNodes |-> TaskRow(n, copy[w].st, b, t)]
    BY <1>4 DEF TasksProjected
  <2>2. PICK a \in State : a = LogState
    BY LogStateType
  <2>3. copy[w].st = a /\ LogState' = b /\ Sound(t)
    BY <2>1, <2>2, CommitsToLog DEF Handles
  <2>4. Tidy(a) /\ b = Step(a, t, lt)
    BY <2>1, <2>2, <2>3 DEF LogInvariant
  <2>5. b.run \in Terminal => ~AnyActive(b)
    BY <2>3 DEF LogInvariant, SettledState, AnyActive
  <2>6. ASSUME NEW n \in HumanNodes
        PROVE  /\ tasks'[n] = "open" => b.nodes[n].status = "waiting"
               /\ b.nodes[n].status = "waiting" => tasks'[n] \in {"open", "responded"}
               /\ Kind[n] = "human" /\ b.nodes[n].status = "idle" => tasks'[n] = "none"
    <3>1. tasks'[n] = TaskRow(n, a, b, t)
      BY <2>1, <2>3
    <3>2. n \in Nodes /\ (a.nodes[n].status = "waiting" =>
            \/ b.nodes[n] = a.nodes[n]
            \/ /\ b.nodes[n].status # "waiting"
               /\ Decided(n, a, b) \/ b.nodes[n].status = "cancelled")
      BY <2>1, <2>3, <2>4, StepOfWaiting DEF HumanNodes
    <3>3. a.nodes[n].status = "waiting" /\ b.nodes[n].status = "cancelled" =>
            b.run \in Terminal \ {"completed"}
      BY <2>1, <2>3, <2>4, StepCancels DEF Cancels, HumanNodes
    <3>4. /\ tasks[n] = "open" => a.nodes[n].status = "waiting"
          /\ a.nodes[n].status = "waiting" => tasks[n] \in {"open", "responded"}
          /\ Kind[n] = "human" /\ a.nodes[n].status = "idle" => tasks[n] = "none"
      BY <2>2 DEF TasksMatch
    <3>9. Kind[n] = "human" /\ b.nodes[n].status = "idle" => a.nodes[n].status = "idle"
      BY <2>1, <2>3, <2>4, StepOfHuman DEF HumanNodes
    <3>5. b.nodes[n].status = "waiting" => b.run \notin Terminal
      BY <2>5 DEF AnyActive, Active, HumanNodes
    <3>6. CASE a.nodes[n].status # "waiting"
      BY <3>1, <3>4, <3>6, <3>9 DEF TaskRow, Decided
    <3>7. CASE a.nodes[n].status = "waiting" /\ b.nodes[n] = a.nodes[n]
      <4>1. ~Decided(n, a, b)
        BY <3>7 DEF Decided
      <4> QED
        BY <3>1, <3>4, <3>5, <3>7, <3>9, <4>1 DEF TaskRow
    <3>8. CASE /\ a.nodes[n].status = "waiting" /\ b.nodes[n].status # "waiting"
               /\ Decided(n, a, b) \/ b.nodes[n].status = "cancelled"
      BY <3>1, <3>3, <3>4, <3>8, <3>9 DEF TaskRow
    <3> QED
      BY <3>2, <3>6, <3>7, <3>8
  <2> QED
    BY <2>3, <2>6 DEF TasksMatch
<1> QED
  BY <1>2, <1>3, <1>4, NextTasks DEF TasksShape

\* As an invariant of the system.
LEMMA TasksAreMatched == Spec => []TasksMatch
<1>1. Init => TasksMatch
  <2>1. Init => LogState = InitialState
    BY ReplayEmpty, InitialStateType DEF Init, LogState
  <2> QED
    BY <2>1 DEF Init, TasksMatch, InitialState, HumanNodes
<1>2. TypeOK /\ TypeOK' /\ MemoryIsReplay /\ LogInvariant /\ LogInvariant' /\ TasksMatch
        /\ [Next]_vars => TasksMatch'
  BY NextTasksMatch
<1> QED
  BY <1>1, <1>2, TypeCorrect, MemoryCorrect, LogIsKept, PTL DEF Spec

\* The rows the API reads agree with the log whoever wrote it: an open task is a node
\* that waits, a node that waits has its task, a run that has ended is not leased.
THEOREM RowsAgree == Spec => []RowsMatchLog
<1>1. TasksMatch /\ EndedIsUnleased => RowsMatchLog
  BY DEF TasksMatch, EndedIsUnleased, RowsMatchLog
<1> QED
  BY <1>1, TasksAreMatched, EndIsKept, PTL

-----------------------------------------------------------------------------
(***************************************************************************)
(* What a worker remembers is never ahead of the log: what is over in its  *)
(* copy is over in the log.                                                *)
(***************************************************************************)
Orderly(s) == Tidy(s) /\ Timed(s) /\ SettledState(s) /\ TimersNamed(s) /\ Enabled(s)
Behind(s, l) ==
  /\ Orderly(s)
  /\ \A r \in NodeRun : Spent(s, r) => Spent(l, r)
  /\ s.run \in Terminal => l.run \in Terminal
CopiesBehind ==
  /\ Behind(LogState, LogState)
  /\ \A w \in Workers : copy[w] # NoRun => Behind(copy[w].st, LogState)

\* a step leaves behind what was behind.
LEMMA StepLeavesBehind ==
  ASSUME NEW a \in State, Orderly(a), NEW t, Sound(t), NEW lt \in BOOLEAN,
         NEW b, b = Step(a, t, lt)
  PROVE  /\ b \in State /\ Behind(b, b)
         /\ \A s : Behind(s, a) => Behind(s, b)
<1>1. b \in State /\ Orderly(b)
  BY StepType, StepTidy, StepTimed, StepSettled, StepNamed, StepEnabled DEF Orderly
<1>2. \A r \in NodeRun : Spent(a, r) => Spent(b, r)
  BY StepNamed DEF Orderly
<1>3. a.run \in Terminal => b.run \in Terminal
  BY DEF Step
<1> QED
  BY <1>1, <1>2, <1>3 DEF Behind

\* every action keeps the copies behind the log.
LEMMA NextBehind ==
  ASSUME TypeOK, TypeOK', MemoryIsReplay, CopiesBehind, [Next]_vars
  PROVE  CopiesBehind'
<1> SUFFICES ASSUME NEW l, l = LogState, NEW m, m = LogState'
             PROVE  /\ Behind(m, m)
                    /\ \A w \in Workers : copy'[w] # NoRun => Behind(copy'[w].st, m)
  BY DEF CopiesBehind
<1>0. /\ l \in State /\ Behind(l, l)
      /\ \A w \in Workers : copy[w] # NoRun => Behind(copy[w].st, l)
  BY LogStateType DEF CopiesBehind
<1>1. CASE Quiet
  <2>1. m = l
    BY <1>1 DEF Quiet, LogState
  <2>2. Recover(ckpt, log) = l
    BY DEF MemoryIsReplay, Recover
  <2>3. ASSUME NEW w \in Workers, copy'[w] # NoRun
        PROVE  copy'[w].st = l \/ (copy[w] # NoRun /\ copy'[w].st = copy[w].st)
    BY <1>1, <2>2, <2>3 DEF Quiet, SameCopy
  <2> QED
    BY <1>0, <2>1, <2>3
<1>2. ASSUME NEW w \in Workers, Commits(w, "lease_taken", copy[w].st)
      PROVE  /\ Behind(m, m)
             /\ \A v \in Workers : copy'[v] # NoRun => Behind(copy'[v].st, m)
  <2>1. copy[w].st \in State /\ copy[w] # NoRun
    BY <1>2, CopyType DEF Commits, Held
  <2>2. copy[w].st = l /\ m = l
    BY <1>2, <2>1, CommitsToLog DEF Why
  <2>3. \A v \in Workers : copy'[v] = copy[v] \/ (v = w /\ copy'[v].st = l)
    BY <1>2, <2>2 DEF Commits
  <2> QED
    BY <1>0, <2>1, <2>2, <2>3
<1>3. ASSUME NEW w \in Workers, NEW t, NEW b \in State, NEW lt \in BOOLEAN,
             Applies(t, copy[w].st), b = Step(copy[w].st, t, lt), Commits(w, t.type, b)
      PROVE  /\ Behind(m, m)
             /\ \A v \in Workers : copy'[v] # NoRun => Behind(copy'[v].st, m)
  <2>1. copy[w].st = l /\ m = b /\ Sound(t)
    BY <1>3, CommitsToLog DEF Applies, Handles
  <2>2. \A v \in Workers : copy'[v] = copy[v] \/ (v = w /\ copy'[v].st = b)
    BY <1>3 DEF Commits
  <2>3. Orderly(l)
    BY <1>0 DEF Behind
  <2>4. Behind(b, b) /\ \A s : Behind(s, l) => Behind(s, b)
    BY <1>0, <1>3, <2>1, <2>3, StepLeavesBehind
  <2> QED
    BY <1>0, <2>1, <2>2, <2>4
<1> QED
  BY <1>1, <1>2, <1>3, NextShape DEF Steps

\* the state a run is created in.
LEMMA InitBehind ==
  ASSUME Init
  PROVE  CopiesBehind
<1>1. LogState = InitialState
  BY ReplayEmpty, InitialStateType DEF Init, LogState
<1>2. TimersNamed(InitialState) /\ Enabled(InitialState)
  BY DEF TimersNamed, Enabled, InitialState
<1>3. Behind(InitialState, InitialState)
  BY <1>2, InitialTidy, InitialSettled DEF Behind, Orderly
<1> QED
  BY <1>1, <1>3 DEF Init, NoCopy, CopiesBehind

\* As an invariant of the system.
LEMMA BehindIsKept == Spec => []CopiesBehind
<1>1. Init => CopiesBehind
  BY InitBehind
<1>2. TypeOK /\ TypeOK' /\ MemoryIsReplay /\ CopiesBehind /\ [Next]_vars => CopiesBehind'
  BY NextBehind
<1> QED
  BY <1>1, <1>2, TypeCorrect, MemoryCorrect, PTL DEF Spec

-----------------------------------------------------------------------------
(***************************************************************************)
(* Who drives the run.  Where no worker stalls, the worker that holds a    *)
(* run and is not closing has its lease and its whole log until the run    *)
(* ends, and a handler is deprived of the run by the end of the run only.  *)
(***************************************************************************)
Over == DbStatus \in Terminal

\* a run that has ended stays as it is.
LEMMA OverStays ==
  ASSUME TypeOK, EndedIsUnleased, Over, [Next]_vars
  PROVE  log' = log /\ Over'
<1>1. \A w \in Workers : ~Fenced(w)
  BY OrchestratorAssumption DEF EndedIsUnleased, Fenced, Over
<1>2. log' = log
  BY <1>1, NextLease DEF LeaseKept, LeaseEnds
<1> QED
  BY <1>2 DEF Over, DbStatus

\* How the step b of a handler's copy with trigger t ends, next being where the handler
\* goes on.
Outcome(w, t, next, b) ==
  /\ \/ /\ b = copy[w].st
        /\ Goto(w, next)
        /\ UNCHANGED <<log, lease, armed, marked, tasks, jobs, copy, held, queue, todo, faults>>
     \/ Append_(w, copy[w].st, b, t, next)
     \/ Refused(w)
     \/ Broken(w, copy[w].st, b, t)
  /\ UNCHANGED <<cancelReq, closing>>

\* What a handler steps its copy with, and where it goes on.
Stepping(w, t, next) ==
  \/ pc[w] = "recover" /\ t.type = "recovered" /\ next = "trigger"
  \/ pc[w] \in {"recover", "trigger"} /\ held[w] /\ t = Head(queue[w]) /\ next = "human"
  \/ /\ pc[w] = "human" /\ held[w] /\ next = "human"
     /\ \E n \in Answered(w) : t = Response(n)

\* a commit is a step of the copy with one of these outcomes.
LEMMA CommitOutcome ==
  ASSUME TypeOK, NEW w \in Workers, NEW t, Handles(t), NEW next,
         Working(w), Commit(w, t, next)
  PROVE  \E b \in State, lt \in BOOLEAN :
           /\ b = Step(copy[w].st, t, lt)
           /\ Outcome(w, t, next, b)
<1>1. PICK past \in {FALSE, late} :
        LET a == copy[w].st
            b == Step(a, t, past /\ a.run # "queued")
        IN IF b = a
           THEN /\ Goto(w, next)
                /\ UNCHANGED <<log, lease, armed, marked, tasks, jobs,
                               copy, held, active, queue, todo, faults>>
           ELSE \/ Append_(w, a, b, t, next)
                \/ Refused(w)
                \/ Broken(w, a, b, t)
  BY DEF Commit
<1> DEFINE a == copy[w].st
           b == Step(a, t, past /\ a.run # "queued")
<1>2. PICK lt \in BOOLEAN : b = Step(a, t, lt)
  BY Zenon
<1>3. b \in State
  BY <1>2, CopyType, StepType DEF Handles, Held
<1>4. UNCHANGED <<cancelReq, closing>>
  BY DEF Commit
<1>5. Outcome(w, t, next, b)
  BY <1>1, <1>4 DEF Outcome
<1> HIDE DEF b
<1> QED
  BY <1>2, <1>3, <1>5

\* what the handlers do when they step.
LEMMA HandlersStep ==
  ASSUME TypeOK, NEW w \in Workers, RecoverLost(w) \/ RunTrigger(w) \/ HandleResponse(w)
  PROVE  /\ Working(w) /\ queue[w] # <<>> /\ copy[w].st \in State /\ copy[w] # NoRun
         /\ \E t, next : /\ Stepping(w, t, next) /\ Handles(t)
                         /\ \E b \in State, lt \in BOOLEAN :
                              /\ b = Step(copy[w].st, t, lt)
                              /\ Outcome(w, t, next, b)
<1>1. Working(w) /\ queue[w] # <<>>
  BY DEF RecoverLost, RunTrigger, HandleResponse, NothingLost, Working, TypeOK
<1>2. \E t, next : Stepping(w, t, next) /\ Handles(t) /\ Commit(w, t, next)
  <2>1. CASE RecoverLost(w)
    <3>1. Handles(Recovered(Lost(w))) /\ Stepping(w, Recovered(Lost(w)), "trigger")
      BY <2>1 DEF RecoverLost, Stepping, Handles, Recovered, Trigger, Why, Sound
    <3> QED
      BY <2>1, <3>1 DEF RecoverLost
  <2>2. CASE RunTrigger(w)
    <3>1. Handles(Head(queue[w]))
      BY <1>1, HeadType DEF Handles, Triggers, JobTypes, Why, Sound
    <3>2. Stepping(w, Head(queue[w]), "human")
      BY <2>2 DEF RunTrigger, NothingLost, Stepping
    <3> QED
      BY <2>2, <3>1, <3>2 DEF RunTrigger
  <2>3. CASE HandleResponse(w)
    <3>1. PICK n \in Answered(w) : Commit(w, Response(n), "human")
      BY <2>3 DEF HandleResponse
    <3>2. Handles(Response(n))
      BY DEF Handles, Response, Trigger, Why, Sound, Answered, HumanNodes
    <3>3. Stepping(w, Response(n), "human")
      BY <2>3 DEF HandleResponse, Stepping
    <3> QED
      BY <3>1, <3>2, <3>3
  <2> QED
    BY <2>1, <2>2, <2>3
<1>3. PICK t, next : Stepping(w, t, next) /\ Handles(t) /\ Commit(w, t, next)
  BY <1>2
<1>4. \E b \in State, lt \in BOOLEAN : b = Step(copy[w].st, t, lt) /\ Outcome(w, t, next, b)
  BY <1>1, <1>3, CommitOutcome
<1> QED
  BY <1>1, <1>3, <1>4, CopyType DEF Held

\* an appended step is the log's.
LEMMA AppendIsLogs ==
  ASSUME TypeOK, MemoryIsReplay, NEW w \in Workers, Working(w), NEW t, Handles(t),
         NEW b \in State, Fenced(w), log' = Append(log, EntryOf(t.type, copy[w].st, b))
  PROVE  /\ copy[w].st = LogState /\ LogState' = b
         /\ b.run \in Terminal => Over'
         /\ Len(log) \in Nat /\ Len(log') = Len(log) + 1
<1>1. copy[w] \in Held /\ copy[w].st = LogState
  BY CopyType, FencedIsLogState
<1>2. EntryOf(t.type, LogState, b) \in Entry
  BY LogStateType, EntryType DEF Handles
<1>3. LogState' = b /\ Len(log') = Len(log) + 1 /\ Len(log) \in Nat
  <2>1. LogState' = Reduce(LogState, EntryOf(t.type, LogState, b)) /\ Len(log') = Len(log) + 1
    BY <1>1, <1>2, LogGrows
  <2> QED
    BY <2>1, LogStateType, ReduceEntry, LenProperties DEF TypeOK
<1>4. DbStatus' = b.run
  <2>1. log' # <<>> /\ log'[Len(log')] = EntryOf(t.type, LogState, b)
    <3> SUFFICES ASSUME NEW e \in Entry, e = EntryOf(t.type, LogState, b), log' = Append(log, e)
                 PROVE  log' # <<>> /\ log'[Len(log')] = e
      BY <1>1, <1>2
    <3>1. log \in Seq(Entry)
      BY DEF TypeOK
    <3>2. log' # <<>> /\ log'[Len(log) + 1] = e
      BY <3>1, AppendProperties
    <3> QED
      BY <1>3, <3>2
  <2> QED
    BY <2>1 DEF DbStatus, EntryOf
<1> QED
  BY <1>1, <1>3, <1>4 DEF Over

\* a trigger enters the mutex behind the others.
LEMMA QueueAppended ==
  ASSUME NEW q \in Seq(Triggers), NEW t \in Triggers
  PROVE  /\ DOMAIN Append(q, t) = DOMAIN q \cup {Len(q) + 1}
         /\ Append(q, t)[Len(q) + 1] = t
         /\ \A i \in DOMAIN q : Append(q, t)[i] = q[i]
         /\ DOMAIN q = 1 .. Len(q) /\ Len(q) \in Nat
BY AppendProperties, LenProperties

\* the first trigger leaves it, and the others move up.
LEMMA QueueAdvanced ==
  ASSUME NEW q \in Seq(Triggers), q # <<>>
  PROVE  /\ Head(q) = q[1] /\ 1 \in DOMAIN q /\ DOMAIN q \subseteq Nat
         /\ \A i \in DOMAIN Tail(q) : i + 1 \in DOMAIN q /\ Tail(q)[i] = q[i + 1] /\ i + 1 # 1
         /\ \A i \in DOMAIN q : i # 1 => i - 1 \in DOMAIN Tail(q) /\ Tail(q)[i - 1] = q[i]
<1>1. /\ Tail(q) \in Seq(Triggers) /\ Len(Tail(q)) = Len(q) - 1
      /\ \A i \in 1 .. Len(Tail(q)) : Tail(q)[i] = q[i + 1]
      /\ Head(q) = q[1]
  BY HeadTailProperties
<1>2. Len(q) \in Nat /\ DOMAIN q = 1 .. Len(q) /\ DOMAIN Tail(q) = 1 .. Len(q) - 1
  BY <1>1, LenProperties
<1>3. Len(q) # 0
  BY EmptySeq
<1> QED
  BY <1>1, <1>2, <1>3

\* The run's heartbeats and the other workers' clocks are in time.
NoStall == "stall" \notin Faults

OwnsLease(w) == lease = [owner |-> w, expired |-> FALSE]
Drives(w) ==
  /\ held[w] /\ ~closing[w] => OwnsLease(w) /\ copy[w].seq = Len(log)
  /\ pc[w] \in {"loadNew", "load"} /\ ~closing[w] => OwnsLease(w)
KeepsRun(w) ==
  /\ pc[w] \in {"taken", "recover", "trigger", "perform"} => held[w]
  /\ pc[w] = "perform" => todo[w].next = "human" \/ (todo[w].next = "trigger" /\ ~todo[w].release)
  /\ closing[w] => ~Waits(w, "job")
Driven == ~Over => \A w \in Workers : Drives(w) /\ KeepsRun(w)

\* a worker whose queue gets no job.
LEMMA NoJobWaits ==
  ASSUME TypeOK, NEW w \in Workers, ~Waits(w, "job"),
         \/ queue' = queue
         \/ \E t \in Triggers : t.src # "job" /\ \E v \in Workers : Enqueue(v, t)
         \/ \E v \in Workers : queue[v] # <<>> /\ queue' = [queue EXCEPT ![v] = Tail(@)]
         \/ \E v \in Workers : queue' = [queue EXCEPT ![v] = <<>>]
  PROVE  ~Waits(w, "job")'
<1>0. queue \in [Workers -> Seq(Triggers)]
  BY DEF TypeOK
<1>1. CASE queue'[w] = queue[w]
  BY <1>1 DEF Waits
<1>2. ASSUME NEW t \in Triggers, t.src # "job", queue'[w] = Append(queue[w], t)
      PROVE  ~Waits(w, "job")'
  BY <1>0, <1>2, QueueAppended DEF Waits
<1>3. CASE queue[w] # <<>> /\ queue'[w] = Tail(queue[w])
  BY <1>0, <1>3, QueueAdvanced DEF Waits
<1>4. CASE queue'[w] = <<>>
  <2>1. DOMAIN queue'[w] = {}
    BY <1>4
  <2> QED
    BY <2>1 DEF Waits
<1> QED
  BY <1>0, <1>1, <1>2, <1>3, <1>4 DEF Enqueue

\* what happens to a run nobody appends to and nobody loses.
LEMMA NextDriven ==
  ASSUME TypeOK, TypeOK', MemoryIsReplay, EndedIsUnleased, CopiesBehind,
         NoStall, RecoveryResumes, Driven, [Next]_vars
  PROVE  Driven'
<1> SUFFICES ASSUME ~Over'
             PROVE  \A v \in Workers : Drives(v)' /\ KeepsRun(v)'
  BY DEF Driven
<1>1. /\ ~Over
      /\ \A v \in Workers : Drives(v) /\ KeepsRun(v)
  BY OverStays DEF Driven
<1>2. /\ pc \in [Workers -> PcValues] /\ held \in [Workers -> BOOLEAN]
      /\ queue \in [Workers -> Seq(Triggers)] /\ closing \in [Workers -> BOOLEAN]
      /\ copy \in [Workers -> Held \cup {NoRun}] /\ todo \in [Workers -> Effects]
      /\ lease \in LeaseType
  BY DEF TypeOK, Held, LeaseType
<1>3. None \notin Workers /\ Dead \notin Workers
  BY OrchestratorAssumption
\* actions that leave the run and the handler alone
<1>4. ASSUME UNCHANGED <<log, lease, copy, held, pc, todo, closing>>,
             \/ queue' = queue
             \/ \E t \in Triggers, v \in Workers : t.src # "job" /\ Enqueue(v, t)
      PROVE  \A v \in Workers : Drives(v)' /\ KeepsRun(v)'
  <2>1. \A v \in Workers : Drives(v)'
    BY <1>1, <1>4 DEF Drives, OwnsLease
  <2>2. \A v \in Workers : ~Waits(v, "job") => ~Waits(v, "job")'
    BY <1>4, NoJobWaits
  <2> QED
    BY <1>1, <1>4, <2>1, <2>2 DEF KeepsRun
<1>5. ASSUME NEW w \in Workers, NEW j \in Jobs, ClaimJob(w, j)
      PROVE  \A v \in Workers : Drives(v)' /\ KeepsRun(v)'
  <2>1. UNCHANGED <<log, lease, copy, held, pc, todo, closing>> /\ ~closing[w]
        /\ \A v \in Workers \ {w} : queue'[v] = queue[v]
    BY <1>2, <1>5 DEF ClaimJob, Enqueue
  <2>2. \A v \in Workers \ {w} : Waits(v, "job")' = Waits(v, "job")
    BY <2>1 DEF Waits
  <2> QED
    BY <1>1, <2>1, <2>2 DEF Drives, OwnsLease, KeepsRun
<1>6. ASSUME NEW w \in Workers, Renew(w)
      PROVE  \A v \in Workers : Drives(v)' /\ KeepsRun(v)'
  <2>1. lease' = [owner |-> w, expired |-> FALSE] /\ lease.owner = w
    BY <1>2, <1>6 DEF Renew, LeaseType
  <2>2. UNCHANGED <<log, copy, held, pc, todo, closing>>
    BY <1>6 DEF Renew
  <2>3. \A v \in Workers : Drives(v)'
    <3>1. \A v \in Workers : OwnsLease(v) => v = w
      BY <2>1 DEF OwnsLease
    <3> QED
      BY <1>1, <2>1, <2>2, <3>1 DEF Drives, OwnsLease
  <2>4. Plain("cancel", "heartbeat") \in Triggers /\ Plain("cancel", "heartbeat").src # "job"
    BY DEF Plain, Trigger, Triggers, TimerId, ResultTypes, Sources, JobTypes
  <2>5. queue' = queue \/ Enqueue(w, Plain("cancel", "heartbeat"))
    BY <1>6 DEF Renew
  <2>6. \A v \in Workers : ~Waits(v, "job") => ~Waits(v, "job")'
    BY <2>4, <2>5, NoJobWaits
  <2> QED
    BY <1>1, <2>2, <2>3, <2>6 DEF KeepsRun
<1>7. ASSUME NEW w \in Workers, LoseLease(w)
      PROVE  FALSE
  BY <1>1, <1>7 DEF LoseLease, Drives, OwnsLease
<1>8. ASSUME LeaseLapses
      PROVE  \A v \in Workers : Drives(v)' /\ KeepsRun(v)'
  <2>1. UNCHANGED <<log, copy, held, pc, todo, closing, queue>>
    BY <1>8 DEF LeaseLapses, workers
  <2>2. ~(lease.owner \in Workers /\ Renewed(lease.owner))
    BY <1>8 DEF LeaseLapses, Fault, NoStall
  <2>3. \A v \in Workers : OwnsLease(v) => ~Renewed(v)
    BY <2>2 DEF OwnsLease
  <2>4. \A v \in Workers : Drives(v)'
    BY <1>1, <2>1, <2>3 DEF Drives, Renewed
  <2> QED
    BY <1>1, <2>1, <2>4 DEF KeepsRun, Waits
\* a handler that returns
<1>9. ASSUME NEW w \in Workers, queue[w] # <<>>, queue' = [queue EXCEPT ![w] = Tail(@)],
             pc' = [pc EXCEPT ![w] = "idle"], \A v \in Workers : held'[v] => held[v],
             \A v \in Workers \ {w} : held'[v] = held[v],
             UNCHANGED <<log, lease, closing>>,
             \A v \in Workers \ {w} : copy'[v] = copy[v] /\ todo'[v] = todo[v],
             held'[w] => copy'[w] = copy[w]
      PROVE  \A v \in Workers : Drives(v)' /\ KeepsRun(v)'
  <2>1. \A v \in Workers : ~Waits(v, "job") => ~Waits(v, "job")'
    BY <1>9, NoJobWaits
  <2>2. ASSUME NEW v \in Workers
        PROVE  Drives(v)' /\ KeepsRun(v)'
    BY <1>1, <1>2, <1>9, <2>1 DEF Drives, OwnsLease, KeepsRun
  <2> QED
    BY <2>2
\* take()
<1>10. ASSUME NEW w \in Workers, TakeHeld(w) \/ TakeRead(w)
       PROVE  \A v \in Workers : Drives(v)' /\ KeepsRun(v)'
  <2>1. CASE TakeHeld(w)
    <3>1. /\ pc' = [pc EXCEPT ![w] = "recover"] /\ held[w]
          /\ UNCHANGED <<log, lease, copy, held, todo, closing, queue>>
      BY <2>1 DEF TakeHeld, Goto, store
    <3>2. ASSUME NEW v \in Workers
          PROVE  Drives(v)' /\ KeepsRun(v)'
      BY <1>1, <1>2, <3>1 DEF Drives, OwnsLease, KeepsRun, Waits
    <3> QED
      BY <3>2
  <2>2. CASE TakeRead(w)
    <3>1. /\ pc' = [pc EXCEPT ![w] = "acquireNew"] \/ pc' = [pc EXCEPT ![w] = "acquire"]
          /\ UNCHANGED <<log, lease, copy, held, todo, closing, queue>>
      BY <1>1, <2>2 DEF TakeRead, Goto, Over
    <3>2. ASSUME NEW v \in Workers
          PROVE  Drives(v)' /\ KeepsRun(v)'
      BY <1>1, <1>2, <3>1 DEF Drives, OwnsLease, KeepsRun, Waits
    <3> QED
      BY <3>2
  <2> QED
    BY <1>10, <2>1, <2>2
<1>11. ASSUME NEW w \in Workers, TakeAcquire(w)
       PROVE  \A v \in Workers : Drives(v)' /\ KeepsRun(v)'
  <2>1. CASE Leasable(w)
    <3>1. /\ pc' = [pc EXCEPT ![w] = "loadNew"] \/ pc' = [pc EXCEPT ![w] = "load"]
          /\ lease' = [owner |-> w, expired |-> FALSE]
          /\ UNCHANGED <<log, copy, held, todo, closing, queue>>
      BY <1>11, <2>1 DEF TakeAcquire, Goto
    <3>2. \A v \in Workers : OwnsLease(v) => v = w
      BY <1>3, <2>1 DEF Leasable, OwnsLease
    <3>3. ASSUME NEW v \in Workers
          PROVE  Drives(v)' /\ KeepsRun(v)'
      BY <1>1, <1>2, <3>1, <3>2 DEF Drives, OwnsLease, KeepsRun, Waits
    <3> QED
      BY <3>3
  <2>2. CASE ~Leasable(w)
    <3>1. queue[w] # <<>>
      BY <1>11 DEF TakeAcquire, TypeOK
    <3> QED
      BY <1>9, <1>11, <2>2, <3>1 DEF TakeAcquire, Return
  <2> QED
    BY <2>1, <2>2
<1>12. ASSUME NEW w \in Workers, TakeLoad(w)
       PROVE  \A v \in Workers : Drives(v)' /\ KeepsRun(v)'
  <2>1. /\ pc' = [pc EXCEPT ![w] = "taken"] \/ pc' = [pc EXCEPT ![w] = "recover"]
        /\ copy' = [copy EXCEPT ![w] = [seq |-> Len(log), st |-> Recover(ckpt, log),
                                        saved |-> ckpt.seq]]
        /\ held' = [held EXCEPT ![w] = TRUE]
        /\ pc[w] \in {"loadNew", "load"}
        /\ UNCHANGED <<log, lease, todo, closing, queue>>
    BY <1>12 DEF TakeLoad, Goto, store
  <2>2. copy'[w].seq = Len(log) /\ held'[w] /\ \A v \in Workers \ {w} : copy'[v] = copy[v]
    BY <1>2, <2>1
  <2>3. ASSUME NEW v \in Workers
        PROVE  Drives(v)' /\ KeepsRun(v)'
    BY <1>1, <1>2, <2>1, <2>2 DEF Drives, OwnsLease, KeepsRun, Waits
  <2> QED
    BY <2>3
\* the worker that passes the fence is the only one that drives the run
<1>13. ASSUME NEW w \in Workers, Fenced(w), NEW v \in Workers \ {w}
       PROVE  held[v] \/ pc[v] \in {"loadNew", "load"} => closing[v]
  BY <1>1, <1>13 DEF Drives, OwnsLease, Fenced
<1>14. ASSUME NEW w \in Workers, TakeRecord(w)
       PROVE  \A v \in Workers : Drives(v)' /\ KeepsRun(v)'
  <2>0. queue[w] # <<>> /\ pc[w] = "taken" /\ copy[w] \in Held
    BY <1>14, CopyType DEF TakeRecord, TypeOK, Working
  <2>1. CASE Fenced(w)
    <3>1. /\ pc' = [pc EXCEPT ![w] = "recover"]
          /\ copy' = [copy EXCEPT ![w].seq = @ + 1]
          /\ UNCHANGED <<held, lease, todo, closing, queue>>
      BY <1>14, <2>1 DEF TakeRecord, Goto
    <3>2. Len(log') = Len(log) + 1 /\ Len(log) \in Nat
      <4>1. LeaseTaken(copy[w].st) \in Entry
        BY <2>0, EntryType DEF LeaseTaken, Why, Held
      <4> QED
        BY <1>14, <2>1, <4>1, AppendProperties, LenProperties DEF TakeRecord, TypeOK
    <3>3. copy'[w].seq = copy[w].seq + 1
      BY <1>2, <2>0, <3>1 DEF Held
    <3>4. ASSUME NEW v \in Workers \ {w}
          PROVE  Drives(v)' /\ KeepsRun(v)'
      BY <1>1, <1>2, <1>13, <2>1, <3>1 DEF Drives, KeepsRun, Waits
    <3>5. Drives(w)' /\ KeepsRun(w)'
      BY <1>1, <1>2, <2>0, <3>1, <3>2, <3>3 DEF Drives, KeepsRun, Waits, OwnsLease
    <3> QED
      BY <3>4, <3>5
  <2>2. CASE ~Fenced(w)
    BY <1>9, <1>14, <2>0, <2>2 DEF TakeRecord, Return
  <2> QED
    BY <2>1, <2>2
<1>15. ASSUME NEW w \in Workers, SkipTrigger(w) \/ FinishTrigger(w)
       PROVE  \A v \in Workers : Drives(v)' /\ KeepsRun(v)'
  <2>1. queue[w] # <<>>
    BY <1>15 DEF SkipTrigger, FinishTrigger, NothingLost, TypeOK
  <2>2. Return(w, "ok") /\ UNCHANGED <<log, lease, copy, held, todo, closing>>
    BY <1>15 DEF SkipTrigger, FinishTrigger
  <2> QED
    BY <1>9, <2>1, <2>2 DEF Return
<1>16. ASSUME NEW w \in Workers, RecoverLost(w) \/ RunTrigger(w) \/ HandleResponse(w)
       PROVE  \A v \in Workers : Drives(v)' /\ KeepsRun(v)'
  <2>1. Working(w) /\ queue[w] # <<>> /\ copy[w].st \in State /\ copy[w] # NoRun
    BY <1>16, HandlersStep
  <2>2. PICK t, next : /\ Stepping(w, t, next) /\ Handles(t)
                       /\ \E b \in State, lt \in BOOLEAN :
                            b = Step(copy[w].st, t, lt) /\ Outcome(w, t, next, b)
    BY <1>16, HandlersStep
  <2>3. PICK b \in State, lt \in BOOLEAN :
               b = Step(copy[w].st, t, lt) /\ Outcome(w, t, next, b)
    BY <2>2
  <2>4. closing' = closing /\ copy[w] \in Held
    BY <2>1, <2>3, CopyType DEF Outcome
  <2>5. held[w] /\ next \in {"trigger", "human"}
    BY <1>1, <2>2 DEF Stepping, KeepsRun
  <2>6. CASE /\ pc' = [pc EXCEPT ![w] = next]
             /\ UNCHANGED <<log, lease, copy, held, queue, todo>>
    <3>1. ASSUME NEW v \in Workers
          PROVE  Drives(v)' /\ KeepsRun(v)'
      BY <1>1, <1>2, <2>4, <2>5, <2>6 DEF Drives, KeepsRun, OwnsLease, Waits
    <3> QED
      BY <3>1
  <2>7. CASE Append_(w, copy[w].st, b, t, next)
    <3>1. /\ Fenced(w) /\ log' = Append(log, EntryOf(t.type, copy[w].st, b))
          /\ Project(copy[w].st, b, t)
          /\ copy' = [copy EXCEPT ![w] = [seq |-> copy[w].seq + 1, st |-> b, saved |-> copy[w].saved]]
          /\ todo' = [todo EXCEPT ![w] = EffectsOf(copy[w].st, b, t, next)]
          /\ pc' = [pc EXCEPT ![w] = "perform"]
          /\ UNCHANGED <<held, queue>>
      BY <2>7 DEF Append_, Goto
    <3>2. /\ b.run \notin Terminal
          /\ Len(log) \in Nat /\ Len(log') = Len(log) + 1
      BY <2>1, <2>2, <3>1, AppendIsLogs
    <3>3. ASSUME NEW v \in Workers \ {w}
          PROVE  Drives(v)' /\ KeepsRun(v)'
      BY <1>1, <1>2, <1>13, <2>4, <3>1 DEF Drives, KeepsRun, Waits
    <3>4. lease' = lease \/ lease' = [lease EXCEPT !.expired = FALSE]
      BY <3>1, <3>2 DEF Project
    <3>5. Drives(w)'
      <4>1. OwnsLease(w) => OwnsLease(w)'
        BY <3>4 DEF OwnsLease
      <4>2. copy'[w].seq = copy[w].seq + 1 /\ pc'[w] = "perform"
        BY <1>2, <3>1
      <4> QED
        BY <1>1, <2>4, <2>5, <3>1, <3>2, <4>1, <4>2 DEF Drives
    <3>6. todo'[w].next = next /\ todo'[w].release = Releases(copy[w].st, t, b)
      BY <1>2, <3>1 DEF EffectsOf
    <3>7. next = "trigger" => ~todo'[w].release
      <4>1. ASSUME next = "trigger" PROVE t.type = "recovered"
        BY <2>2, <4>1 DEF Stepping
      <4>2. Orderly(copy[w].st)
        BY <2>1 DEF CopiesBehind, Behind
      <4> QED
        BY <2>1, <2>3, <3>2, <3>6, <4>1, <4>2, RecoveryParksNobody DEF Orderly, Releases
    <3>8. KeepsRun(w)'
      BY <1>1, <1>2, <2>4, <2>5, <3>1, <3>6, <3>7 DEF KeepsRun, Waits
    <3> QED
      BY <3>3, <3>5, <3>8
  <2>8. CASE Refused(w)
    <3>1. /\ queue' = [queue EXCEPT ![w] = Tail(@)] /\ pc' = [pc EXCEPT ![w] = "idle"]
          /\ held' = [held EXCEPT ![w] = FALSE]
          /\ UNCHANGED <<log, lease, closing, copy, todo>>
      BY <2>4, <2>8 DEF Refused, Return, Drop
    <3> QED
      BY <1>2, <1>9, <2>1, <3>1
  <2>9. CASE Broken(w, copy[w].st, b, t)
    <3>1. /\ queue' = [queue EXCEPT ![w] = Tail(@)] /\ pc' = [pc EXCEPT ![w] = "idle"]
          /\ held' = [held EXCEPT ![w] = FALSE]
          /\ UNCHANGED <<closing, copy, todo>>
          /\ UNCHANGED <<log, lease>> \/ Fenced(w)
      BY <2>4, <2>9 DEF Broken, Goto, Drop
    <3>2. CASE UNCHANGED <<log, lease>>
      BY <1>2, <1>9, <2>1, <3>1, <3>2
    <3>3. CASE Fenced(w)
      <4>1. \A v \in Workers : ~Waits(v, "job") => ~Waits(v, "job")'
        BY <2>1, <3>1, NoJobWaits
      <4>2. ASSUME NEW v \in Workers
            PROVE  Drives(v)' /\ KeepsRun(v)'
        BY <1>1, <1>2, <1>13, <3>1, <3>3, <4>1 DEF Drives, KeepsRun
      <4> QED
        BY <4>2
    <3> QED
      BY <3>1, <3>2, <3>3
  <2> QED
    BY <2>3, <2>6, <2>7, <2>8, <2>9 DEF Outcome, Goto
<1>17. ASSUME NEW w \in Workers, Perform(w)
       PROVE  \A v \in Workers : Drives(v)' /\ KeepsRun(v)'
  <2>1. /\ pc[w] = "perform" /\ pc' = [pc EXCEPT ![w] = todo[w].next]
        /\ todo' = [todo EXCEPT ![w] = NoEffects]
        /\ UNCHANGED <<log, queue, closing>>
        /\ \/ UNCHANGED <<held, lease>>
           \/ /\ Releasing(w) /\ held' = [held EXCEPT ![w] = FALSE]
              /\ lease' = IF lease.owner = w THEN [owner |-> None, expired |-> FALSE] ELSE lease
    BY <1>17 DEF Perform, Goto
  <2>2. /\ \A v \in Workers \ {w} : copy'[v] = copy[v]
        /\ copy'[w].seq = copy[w].seq
    <3>1. copy[w] \in Held /\ copy[w] # NoRun
      BY <2>1, CopyType DEF Working
    <3> QED
      BY <1>2, <1>17, <3>1 DEF Perform, SaveCheckpoint, Held
  <2>3. Releasing(w) => todo[w].release
    BY DEF Releasing
  <2>4. ASSUME NEW v \in Workers \ {w}
        PROVE  Drives(v)' /\ KeepsRun(v)'
    BY <1>1, <1>2, <2>1, <2>2, <2>4 DEF Drives, KeepsRun, OwnsLease, Waits
  <2>5. Drives(w)' /\ KeepsRun(w)'
    BY <1>1, <1>2, <2>1, <2>2, <2>3 DEF Drives, KeepsRun, OwnsLease, Waits
  <2> QED
    BY <2>4, <2>5
<1>18. ASSUME NEW w \in Workers, PerformFails(w)
       PROVE  \A v \in Workers : Drives(v)' /\ KeepsRun(v)'
  <2>1. /\ pc[w] = "perform" /\ pc' = [pc EXCEPT ![w] = "idle"]
        /\ todo' = [todo EXCEPT ![w] = NoEffects]
        /\ queue' = [queue EXCEPT ![w] = Tail(@)]
        /\ held' = [held EXCEPT ![w] = FALSE]
        /\ UNCHANGED <<log, lease, closing>>
        /\ SaveCheckpoint(w) \/ UNCHANGED <<ckpt, copy>>
    BY <1>18 DEF PerformFails, Goto
  <2>2. \A v \in Workers \ {w} : copy'[v] = copy[v] /\ todo'[v] = todo[v]
    BY <1>2, <2>1 DEF SaveCheckpoint
  <2>3. queue[w] # <<>>
    BY <2>1 DEF TypeOK
  <2> QED
    BY <1>2, <1>9, <2>1, <2>2, <2>3
<1>19. ASSUME NEW w \in Workers, Crash(w) \/ EndClose(w)
       PROVE  \A v \in Workers : Drives(v)' /\ KeepsRun(v)'
  <2>1. /\ copy' = [copy EXCEPT ![w] = NoRun] /\ held' = [held EXCEPT ![w] = FALSE]
        /\ queue' = [queue EXCEPT ![w] = <<>>] /\ pc' = [pc EXCEPT ![w] = "idle"]
        /\ todo' = [todo EXCEPT ![w] = NoEffects] /\ closing' = [closing EXCEPT ![w] = FALSE]
        /\ log' = log
    BY <1>19 DEF Crash, EndClose, Forget
  <2>2. lease.owner = w \/ lease' = lease
    BY <1>19 DEF Crash, EndClose
  <2>3. ASSUME NEW v \in Workers \ {w}
        PROVE  Drives(v)' /\ KeepsRun(v)'
    BY <1>1, <1>2, <2>1, <2>2 DEF Drives, KeepsRun, OwnsLease, Waits
  <2>4. Drives(w)' /\ KeepsRun(w)'
    BY <1>2, <2>1 DEF Drives, KeepsRun
  <2> QED
    BY <2>3, <2>4
<1>20. ASSUME NEW w \in Workers, BeginClose(w)
       PROVE  \A v \in Workers : Drives(v)' /\ KeepsRun(v)'
  <2>1. /\ closing' = [closing EXCEPT ![w] = TRUE] /\ ~Waits(w, "job")
        /\ UNCHANGED <<log, lease, copy, held, queue, pc, todo>>
    BY <1>20 DEF BeginClose, store
  <2>2. ASSUME NEW v \in Workers
        PROVE  Drives(v)' /\ KeepsRun(v)'
    BY <1>1, <1>2, <2>1 DEF Drives, KeepsRun, OwnsLease, Waits
  <2> QED
    BY <2>2
\* the others
<1>21. ASSUME NEW w \in Workers,
              \/ \E t \in armed : PollTimer(w, t)
              \/ \E r \in active[w] : Finish(w, r)
              \/ Reap(w) \/ RedeliverJob(w)
       PROVE  \A v \in Workers : Drives(v)' /\ KeepsRun(v)'
  <2>1. UNCHANGED <<log, lease, copy, held, pc, todo, closing>>
    BY <1>21 DEF PollTimer, Finish, FinishExecution, Reap, RedeliverJob, store, workers
  <2>2. \/ queue' = queue
        \/ \E t \in Triggers, v \in Workers : t.src # "job" /\ Enqueue(v, t)
    <3>1. \A t \in armed : /\ Trigger("timer", t, "ok", "timer") \in Triggers
                           /\ Trigger("timer", t, "ok", "timer").src # "job"
      BY DEF Trigger, Triggers, TypeOK, ResultTypes, Sources
    <3>2. \A r \in active[w], result \in ResultTypes :
            /\ Trigger("node_result", r, result, "exec") \in Triggers
            /\ Trigger("node_result", r, result, "exec").src # "job"
      BY DEF Trigger, Triggers, TypeOK, TimerId, Sources
    <3>3. Plain("resume", "reap") \in Triggers /\ Plain("resume", "reap").src # "job"
      BY DEF Plain, Trigger, Triggers, TimerId, ResultTypes, Sources, JobTypes
    <3> QED
      BY <1>21, <3>1, <3>2, <3>3 DEF PollTimer, Finish, FinishExecution, Reap, RedeliverJob, workers
  <2> QED
    BY <1>4, <2>1, <2>2
<1>22. ASSUME RequestCancel \/ DeadlinePasses \/ \E n \in HumanNodes : Respond(n)
       PROVE  \A v \in Workers : Drives(v)' /\ KeepsRun(v)'
  BY <1>4, <1>22 DEF RequestCancel, DeadlinePasses, Respond, workers, store
<1>23. CASE UNCHANGED vars
  BY <1>4, <1>23 DEF vars
<1> QED
  BY <1>5, <1>6, <1>7, <1>8, <1>10, <1>11, <1>12, <1>14, <1>15, <1>16, <1>17, <1>18, <1>19,
     <1>20, <1>21, <1>22, <1>23 DEF Next, Handle, Maintain

\* As an invariant of the system.
LEMMA DrivenIsKept ==
  ASSUME NoStall, RecoveryResumes
  PROVE  Spec => []Driven
<1>1. Init => Driven
  BY DEF Init, Driven, Drives, KeepsRun, Waits, OwnsLease
<1>2. TypeOK /\ TypeOK' /\ MemoryIsReplay /\ EndedIsUnleased /\ CopiesBehind /\ Driven
        /\ [Next]_vars => Driven'
  BY NextDriven
<1> QED
  BY <1>1, <1>2, TypeCorrect, MemoryCorrect, EndIsKept, BehindIsKept, PTL DEF Spec

-----------------------------------------------------------------------------
(***************************************************************************)
(* A timer whose row is marked is over.  It is marked by the commit that   *)
(* records its TIMER_FIRED, or when the handler of its trigger returns:    *)
(* that handler has got beyond the trigger, so its step left the timer's   *)
(* node run over, in its copy, therefore in the log.                       *)
(***************************************************************************)
\* the handler has stepped its copy with the trigger it handles.
Beyond(w) == pc[w] = "human" \/ (pc[w] = "perform" /\ todo[w].next = "human")
Polled(t) == t.src = "timer" /\ t.id # Deadline
RowsNamed ==
  /\ \A r \in armed \ {Deadline} : Named(LogState, r)
  /\ \A r \in marked \ {Deadline} : Spent(LogState, r)
PolledNamed ==
  \A w \in Workers : \A i \in DOMAIN queue[w] :
    Polled(queue[w][i]) =>
      /\ queue[w][i].type = "timer"
      /\ Named(LogState, queue[w][i].id)
      /\ held[w] => Named(copy[w].st, queue[w][i].id)
HeadTold ==
  \A w \in Workers : Beyond(w) =>
    /\ Polled(Head(queue[w])) => Spent(LogState, Head(queue[w]).id)
    /\ Head(queue[w]).type # "cancel"
TimersFollowed == ~Over => RowsNamed /\ PolledNamed /\ HeadTold

\* what is over in the log stays over, what it has a name for keeps one.
LEMMA LogSpends ==
  ASSUME TypeOK, MemoryIsReplay, CopiesBehind, [Next]_vars,
         NEW l, l = LogState, NEW m, m = LogState'
  PROVE  \A r \in NodeRun : /\ Spent(l, r) => Spent(m, r)
                            /\ Named(l, r) => Named(m, r)
<1>1. l \in State /\ Tidy(l) /\ TimersNamed(l)
  BY LogStateType DEF CopiesBehind, Behind, Orderly
<1>2. ASSUME NEW t, Sound(t), NEW lt \in BOOLEAN, m = Step(l, t, lt)
      PROVE  \A r \in NodeRun : /\ Spent(l, r) => Spent(m, r)
                                /\ Named(l, r) => Named(m, r)
  BY <1>1, <1>2, StepNamed
<1> QED
  BY <1>2, LogSteps

\* a copy of the whole log is the log's state.
LEMMA WholeCopy ==
  ASSUME TypeOK, MemoryIsReplay, NEW w \in Workers, copy[w] # NoRun, copy[w].seq = Len(log)
  PROVE  copy[w].st = LogState
<1>1. copy[w] \in Held
  BY DEF TypeOK, Held
<1>2. Replay(copy[w].st, TailFrom(log, Len(log))) = LogState
  BY DEF MemoryIsReplay
<1> QED
  BY <1>1, <1>2, TailOfAll, ReplayEmpty DEF TypeOK, Held

\* a row that is set is a timer of the log; a row is marked by the commit that closes
\* its timer, or behind a handler that got beyond its trigger.
LEMMA NextRows ==
  ASSUME TypeOK, MemoryIsReplay, CopiesBehind, Driven, HeadTold, ~Over, ~Over', [Next]_vars,
         NEW l, l = LogState, NEW m, m = LogState'
  PROVE  /\ armed' \subseteq armed \cup m.timers \cup {Deadline}
         /\ \A r \in marked' \ marked : r = Deadline \/ Spent(l, r) \/ Spent(m, r)
<1>0. \A w \in Workers : KeepsRun(w)
  BY DEF Driven
<1>1. CASE armed' \subseteq armed /\ marked' = marked
  BY <1>1
<1>2. ASSUME NEW w \in Workers, NEW result, Return(w, result), result \notin {"ok", "terminal"}
      PROVE  armed' = armed /\ marked' = marked
  BY <1>2 DEF Return, FiresRow
<1>3. ASSUME NEW w \in Workers, Return(w, "ok"), Beyond(w)
      PROVE  /\ armed' \subseteq armed
             /\ \A r \in marked' \ marked : r = Deadline \/ Spent(l, r)
  BY <1>3 DEF Return, FiresRow, HeadTold, Polled
<1>4. ASSUME NEW w \in Workers,
             TakeRead(w) \/ TakeAcquire(w) \/ TakeRecord(w)
      PROVE  armed' = armed /\ marked' = marked
  BY <1>2, <1>4 DEF TakeRead, TakeAcquire, TakeRecord, Over
<1>5. ASSUME NEW w \in Workers, SkipTrigger(w)
      PROVE  FALSE
  BY <1>0, <1>5 DEF SkipTrigger, NothingLost, KeepsRun
<1>6. ASSUME NEW w \in Workers, FinishTrigger(w)
      PROVE  /\ armed' \subseteq armed
             /\ \A r \in marked' \ marked : r = Deadline \/ Spent(l, r)
  BY <1>3, <1>6 DEF FinishTrigger, Beyond
<1>7. ASSUME NEW w \in Workers, RecoverLost(w) \/ RunTrigger(w) \/ HandleResponse(w)
      PROVE  /\ armed' \subseteq armed \cup m.timers \cup {Deadline}
             /\ \A r \in marked' \ marked : r = Deadline \/ Spent(l, r) \/ Spent(m, r)
  <2>1. Working(w) /\ queue[w] # <<>> /\ copy[w].st \in State /\ copy[w] # NoRun
    BY <1>7, HandlersStep
  <2>2. PICK t, next : /\ Stepping(w, t, next) /\ Handles(t)
                       /\ \E b \in State, lt \in BOOLEAN :
                            b = Step(copy[w].st, t, lt) /\ Outcome(w, t, next, b)
    BY <1>7, HandlersStep
  <2>3. PICK b \in State, lt \in BOOLEAN :
               b = Step(copy[w].st, t, lt) /\ Outcome(w, t, next, b)
    BY <2>2
  <2>4. CASE UNCHANGED <<armed, marked>>
    BY <2>4
  <2>5. CASE /\ Fenced(w) /\ log' = Append(log, EntryOf(t.type, copy[w].st, b))
             /\ Project(copy[w].st, b, t)
    <3>1. copy[w].st = l /\ m = b
      BY <2>1, <2>2, <2>5, AppendIsLogs
    <3>2. \A r \in l.timers \ b.timers : Spent(b, r)
      <4>1. Tidy(l) /\ TimersNamed(l) /\ Sound(t) /\ l \in State
        BY <2>1, <2>2, <3>1 DEF CopiesBehind, Behind, Orderly, Handles
      <4> QED
        BY <2>3, <3>1, <4>1, StepCloses
    <3> QED
      BY <2>5, <3>1, <3>2 DEF Project
  <2>6. CASE Refused(w)
    BY <1>2, <2>6 DEF Refused
  <2> QED
    BY <2>3, <2>4, <2>5, <2>6 DEF Outcome, Append_, Broken
<1>8. ASSUME NEW w \in Workers, Perform(w) \/ PerformFails(w)
      PROVE  armed' \subseteq armed /\ marked' = marked
  <2>1. CASE Perform(w)
    BY <2>1 DEF Perform
  <2>2. CASE PerformFails(w)
    <3>1. marked' = marked
      BY <2>2 DEF PerformFails
    <3>2. \/ UNCHANGED armed
          \/ \E done \in SUBSET todo[w].cancel : armed' = armed \ done
          \/ armed' = armed \ todo[w].cancel
      BY <2>2, Zenon DEF PerformFails
    <3> QED
      BY <3>1, <3>2
  <2> QED
    BY <1>8, <2>1, <2>2
<1>9. ASSUME NEW w \in Workers,
             \/ \E j \in Jobs : ClaimJob(w, j)
             \/ \E t \in armed : PollTimer(w, t)
             \/ \E r \in active[w] : Finish(w, r)
             \/ Reap(w) \/ Renew(w) \/ LoseLease(w) \/ RedeliverJob(w)
             \/ Crash(w) \/ BeginClose(w) \/ EndClose(w) \/ TakeHeld(w) \/ TakeLoad(w)
      PROVE  armed' = armed /\ marked' = marked
  BY <1>9 DEF ClaimJob, PollTimer, Finish, FinishExecution, Reap, Renew, LoseLease, RedeliverJob,
              Crash, BeginClose, EndClose, TakeHeld, TakeLoad, store
<1>10. ASSUME RequestCancel \/ DeadlinePasses \/ LeaseLapses \/ \E n \in HumanNodes : Respond(n)
       PROVE  armed' = armed /\ marked' = marked
  BY <1>10 DEF RequestCancel, DeadlinePasses, LeaseLapses, Respond, store
<1>11. CASE UNCHANGED vars
  BY <1>11 DEF vars
<1> QED
  BY <1>4, <1>5, <1>6, <1>7, <1>8, <1>9, <1>10, <1>11 DEF Next, Handle, Maintain

\* what a worker's mutex may hold after a step: what it held, and what enters it, of
\* which the trigger of a timer is that of a row that is set.
Enters(w, t) ==
  Polled(t) => /\ t.type = "timer" /\ t.id \in armed /\ ~closing[w]
               /\ UNCHANGED <<log, copy, held>>

LEMMA NextQueues ==
  ASSUME TypeOK, [Next]_vars, NEW w \in Workers, NEW i \in DOMAIN queue'[w]
  PROVE  (\E k \in DOMAIN queue[w] : queue'[w][i] = queue[w][k]) \/ Enters(w, queue'[w][i])
<1> DEFINE Goal == \/ \E k \in DOMAIN queue[w] : queue'[w][i] = queue[w][k]
                   \/ Enters(w, queue'[w][i])
<1>0. queue \in [Workers -> Seq(Triggers)]
  BY DEF TypeOK
<1>1. CASE queue'[w] = queue[w]
  BY <1>1
<1>2. ASSUME NEW t \in Triggers, Enters(w, t), queue'[w] = Append(queue[w], t)
      PROVE  Goal
  <2>1. i \in DOMAIN queue[w] \/ i = Len(queue[w]) + 1
    BY <1>0, <1>2, QueueAppended
  <2>2. CASE i \in DOMAIN queue[w]
    BY <1>0, <1>2, <2>2, QueueAppended
  <2>3. CASE i = Len(queue[w]) + 1
    BY <1>0, <1>2, <2>3, QueueAppended
  <2> QED
    BY <2>1, <2>2, <2>3
<1>3. CASE queue[w] # <<>> /\ queue'[w] = Tail(queue[w])
  BY <1>0, <1>3, QueueAdvanced
<1>4. CASE queue'[w] = <<>>
  BY <1>4
<1> HIDE DEF Goal
<1>5. ASSUME NEW v \in Workers, NEW t \in Triggers, Enqueue(v, t), v = w => Enters(w, t)
      PROVE  Goal
  BY <1>0, <1>1, <1>2, <1>5 DEF Enqueue, Goal
<1>6. ASSUME NEW v \in Workers, queue[v] # <<>>, queue' = [queue EXCEPT ![v] = Tail(@)]
      PROVE  Goal
  BY <1>0, <1>1, <1>3, <1>6 DEF Goal
<1>7. ASSUME queue' = queue
      PROVE  Goal
  BY <1>1, <1>7 DEF Goal
<1>8. ASSUME NEW v \in Workers, NEW j \in Jobs, ClaimJob(v, j)
      PROVE  Goal
  <2>1. Trigger(j.type, j.id, "ok", "job") \in Triggers
    BY JobValues DEF Trigger, Triggers, JobOf, ResultTypes, Sources
  <2>2. Enters(w, Trigger(j.type, j.id, "ok", "job"))
    BY DEF Enters, Polled, Trigger
  <2> QED
    BY <1>5, <1>8, <2>1, <2>2 DEF ClaimJob
<1>9. ASSUME NEW v \in Workers, NEW t \in armed, PollTimer(v, t)
      PROVE  Goal
  <2>1. Trigger("timer", t, "ok", "timer") \in Triggers
    BY DEF Trigger, Triggers, TypeOK, ResultTypes, Sources
  <2>2. /\ UNCHANGED <<log, copy, held>> /\ ~closing[v]
        /\ Enqueue(v, Trigger("timer", t, "ok", "timer"))
    BY <1>9 DEF PollTimer, store
  <2>3. v = w => Enters(w, Trigger("timer", t, "ok", "timer"))
    BY <2>2 DEF Enters, Polled, Trigger
  <2> QED
    BY <1>5, <2>1, <2>2, <2>3
<1>10. ASSUME NEW v \in Workers, NEW r \in active[v], Finish(v, r)
       PROVE  Goal
  <2>1. PICK result \in ResultTypes : FinishExecution(v, r, result)
    BY <1>10 DEF Finish
  <2>2. Trigger("node_result", r, result, "exec") \in Triggers
    BY DEF Trigger, Triggers, TypeOK, TimerId, Sources
  <2>3. Enters(w, Trigger("node_result", r, result, "exec"))
    BY DEF Enters, Polled, Trigger
  <2> QED
    BY <1>5, <2>1, <2>2, <2>3 DEF FinishExecution
<1>11. ASSUME NEW v \in Workers, Reap(v) \/ Renew(v)
       PROVE  Goal
  <2>1. Plain("resume", "reap") \in Triggers /\ Plain("cancel", "heartbeat") \in Triggers
    BY DEF Plain, Trigger, Triggers, TimerId, ResultTypes, Sources, JobTypes
  <2>2. Enters(w, Plain("resume", "reap")) /\ Enters(w, Plain("cancel", "heartbeat"))
    BY DEF Enters, Polled, Plain, Trigger
  <2>3. \/ Enqueue(v, Plain("resume", "reap")) \/ Enqueue(v, Plain("cancel", "heartbeat"))
        \/ queue' = queue
    BY <1>11 DEF Reap, Renew
  <2> QED
    BY <1>5, <1>7, <2>1, <2>2, <2>3
<1>12. ASSUME NEW v \in Workers, NEW result, Return(v, result), queue[v] # <<>>
       PROVE  Goal
  BY <1>6, <1>12 DEF Return
<1>13. ASSUME NEW v \in Workers,
              \/ TakeRead(v) \/ TakeAcquire(v) \/ TakeRecord(v) \/ SkipTrigger(v)
              \/ FinishTrigger(v)
       PROVE  Goal
  <2>1. queue[v] # <<>>
    BY <1>13 DEF TakeRead, TakeAcquire, TakeRecord, SkipTrigger, NothingLost, FinishTrigger, TypeOK
  <2>2. queue' = queue \/ \E result : Return(v, result)
    BY <1>13 DEF TakeRead, TakeAcquire, TakeRecord, SkipTrigger, FinishTrigger
  <2> QED
    BY <1>7, <1>12, <2>1, <2>2
<1>14. ASSUME NEW v \in Workers, RecoverLost(v) \/ RunTrigger(v) \/ HandleResponse(v)
       PROVE  Goal
  <2>1. queue[v] # <<>>
    BY <1>14, HandlersStep
  <2>2. \E t, next, b : Outcome(v, t, next, b)
    BY <1>14, HandlersStep
  <2>3. queue' = queue \/ queue' = [queue EXCEPT ![v] = Tail(@)]
    BY <2>2 DEF Outcome, Append_, Refused, Return, Broken
  <2> QED
    BY <1>6, <1>7, <2>1, <2>3
<1>15. ASSUME NEW v \in Workers, PerformFails(v)
       PROVE  Goal
  <2>1. queue[v] # <<>>
    BY <1>15 DEF PerformFails, TypeOK
  <2> QED
    BY <1>6, <1>15, <2>1 DEF PerformFails
<1>16. ASSUME NEW v \in Workers, Crash(v) \/ EndClose(v)
       PROVE  Goal
  <2>1. queue' = [queue EXCEPT ![v] = <<>>]
    BY <1>16 DEF Crash, EndClose, Forget
  <2> QED
    BY <1>0, <1>1, <1>4, <2>1 DEF Goal
<1>17. ASSUME NEW v \in Workers,
              \/ LoseLease(v) \/ RedeliverJob(v) \/ BeginClose(v)
              \/ TakeHeld(v) \/ TakeLoad(v) \/ Perform(v)
       PROVE  Goal
  BY <1>7, <1>17 DEF LoseLease, RedeliverJob, BeginClose, TakeHeld, TakeLoad, Perform, workers
<1>18. ASSUME RequestCancel \/ DeadlinePasses \/ LeaseLapses \/ \E n \in HumanNodes : Respond(n)
       PROVE  Goal
  BY <1>7, <1>18 DEF RequestCancel, DeadlinePasses, LeaseLapses, Respond, workers
<1>19. ASSUME UNCHANGED vars
       PROVE  Goal
  BY <1>7, <1>19 DEF vars
<1>20. Goal
  BY <1>8, <1>9, <1>10, <1>11, <1>13, <1>14, <1>15, <1>16, <1>17, <1>18, <1>19
     DEF Next, Handle, Maintain
<1> QED
  BY <1>20 DEF Goal

\* a worker that holds the run after a step held it before, or has loaded the log.
LEMMA NextHeld ==
  ASSUME TypeOK, TypeOK', MemoryIsReplay, [Next]_vars, NEW w \in Workers, held'[w],
         NEW m, m = LogState'
  PROVE  \/ held[w] /\ copy'[w].st = copy[w].st
         \/ copy'[w].st = m
<1>1. copy'[w] # NoRun
  BY DEF TypeOK
<1>2. CASE Quiet /\ held[w]
  <2>1. m = LogState /\ Recover(ckpt, log) = LogState
    BY <1>2 DEF Quiet, LogState, MemoryIsReplay, Recover
  <2> QED
    BY <1>1, <1>2, <2>1 DEF Quiet, SameCopy
<1>3. ASSUME NEW v \in Workers, Steps(v), held[w]
      PROVE  copy'[w].st = copy[w].st \/ copy'[w].st = m
  <2>1. CASE Commits(v, "lease_taken", copy[v].st)
    BY <2>1 DEF Commits
  <2>2. ASSUME NEW t, NEW b \in State, NEW lt \in BOOLEAN,
               Applies(t, copy[v].st), Commits(v, t.type, b)
        PROVE  copy'[w].st = copy[w].st \/ copy'[w].st = m
    <3>1. m = b
      BY <2>2, CommitsToLog DEF Applies, Handles
    <3> QED
      BY <2>2, <3>1 DEF Commits
  <2> QED
    BY <1>3, <2>1, <2>2 DEF Steps
<1>4. held[w] \/ TakeLoad(w)
  <2>1. CASE UNCHANGED held
    BY <2>1
  <2>2. ASSUME NEW v \in Workers, held' = [held EXCEPT ![v] = FALSE]
        PROVE  held[w]
    BY <2>2 DEF TypeOK
  <2>3. ASSUME NEW v \in Workers, TakeLoad(v)
        PROVE  held[w] \/ TakeLoad(w)
    BY <2>3 DEF TakeLoad, TypeOK
  <2>4. ASSUME NEW v \in Workers,
               \/ \E j \in Jobs : ClaimJob(v, j)
               \/ \E t \in armed : PollTimer(v, t)
               \/ \E r \in active[v] : Finish(v, r)
               \/ Reap(v) \/ Renew(v) \/ RedeliverJob(v) \/ BeginClose(v) \/ TakeHeld(v)
               \/ TakeRead(v) \/ TakeAcquire(v) \/ TakeRecord(v) \/ SkipTrigger(v)
               \/ FinishTrigger(v)
        PROVE  UNCHANGED held
    BY <2>4 DEF ClaimJob, PollTimer, Finish, FinishExecution, Reap, Renew, RedeliverJob,
                BeginClose, TakeHeld, TakeRead, TakeAcquire, TakeRecord, SkipTrigger,
                FinishTrigger, workers
  <2>5. ASSUME RequestCancel \/ DeadlinePasses \/ LeaseLapses \/ \E n \in HumanNodes : Respond(n)
        PROVE  UNCHANGED held
    BY <2>5 DEF RequestCancel, DeadlinePasses, LeaseLapses, Respond, workers
  <2>6. ASSUME NEW v \in Workers,
               Crash(v) \/ EndClose(v) \/ LoseLease(v) \/ Perform(v) \/ PerformFails(v)
        PROVE  UNCHANGED held \/ held' = [held EXCEPT ![v] = FALSE]
    BY <2>6 DEF Crash, EndClose, Forget, LoseLease, Drop, Perform, PerformFails
  <2>7. ASSUME NEW v \in Workers, RecoverLost(v) \/ RunTrigger(v) \/ HandleResponse(v)
        PROVE  UNCHANGED held \/ held' = [held EXCEPT ![v] = FALSE]
    <3>1. \E t, next, b : Outcome(v, t, next, b)
      BY <2>7, HandlersStep
    <3> QED
      BY <3>1 DEF Outcome, Append_, Refused, Drop, Broken
  <2> QED
    BY <2>1, <2>2, <2>3, <2>4, <2>5, <2>6, <2>7 DEF Next, Handle, Maintain, vars
<1>5. CASE TakeLoad(w)
  <2>1. m = LogState /\ Recover(ckpt, log) = LogState
    BY <1>5 DEF TakeLoad, store, LogState, MemoryIsReplay, Recover
  <2> QED
    BY <1>5, <2>1 DEF TakeLoad, TypeOK
<1> QED
  BY <1>2, <1>3, <1>4, <1>5, NextShape

\* a handler has its trigger behind it after a step if it had, or it has just stepped
\* its copy with it.
Stepped(w) ==
  /\ queue'[w] = queue[w]
  /\ queue[w] # <<>> /\ held[w] /\ copy[w] # NoRun
  /\ \E b \in State, lt \in BOOLEAN :
       /\ b = Step(copy[w].st, Head(queue[w]), lt)
       /\ \/ b = copy[w].st /\ UNCHANGED log
          \/ LogState' = b /\ ~(b.run \in Terminal)

LEMMA NextBeyond ==
  ASSUME TypeOK, TypeOK', MemoryIsReplay, ~Over', [Next]_vars, NEW w \in Workers, Beyond(w)'
  PROVE  Head(queue'[w]) = Head(queue[w]) /\ (Beyond(w) \/ Stepped(w))
<1> DEFINE Goal == Head(queue'[w]) = Head(queue[w]) /\ (Beyond(w) \/ Stepped(w))
<1>0. /\ queue \in [Workers -> Seq(Triggers)] /\ pc \in [Workers -> PcValues]
      /\ todo \in [Workers -> Effects]
  BY DEF TypeOK
<1>1. pc'[w] \in {"human", "perform"} /\ pc'[w] # "idle"
  BY DEF Beyond
<1>2. ASSUME UNCHANGED <<queue, pc, todo>>
      PROVE  Goal
  BY <1>2 DEF Beyond
<1>3. ASSUME NEW v \in Workers, NEW t \in Triggers, Enqueue(v, t), UNCHANGED <<pc, todo>>
      PROVE  Goal
  <2>1. queue[w] # <<>> /\ Beyond(w)
    BY <1>1, <1>3 DEF TypeOK, Beyond
  <2>2. queue'[w] = queue[w] \/ queue'[w] = Append(queue[w], t)
    BY <1>0, <1>3 DEF Enqueue
  <2>3. Head(Append(queue[w], t)) = Head(queue[w])
    BY <1>0, <2>1
  <2> QED
    BY <2>1, <2>2, <2>3
<1>4. ASSUME NEW v \in Workers, \A u \in Workers \ {v} : UNCHANGED <<queue[u], pc[u], todo[u]>>,
             pc'[v] \notin {"human", "perform"}
      PROVE  Goal
  <2>1. w # v
    BY <1>1, <1>4
  <2> QED
    BY <1>4, <2>1 DEF Beyond
<1> HIDE DEF Goal
<1>5. ASSUME NEW v \in Workers,
             \/ \E j \in Jobs : ClaimJob(v, j)
             \/ \E t \in armed : PollTimer(v, t)
             \/ \E r \in active[v] : Finish(v, r)
             \/ Reap(v) \/ Renew(v)
      PROVE  Goal
  <2>1. UNCHANGED <<pc, todo>>
    BY <1>5 DEF ClaimJob, PollTimer, Finish, FinishExecution, Reap, Renew
  <2>2. (\E t \in Triggers : Enqueue(v, t)) \/ UNCHANGED queue
    <3>1. \A t \in armed : Trigger("timer", t, "ok", "timer") \in Triggers
      BY DEF Trigger, Triggers, TypeOK, ResultTypes, Sources
    <3>2. \A r \in active[v], result \in ResultTypes :
            Trigger("node_result", r, result, "exec") \in Triggers
      BY DEF Trigger, Triggers, TypeOK, TimerId, Sources
    <3>3. Plain("resume", "reap") \in Triggers /\ Plain("cancel", "heartbeat") \in Triggers
      BY DEF Plain, Trigger, Triggers, TimerId, ResultTypes, Sources, JobTypes
    <3>4. \A j \in Jobs : Trigger(j.type, j.id, "ok", "job") \in Triggers
      BY JobValues DEF Trigger, Triggers, JobOf, ResultTypes, Sources
    <3> QED
      BY <1>5, <3>1, <3>2, <3>3, <3>4 DEF ClaimJob, PollTimer, Finish, FinishExecution, Reap, Renew
  <2> QED
    BY <1>2, <1>3, <2>1, <2>2
<1>6. ASSUME NEW v \in Workers, LoseLease(v) \/ RedeliverJob(v) \/ BeginClose(v)
      PROVE  Goal
  BY <1>2, <1>6 DEF LoseLease, RedeliverJob, BeginClose, workers
<1>7. ASSUME RequestCancel \/ DeadlinePasses \/ LeaseLapses \/ \E n \in HumanNodes : Respond(n)
      PROVE  Goal
  BY <1>2, <1>7 DEF RequestCancel, DeadlinePasses, LeaseLapses, Respond, workers
<1>8. ASSUME UNCHANGED vars
      PROVE  Goal
  BY <1>2, <1>8 DEF vars
<1>9. ASSUME NEW v \in Workers,
             \/ TakeHeld(v) \/ TakeRead(v) \/ TakeAcquire(v) \/ TakeLoad(v) \/ TakeRecord(v)
             \/ SkipTrigger(v) \/ FinishTrigger(v)
      PROVE  Goal
  <2>1. UNCHANGED todo
    BY <1>9 DEF TakeHeld, TakeRead, TakeAcquire, TakeLoad, TakeRecord, SkipTrigger, FinishTrigger
  <2>2. /\ \E where \in {"idle", "acquireNew", "acquire", "loadNew", "load", "taken", "recover"} :
             pc' = [pc EXCEPT ![v] = where]
        /\ \A u \in Workers \ {v} : queue'[u] = queue[u]
    BY <1>0, <1>9 DEF TakeHeld, TakeRead, TakeAcquire, TakeLoad, TakeRecord, SkipTrigger,
                      FinishTrigger, Goto, Return, store
  <2>3. pc'[v] \notin {"human", "perform"} /\ \A u \in Workers \ {v} : pc'[u] = pc[u]
    BY <1>0, <2>2
  <2> QED
    BY <1>4, <2>1, <2>2, <2>3
<1>10. ASSUME NEW v \in Workers, PerformFails(v) \/ Crash(v) \/ EndClose(v)
       PROVE  Goal
  <2>1. /\ pc' = [pc EXCEPT ![v] = "idle"] /\ todo' = [todo EXCEPT ![v] = NoEffects]
        /\ queue' = [queue EXCEPT ![v] = Tail(@)] \/ queue' = [queue EXCEPT ![v] = <<>>]
    BY <1>10 DEF PerformFails, Goto, Crash, EndClose, Forget
  <2>2. pc'[v] = "idle" /\ \A u \in Workers \ {v} : UNCHANGED <<queue[u], pc[u], todo[u]>>
    BY <1>0, <2>1
  <2> QED
    BY <1>4, <2>2
<1>11. ASSUME NEW v \in Workers, Perform(v)
       PROVE  Goal
  <2>1. /\ pc[v] = "perform" /\ pc' = [pc EXCEPT ![v] = todo[v].next]
        /\ todo' = [todo EXCEPT ![v] = NoEffects] /\ queue' = queue
    BY <1>11 DEF Perform, Goto
  <2>2. NoEffects.next = "idle"
    BY DEF NoEffects
  <2>3. Beyond(w)
    BY <1>0, <2>1, <2>2 DEF Beyond
  <2> QED
    BY <2>1, <2>3 DEF Goal
<1>12. ASSUME NEW v \in Workers, RecoverLost(v) \/ RunTrigger(v) \/ HandleResponse(v)
       PROVE  Goal
  <2>1. Working(v) /\ queue[v] # <<>> /\ copy[v].st \in State /\ copy[v] # NoRun
    BY <1>12, HandlersStep
  <2>2. PICK t, next : /\ Stepping(v, t, next) /\ Handles(t)
                       /\ \E b \in State, lt \in BOOLEAN :
                            b = Step(copy[v].st, t, lt) /\ Outcome(v, t, next, b)
    BY <1>12, HandlersStep
  <2>3. PICK b \in State, lt \in BOOLEAN :
               b = Step(copy[v].st, t, lt) /\ Outcome(v, t, next, b)
    BY <2>2
  <2>4. CASE Refused(v) \/ Broken(v, copy[v].st, b, t)
    <3>1. /\ pc' = [pc EXCEPT ![v] = "idle"] /\ todo' = todo
          /\ queue' = [queue EXCEPT ![v] = Tail(@)]
      BY <2>4 DEF Refused, Return, Broken, Goto
    <3>2. pc'[v] = "idle" /\ \A u \in Workers \ {v} : UNCHANGED <<queue[u], pc[u], todo[u]>>
      BY <1>0, <3>1
    <3> QED
      BY <1>4, <3>2
  <2>5. CASE /\ b = copy[v].st /\ pc' = [pc EXCEPT ![v] = next]
             /\ UNCHANGED <<log, queue, todo>>
    <3>1. CASE w # v
      BY <1>0, <2>5, <3>1 DEF Beyond, Goal
    <3>2. CASE w = v
      <4>1. next = "human"
        BY <1>0, <1>1, <2>2, <2>5, <3>2 DEF Stepping
      <4>2. Beyond(w) \/ (t = Head(queue[w]) /\ held[w])
        BY <2>2, <3>2, <4>1 DEF Stepping, Beyond
      <4> QED
        BY <2>1, <2>3, <2>5, <3>2, <4>2 DEF Stepped, Goal
    <3> QED
      BY <3>1, <3>2
  <2>6. CASE Append_(v, copy[v].st, b, t, next)
    <3>1. /\ Fenced(v) /\ log' = Append(log, EntryOf(t.type, copy[v].st, b))
          /\ todo' = [todo EXCEPT ![v] = EffectsOf(copy[v].st, b, t, next)]
          /\ pc' = [pc EXCEPT ![v] = "perform"] /\ queue' = queue
      BY <2>6 DEF Append_, Goto
    <3>2. LogState' = b /\ b.run \notin Terminal
      BY <2>1, <2>2, <3>1, AppendIsLogs
    <3>3. CASE w # v
      BY <1>0, <3>1, <3>3 DEF Beyond, Goal
    <3>4. CASE w = v
      <4>1. next = "human"
        <5>1. todo'[v].next = next
          BY <1>0, <3>1 DEF EffectsOf
        <5> QED
          BY <1>0, <3>1, <3>4, <5>1 DEF Beyond
      <4>2. Beyond(w) \/ (t = Head(queue[w]) /\ held[w])
        BY <2>2, <3>4, <4>1 DEF Stepping, Beyond
      <4> QED
        BY <2>1, <2>3, <3>1, <3>2, <3>4, <4>2 DEF Stepped, Goal
    <3> QED
      BY <3>3, <3>4
  <2> QED
    BY <2>3, <2>4, <2>5, <2>6 DEF Outcome, Goto
<1>13. Goal
  BY <1>5, <1>6, <1>7, <1>8, <1>9, <1>10, <1>11, <1>12 DEF Next, Handle, Maintain
<1> QED
  BY <1>13 DEF Goal

\* every action keeps the rows, the polled triggers and the handlers' progress.
LEMMA NextTimers ==
  ASSUME TypeOK, TypeOK', MemoryIsReplay, EndedIsUnleased, CopiesBehind, CopiesBehind',
         Driven, TimersFollowed, [Next]_vars
  PROVE  TimersFollowed'
<1> SUFFICES ASSUME ~Over, ~Over', RowsNamed, PolledNamed, HeadTold,
                    NEW l, l = LogState, NEW m, m = LogState'
             PROVE  /\ \A r \in armed' \ {Deadline} : Named(m, r)
                    /\ \A r \in marked' \ {Deadline} : Spent(m, r)
                    /\ \A w \in Workers : \A i \in DOMAIN queue'[w] :
                         Polled(queue'[w][i]) =>
                           /\ queue'[w][i].type = "timer"
                           /\ Named(m, queue'[w][i].id)
                           /\ held'[w] => Named(copy'[w].st, queue'[w][i].id)
                    /\ \A w \in Workers : Beyond(w)' =>
                         /\ Polled(Head(queue'[w])) => Spent(m, Head(queue'[w]).id)
                         /\ Head(queue'[w]).type # "cancel"
  BY OverStays DEF TimersFollowed, RowsNamed, PolledNamed, HeadTold
<1>1. \A r \in NodeRun : /\ Spent(l, r) => Spent(m, r)
                         /\ Named(l, r) => Named(m, r)
  BY LogSpends
<1>2. armed \subseteq TimerId /\ marked \subseteq TimerId /\ marked' \subseteq TimerId
  BY DEF TypeOK
<1>3. ASSUME NEW w \in Workers, NEW i \in DOMAIN queue[w], Polled(queue[w][i])
      PROVE  queue[w][i].id \in NodeRun
  <2>1. queue[w][i] \in Triggers
    BY ElementOfSeq, LenProperties DEF TypeOK
  <2> QED
    BY <1>3, <2>1 DEF Triggers, TimerId, Polled
<1>4. /\ armed' \subseteq armed \cup m.timers \cup {Deadline}
      /\ \A r \in marked' \ marked : r = Deadline \/ Spent(l, r) \/ Spent(m, r)
  BY NextRows
<1>5. ASSUME NEW r \in armed' \ {Deadline}
      PROVE  Named(m, r)
  <2>1. \A q \in m.timers : Named(m, q)
    BY DEF CopiesBehind, Behind, Orderly, TimersNamed
  <2>2. r \in armed => r \in NodeRun /\ Named(l, r)
    BY <1>2 DEF RowsNamed, TimerId
  <2> QED
    BY <1>1, <1>4, <2>1, <2>2
<1>6. ASSUME NEW r \in marked' \ {Deadline}
      PROVE  Spent(m, r)
  <2>1. r \in marked => Spent(l, r)
    BY DEF RowsNamed
  <2>2. r \in NodeRun
    BY <1>2 DEF TimerId
  <2> QED
    BY <1>1, <1>4, <2>1, <2>2
<1>7. ASSUME NEW w \in Workers, NEW i \in DOMAIN queue'[w], Polled(queue'[w][i])
      PROVE  /\ queue'[w][i].type = "timer"
             /\ Named(m, queue'[w][i].id)
             /\ held'[w] => Named(copy'[w].st, queue'[w][i].id)
  <2>1. CASE \E k \in DOMAIN queue[w] : queue'[w][i] = queue[w][k]
    <3>1. PICK k \in DOMAIN queue[w] : queue'[w][i] = queue[w][k]
      BY <2>1
    <3>2. /\ queue[w][k].type = "timer" /\ queue[w][k].id \in NodeRun
          /\ Named(l, queue[w][k].id)
          /\ held[w] => Named(copy[w].st, queue[w][k].id)
      BY <1>3, <1>7, <3>1 DEF PolledNamed
    <3>3. held'[w] => (held[w] /\ copy'[w].st = copy[w].st) \/ copy'[w].st = m
      BY NextHeld
    <3> QED
      BY <1>1, <3>1, <3>2, <3>3
  <2>2. CASE Enters(w, queue'[w][i])
    <3>1. /\ queue'[w][i].type = "timer" /\ queue'[w][i].id \in armed \ {Deadline}
          /\ ~closing[w] /\ UNCHANGED <<log, copy, held>>
      BY <1>7, <2>2 DEF Enters, Polled
    <3>2. m = l /\ Named(l, queue'[w][i].id)
      BY <3>1 DEF RowsNamed, LogState
    <3>3. held[w] => copy[w].st = l
      <4>1. held[w] => copy[w] # NoRun /\ copy[w].seq = Len(log)
        BY <3>1 DEF TypeOK, Driven, Drives
      <4> QED
        BY <4>1, WholeCopy
    <3> QED
      BY <3>1, <3>2, <3>3
  <2> QED
    BY <2>1, <2>2, NextQueues
<1>8. ASSUME NEW w \in Workers, Beyond(w)'
      PROVE  /\ Polled(Head(queue'[w])) => Spent(m, Head(queue'[w]).id)
             /\ Head(queue'[w]).type # "cancel"
  <2>1. Head(queue'[w]) = Head(queue[w]) /\ (Beyond(w) \/ Stepped(w))
    BY <1>8, NextBeyond
  <2>2. queue[w] # <<>>
    BY <2>1 DEF Beyond, Stepped, TypeOK
  <2>3. Head(queue[w]) = queue[w][1] /\ 1 \in DOMAIN queue[w]
    BY <2>2, QueueAdvanced DEF TypeOK
  <2>4. Polled(Head(queue[w])) => Head(queue[w]).id \in NodeRun
    BY <1>3, <2>3
  <2>5. CASE Beyond(w)
    BY <1>1, <2>1, <2>4, <2>5 DEF HeadTold
  <2>6. CASE Stepped(w)
    <3>1. PICK b \in State, lt \in BOOLEAN :
            /\ b = Step(copy[w].st, Head(queue[w]), lt)
            /\ \/ b = copy[w].st /\ UNCHANGED log
               \/ LogState' = b /\ ~(b.run \in Terminal)
      BY <2>6 DEF Stepped
    <3>2. copy[w].st \in State /\ Behind(copy[w].st, l) /\ held[w]
      BY <2>6 DEF Stepped, TypeOK, CopiesBehind
    <3>3. b.run \notin Terminal
      <4>1. l.run \notin Terminal
        BY DbStatusIsLog DEF Over
      <4> QED
        BY <3>1, <3>2, <4>1 DEF Behind
    <3>4. Head(queue[w]).type # "cancel"
      BY <3>1, <3>2, <3>3, CancelEnds
    <3>5. ASSUME Polled(Head(queue[w]))
          PROVE  Spent(m, Head(queue[w]).id)
      <4>1. /\ Head(queue[w]).type = "timer" /\ Head(queue[w]).id \in NodeRun
            /\ Named(copy[w].st, Head(queue[w]).id)
        BY <2>3, <2>4, <3>2, <3>5 DEF PolledNamed
      <4>2. Spent(b, Head(queue[w]).id)
        BY <3>1, <3>2, <4>1, TimerSpends DEF Behind, Orderly
      <4> QED
        BY <1>1, <3>1, <3>2, <4>1, <4>2 DEF Behind
    <3> QED
      BY <2>1, <3>4, <3>5
  <2> QED
    BY <2>1, <2>5, <2>6
<1> QED
  BY <1>5, <1>6, <1>7, <1>8

LEMMA TimersAreFollowed ==
  ASSUME NoStall, RecoveryResumes
  PROVE  Spec => []TimersFollowed
<1>1. Init => TimersFollowed
  BY DEF Init, TimersFollowed, RowsNamed, PolledNamed, HeadTold, Beyond
<1>2. TypeOK /\ TypeOK' /\ MemoryIsReplay /\ EndedIsUnleased /\ CopiesBehind /\ CopiesBehind'
        /\ Driven /\ TimersFollowed /\ [Next]_vars => TimersFollowed'
  BY NextTimers
<1> QED
  BY <1>1, <1>2, TypeCorrect, MemoryCorrect, EndIsKept, BehindIsKept, DrivenIsKept, PTL DEF Spec

\* A timer's row is marked fired only when its node run is over.
THEOREM MarkedHandled ==
  ASSUME NoStall, RecoveryResumes
  PROVE  Spec => []MarkedIsHandled
<1>1. TypeOK /\ LogInvariant /\ TimersFollowed => MarkedIsHandled
  <2> SUFFICES ASSUME TypeOK, LogInvariant, TimersFollowed,
                      NEW t \in marked \ {Deadline},
                      t = RunOf(LogState, t[1]), StatusOf(LogState, t) \in Active
               PROVE  FALSE
    BY DEF MarkedIsHandled
  <2>1. /\ t \in NodeRun /\ t[1] \in Nodes
        /\ t[2] = LogState.nodes[t[1]].att /\ t[3] = LogState.nodes[t[1]].turn
        /\ t[2] \in Nat /\ t[3] \in Nat
    BY DEF TypeOK, TimerId, NodeRun, RunOf
  <2>2. ~Over
    BY <2>1, DbStatusIsLog DEF LogInvariant, SettledState, AnyActive, StatusOf, Over
  <2>3. Spent(LogState, t)
    BY <2>2 DEF TimersFollowed, RowsNamed
  <2> QED
    BY <2>1, <2>3 DEF Spent, StatusOf, Active, Resolved
<1> QED
  BY <1>1, TypeCorrect, LogIsKept, TimersAreFollowed, PTL

-----------------------------------------------------------------------------
(***************************************************************************)
(* No accepted request is forgotten.  The job a request enqueues waits, in *)
(* the queue or in the mutex of a worker, until a handler has polled the   *)
(* tasks behind it: the handler that answers a node on its way parks the   *)
(* run and may return with other answers unread, but each answer has a job *)
(* of its own, so there are never fewer jobs than answers to read.         *)
(***************************************************************************)
\* The API enqueues what it has committed.
NoApiStop == "api" \notin Faults

\* The handler has used its job up: it parked the run and will return.
Credited(w) ==
  \/ pc[w] = "human" /\ ~held[w]
  \/ pc[w] = "perform" /\ todo[w].next = "human" /\ todo[w].release
QueuedAs(w, j) ==
  \E i \in DOMAIN queue[w] : /\ queue[w][i].src = "job" /\ JobOf(queue[w][i]) = j
                             /\ i # 1 \/ ~Credited(w)
Pending(j) == j \in jobs \/ \E w \in Workers : QueuedAs(w, j)

\* The job a handler is at.
HeadsJob(w, j) ==
  queue[w] # <<>> /\ Head(queue[w]).src = "job" /\ JobOf(Head(queue[w])) = j

\* a queue that only grows keeps its jobs.
LEMMA QueuedStays ==
  ASSUME TypeOK, NEW w \in Workers, NEW j, QueuedAs(w, j), Credited(w)' => Credited(w),
         queue'[w] = queue[w] \/ \E t \in Triggers : queue'[w] = Append(queue[w], t)
  PROVE  QueuedAs(w, j)'
<1>1. queue[w] \in Seq(Triggers)
  BY DEF TypeOK
<1>2. PICK i \in DOMAIN queue[w] : /\ queue[w][i].src = "job" /\ JobOf(queue[w][i]) = j
                                   /\ i # 1 \/ ~Credited(w)
  BY DEF QueuedAs
<1>3. i \in DOMAIN queue'[w] /\ queue'[w][i] = queue[w][i]
  BY <1>1, QueueAppended
<1> QED
  BY <1>2, <1>3 DEF QueuedAs, JobOf

\* a job that enters an empty mutex is not used up yet.
LEMMA QueuedEnters ==
  ASSUME TypeOK, NEW w \in Workers, NEW t \in Triggers, t.src = "job",
         queue'[w] = Append(queue[w], t), UNCHANGED <<pc, held, todo>>
  PROVE  QueuedAs(w, JobOf(t))'
<1>1. queue[w] \in Seq(Triggers)
  BY DEF TypeOK
<1>2. Len(queue[w]) + 1 \in DOMAIN queue'[w] /\ queue'[w][Len(queue[w]) + 1] = t
  BY <1>1, QueueAppended
<1>3. Len(queue[w]) + 1 = 1 => ~Credited(w)'
  <2>1. Len(queue[w]) + 1 = 1 => queue[w] = <<>>
    BY <1>1, EmptySeq, LenProperties
  <2> QED
    BY <2>1 DEF TypeOK, Credited
<1> QED
  BY <1>2, <1>3 DEF QueuedAs, JobOf

\* the jobs behind the first one move up.
LEMMA QueuedAdvances ==
  ASSUME TypeOK, NEW w \in Workers, NEW j, QueuedAs(w, j), queue[w] # <<>>,
         queue'[w] = Tail(queue[w]), pc'[w] = "idle"
  PROVE  QueuedAs(w, j)' \/ HeadsJob(w, j)
<1>1. queue[w] \in Seq(Triggers)
  BY DEF TypeOK
<1>2. PICK i \in DOMAIN queue[w] : /\ queue[w][i].src = "job" /\ JobOf(queue[w][i]) = j
  BY DEF QueuedAs
<1>3. CASE i = 1
  BY <1>1, <1>2, <1>3, QueueAdvanced DEF HeadsJob
<1>4. CASE i # 1
  <2>1. i - 1 \in DOMAIN queue'[w] /\ queue'[w][i - 1] = queue[w][i]
    BY <1>1, <1>4, QueueAdvanced
  <2>2. ~Credited(w)'
    BY DEF Credited
  <2> QED
    BY <1>2, <2>1, <2>2 DEF QueuedAs, JobOf
<1> QED
  BY <1>3, <1>4

\* a step that moves no queue.
LEMMA PendingStays ==
  ASSUME TypeOK, NEW j, Pending(j), jobs \subseteq jobs',
         \A v \in Workers : Credited(v)' => Credited(v),
         \/ queue' = queue
         \/ \E v \in Workers, t \in Triggers : Enqueue(v, t)
  PROVE  Pending(j)'
<1>1. \A v \in Workers : queue'[v] = queue[v] \/ \E t \in Triggers : queue'[v] = Append(queue[v], t)
  BY DEF TypeOK, Enqueue
<1>2. \A v \in Workers : QueuedAs(v, j) => QueuedAs(v, j)'
  BY <1>1, QueuedStays
<1> QED
  BY <1>2 DEF Pending

\* a handler that returns keeps the jobs behind its own.
LEMMA PendingReturns ==
  ASSUME TypeOK, NEW w \in Workers, NEW j, Pending(j), queue[w] # <<>>,
         queue' = [queue EXCEPT ![w] = Tail(@)], pc' = [pc EXCEPT ![w] = "idle"],
         jobs \subseteq jobs',
         \A v \in Workers \ {w} : held'[v] = held[v] /\ todo'[v] = todo[v]
  PROVE  Pending(j)' \/ HeadsJob(w, j)
<1>1. /\ queue'[w] = Tail(queue[w]) /\ pc'[w] = "idle"
      /\ \A v \in Workers \ {w} : queue'[v] = queue[v] /\ pc'[v] = pc[v]
  BY DEF TypeOK
<1>2. \A v \in Workers \ {w} : Credited(v)' => Credited(v)
  BY <1>1 DEF Credited
<1>3. \A v \in Workers \ {w} : QueuedAs(v, j) => QueuedAs(v, j)'
  BY <1>1, <1>2, QueuedStays
<1>4. QueuedAs(w, j) => QueuedAs(w, j)' \/ HeadsJob(w, j)
  BY <1>1, QueuedAdvances
<1> QED
  BY <1>3, <1>4 DEF Pending

\* a handler that fails, or is refused, gives its job back.
LEMMA PendingGivenBack ==
  ASSUME TypeOK, NEW w \in Workers, NEW j, Pending(j), queue[w] # <<>>,
         queue' = [queue EXCEPT ![w] = Tail(@)], pc' = [pc EXCEPT ![w] = "idle"],
         NEW result \in {"busy", "lost", "error"}, jobs' = JobsAfter(w, result),
         \A v \in Workers \ {w} : held'[v] = held[v] /\ todo'[v] = todo[v]
  PROVE  Pending(j)'
<1>1. jobs \subseteq jobs'
  BY DEF JobsAfter
<1>2. HeadsJob(w, j) => j \in jobs'
  BY DEF HeadsJob, JobsAfter
<1>3. Pending(j)' \/ HeadsJob(w, j)
  BY <1>1, PendingReturns
<1> QED
  BY <1>2, <1>3 DEF Pending

\* The handler reads the tasks: it answers a node and parks the run, or finds none to
\* answer.
Reads(w) ==
  /\ pc[w] = "human" /\ held[w]
  /\ pc'[w] # "human" /\ \A v \in Workers \ {w} : pc'[v] = pc[v]
  /\ \/ Answered(w) = {} /\ UNCHANGED log
     \/ \E n \in Answered(w), lt \in BOOLEAN :
          /\ Fenced(w) /\ LogState' = Step(copy[w].st, Response(n), lt)
          /\ LogState'.run = "waiting"

\* a step of a handler loses its job only to the reading of the tasks.
LEMMA PendingStepped ==
  ASSUME TypeOK, MemoryIsReplay, CopiesBehind, Driven, ~Over, ~Over',
         NEW w \in Workers, RecoverLost(w) \/ RunTrigger(w) \/ HandleResponse(w),
         NEW j, j.type \in {"resume", "cancel"}, Pending(j)
  PROVE  Pending(j)' \/ (HeadsJob(w, j) /\ Reads(w))
<1>0. /\ pc \in [Workers -> PcValues] /\ held \in [Workers -> BOOLEAN]
      /\ queue \in [Workers -> Seq(Triggers)] /\ todo \in [Workers -> Effects]
  BY DEF TypeOK
<1>1. Working(w) /\ queue[w] # <<>> /\ copy[w].st \in State /\ copy[w] # NoRun
  BY HandlersStep
<1>2. PICK t, next : /\ Stepping(w, t, next) /\ Handles(t)
                     /\ \E b \in State, lt \in BOOLEAN :
                          b = Step(copy[w].st, t, lt) /\ Outcome(w, t, next, b)
  BY HandlersStep
<1>3. PICK b \in State, lt \in BOOLEAN :
             b = Step(copy[w].st, t, lt) /\ Outcome(w, t, next, b)
  BY <1>2
<1>4. held[w] /\ next \in {"trigger", "human"}
  BY <1>2 DEF Stepping, Driven, KeepsRun
<1>5. CASE /\ pc' = [pc EXCEPT ![w] = next]
           /\ UNCHANGED <<jobs, held, queue, todo>>
  <2>1. \A v \in Workers : Credited(v)' => Credited(v)
    BY <1>0, <1>4, <1>5 DEF Credited
  <2> QED
    BY <1>5, <2>1, PendingStays
<1>6. CASE Append_(w, copy[w].st, b, t, next)
  <2>1. /\ Fenced(w) /\ log' = Append(log, EntryOf(t.type, copy[w].st, b))
        /\ todo' = [todo EXCEPT ![w] = EffectsOf(copy[w].st, b, t, next)]
        /\ pc' = [pc EXCEPT ![w] = "perform"]
        /\ UNCHANGED <<jobs, held, queue>>
    BY <1>6 DEF Append_, Goto
  <2>2. /\ copy[w].st = LogState /\ LogState' = b /\ b.run \notin Terminal
    BY <1>1, <1>2, <2>1, AppendIsLogs
  <2>3. /\ pc'[w] = "perform" /\ todo'[w].next = next
        /\ todo'[w].release = Releases(copy[w].st, t, b)
        /\ \A v \in Workers \ {w} : pc'[v] = pc[v] /\ todo'[v] = todo[v]
    BY <1>0, <2>1 DEF EffectsOf
  <2>4. \A v \in Workers \ {w} : Credited(v)' => Credited(v)
    BY <2>1, <2>3 DEF Credited
  <2>5. CASE ~Credited(w)'
    <3>1. \A v \in Workers : Credited(v)' => Credited(v)
      BY <2>4, <2>5
    <3> QED
      BY <2>1, <3>1, PendingStays
  <2>6. CASE Credited(w)' /\ pc[w] # "human"
    <3>1. next = "human" /\ Releases(copy[w].st, t, b) /\ t = Head(queue[w])
      BY <1>2, <2>3, <2>6 DEF Credited, Stepping
    <3>2. Orderly(copy[w].st)
      BY <1>1 DEF CopiesBehind, Behind
    <3>3. t.type # "resume"
      BY <1>1, <1>3, <2>2, <3>1, <3>2, ResumeParksNobody DEF Orderly
    <3>4. t.type # "cancel"
      BY <1>1, <1>3, <2>2, CancelEnds
    <3>5. ~HeadsJob(w, j)
      BY <3>1, <3>3, <3>4 DEF HeadsJob, JobOf
    <3>6. \A v \in Workers : QueuedAs(v, j) => QueuedAs(v, j)'
      <4>1. \A v \in Workers \ {w} : QueuedAs(v, j) => QueuedAs(v, j)'
        BY <2>1, <2>4, QueuedStays
      <4>2. QueuedAs(w, j) => QueuedAs(w, j)'
        <5>1. queue[w][1] = Head(queue[w])
          BY <1>0, <1>1, QueueAdvanced
        <5> QED
          BY <1>1, <2>1, <3>5, <5>1 DEF QueuedAs, HeadsJob, JobOf
      <4> QED
        BY <4>1, <4>2
    <3> QED
      BY <2>1, <3>6 DEF Pending
  <2>7. CASE Credited(w)' /\ pc[w] = "human"
    <3>1. PICK n \in Answered(w) : t = Response(n)
      BY <1>2, <2>7 DEF Stepping
    <3>2. LogState'.run = "waiting"
      BY <2>2, <2>3, <2>7 DEF Credited, Releases
    <3>3. Reads(w)
      BY <1>3, <1>4, <2>1, <2>2, <2>3, <2>7, <3>1, <3>2 DEF Reads
    <3>4. ~HeadsJob(w, j) => \A v \in Workers : QueuedAs(v, j) => QueuedAs(v, j)'
      <4>1. \A v \in Workers \ {w} : QueuedAs(v, j) => QueuedAs(v, j)'
        BY <2>1, <2>4, QueuedStays
      <4>2. queue[w][1] = Head(queue[w])
        BY <1>0, <1>1, QueueAdvanced
      <4>3. ~HeadsJob(w, j) /\ QueuedAs(w, j) => QueuedAs(w, j)'
        BY <1>1, <2>1, <4>2 DEF QueuedAs, HeadsJob, JobOf
      <4> QED
        BY <4>1, <4>3
    <3> QED
      BY <2>1, <2>7, <3>3, <3>4 DEF Pending
  <2> QED
    BY <2>5, <2>6, <2>7
<1>7. CASE Refused(w) \/ Broken(w, copy[w].st, b, t)
  <2>1. /\ queue' = [queue EXCEPT ![w] = Tail(@)] /\ pc' = [pc EXCEPT ![w] = "idle"]
        /\ held' = [held EXCEPT ![w] = FALSE] /\ todo' = todo
        /\ jobs' = JobsAfter(w, "lost") \/ jobs' = JobsAfter(w, "error")
    BY <1>7 DEF Refused, Return, Drop, Broken, Goto
  <2>2. \A v \in Workers \ {w} : held'[v] = held[v] /\ todo'[v] = todo[v]
    BY <1>0, <2>1
  <2> QED
    BY <1>1, <2>1, <2>2, PendingGivenBack
<1> QED
  BY <1>3, <1>5, <1>6, <1>7 DEF Outcome, Goto

\* so does every other step.
LEMMA PendingKept ==
  ASSUME TypeOK, TypeOK', MemoryIsReplay, CopiesBehind, Driven, ~Over, ~Over', [Next]_vars,
         NEW j \in Jobs, j.type \in {"resume", "cancel"}, Pending(j)
  PROVE  Pending(j)' \/ \E w \in Workers : HeadsJob(w, j) /\ Reads(w)
<1> DEFINE Goal == Pending(j)' \/ \E w \in Workers : HeadsJob(w, j) /\ Reads(w)
<1>0. /\ pc \in [Workers -> PcValues] /\ held \in [Workers -> BOOLEAN]
      /\ queue \in [Workers -> Seq(Triggers)] /\ todo \in [Workers -> Effects]
      /\ \A v \in Workers : Drives(v) /\ KeepsRun(v)
  BY DEF TypeOK, Driven
<1>1. ASSUME jobs \subseteq jobs', UNCHANGED <<queue, pc, held, todo>>
      PROVE  Goal
  <2>1. \A v \in Workers : Credited(v)' => Credited(v)
    BY <1>1 DEF Credited
  <2> QED
    BY <1>1, <2>1, PendingStays
<1>2. ASSUME NEW v \in Workers, NEW t \in Triggers, Enqueue(v, t),
             UNCHANGED <<jobs, pc, held, todo>>
      PROVE  Goal
  <2>1. \A u \in Workers : Credited(u)' => Credited(u)
    BY <1>2 DEF Credited
  <2> QED
    BY <1>2, <2>1, PendingStays
\* take(): the handler is before its step
<1>3. ASSUME NEW w \in Workers, pc'[w] \notin {"human", "perform"},
             \A v \in Workers \ {w} : pc'[v] = pc[v] /\ held'[v] = held[v],
             UNCHANGED <<jobs, queue, todo>>
      PROVE  Goal
  <2>1. \A v \in Workers : Credited(v)' => Credited(v)
    BY <1>3 DEF Credited
  <2> QED
    BY <1>3, <2>1, PendingStays
<1>4. ASSUME NEW w \in Workers, queue[w] # <<>>, NEW result \in {"busy", "error"},
             Return(w, result), UNCHANGED <<held, todo>>
      PROVE  Goal
  BY <1>4, PendingGivenBack DEF Return
<1> HIDE DEF Goal
<1>5. ASSUME NEW w \in Workers, NEW k \in Jobs, ClaimJob(w, k)
      PROVE  Goal
  <2>1. /\ jobs' = jobs \ {k} /\ Enqueue(w, Trigger(k.type, k.id, "ok", "job"))
        /\ UNCHANGED <<pc, held, todo>>
    BY <1>5 DEF ClaimJob
  <2> DEFINE t == Trigger(k.type, k.id, "ok", "job")
  <2>2. t \in Triggers /\ t.src = "job" /\ JobOf(t) = k
    <3>1. k.type \in JobTypes /\ k.id \in TimerId /\ k = [type |-> k.type, id |-> k.id]
      BY JobValues
    <3>2. t.type = k.type /\ t.id = k.id /\ t.src = "job" /\ JobOf(t) = k
      BY <3>1 DEF Trigger, JobOf
    <3> QED
      BY <3>1, <3>2 DEF Trigger, Triggers, ResultTypes, Sources
  <2> HIDE DEF t
  <2>3. /\ queue'[w] = Append(queue[w], t)
        /\ \A v \in Workers \ {w} : queue'[v] = queue[v]
    BY <1>0, <2>1 DEF Enqueue, t
  <2>4. QueuedAs(w, k)'
    BY <2>1, <2>2, <2>3, QueuedEnters DEF JobOf
  <2>5. \A v \in Workers : Credited(v)' => Credited(v)
    BY <2>1 DEF Credited
  <2>6. \A v \in Workers : QueuedAs(v, j) => QueuedAs(v, j)'
    BY <2>2, <2>3, <2>5, QueuedStays
  <2> QED
    BY <2>1, <2>4, <2>6 DEF Pending, Goal
<1>6. ASSUME NEW v \in Workers,
             \/ \E t \in armed : PollTimer(v, t)
             \/ \E r \in active[v] : Finish(v, r)
             \/ Reap(v) \/ Renew(v)
      PROVE  Goal
  <2>1. UNCHANGED <<jobs, pc, held, todo>>
    BY <1>6 DEF PollTimer, Finish, FinishExecution, Reap, Renew, store
  <2>2. (\E t \in Triggers : Enqueue(v, t)) \/ UNCHANGED queue
    <3>1. \A t \in armed : Trigger("timer", t, "ok", "timer") \in Triggers
      BY DEF Trigger, Triggers, TypeOK, ResultTypes, Sources
    <3>2. \A r \in active[v], result \in ResultTypes :
            Trigger("node_result", r, result, "exec") \in Triggers
      BY DEF Trigger, Triggers, TypeOK, TimerId, Sources
    <3>3. Plain("resume", "reap") \in Triggers /\ Plain("cancel", "heartbeat") \in Triggers
      BY DEF Plain, Trigger, Triggers, TimerId, ResultTypes, Sources, JobTypes
    <3> QED
      BY <1>6, <3>1, <3>2, <3>3 DEF PollTimer, Finish, FinishExecution, Reap, Renew
  <2> QED
    BY <1>1, <1>2, <2>1, <2>2
<1>7. ASSUME NEW v \in Workers, RedeliverJob(v) \/ BeginClose(v)
      PROVE  Goal
  BY <1>1, <1>7 DEF RedeliverJob, BeginClose, workers, store
<1>8. ASSUME RequestCancel \/ DeadlinePasses \/ LeaseLapses \/ \E n \in HumanNodes : Respond(n)
      PROVE  Goal
  BY <1>1, <1>8 DEF RequestCancel, DeadlinePasses, LeaseLapses, Respond, ApiEnqueues, workers, store
<1>9. ASSUME UNCHANGED vars
      PROVE  Goal
  BY <1>1, <1>9 DEF vars
<1>10. ASSUME NEW w \in Workers, LoseLease(w)
       PROVE  Goal
  BY <1>0, <1>10 DEF LoseLease, Drives, OwnsLease
<1>11. ASSUME NEW w \in Workers, TakeHeld(w) \/ TakeRead(w) \/ TakeLoad(w)
       PROVE  Goal
  <2>1. /\ \E where \in {"acquireNew", "acquire", "taken", "recover"} :
             pc' = [pc EXCEPT ![w] = where]
        /\ UNCHANGED <<jobs, queue, todo>>
        /\ held' = held \/ held' = [held EXCEPT ![w] = TRUE]
    BY <1>11 DEF TakeHeld, TakeRead, TakeLoad, Goto, Over, store
  <2>2. /\ pc'[w] \notin {"human", "perform"}
        /\ \A v \in Workers \ {w} : pc'[v] = pc[v] /\ held'[v] = held[v]
    BY <1>0, <2>1
  <2> QED
    BY <1>3, <2>1, <2>2
<1>12. ASSUME NEW w \in Workers, TakeAcquire(w) \/ TakeRecord(w)
       PROVE  Goal
  <2>1. UNCHANGED <<held, todo>> /\ queue[w] # <<>>
    BY <1>12 DEF TakeAcquire, TakeRecord, TypeOK
  <2>2. \/ /\ \E where \in {"loadNew", "load", "recover"} : pc' = [pc EXCEPT ![w] = where]
           /\ UNCHANGED <<jobs, queue>>
        \/ Return(w, "busy") \/ Return(w, "error")
    BY <1>12 DEF TakeAcquire, TakeRecord, Goto
  <2>3. CASE /\ \E where \in {"loadNew", "load", "recover"} : pc' = [pc EXCEPT ![w] = where]
             /\ UNCHANGED <<jobs, queue>>
    <3>1. /\ pc'[w] \notin {"human", "perform"}
          /\ \A v \in Workers \ {w} : pc'[v] = pc[v] /\ held'[v] = held[v]
      BY <1>0, <2>1, <2>3
    <3> QED
      BY <1>3, <2>1, <2>3, <3>1
  <2>4. CASE Return(w, "busy") \/ Return(w, "error")
    BY <1>4, <2>1, <2>4
  <2> QED
    BY <2>2, <2>3, <2>4
<1>13. ASSUME NEW w \in Workers, SkipTrigger(w)
       PROVE  Goal
  BY <1>0, <1>13 DEF SkipTrigger, NothingLost, KeepsRun
<1>14. ASSUME NEW w \in Workers, RecoverLost(w) \/ RunTrigger(w) \/ HandleResponse(w)
       PROVE  Goal
  BY <1>14, PendingStepped DEF Goal
<1>15. ASSUME NEW w \in Workers, FinishTrigger(w)
       PROVE  Goal
  <2>1. /\ pc[w] = "human" /\ queue[w] # <<>> /\ (~held[w] \/ Answered(w) = {})
        /\ queue' = [queue EXCEPT ![w] = Tail(@)] /\ pc' = [pc EXCEPT ![w] = "idle"]
        /\ jobs' = jobs /\ UNCHANGED <<held, todo, log>>
    BY <1>15 DEF FinishTrigger, Return, JobsAfter, TypeOK
  <2>2. CASE held[w]
    <3>1. Pending(j)' \/ HeadsJob(w, j)
      BY <2>1, PendingReturns
    <3>2. Reads(w)
      BY <1>0, <2>1, <2>2 DEF Reads
    <3> QED
      BY <3>1, <3>2 DEF Goal
  <2>3. CASE ~held[w]
    <3>1. Credited(w)
      BY <2>1, <2>3 DEF Credited
    <3>2. /\ queue'[w] = Tail(queue[w]) /\ pc'[w] = "idle"
          /\ \A v \in Workers \ {w} : queue'[v] = queue[v] /\ pc'[v] = pc[v]
      BY <1>0, <2>1
    <3>3. QueuedAs(w, j) => QueuedAs(w, j)'
      <4> SUFFICES ASSUME QueuedAs(w, j) PROVE QueuedAs(w, j)'
        OBVIOUS
      <4>1. PICK i \in DOMAIN queue[w] :
              queue[w][i].src = "job" /\ JobOf(queue[w][i]) = j /\ i # 1
        BY <3>1 DEF QueuedAs
      <4>2. i - 1 \in DOMAIN queue'[w] /\ queue'[w][i - 1] = queue[w][i]
        BY <1>0, <2>1, <3>2, <4>1, QueueAdvanced
      <4>3. ~Credited(w)'
        BY <3>2 DEF Credited
      <4> QED
        BY <4>1, <4>2, <4>3 DEF QueuedAs, JobOf
    <3>4. \A v \in Workers \ {w} : Credited(v)' => Credited(v)
      BY <2>1, <3>2 DEF Credited
    <3>5. \A v \in Workers \ {w} : QueuedAs(v, j) => QueuedAs(v, j)'
      BY <3>2, <3>4, QueuedStays
    <3> QED
      BY <2>1, <3>3, <3>5 DEF Pending, Goal
  <2> QED
    BY <2>2, <2>3
<1>16. ASSUME NEW w \in Workers, Perform(w)
       PROVE  Goal
  <2>1. /\ pc[w] = "perform" /\ pc' = [pc EXCEPT ![w] = todo[w].next]
        /\ todo' = [todo EXCEPT ![w] = NoEffects]
        /\ UNCHANGED <<jobs, queue>>
        /\ held' = held \/ (Releasing(w) /\ held' = [held EXCEPT ![w] = FALSE])
    BY <1>16 DEF Perform, Goto
  <2>2. /\ pc'[w] = todo[w].next /\ todo'[w].next = "idle"
        /\ held'[w] = held[w] \/ todo[w].release
        /\ \A v \in Workers \ {w} : pc'[v] = pc[v] /\ todo'[v] = todo[v] /\ held'[v] = held[v]
    BY <1>0, <2>1 DEF Releasing, NoEffects
  <2>3. held[w]
    BY <1>0, <2>1 DEF KeepsRun
  <2>4. \A v \in Workers : Credited(v)' => Credited(v)
    BY <2>1, <2>2, <2>3 DEF Credited
  <2> QED
    BY <2>1, <2>4, PendingStays DEF Goal
<1>17. ASSUME NEW w \in Workers, PerformFails(w)
       PROVE  Goal
  <2>1. /\ pc[w] = "perform" /\ queue' = [queue EXCEPT ![w] = Tail(@)]
        /\ pc' = [pc EXCEPT ![w] = "idle"] /\ jobs' = JobsAfter(w, "error")
        /\ held' = [held EXCEPT ![w] = FALSE] /\ todo' = [todo EXCEPT ![w] = NoEffects]
    BY <1>17 DEF PerformFails, Goto
  <2>2. queue[w] # <<>> /\ \A v \in Workers \ {w} : held'[v] = held[v] /\ todo'[v] = todo[v]
    BY <1>0, <2>1 DEF TypeOK
  <2> QED
    BY <2>1, <2>2, PendingGivenBack DEF Goal
<1>18. ASSUME NEW w \in Workers, Crash(w) \/ EndClose(w)
       PROVE  Goal
  <2>1. /\ queue' = [queue EXCEPT ![w] = <<>>] /\ pc' = [pc EXCEPT ![w] = "idle"]
        /\ held' = [held EXCEPT ![w] = FALSE] /\ todo' = [todo EXCEPT ![w] = NoEffects]
    BY <1>18 DEF Crash, EndClose, Forget
  <2>2. \A v \in Workers \ {w} :
          pc'[v] = pc[v] /\ todo'[v] = todo[v] /\ held'[v] = held[v] /\ queue'[v] = queue[v]
    BY <1>0, <2>1
  <2>3. jobs \subseteq jobs'
    BY <1>18 DEF Crash, EndClose
  <2>4. QueuedAs(w, j) => j \in jobs'
    <3>1. CASE Crash(w)
      <4>1. jobs' = jobs \cup JobsOf(w)
        BY <3>1 DEF Crash
      <4> QED
        BY <4>1 DEF QueuedAs, JobsOf
    <3>2. CASE EndClose(w)
      <4>1. DOMAIN queue[w] = {}
        BY <3>2 DEF EndClose
      <4> QED
        BY <4>1 DEF QueuedAs
    <3> QED
      BY <1>18, <3>1, <3>2
  <2>5. \A v \in Workers \ {w} : Credited(v)' => Credited(v)
    BY <2>2 DEF Credited
  <2>6. \A v \in Workers \ {w} : QueuedAs(v, j) => QueuedAs(v, j)'
    BY <2>2, <2>5, QueuedStays
  <2> QED
    BY <2>3, <2>4, <2>6 DEF Pending, Goal
<1>19. Goal
  BY <1>5, <1>6, <1>7, <1>8, <1>9, <1>10, <1>11, <1>12, <1>13, <1>14, <1>15, <1>16, <1>17, <1>18
     DEF Next, Handle, Maintain
<1> QED
  BY <1>19 DEF Goal

-----------------------------------------------------------------------------
(***************************************************************************)
(* The two requests.                                                       *)
(***************************************************************************)
CancelFollowed == cancelReq /\ ~Over => Pending(Job("cancel"))

\* The nodes whose answer the run has still to read.  The answer of a task resumes it,
\* and its handler reads on: only answered human nodes park the run, and make handlers
\* return with answers unread.  So a task either has its own job waiting, or is, like
\* the human nodes, one of those that need not be more than the jobs of human nodes.
Owed == {n \in HumanNodes : tasks[n] = "responded" /\ LogState.nodes[n].status = "waiting"}
Counted == {n \in Owed : Kind[n] = "task" => ~Pending(AnswerJob(n))}
Promised ==
  {n \in HumanNodes : Kind[n] = "human" /\ tasks[n] = "responded" /\ Pending(AnswerJob(n))}
AnswersFollowed == ~Over => Cardinality(Counted) <= Cardinality(Promised)

\* only the API requests a cancellation.
LEMMA NextCancel ==
  ASSUME [Next]_vars, cancelReq'
  PROVE  cancelReq \/ RequestCancel
<1>1. ASSUME NEW w \in Workers,
             \/ Reap(w) \/ Renew(w) \/ LoseLease(w) \/ RedeliverJob(w) \/ BeginClose(w)
             \/ \E j \in Jobs : ClaimJob(w, j)
             \/ \E t \in armed : PollTimer(w, t)
             \/ \E r \in active[w] : Finish(w, r)
             \/ TakeHeld(w) \/ TakeRead(w) \/ TakeAcquire(w) \/ TakeLoad(w) \/ TakeRecord(w)
             \/ SkipTrigger(w) \/ FinishTrigger(w)
      PROVE  cancelReq
  BY <1>1 DEF Reap, Renew, LoseLease, RedeliverJob, BeginClose, ClaimJob, PollTimer, Finish,
              FinishExecution, TakeHeld, TakeRead, TakeAcquire, TakeLoad, TakeRecord,
              SkipTrigger, FinishTrigger, store
<1>2. ASSUME NEW w \in Workers, Crash(w) \/ EndClose(w) \/ Perform(w) \/ PerformFails(w)
      PROVE  cancelReq
  BY <1>2 DEF Crash, EndClose, Perform, PerformFails
<1>3. ASSUME NEW w \in Workers, RecoverLost(w) \/ RunTrigger(w) \/ HandleResponse(w)
      PROVE  cancelReq
  BY <1>3 DEF RecoverLost, RunTrigger, HandleResponse, Commit
<1>4. ASSUME DeadlinePasses \/ LeaseLapses \/ \E n \in HumanNodes : Respond(n)
      PROVE  cancelReq
  BY <1>4 DEF DeadlinePasses, LeaseLapses, Respond, store
<1> QED
  BY <1>1, <1>2, <1>3, <1>4 DEF Next, Handle, Maintain, vars

\* the job of a cancel request is used up by no handler: its step would end the run.
LEMMA NextCancelFollowed ==
  ASSUME TypeOK, TypeOK', MemoryIsReplay, EndedIsUnleased, CopiesBehind, Driven, TimersFollowed,
         NoApiStop, CancelFollowed, [Next]_vars
  PROVE  CancelFollowed'
<1> DEFINE j == Job("cancel")
<1> SUFFICES ASSUME cancelReq', ~Over'
             PROVE  Pending(j)'
  BY DEF CancelFollowed, Job
<1>1. ~Over
  BY OverStays
<1>2. j \in Jobs /\ j.type = "cancel"
  BY JobValues DEF Job
<1>3. CASE RequestCancel
  BY <1>3 DEF RequestCancel, ApiEnqueues, Fault, NoApiStop, Pending
<1>4. CASE cancelReq
  <2>1. Pending(j)
    BY <1>1, <1>4 DEF CancelFollowed
  <2>2. ASSUME NEW w \in Workers, HeadsJob(w, j), Reads(w)
        PROVE  FALSE
    <3>1. Head(queue[w]).type # "cancel"
      BY <1>1, <2>2 DEF TimersFollowed, HeadTold, Reads, Beyond
    <3> QED
      BY <1>2, <2>2, <3>1 DEF HeadsJob, JobOf
  <2> HIDE DEF j
  <2> QED
    BY <1>1, <1>2, <2>1, <2>2, PendingKept
<1> QED
  BY <1>3, <1>4, NextCancel

\* a cancel request is followed up.
LEMMA CancelIsFollowed ==
  ASSUME NoStall, RecoveryResumes, NoApiStop
  PROVE  Spec => []CancelFollowed
<1>1. Init => CancelFollowed
  BY DEF Init, CancelFollowed
<1>2. TypeOK /\ TypeOK' /\ MemoryIsReplay /\ EndedIsUnleased /\ CopiesBehind /\ Driven
        /\ TimersFollowed /\ CancelFollowed /\ [Next]_vars => CancelFollowed'
  BY NextCancelFollowed
<1> QED
  BY <1>1, <1>2, TypeCorrect, MemoryCorrect, EndIsKept, BehindIsKept, DrivenIsKept,
     TimersAreFollowed, PTL DEF Spec

\* How what is owed and what is promised, o and p, may become x and q in a step.
Compares(o, p, x, q, n) ==
  \/ x = {}
  \/ x \subseteq o /\ p \subseteq q
  \/ n \in o /\ x \subseteq o \ {n} /\ \E k : p \subseteq q \cup {k}
  \/ n \in o /\ p \subseteq q /\ \E k : x \subseteq (o \ {n}) \cup {k}
  \/ x \subseteq o \cup {n} /\ n \notin p /\ p \cup {n} \subseteq q

\* then there are still no more answers to read than jobs.
LEMMA CountsCompare ==
  ASSUME NEW o, NEW p, NEW x, NEW q, NEW n, Compares(o, p, x, q, n),
         IsFiniteSet(o), IsFiniteSet(p), IsFiniteSet(x), IsFiniteSet(q),
         Cardinality(o) <= Cardinality(p)
  PROVE  Cardinality(x) <= Cardinality(q)
<1>1. /\ Cardinality(o) \in Nat /\ Cardinality(p) \in Nat
      /\ Cardinality(x) \in Nat /\ Cardinality(q) \in Nat
  BY FS_CardinalityType
<1>2. CASE x \subseteq o /\ p \subseteq q
  <2>1. Cardinality(x) <= Cardinality(o)
    BY <1>2, FS_Subset
  <2>2. Cardinality(p) <= Cardinality(q)
    BY <1>2, FS_Subset
  <2> QED
    BY <1>1, <2>1, <2>2
<1>3. CASE n \in o /\ x \subseteq o \ {n} /\ \E k : p \subseteq q \cup {k}
  <2>1. PICK k : p \subseteq q \cup {k}
    BY <1>3
  <2>2. IsFiniteSet(o \ {n}) /\ Cardinality(o \ {n}) = Cardinality(o) - 1
    BY <1>3, FS_RemoveElement
  <2>3. Cardinality(x) <= Cardinality(o \ {n})
    BY <1>3, <2>2, FS_Subset
  <2>4. IsFiniteSet(q \cup {k}) /\ Cardinality(q \cup {k}) <= Cardinality(q) + 1
    <3>1. CASE k \in q
      <4>1. q \cup {k} = q
        BY <3>1
      <4>2. IsFiniteSet(q \cup {k})
        BY <4>1
      <4>3. Cardinality(q \cup {k}) = Cardinality(q)
        BY <4>1
      <4> QED
        BY <1>1, <4>2, <4>3
    <3>2. CASE k \notin q
      <4>1. IsFiniteSet(q \cup {k}) /\ Cardinality(q \cup {k}) = Cardinality(q) + 1
        BY <3>2, FS_AddElement
      <4> QED
        BY <1>1, <4>1
    <3> QED
      BY <3>1, <3>2
  <2>5. Cardinality(p) <= Cardinality(q \cup {k}) /\ Cardinality(q \cup {k}) \in Nat
    <3>1. Cardinality(p) <= Cardinality(q \cup {k})
      BY <2>1, <2>4, FS_Subset
    <3>2. Cardinality(q \cup {k}) \in Nat
      BY <2>4, FS_CardinalityType
    <3> QED
      BY <3>1, <3>2
  <2>6. Cardinality(o \ {n}) \in Nat
    BY <2>2, FS_CardinalityType
  <2> QED
    BY <1>1, <2>2, <2>3, <2>4, <2>5, <2>6
<1>6. CASE n \in o /\ p \subseteq q /\ \E k : x \subseteq (o \ {n}) \cup {k}
  <2>1. PICK k : x \subseteq (o \ {n}) \cup {k}
    BY <1>6
  <2>2. IsFiniteSet(o \ {n}) /\ Cardinality(o \ {n}) = Cardinality(o) - 1
    BY <1>6, FS_RemoveElement
  <2>3. /\ IsFiniteSet((o \ {n}) \cup {k})
        /\ Cardinality((o \ {n}) \cup {k}) <= Cardinality(o)
        /\ Cardinality((o \ {n}) \cup {k}) \in Nat
    <3> DEFINE r == o \ {n}
    <3>1. CASE k \in r
      <4>1. r \cup {k} = r
        BY <3>1
      <4> HIDE DEF r
      <4>2. IsFiniteSet(r \cup {k}) /\ Cardinality(r \cup {k}) = Cardinality(r)
        BY <2>2, <4>1 DEF r
      <4>3. Cardinality(r) \in Nat
        BY <2>2, FS_CardinalityType DEF r
      <4> QED
        BY <1>1, <2>2, <4>2, <4>3 DEF r
    <3>2. CASE k \notin r
      <4> HIDE DEF r
      <4>1. IsFiniteSet(r)
        BY <2>2 DEF r
      <4>2. IsFiniteSet(r \cup {k}) /\ Cardinality(r \cup {k}) = Cardinality(r) + 1
        BY <3>2, <4>1, FS_AddElement
      <4> QED
        BY <1>1, <2>2, <4>2 DEF r
    <3> QED
      BY <3>1, <3>2
  <2>4. Cardinality(x) <= Cardinality((o \ {n}) \cup {k})
    BY <2>1, <2>3, FS_Subset
  <2>5. Cardinality(p) <= Cardinality(q)
    BY <1>6, FS_Subset
  <2> QED
    BY <1>1, <2>3, <2>4, <2>5
<1>4. CASE x \subseteq o \cup {n} /\ n \notin p /\ p \cup {n} \subseteq q
  <2>1. IsFiniteSet(p \cup {n}) /\ Cardinality(p \cup {n}) = Cardinality(p) + 1
    BY <1>4, FS_AddElement
  <2>2. Cardinality(p \cup {n}) <= Cardinality(q)
    BY <1>4, <2>1, FS_Subset
  <2>3. IsFiniteSet(o \cup {n}) /\ Cardinality(o \cup {n}) <= Cardinality(o) + 1
    <3>1. CASE n \in o
      <4>1. o \cup {n} = o
        BY <3>1
      <4>2. IsFiniteSet(o \cup {n})
        BY <4>1
      <4>3. Cardinality(o \cup {n}) = Cardinality(o)
        BY <4>1
      <4> QED
        BY <1>1, <4>2, <4>3
    <3>2. CASE n \notin o
      <4>1. IsFiniteSet(o \cup {n}) /\ Cardinality(o \cup {n}) = Cardinality(o) + 1
        BY <3>2, FS_AddElement
      <4> QED
        BY <1>1, <4>1
    <3> QED
      BY <3>1, <3>2
  <2>4. Cardinality(x) <= Cardinality(o \cup {n})
    BY <1>4, <2>3, FS_Subset
  <2>5. Cardinality(o \cup {n}) \in Nat
    BY <2>3, FS_CardinalityType
  <2> QED
    BY <1>1, <2>1, <2>2, <2>3, <2>4, <2>5
<1>5. CASE x = {}
  <2>1. Cardinality(x) = 0
    BY <1>5, FS_EmptySet
  <2> QED
    BY <1>1, <2>1
<1> QED
  BY <1>2, <1>3, <1>4, <1>5, <1>6 DEF Compares

\* only the API answers a task, before its node comes to wait; the answer of a human
\* node is its only one.
LEMMA NextOwed ==
  ASSUME TypeOK, TypeOK', MemoryIsReplay, LogInvariant, TasksMatch, TasksMatch', [Next]_vars,
         ~(\E n \in HumanNodes : Respond(n)),
         NEW l, l = LogState, NEW m, m = LogState', NEW n \in HumanNodes
  PROVE  /\ Kind[n] = "human" /\ tasks[n] = "responded" => tasks'[n] = "responded"
         /\ tasks'[n] = "responded" /\ m.nodes[n].status = "waiting" =>
              tasks[n] = "responded" /\ l.nodes[n].status = "waiting"
<1>1. /\ Kind[n] = "human" /\ l.nodes[n].status = "idle" => tasks[n] = "none"
      /\ tasks[n] = "open" => l.nodes[n].status = "waiting"
      /\ l.nodes[n].status = "waiting" => tasks[n] \in {"open", "responded"}
  BY DEF TasksMatch
<1>2. CASE TasksAnswered
  <2>1. tasks' = tasks /\ m = l
    BY <1>2 DEF TasksAnswered, LogState
  <2> QED
    BY <2>1
<1>3. ASSUME NEW w \in Workers, Commits(w, "lease_taken", copy[w].st), tasks' = tasks
      PROVE  m = l
  <2>1. copy[w].st \in State /\ "lease_taken" \in Why
    BY <1>3, CopyType DEF Commits, Held, Why
  <2> QED
    BY <1>3, <2>1, CommitsToLog
<1>4. ASSUME NEW w \in Workers, TasksProjected(w)
      PROVE  /\ Kind[n] = "human" /\ tasks[n] = "responded" => tasks'[n] = "responded"
             /\ tasks'[n] = "responded" /\ m.nodes[n].status = "waiting" =>
                  tasks[n] = "responded" /\ l.nodes[n].status = "waiting"
  <2>1. PICK t, lt, b : /\ Handles(t) /\ lt \in BOOLEAN /\ b \in State
                        /\ b = Step(copy[w].st, t, lt)
                        /\ Commits(w, t.type, b)
                        /\ tasks' = [k \in HumanNodes |-> TaskRow(k, copy[w].st, b, t)]
    BY <1>4 DEF TasksProjected
  <2>2. copy[w].st = l /\ m = b /\ Sound(t)
    BY <2>1, CommitsToLog DEF Handles
  <2>3. l \in State /\ Tidy(l)
    BY LogStateType DEF LogInvariant
  <2>4. tasks'[n] = TaskRow(n, l, b, t)
    BY <2>1, <2>2
  <2>5. Kind[n] = "human" /\ b.nodes[n].status = "waiting" =>
          l.nodes[n].status \in {"idle", "waiting"}
    BY <2>1, <2>2, <2>3, StepOfHuman DEF HumanNodes
  <2>6. l.nodes[n].status = "waiting" =>
          b.nodes[n] = l.nodes[n] \/ b.nodes[n].status # "waiting"
    BY <2>1, <2>2, <2>3, StepOfWaiting DEF HumanNodes
  <2>7. b.nodes[n] = l.nodes[n] => ~Decided(n, l, b)
    BY DEF Decided
  <2>8. ASSUME Kind[n] = "human", tasks[n] = "responded"
        PROVE  tasks'[n] = "responded"
    BY <1>1, <2>4, <2>5, <2>8 DEF TaskRow
  <2>9. ASSUME tasks'[n] = "responded", b.nodes[n].status = "waiting"
        PROVE  tasks[n] = "responded" /\ l.nodes[n].status = "waiting"
    <3>1. l.nodes[n].status = "waiting"
      BY <1>1, <2>4, <2>9 DEF TaskRow, Decided
    <3>2. ~Decided(n, l, b)
      BY <2>6, <2>7, <2>9, <3>1
    <3> QED
      BY <2>4, <2>9, <3>1, <3>2 DEF TaskRow
  <2> QED
    BY <2>2, <2>8, <2>9
<1> QED
  BY <1>2, <1>3, <1>4, NextTasks DEF TasksShape

\* the sets that are counted are finite.
LEMMA OwedFinite ==
  IsFiniteSet(HumanNodes) /\ IsFiniteSet(Counted) /\ IsFiniteSet(Promised)
<1>1. HumanNodes \subseteq Nodes /\ IsFiniteSet(Nodes)
  BY PlanAssumption DEF HumanNodes
<1>2. IsFiniteSet(HumanNodes)
  BY <1>1, FS_Subset
<1>3. Counted \subseteq HumanNodes /\ Promised \subseteq HumanNodes
  BY DEF Owed, Counted, Promised
<1>4. IsFiniteSet(Counted)
  BY <1>2, <1>3, FS_Subset
<1>5. IsFiniteSet(Promised)
  BY <1>2, <1>3, FS_Subset
<1> QED
  BY <1>2, <1>4, <1>5

\* a handler uses its job up only when the copy it reads the tasks for is the log's.
LEMMA ReadsAll ==
  ASSUME TypeOK, MemoryIsReplay, CopiesBehind, Driven, ExecInvariant, ~Over,
         NEW w \in Workers, NEW k \in HumanNodes, HeadsJob(w, AnswerJob(k)), Reads(w),
         NEW l, l = LogState, NEW m, m = LogState', SettledState(m)
  PROVE  \/ Owed = {} /\ m = l
         \/ \E n \in Owed : Kind[n] = "human" /\ m.nodes[n].status # "waiting"
<1>1. held[w] /\ pc[w] = "human" /\ Working(w)
  BY DEF Reads, Working
<1>2. CASE Answered(w) = {} /\ UNCHANGED log
  <2>1. Waits(w, "job")
    <3>1. Head(queue[w]) = queue[w][1] /\ 1 \in DOMAIN queue[w]
      BY QueueAdvanced DEF HeadsJob, TypeOK
    <3> QED
      BY <3>1 DEF HeadsJob, Waits
  <2>2. copy[w].seq = Len(log)
    BY <1>1, <2>1 DEF Driven, Drives, KeepsRun
  <2>3. copy[w].st = l
    BY <1>1, <2>2, CopyType, WholeCopy
  <2>4. Owed = {}
    BY <1>2, <2>3 DEF Answered, Owed
  <2>5. m = l
    BY <1>2 DEF LogState
  <2> QED
    BY <2>4, <2>5
<1>3. ASSUME NEW n \in Answered(w), NEW lt \in BOOLEAN, Fenced(w),
             m = Step(copy[w].st, Response(n), lt), m.run = "waiting"
      PROVE  \E i \in Owed : Kind[i] = "human" /\ m.nodes[i].status # "waiting"
  <2>1. copy[w].st = l
    BY <1>1, <1>3, FencedIsLogState
  <2>2. n \in HumanNodes /\ n \in Nodes /\ Kind[n] \in {"task", "human"}
    BY PlanAssumption DEF Answered, HumanNodes
  <2>3. l \in State /\ l.run \notin Terminal
    BY LogStateType, DbStatusIsLog DEF Over
  <2>4. l.nodes[n].status = "waiting"
    BY <2>1 DEF Answered
  <2>5. tasks[n] = "responded"
    <3>1. ASSUME NEW i \in DOMAIN log, NEW r \in log[i].started,
                 SameRun(r, RunOf(l, n)), r[3] > l.nodes[n].turn
          PROVE  FALSE
      <4>1. r \in NodeRun /\ StartsIn(i, r)
        <5>1. log[i] \in Entry
          BY <3>1 DEF TypeOK
        <5> QED
          BY <3>1, <5>1 DEF Entry, StartsIn
      <4>2. r[1] = n /\ r[2] = l.nodes[n].att /\ r[3] \in Nat
        BY <3>1, <4>1 DEF SameRun, RunOf, NodeRun
      <4>3. Past(l.nodes[n], l.nodes[n].att, r[3])
        BY <4>1, <4>2 DEF ExecInvariant, StartsArePast
      <4>4. l.nodes[n].att \in Nat /\ l.nodes[n].turn \in Nat
        BY <2>2, <2>3, NodeFields
      <4> QED
        BY <3>1, <4>2, <4>3, <4>4 DEF Past
    <3> QED
      BY <2>1, <3>1 DEF Answered
  <2>6. n \in Owed
    BY <2>2, <2>4, <2>5 DEF Owed
  <2>7. Response(n).type = "human_response" /\ Response(n).id = n
    BY DEF Response, Trigger
  <2>8. /\ m.nodes[n].status # "waiting"
        /\ Kind[n] = "task" => m.nodes[n].status \in {"running", "cancelled"}
    <3>1. m = Step(l, Response(n), lt) /\ Kind[n] # "wait"
      BY <1>3, <2>1, <2>2
    <3> QED
      BY <2>2, <2>3, <2>4, <2>7, <3>1, ResponseAnswers
  <2>9. m.nodes[n].status # "cancelled"
    <3>1. Cancels(l, m)
      BY <1>3, <2>1, <2>2, <2>3, <2>7, StepCancels DEF Sound
    <3> QED
      BY <1>3, <2>2, <2>4, <3>1 DEF Cancels, Terminal
  <2>10. m.nodes[n].status # "running"
    BY <1>3, <2>2 DEF SettledState, AnyRunning
  <2> QED
    BY <2>2, <2>6, <2>8, <2>9, <2>10
<1> QED
  BY <1>2, <1>3 DEF Reads

\* each step that reads an answer away has its own job used up, at most one.
LEMMA NextCounts ==
  ASSUME TypeOK, TypeOK', MemoryIsReplay, CopiesBehind, CopiesBehind', Driven, LogInvariant,
         ExecInvariant, TasksMatch, TasksMatch', NoApiStop, ~Over, ~Over', [Next]_vars,
         NEW o, o = Counted, NEW p, p = Promised, NEW x, x = Counted', NEW q, q = Promised'
  PROVE  \E n : Compares(o, p, x, q, n)
<1> DEFINE Goal == \E n : Compares(o, p, x, q, n)
<1> SUFFICES ASSUME NEW l, l = LogState, NEW m, m = LogState'
             PROVE  Goal
  OBVIOUS
<1>1. /\ o = {n \in HumanNodes : /\ tasks[n] = "responded" /\ l.nodes[n].status = "waiting"
                                 /\ Kind[n] = "task" => ~Pending(AnswerJob(n))}
      /\ p = {n \in HumanNodes : /\ Kind[n] = "human" /\ tasks[n] = "responded"
                                 /\ Pending(AnswerJob(n))}
      /\ x = {n \in HumanNodes : /\ tasks'[n] = "responded" /\ m.nodes[n].status = "waiting"
                                 /\ Kind[n] = "task" => ~Pending(AnswerJob(n))'}
      /\ q = {n \in HumanNodes : /\ Kind[n] = "human" /\ tasks'[n] = "responded"
                                 /\ Pending(AnswerJob(n))'}
  BY DEF Owed, Counted, Promised, AnswerJob
<1>2. \A n : Compares(o, p, x, q, n) => Goal
  OBVIOUS
<1>3. Owed = {n \in HumanNodes : tasks[n] = "responded" /\ l.nodes[n].status = "waiting"}
  BY DEF Owed
<1> HIDE DEF Goal
<1>4. \A n \in HumanNodes : AnswerJob(n) \in Jobs /\ AnswerJob(n).type = "resume"
  BY JobValues DEF AnswerJob
<1>5. \A n \in HumanNodes : Kind[n] \in {"task", "human"}
  BY PlanAssumption DEF HumanNodes
<1>6. ASSUME NEW n \in HumanNodes, Respond(n)
      PROVE  Goal
  <2>1. /\ tasks[n] = "open" /\ tasks' = [tasks EXCEPT ![n] = "responded"]
        /\ jobs' = jobs \cup {AnswerJob(n)} /\ m = l
        /\ UNCHANGED <<queue, pc, held, todo>>
    BY <1>6 DEF Respond, ApiEnqueues, Fault, NoApiStop, workers, LogState
  <2>2. /\ tasks'[n] = "responded"
        /\ \A k \in HumanNodes : k = n \/ tasks'[k] = tasks[k]
    BY <2>1 DEF TypeOK
  <2>3. \A k \in HumanNodes : Pending(AnswerJob(k)) => Pending(AnswerJob(k))'
    <3>1. \A v \in Workers : Credited(v)' => Credited(v)
      BY <2>1 DEF Credited
    <3>2. ASSUME NEW k \in HumanNodes, Pending(AnswerJob(k))
          PROVE  Pending(AnswerJob(k))'
      <4> DEFINE j == AnswerJob(k)
      <4>1. Pending(j)
        BY <3>2
      <4> HIDE DEF j
      <4>2. Pending(j)'
        BY <2>1, <3>1, <4>1, PendingStays
      <4> QED
        BY <4>2 DEF j
    <3> QED
      BY <3>2
  <2>4. Pending(AnswerJob(n))'
    BY <2>1 DEF Pending, AnswerJob
  <2>5. CASE Kind[n] = "human"
    <3>1. x \subseteq o \cup {n} /\ n \notin p /\ p \cup {n} \subseteq q
      BY <1>1, <2>1, <2>2, <2>3, <2>4, <2>5
    <3> QED
      BY <1>2, <3>1 DEF Compares
  <2>6. CASE Kind[n] = "task"
    <3>1. x \subseteq o /\ p \subseteq q
      BY <1>1, <2>1, <2>2, <2>3, <2>4, <2>6
    <3> QED
      BY <1>2, <3>1 DEF Compares
  <2> QED
    BY <1>5, <2>5, <2>6
<1>7. CASE ~(\E n \in HumanNodes : Respond(n))
  <2> DEFINE read(n) == \E w \in Workers : HeadsJob(w, AnswerJob(n)) /\ Reads(w)
  <2>1. \A n \in HumanNodes :
          /\ Kind[n] = "human" /\ tasks[n] = "responded" => tasks'[n] = "responded"
          /\ tasks'[n] = "responded" /\ m.nodes[n].status = "waiting" => n \in Owed
    BY <1>3, <1>7, NextOwed
  <2>2. \A n \in HumanNodes : Pending(AnswerJob(n)) => Pending(AnswerJob(n))' \/ read(n)
    <3>1. ASSUME NEW n \in HumanNodes, Pending(AnswerJob(n))
          PROVE  Pending(AnswerJob(n))' \/ \E w \in Workers : HeadsJob(w, AnswerJob(n)) /\ Reads(w)
      <4> DEFINE j == AnswerJob(n)
      <4>1. Pending(j) /\ j \in Jobs /\ j.type = "resume"
        BY <1>4, <3>1
      <4> HIDE DEF j
      <4>2. Pending(j)' \/ \E w \in Workers : HeadsJob(w, j) /\ Reads(w)
        BY <4>1, PendingKept
      <4> QED
        BY <4>2 DEF j
    <3> QED
      BY <3>1
  <2> HIDE DEF read
  <2>3. CASE \A n \in HumanNodes : ~read(n)
    <3>1. x \subseteq o /\ p \subseteq q
      BY <1>1, <1>3, <2>1, <2>2, <2>3
    <3> QED
      BY <1>2, <3>1 DEF Compares
  <2>4. CASE ~(\A n \in HumanNodes : ~read(n))
    <3>1. PICK k \in HumanNodes, w \in Workers : HeadsJob(w, AnswerJob(k)) /\ Reads(w)
      BY <2>4 DEF read
    <3>2. \A n \in HumanNodes : read(n) => n = k
      <4>1. ASSUME NEW n \in HumanNodes, HeadsJob(w, AnswerJob(n))
            PROVE  n = k
        <5>1. AnswerJob(n) = AnswerJob(k)
          BY <3>1, <4>1 DEF HeadsJob
        <5>2. AnswerJob(n).id = <<n, 1, 0>> /\ AnswerJob(k).id = <<k, 1, 0>>
          BY DEF AnswerJob
        <5> QED
          BY <5>1, <5>2
      <4>2. \A v \in Workers : Reads(v) => v = w
        BY <3>1 DEF Reads
      <4> QED
        BY <4>1, <4>2 DEF read
    <3>3. SettledState(m)
      BY DEF CopiesBehind, Behind, Orderly
    <3>4. CASE Owed = {} /\ m = l
      <4>1. x = {}
        BY <1>1, <1>3, <2>1, <3>4
      <4> QED
        BY <1>2, <4>1 DEF Compares
    <3>5. ASSUME NEW n \in Owed, Kind[n] = "human", m.nodes[n].status # "waiting"
          PROVE  Goal
      <4>1. n \in o
        BY <1>1, <1>3, <3>5
      <4>2. CASE Kind[k] = "human"
        <5>1. x \subseteq o \ {n} /\ p \subseteq q \cup {k}
          BY <1>1, <1>3, <2>1, <2>2, <3>2, <3>5, <4>2
        <5> QED
          BY <1>2, <4>1, <5>1 DEF Compares
      <4>3. CASE Kind[k] = "task"
        <5>1. x \subseteq (o \ {n}) \cup {k} /\ p \subseteq q
          BY <1>1, <1>3, <2>1, <2>2, <3>2, <3>5, <4>3
        <5> QED
          BY <1>2, <4>1, <5>1 DEF Compares
      <4> QED
        BY <1>5, <4>2, <4>3
    <3> QED
      BY <3>1, <3>3, <3>4, <3>5, ReadsAll
  <2> QED
    BY <2>3, <2>4
<1> QED
  BY <1>6, <1>7

\* there are never fewer jobs than answers to read.
LEMMA NextAnswersFollowed ==
  ASSUME TypeOK, TypeOK', MemoryIsReplay, EndedIsUnleased, CopiesBehind, CopiesBehind',
         Driven, LogInvariant, ExecInvariant, TasksMatch, TasksMatch', NoApiStop, AnswersFollowed, [Next]_vars
  PROVE  AnswersFollowed'
<1> SUFFICES ASSUME ~Over', NEW o, o = Counted, NEW p, p = Promised,
                    NEW x, x = Counted', NEW q, q = Promised'
             PROVE  Cardinality(x) <= Cardinality(q)
  BY DEF AnswersFollowed
<1>1. ~Over /\ Cardinality(o) <= Cardinality(p)
  BY OverStays DEF AnswersFollowed
<1>2. PICK n : Compares(o, p, x, q, n)
  BY <1>1, NextCounts
<1>3. IsFiniteSet(o) /\ IsFiniteSet(p)
  BY OwedFinite
<1>4. IsFiniteSet(x) /\ IsFiniteSet(q)
  <2>1. IsFiniteSet(HumanNodes) /\ x \subseteq HumanNodes /\ q \subseteq HumanNodes
    BY OwedFinite DEF Owed, Counted, Promised
  <2>2. IsFiniteSet(x)
    BY <2>1, FS_Subset
  <2>3. IsFiniteSet(q)
    BY <2>1, FS_Subset
  <2> QED
    BY <2>2, <2>3
<1> QED
  BY <1>1, <1>2, <1>3, <1>4, CountsCompare

\* the answers are followed up.
LEMMA AnswersAreFollowed ==
  ASSUME NoStall, RecoveryResumes, NoApiStop
  PROVE  Spec => []AnswersFollowed
<1>1. Init => AnswersFollowed
  <2> SUFFICES ASSUME Init PROVE AnswersFollowed
    OBVIOUS
  <2>1. Counted = {} /\ Promised = {}
    BY DEF Init, Owed, Counted, Promised
  <2> QED
    BY <2>1, FS_EmptySet DEF AnswersFollowed
<1>2. TypeOK /\ TypeOK' /\ MemoryIsReplay /\ EndedIsUnleased /\ CopiesBehind /\ CopiesBehind'
        /\ Driven /\ LogInvariant /\ ExecInvariant /\ TasksMatch /\ TasksMatch' /\ AnswersFollowed
        /\ [Next]_vars
        => AnswersFollowed'
  BY NextAnswersFollowed
<1> QED
  BY <1>1, <1>2, TypeCorrect, MemoryCorrect, EndIsKept, BehindIsKept, DrivenIsKept, LogIsKept,
     ExecutionsAreKept, TasksAreMatched, PTL DEF Spec

\* No request of a user that the API accepted is forgotten: while an answered node waits
\* or a cancelled run goes on, a job or a trigger of the run waits or its lease is held.
THEOREM RequestsPend ==
  ASSUME NoStall, RecoveryResumes, NoApiStop
  PROVE  Spec => []RequestsArePending
<1>1. AnswersFollowed => AnswerIsPending
  <2> SUFFICES ASSUME AnswersFollowed, ~Over,
                      NEW n \in HumanNodes, tasks[n] = "responded",
                      LogState.nodes[n].status = "waiting"
               PROVE  Stirring
    BY DEF AnswerIsPending, Over
  <2>1. ASSUME n \in Counted
        PROVE  Promised # {}
    <3>1. IsFiniteSet(Counted) /\ IsFiniteSet(Promised)
      BY OwedFinite
    <3>2. Cardinality(Counted) # 0 /\ Cardinality(Counted) \in Nat
      <4>1. Cardinality(Counted) = 0 => Counted = {}
        BY <3>1, FS_EmptySet
      <4>2. Cardinality(Counted) \in Nat
        BY <3>1, FS_CardinalityType
      <4> QED
        BY <2>1, <4>1, <4>2
    <3>3. Promised = {} => Cardinality(Promised) = 0
      BY FS_EmptySet
    <3> QED
      BY <3>2, <3>3 DEF AnswersFollowed
  <2>2. n \notin Counted => Pending(AnswerJob(n))
    BY DEF Owed, Counted
  <2>3. \E k \in HumanNodes : Pending(AnswerJob(k))
    <3>1. Promised # {} => \E k \in HumanNodes : Pending(AnswerJob(k))
      BY DEF Promised
    <3>2. n \in Counted => Promised # {}
      BY <2>1
    <3> QED
      BY <2>2, <3>1, <3>2
  <2>5. PICK k \in HumanNodes : Pending(AnswerJob(k))
    BY <2>3
  <2>6. ASSUME NEW w \in Workers, QueuedAs(w, AnswerJob(k))
        PROVE  queue[w] # <<>>
    <3>1. queue[w] = <<>> => DOMAIN queue[w] = {}
      OBVIOUS
    <3> QED
      BY <2>6, <3>1 DEF QueuedAs
  <2> QED
    BY <2>5, <2>6 DEF Pending, Stirring
<1>2. CancelFollowed => CancelIsPending
  <2>1. Job("cancel").type = "cancel"
    BY DEF Job
  <2>2. ASSUME NEW w \in Workers, QueuedAs(w, Job("cancel"))
        PROVE  \E i \in DOMAIN queue[w] : queue[w][i].type = "cancel"
    BY <2>1, <2>2 DEF QueuedAs, JobOf
  <2> QED
    BY <2>2 DEF CancelFollowed, CancelIsPending, Pending, Over
<1> QED
  BY <1>1, <1>2, AnswersAreFollowed, CancelIsFollowed, PTL DEF RequestsArePending

===============================================================================
