----------------------------- MODULE Orchestrator -----------------------------
(***************************************************************************)
(* One run driven by several workers over the shared store:                *)
(* packages/workflow-runtime/src/orchestrator.ts with the lease, append,   *)
(* checkpoint and timer operations of PgRunStore.ts and the row changes of *)
(* projections.ts.                                                         *)
(*                                                                         *)
(* Every action is what a worker does between two awaits at which the      *)
(* other workers, the API or its own callbacks may interleave.  A handler  *)
(* goes through pc: take the run (acquire, load, taken), then recover,     *)
(* trigger and human, each a step() committed by one fenced append, with   *)
(* perform after each commit.  step() and its append are one action: the   *)
(* held state cannot change in between, only the store can, and the fence  *)
(* is evaluated there.                                                     *)
(***************************************************************************)
EXTENDS RunReplay

CONSTANTS
  Workers,          \* the worker slots; a crashed one restarts with a new id
  None,             \* no lease owner
  Dead,             \* the lease owner is a process that no longer exists
  NoRun,            \* the worker has no copy of the run
  Results,          \* Results[n]: what an execution of task n may return
  CheckpointEvery,  \* checkpointEvery, in commits
  Faults,           \* the faults that may happen: crash, close, stall, error, api
  MaxFaults,        \* bound: how many faults happen in a behaviour
  MaxRestarts,      \* bound: an attempt past it ends only between two triggers
  MaxTurns,         \* bound: how often a node run asks a person
  CanCancel,        \* whether the API may be asked to cancel the run
  CanTimeOut        \* whether the run's deadline may pass

ASSUME OrchestratorAssumption ==
  /\ None \notin Workers /\ Dead \notin Workers /\ None # Dead
  /\ NoRun \notin [seq : Nat, st : State, saved : Nat]
  /\ Results \in [Nodes -> SUBSET ResultTypes]
  /\ CheckpointEvery \in Nat \ {0}
  /\ MaxFaults \in Nat /\ MaxRestarts \in Nat /\ MaxTurns \in Nat
  /\ CanCancel \in BOOLEAN /\ CanTimeOut \in BOOLEAN

VARIABLES
  \* the store (Postgres)
  log,        \* run_events of the run, one entry per commit; runs.last_seq is its length
  lease,      \* runs.lease_owner, and whether lease_until has passed
  ckpt,       \* the latest row of run_checkpoints
  armed,      \* run_timers rows neither fired nor cancelled
  marked,     \* run_timers rows with fired_at
  tasks,      \* human_tasks.status of the latest request of each node that may ask a person
  cancelReq,  \* runs.cancel_requested_at is set
  jobs,       \* the jobs of the run waiting in the run queues
  \* each worker process
  copy,       \* its Held object: seq, scheduler state, checkpointSeq
  held,       \* whether that object is in the `held` map
  active,     \* the node runs it executes: the `active` map
  queue,      \* the triggers in its per-run mutex, the first one being handled
  pc,         \* where the handler of the first trigger is
  todo,       \* the effects of the commit just made
  closing,    \* close() was called: no maintenance, executions aborted
  \* the environment, and history
  late,       \* the run's deadline has passed
  faults,     \* faults so far
  ran         \* history: the executions that were started

store == <<log, lease, ckpt, armed, marked, tasks, cancelReq, jobs>>
workers == <<copy, held, active, queue, pc, todo, closing>>
vars == <<log, lease, ckpt, armed, marked, tasks, cancelReq, jobs,
          copy, held, active, queue, pc, todo, closing, late, faults, ran>>

JobTypes == {"start", "resume", "cancel"}
Sources == {"job", "timer", "exec", "heartbeat", "reap"}
HumanNodes == {n \in Nodes : Kind[n] # "wait"}
TaskStatus == {"none", "open", "responded", "expired", "cancelled"}
NoCopy == [w \in Workers |-> NoRun]

\* The answer of a human task has a job of its own, whoever else is answered.  (Those
\* of two requests of one node are the same here: one that still waits serves both.)
Job(type) == [type |-> type, id |-> Deadline]
AnswerJob(n) == [type |-> "resume", id |-> <<n, 1, 0>>]
Jobs == {Job(type) : type \in JobTypes} \cup {AnswerJob(n) : n \in HumanNodes}

Trigger(type, id, result, src) ==
  [type |-> type, id |-> id, result |-> result, src |-> src]
Plain(type, src) == Trigger(type, Deadline, "ok", src)
JobOf(t) == [type |-> t.type, id |-> t.id]
Recovered(lost) == Trigger("recovered", lost, "ok", "exec")
Response(n) == Trigger("human_response", n, "ok", "exec")

NoEffects == [exec |-> {}, abort |-> {}, cancel |-> {}, release |-> FALSE, next |-> "idle"]

\* runs.status: the projection the log's last commit left.
DbStatus == IF log = <<>> THEN "queued" ELSE log[Len(log)].run

Init ==
  /\ log = <<>>
  /\ lease = [owner |-> None, expired |-> FALSE]
  /\ ckpt = [seq |-> 0, st |-> InitialState]
  /\ armed = {} /\ marked = {}
  /\ tasks = [n \in HumanNodes |-> "none"]
  /\ cancelReq = FALSE
  /\ jobs = {Job("start")}
  /\ copy = NoCopy
  /\ held = [w \in Workers |-> FALSE]
  /\ active = [w \in Workers |-> {}]
  /\ queue = [w \in Workers |-> <<>>]
  /\ pc = [w \in Workers |-> "idle"]
  /\ todo = [w \in Workers |-> NoEffects]
  /\ closing = [w \in Workers |-> FALSE]
  /\ late = FALSE
  /\ faults = 0
  /\ ran = {}

-----------------------------------------------------------------------------
(***************************************************************************)
(* Triggers enter a worker's per-run mutex: serial() and its callers.      *)
(***************************************************************************)
Waits(w, src) == \E i \in DOMAIN queue[w] : queue[w][i].src = src

Enqueue(w, t) == queue' = [queue EXCEPT ![w] = Append(@, t)]

\* A consumer claims a job of the run and hands its trigger to handle().
ClaimJob(w, j) ==
  /\ j \in jobs
  /\ ~closing[w] /\ ~Waits(w, "job")
  /\ jobs' = jobs \ {j}
  /\ Enqueue(w, Trigger(j.type, j.id, "ok", "job"))
  /\ UNCHANGED <<log, lease, ckpt, armed, marked, tasks, cancelReq,
                 copy, held, active, pc, todo, closing, late, faults, ran>>

\* fireDueTimers(): one timer of the due page after the other.
PollTimer(w, t) ==
  /\ t \in armed
  /\ t = Deadline => late
  /\ ~closing[w] /\ ~Waits(w, "timer")
  /\ Enqueue(w, Trigger("timer", t, "ok", "timer"))
  /\ UNCHANGED <<store, copy, held, active, pc, todo, closing, late, faults, ran>>

\* An execution ends: it leaves `active` and its result queues for the mutex.
FinishExecution(w, r, result) ==
  /\ r \in active[w]
  /\ result \in Results[r[1]]
  /\ r[2] > MaxRestarts => queue[w] = <<>>
  /\ result = "ask" => r[3] < MaxTurns
  /\ active' = [active EXCEPT ![w] = @ \ {r}]
  /\ Enqueue(w, Trigger("node_result", r, result, "exec"))
  /\ UNCHANGED <<store, copy, held, pc, todo, closing, late, faults, ran>>

\* reapExpiredLeases().
Reap(w) ==
  /\ lease.owner # None /\ lease.expired
  /\ ~held[w]
  /\ ~closing[w] /\ ~Waits(w, "reap")
  /\ Enqueue(w, Plain("resume", "reap"))
  /\ UNCHANGED <<store, copy, held, active, pc, todo, closing, late, faults, ran>>

\* drop(runId, true): the object stays with the handler that uses it.
Drop(w) ==
  /\ held' = [held EXCEPT ![w] = FALSE]
  /\ active' = [active EXCEPT ![w] = {}]

\* heartbeat() renews the lease of a held run, whether it has lapsed or not,
\* and picks up a cancel request; a run it no longer leases is dropped at once.
Renew(w) ==
  /\ held[w] /\ lease.owner = w /\ ~closing[w]
  /\ \/ lease.expired
     \/ cancelReq /\ ~Waits(w, "heartbeat")
  /\ lease' = [lease EXCEPT !.expired = FALSE]
  /\ IF cancelReq /\ ~Waits(w, "heartbeat")
     THEN Enqueue(w, Plain("cancel", "heartbeat"))
     ELSE UNCHANGED queue
  /\ UNCHANGED <<log, ckpt, armed, marked, tasks, cancelReq, jobs,
                 copy, held, active, pc, todo, closing, late, faults, ran>>

LoseLease(w) ==
  /\ held[w] /\ lease.owner # w /\ ~closing[w]
  /\ Drop(w)
  /\ UNCHANGED <<store, copy, queue, pc, todo, closing, late, faults, ran>>

-----------------------------------------------------------------------------
(***************************************************************************)
(* The end of a handler.  runJobs() puts the job of a busy or lost run     *)
(* back, a failed job is retried; fireDueTimers() marks the row unless the *)
(* run was busy or lost.                                                   *)
(***************************************************************************)
\* Mutant of JobsAfter: the job of a run another worker holds is completed.
JobsAfterDone(w, result) ==
  IF Head(queue[w]).src = "job" /\ result = "error"
  THEN jobs \cup {JobOf(Head(queue[w]))} ELSE jobs

JobsAfter(w, result) ==
  IF Head(queue[w]).src = "job" /\ result \in {"busy", "lost", "error"}
  THEN jobs \cup {JobOf(Head(queue[w]))} ELSE jobs

\* Mutant of FiresRow: the row is marked whatever handle() returned.
FiresRowAlways(w, result) ==
  Head(queue[w]).src = "timer" /\ Head(queue[w]).id \in armed

FiresRow(w, result) ==
  /\ Head(queue[w]).src = "timer"
  /\ result \in {"ok", "terminal"}
  /\ Head(queue[w]).id \in armed

Return(w, result) ==
  /\ queue' = [queue EXCEPT ![w] = Tail(@)]
  /\ pc' = [pc EXCEPT ![w] = "idle"]
  /\ jobs' = JobsAfter(w, result)
  /\ IF FiresRow(w, result)
     THEN /\ armed' = armed \ {Head(queue[w]).id}
          /\ marked' = marked \cup {Head(queue[w]).id}
     ELSE UNCHANGED <<armed, marked>>

Goto(w, where) == pc' = [pc EXCEPT ![w] = where]

-----------------------------------------------------------------------------
(***************************************************************************)
(* take(): the held object, or the lease and the state recovered from the  *)
(* checkpoint and the log.                                                 *)
(***************************************************************************)
\* Mutants of Leasable: an ended run can be leased; an expired lease cannot be taken.
LeasableEnded(w) == lease.owner \in {None, w} \/ lease.expired
LeasableUnowned(w) == DbStatus \notin Terminal /\ lease.owner \in {None, w}

\* The WHERE clause of acquireLease().
Leasable(w) == DbStatus \notin Terminal /\ (lease.owner \in {None, w} \/ lease.expired)

TakeHeld(w) ==
  /\ pc[w] = "idle" /\ queue[w] # <<>>
  /\ held[w]
  /\ Goto(w, "recover")
  /\ UNCHANGED <<store, copy, held, active, queue, todo, closing, late, faults, ran>>

\* getRun(): the status it reads decides whether RUN_LEASE_TAKEN is recorded.
TakeRead(w) ==
  /\ pc[w] = "idle" /\ queue[w] # <<>>
  /\ ~held[w]
  /\ IF DbStatus \in Terminal
     THEN Return(w, "terminal")
     ELSE /\ Goto(w, IF DbStatus = "queued" THEN "acquireNew" ELSE "acquire")
          /\ UNCHANGED <<jobs, armed, marked, queue>>
  /\ UNCHANGED <<log, lease, ckpt, tasks, cancelReq,
                 copy, held, active, todo, closing, late, faults, ran>>

\* acquireLease().
TakeAcquire(w) ==
  /\ pc[w] \in {"acquireNew", "acquire"}
  /\ IF Leasable(w)
     THEN /\ lease' = [owner |-> w, expired |-> FALSE]
          /\ Goto(w, IF pc[w] = "acquireNew" THEN "loadNew" ELSE "load")
          /\ UNCHANGED <<jobs, armed, marked, queue>>
     ELSE /\ Return(w, "busy")
          /\ UNCHANGED lease
  /\ UNCHANGED <<log, ckpt, tasks, cancelReq,
                 copy, held, active, todo, closing, late, faults, ran>>

TakeLoad(w) ==
  /\ pc[w] \in {"loadNew", "load"}
  /\ copy' = [copy EXCEPT ![w] = [seq |-> Len(log), st |-> Recover(ckpt, log),
                                  saved |-> ckpt.seq]]
  /\ held' = [held EXCEPT ![w] = TRUE]
  /\ Goto(w, IF pc[w] = "load" THEN "taken" ELSE "recover")
  /\ UNCHANGED <<store, active, queue, todo, closing, late, faults, ran>>

\* Mutant of Fenced: a run nobody leases can be written by whoever has a copy.
FencedLoosely(w) == lease.owner \in {None, w}

\* appendEvents(): the fence, and what its transaction changes besides the log.
Fenced(w) == lease.owner = w /\ Len(log) = copy[w].seq

\* appendRaw() of RUN_LEASE_TAKEN.  It runs outside handleNow's try: when the
\* fence refuses it the object stays in `held`.
TakeRecord(w) ==
  /\ pc[w] = "taken"
  /\ IF Fenced(w)
     THEN /\ log' = Append(log, LeaseTaken(copy[w].st))
          /\ copy' = [copy EXCEPT ![w].seq = @ + 1]
          /\ Goto(w, "recover")
          /\ UNCHANGED <<jobs, armed, marked, queue>>
     ELSE /\ Return(w, "error")
          /\ UNCHANGED <<log, copy>>
  /\ UNCHANGED <<lease, ckpt, tasks, cancelReq, held, active, todo, closing, late, faults, ran>>

-----------------------------------------------------------------------------
(***************************************************************************)
(* runStep(): step(), the fenced append with its projections.              *)
(***************************************************************************)
\* The step takes the answer of n's open request, or its expiry.
Decided(n, a, b) ==
  /\ a.nodes[n].status = "waiting"
  /\ \/ b.nodes[n].status \in {"completed", "failed"}
     \/ b.nodes[n].turn # a.nodes[n].turn

\* Mutant of TaskRow: an expired task stays open.
TaskRowUnexpired(n, a, b, t) ==
  CASE a.nodes[n].status # "waiting" /\ b.nodes[n].status = "waiting" -> "open"
    [] tasks[n] = "open" /\ t.type # "timer" /\ Decided(n, a, b) -> "responded"
    [] OTHER -> tasks[n]

\* human_tasks.status after a commit.
TaskRow(n, a, b, t) ==
  CASE a.nodes[n].status # "waiting" /\ b.nodes[n].status = "waiting" -> "open"
    [] tasks[n] = "open" /\ Decided(n, a, b) ->
         IF t.type = "timer" THEN "expired" ELSE "responded"
    [] tasks[n] = "open" /\ b.run \in Terminal \ {"completed"} -> "cancelled"
    [] OTHER -> tasks[n]

\* The rows the projections write in the append's transaction.
Starts(a, t) == a.run = "queued" /\ t.type = "start"

Project(a, b, t) ==
  /\ armed' = (armed \cup (b.timers \ a.timers)
                     \cup (IF Starts(a, t) THEN {Deadline} ELSE {})) \ (a.timers \ b.timers)
  /\ marked' = marked \cup (a.timers \ b.timers)
  /\ tasks' = [n \in HumanNodes |-> TaskRow(n, a, b, t)]
  /\ lease' = IF b.run \in Terminal THEN [owner |-> None, expired |-> FALSE]
              ELSE IF Starts(a, t) THEN [lease EXCEPT !.expired = FALSE]
              ELSE lease

EffectsOf(a, b, t, next) ==
  [exec    |-> Started(a, b),
   abort   |-> Aborted(a, b),
   cancel  |-> TimersCancelled(a, b),
   release |-> Releases(a, t, b),
   next    |-> next]

\* The append succeeds: the held state is the step's, its effects follow.
Append_(w, a, b, t, next) ==
  /\ Fenced(w)
  /\ log' = Append(log, EntryOf(t.type, a, b))
  /\ Project(a, b, t)
  /\ copy' = [copy EXCEPT ![w] = [seq |-> copy[w].seq + 1, st |-> b, saved |-> copy[w].saved]]
  /\ todo' = [todo EXCEPT ![w] = EffectsOf(a, b, t, next)]
  /\ Goto(w, "perform")
  /\ UNCHANGED <<jobs, held, active, queue, faults>>

\* WorkerLostError: the run is dropped and its executions aborted.
Refused(w) ==
  /\ ~Fenced(w)
  /\ Drop(w)
  /\ Return(w, "lost")
  /\ UNCHANGED <<log, lease, tasks, copy, todo, faults>>

\* The handler of an execution's result fails: its catch takes the node run out of
\* `active`, also the execution an answer has meanwhile started there.
Caught(w) ==
  IF Head(queue[w]).type = "node_result"
  THEN {r \in active[w] : ~SameRun(r, Head(queue[w]).id)} ELSE active[w]

\* Any other error of the append: dropped without aborting.  The transaction may
\* have committed before the connection failed.
Broken(w, a, b, t) ==
  /\ "error" \in Faults /\ faults < MaxFaults
  /\ faults' = faults + 1
  /\ held' = [held EXCEPT ![w] = FALSE]
  /\ active' = [active EXCEPT ![w] = Caught(w)]
  /\ queue' = [queue EXCEPT ![w] = Tail(@)]
  /\ Goto(w, "idle")
  /\ jobs' = JobsAfter(w, "error")
  /\ \/ UNCHANGED <<log, lease, armed, marked, tasks>>
     \/ /\ Fenced(w)
        /\ log' = Append(log, EntryOf(t.type, a, b))
        /\ Project(a, b, t)
  /\ UNCHANGED <<copy, todo>>

Commit(w, t, next) ==
  \E past \in {FALSE, late} :
    LET a == copy[w].st
        b == Step(a, t, past /\ a.run # "queued")
    IN /\ IF b = a
          THEN /\ Goto(w, next)
               /\ UNCHANGED <<log, lease, armed, marked, tasks, jobs,
                              copy, held, active, queue, todo, faults>>
          ELSE \/ Append_(w, a, b, t, next)
               \/ Refused(w)
               \/ Broken(w, a, b, t)
       /\ UNCHANGED <<ckpt, cancelReq, closing, late, ran>>

\* Node runs that are running in the held state and that this worker neither
\* executes nor is being told the result of.
Lost(w) ==
  LET told == IF Head(queue[w]).type = "node_result" THEN {Head(queue[w]).id} ELSE {}
  IN  {r \in {RunOf(copy[w].st, n) : n \in {m \in Nodes : copy[w].st.nodes[m].status = "running"}} :
         \A q \in active[w] \cup told : ~SameRun(q, r)}

RecoverLost(w) ==
  /\ pc[w] = "recover"
  /\ Lost(w) # {} /\ copy[w].st.run # "queued"
  /\ Commit(w, Recovered(Lost(w)), "trigger")

NothingLost(w) ==
  \/ pc[w] = "recover" /\ (Lost(w) = {} \/ copy[w].st.run = "queued")
  \/ pc[w] = "trigger"

\* The run was dropped meanwhile: handleNow returns "ok" without the trigger.
SkipTrigger(w) ==
  /\ NothingLost(w)
  /\ ~held[w]
  /\ Return(w, "ok")
  /\ UNCHANGED <<log, lease, ckpt, tasks, cancelReq,
                 copy, held, active, todo, closing, late, faults, ran>>

RunTrigger(w) ==
  /\ NothingLost(w)
  /\ held[w]
  /\ Commit(w, Head(queue[w]), "human")

\* Responses the API recorded while no worker held the run.
\* (A stale copy still waits for the answer of an earlier request, which has meanwhile
\* started the next turn.)
Answered(w) ==
  {n \in HumanNodes :
     /\ copy[w].st.nodes[n].status = "waiting"
     /\ \/ tasks[n] = "responded"
        \/ \E i \in DOMAIN log : \E r \in log[i].started :
             SameRun(r, RunOf(copy[w].st, n)) /\ r[3] > copy[w].st.nodes[n].turn}

HandleResponse(w) ==
  /\ pc[w] = "human" /\ held[w]
  /\ \E n \in Answered(w) : Commit(w, Response(n), "human")

FinishTrigger(w) ==
  /\ pc[w] = "human"
  /\ ~held[w] \/ Answered(w) = {}
  /\ Return(w, "ok")
  /\ UNCHANGED <<log, lease, ckpt, tasks, cancelReq,
                 copy, held, active, todo, closing, late, faults, ran>>

(***************************************************************************)
(* The rest of runStep(): checkpoint, effects, then the lease is released  *)
(* or the ended run dropped.                                               *)
(***************************************************************************)
SavesCheckpoint(w) ==
  \/ copy[w].seq - copy[w].saved >= CheckpointEvery
  \/ todo[w].release /\ copy[w].seq > copy[w].saved

\* saveCheckpoint() is not fenced; latestCheckpoint() reads the highest seq.
SaveCheckpoint(w) ==
  IF SavesCheckpoint(w)
  THEN /\ ckpt' = IF copy[w].seq >= ckpt.seq
                  THEN [seq |-> copy[w].seq, st |-> copy[w].st] ELSE ckpt
       /\ copy' = [copy EXCEPT ![w].saved = copy[w].seq]
  ELSE UNCHANGED <<ckpt, copy>>

Ended(w) == copy[w].st.run \in Terminal

\* startExecution() starts nothing while the node run is in `active`.
Begun(w) == {r \in todo[w].exec : \A q \in active[w] : ~SameRun(q, r)}

Without(executions, aborted) ==
  {r \in executions : \A q \in aborted : ~SameRun(q, r)}

\* The executions after the execute and abort_node effects.
Executing(w) == Without(active[w] \cup Begun(w), todo[w].abort)

Releasing(w) == todo[w].release /\ (Ended(w) \/ Executing(w) = {})

Perform(w) ==
  /\ pc[w] = "perform"
  /\ SaveCheckpoint(w)
  /\ armed' = armed \ todo[w].cancel
  /\ active' = [active EXCEPT ![w] = Executing(w)]
  /\ ran' = ran \cup Begun(w)
  /\ IF Releasing(w)
     THEN /\ held' = [held EXCEPT ![w] = FALSE]
          /\ lease' = IF lease.owner = w
                      THEN [owner |-> None, expired |-> FALSE] ELSE lease
     ELSE UNCHANGED <<held, lease>>
  /\ Goto(w, todo[w].next)
  /\ todo' = [todo EXCEPT ![w] = NoEffects]
  /\ UNCHANGED <<log, marked, tasks, cancelReq, jobs, queue, closing, late, faults>>

\* The store fails between the commit and its effects: at the checkpoint, at one of
\* the cancel_timer effects (an abort stands before its node's own; what starts does so
\* after all of them, unless the step that resumed it also ended the run) or at
\* releaseLease().
PerformFails(w) ==
  /\ pc[w] = "perform"
  /\ "error" \in Faults /\ faults < MaxFaults
  /\ faults' = faults + 1
  /\ \/ /\ SavesCheckpoint(w)
        /\ active' = [active EXCEPT ![w] = Caught(w)]
        /\ UNCHANGED <<ckpt, copy, armed, ran>>
     \/ /\ SaveCheckpoint(w)
        /\ \E begun \in SUBSET (Begun(w) \cap todo[w].abort),
              aborted \in SUBSET todo[w].abort, done \in SUBSET todo[w].cancel :
             /\ done # todo[w].cancel
             /\ active' = [active EXCEPT ![w] = Without(Caught(w) \cup begun, aborted)]
             /\ armed' = armed \ done
             /\ ran' = ran \cup begun
     \/ /\ Releasing(w) /\ ~Ended(w)
        /\ SaveCheckpoint(w)
        /\ active' = [active EXCEPT ![w] = {}]
        /\ armed' = armed \ todo[w].cancel
        /\ UNCHANGED ran
  /\ held' = [held EXCEPT ![w] = FALSE]
  /\ todo' = [todo EXCEPT ![w] = NoEffects]
  /\ queue' = [queue EXCEPT ![w] = Tail(@)]
  /\ Goto(w, "idle")
  /\ jobs' = JobsAfter(w, "error")
  /\ UNCHANGED <<log, lease, marked, tasks, cancelReq, closing, late>>

-----------------------------------------------------------------------------
(***************************************************************************)
(* The API, time and faults.                                               *)
(***************************************************************************)
Fault(kind) == /\ kind \in Faults /\ faults < MaxFaults
               /\ faults' = faults + 1

\* The API writes a row, then enqueues a job; it may stop in between.
ApiEnqueues(j) == \/ jobs' = jobs \cup {j} /\ UNCHANGED faults
                  \/ Fault("api") /\ UNCHANGED jobs

\* POST /v1/runs/:id/cancel: the flag, then a run.control job.
RequestCancel ==
  /\ CanCancel /\ ~cancelReq
  /\ DbStatus \notin Terminal
  /\ cancelReq' = TRUE
  /\ ApiEnqueues(Job("cancel"))
  /\ UNCHANGED <<log, lease, ckpt, armed, marked, tasks, workers, late, ran>>

\* POST /v1/human-tasks/:id/respond: compare-and-set, then a run.resume job.
Respond(n) ==
  /\ tasks[n] = "open"
  /\ tasks' = [tasks EXCEPT ![n] = "responded"]
  /\ ApiEnqueues(AnswerJob(n))
  /\ UNCHANGED <<log, lease, ckpt, armed, marked, cancelReq, workers, late, ran>>

DeadlinePasses ==
  /\ CanTimeOut /\ ~late
  /\ Deadline \in armed
  /\ late' = TRUE
  /\ UNCHANGED <<store, workers, faults, ran>>

\* Without heartbeats for the lease's 30 s.  Nobody renews the lease of a dead
\* process or of a run that was dropped.
Renewed(w) == ~closing[w] /\ (held[w] \/ pc[w] # "idle")

LeaseLapses ==
  /\ lease.owner # None /\ ~lease.expired
  /\ lease' = [lease EXCEPT !.expired = TRUE]
  /\ IF lease.owner \in Workers /\ Renewed(lease.owner)
     THEN Fault("stall") ELSE UNCHANGED faults
  /\ UNCHANGED <<log, ckpt, armed, marked, tasks, cancelReq, jobs, workers, late, ran>>

JobsOf(w) == {JobOf(queue[w][i]) : i \in {j \in DOMAIN queue[w] : queue[w][j].src = "job"}}

\* The visibility lease of a stalled consumer's job lapses: it is delivered again.
RedeliverJob(w) ==
  /\ Fault("stall")
  /\ JobsOf(w) # {}
  /\ jobs' = jobs \cup JobsOf(w)
  /\ UNCHANGED <<log, lease, ckpt, armed, marked, tasks, cancelReq, workers, late, ran>>

\* Mutant of Forget: the run stays in the held map.
ForgetButHeld(w) ==
  /\ copy' = [copy EXCEPT ![w] = NoRun]
  /\ active' = [active EXCEPT ![w] = {}]
  /\ queue' = [queue EXCEPT ![w] = <<>>]
  /\ pc' = [pc EXCEPT ![w] = "idle"]
  /\ todo' = [todo EXCEPT ![w] = NoEffects]
  /\ closing' = [closing EXCEPT ![w] = FALSE]
  /\ UNCHANGED held

Forget(w) ==
  /\ copy' = [copy EXCEPT ![w] = NoRun]
  /\ held' = [held EXCEPT ![w] = FALSE]
  /\ active' = [active EXCEPT ![w] = {}]
  /\ queue' = [queue EXCEPT ![w] = <<>>]
  /\ pc' = [pc EXCEPT ![w] = "idle"]
  /\ todo' = [todo EXCEPT ![w] = NoEffects]
  /\ closing' = [closing EXCEPT ![w] = FALSE]

\* The process dies and another starts in its place, under a new worker id.
Crash(w) ==
  /\ Fault("crash")
  /\ Forget(w)
  /\ jobs' = jobs \cup JobsOf(w)
  /\ lease' = IF lease.owner = w THEN [lease EXCEPT !.owner = Dead] ELSE lease
  /\ UNCHANGED <<log, ckpt, armed, marked, tasks, cancelReq, late, ran>>

\* close(), after the worker stopped its consumers: maintenance stops, the running
\* executions are aborted and their results dropped.
BeginClose(w) ==
  /\ Fault("close")
  /\ ~closing[w] /\ ~Waits(w, "job")
  /\ closing' = [closing EXCEPT ![w] = TRUE]
  /\ active' = [active EXCEPT ![w] = {}]
  /\ UNCHANGED <<store, copy, held, queue, pc, todo, late, ran>>

\* The queued triggers are drained; a held run is released and queued for the next
\* worker.
EndClose(w) ==
  /\ closing[w] /\ pc[w] = "idle" /\ queue[w] = <<>>
  /\ Forget(w)
  /\ lease' = IF lease.owner # w THEN lease
              ELSE IF held[w] THEN [owner |-> None, expired |-> FALSE]
              ELSE [lease EXCEPT !.owner = Dead]
  /\ jobs' = IF held[w] THEN jobs \cup {Job("resume")} ELSE jobs
  /\ UNCHANGED <<log, ckpt, armed, marked, tasks, cancelReq, late, faults, ran>>

-----------------------------------------------------------------------------
Handle(w) == \/ TakeHeld(w) \/ TakeRead(w) \/ TakeAcquire(w)
             \/ TakeLoad(w) \/ TakeRecord(w)
             \/ RecoverLost(w) \/ SkipTrigger(w) \/ RunTrigger(w)
             \/ HandleResponse(w) \/ FinishTrigger(w) \/ Perform(w)

Maintain(w) == Reap(w) \/ Renew(w) \/ LoseLease(w)

Finish(w, r) == \E result \in ResultTypes : FinishExecution(w, r, result)

Next ==
  \/ \E w \in Workers : \/ Handle(w)
                        \/ Maintain(w)
                        \/ \E j \in Jobs : ClaimJob(w, j)
                        \/ \E t \in armed : PollTimer(w, t)
                        \/ \E r \in active[w] : Finish(w, r)
                        \/ RedeliverJob(w)
                        \/ PerformFails(w)
                        \/ Crash(w)
                        \/ BeginClose(w) \/ EndClose(w)
  \/ RequestCancel
  \/ \E n \in HumanNodes : Respond(n)
  \/ DeadlinePasses
  \/ LeaseLapses

Spec == Init /\ [][Next]_vars

-----------------------------------------------------------------------------
Triggers == {t \in [type : JobTypes \cup {"timer", "node_result"}, id : TimerId,
                    result : ResultTypes, src : Sources] :
               t.src = "job" => JobOf(t) \in Jobs}
PcValues == {"idle", "acquireNew", "acquire", "loadNew", "load", "taken", "recover", "trigger", "human", "perform"}
Effects == [exec : SUBSET NodeRun, abort : SUBSET NodeRun, cancel : SUBSET TimerId,
            release : BOOLEAN, next : PcValues]

\* The values every variable ranges over; a handler past take() has a copy of the
\* run and the trigger it handles.
TypeOK ==
  /\ log \in Seq(Entry)
  /\ lease \in [owner : Workers \cup {None, Dead}, expired : BOOLEAN]
  /\ ckpt \in [seq : Nat, st : State]
  /\ armed \subseteq TimerId /\ marked \subseteq TimerId
  /\ tasks \in [HumanNodes -> TaskStatus]
  /\ cancelReq \in BOOLEAN
  /\ jobs \subseteq Jobs
  /\ copy \in [Workers -> [seq : Nat, st : State, saved : Nat] \cup {NoRun}]
  /\ held \in [Workers -> BOOLEAN]
  /\ active \in [Workers -> SUBSET NodeRun]
  /\ queue \in [Workers -> Seq(Triggers)]
  /\ pc \in [Workers -> PcValues]
  /\ todo \in [Workers -> Effects]
  /\ closing \in [Workers -> BOOLEAN]
  /\ late \in BOOLEAN
  /\ faults \in Nat
  /\ ran \subseteq NodeRun
  /\ \A w \in Workers : /\ pc[w] # "idle" => queue[w] # <<>>
                        /\ pc[w] \in {"taken", "recover", "trigger", "human", "perform"} \/ held[w]
                             => copy[w] # NoRun

LogState == Replay(InitialState, log)

\* The run the log tells of is one sequential machine: each commit, by whatever
\* worker, is a scheduler step from the state the log is in, never from a stale copy.
Machine == INSTANCE RunMachine WITH st <- LogState
Sequential == Machine!MachineSpec

\* What a worker holds in memory, and what the checkpoint stores, is exactly the
\* reduction of the log up to its sequence number: read on from there and it is
\* the reduction of the whole log.  Holds for stale workers too, so a late
\* saveCheckpoint() (which is not fenced) cannot corrupt a recovery.
MemoryIsReplay ==
  LET whole == LogState IN
  /\ ckpt.seq <= Len(log)
  /\ Replay(ckpt.st, TailFrom(log, ckpt.seq)) = whole
  /\ \A w \in Workers : copy[w] # NoRun =>
       /\ copy[w].seq <= Len(log)
       /\ Replay(copy[w].st, TailFrom(log, copy[w].seq)) = whole

\* A run's terminal event is its last: nothing is appended after it, by a worker
\* that lost the run or by one that takes it over.
TerminalIsLast == \A i \in DOMAIN log : log[i].run \in Terminal => i = Len(log)

\* The entry of the log that starts execution r.
StartsIn(i, r) == r \in log[i].started

\* Effects follow the commit: whatever was executed is recorded as started, and every
\* execution of a node run after its first by the commit of an answer.
ExecutedIsRecorded ==
  \A r \in ran : \E i \in DOMAIN log :
    StartsIn(i, r) /\ (r[3] > 0 => log[i].why = "human_response")

\* A node run is executed at most once, and once more for each answer it is given,
\* whatever workers crash or are taken over between commit, execution and result.
ExecutedOnce == [][\A w \in Workers : (active'[w] \ active[w]) \cap ran = {}]_vars

\* A node that is not safe to repeat, and whose policy does not allow it all the same,
\* is executed in one node run only: answers may resume it, nothing restarts it.
NeverRepeated ==
  \A r \in ran : Idempotency[r[1]] = "none" /\ ~AllowOnIrreversible[r[1]] =>
    \A q \in ran : q[1] = r[1] => SameRun(q, r)

\* Both: what was executed is recorded, and not repeated unless it may be.
ExecutionsAreSound == ExecutedIsRecorded /\ NeverRepeated

\* The rows the API reads agree with the log, whoever wrote it: an open task is a node
\* that waits, a node that waits has its task, and a run that has ended is not leased.
RowsMatchLog ==
  /\ \A n \in HumanNodes :
       /\ tasks[n] = "open" => LogState.nodes[n].status = "waiting"
       /\ LogState.nodes[n].status = "waiting" => tasks[n] \in {"open", "responded"}
  /\ DbStatus \in Terminal => lease.owner = None

\* A timer's row is marked fired only when the run's log has its TIMER_FIRED, or
\* no longer needs it: the node run it was set for is over, or has gone on.
MarkedIsHandled ==
  \A t \in marked \ {Deadline} :
    t \in LogState.timers =>
      ~(t = RunOf(LogState, t[1]) /\ StatusOf(LogState, t) \in Active)

\* Something will take the run up again: a job or a trigger that waits, or a lease,
\* whose owner or whose reaper goes on with it.
Stirring == jobs # {} \/ lease.owner # None \/ \E w \in Workers : queue[w] # <<>>

\* An answer the API recorded is not forgotten: while its node waits, the run is
\* stirring, so some later handler polls the task.
AnswerIsPending ==
  \A n \in HumanNodes :
    (/\ tasks[n] = "responded"
     /\ LogState.nodes[n].status = "waiting"
     /\ DbStatus \notin Terminal) => Stirring

\* Neither is a cancel request: its job or trigger waits, or a lease is held, whose
\* owner sees the request at its next heartbeat.
CancelIsPending ==
  cancelReq /\ DbStatus \notin Terminal =>
    \/ Job("cancel") \in jobs
    \/ lease.owner # None
    \/ \E w \in Workers : \E i \in DOMAIN queue[w] : queue[w][i].type = "cancel"

\* Both: no accepted request of a user is forgotten.
RequestsArePending == AnswerIsPending /\ CancelIsPending

\* Without a fault no node run is recovered: recovered() is for node runs whose
\* worker died.
LossNeedsFault == (\E i \in DOMAIN log : log[i].why = "recovered") => faults > 0

\* How often node n was started again after a loss.
Recoveries(n) ==
  Cardinality({i \in DOMAIN log : log[i].why = "recovered" /\ log[i].nodes[n] # Same})
\* The retry policy bounds the attempts: every attempt beyond maxAttempts replaces one
\* whose worker was lost.
AttemptsAreBounded ==
  LET whole == LogState IN
  \A n \in Nodes : whole.nodes[n].att <= MaxAttempts[n] + Recoveries(n)

\* The restarts after a loss are not counted against maxAttempts: a task that is safe
\* to repeat fails for good only when maxAttempts of its own executions failed.
RecoveryNotCounted ==
  \A n \in Nodes : LogState.nodes[n].status = "failed" /\ Idempotency[n] = "safe" =>
    LogState.nodes[n].att - Recoveries(n) >= MaxAttempts[n]

\* A parked run nobody handles a trigger of holds no lease.
ParkedIsReleased ==
  DbStatus = "waiting" /\ (\A w \in Workers : pc[w] = "idle") => lease.owner = None

-----------------------------------------------------------------------------
(***************************************************************************)
(* Fairness.  A worker's event loop runs its handlers and its timers;      *)
(* every executor returns (node timeouts); every worker polls the shared   *)
(* queue and the due timers again and again, so a claim or a poll that is  *)
(* possible again and again happens; a lease nobody renews lapses.  The    *)
(* API is not obliged to cancel or answer anything.                        *)
(***************************************************************************)
Fairness ==
  /\ \A w \in Workers :
       /\ WF_vars(Handle(w))
       /\ WF_vars(Reap(w))
       /\ WF_vars(Renew(w)) /\ WF_vars(LoseLease(w))
       /\ WF_vars(\E r \in active[w] : Finish(w, r))
       /\ \A j \in Jobs : SF_vars(ClaimJob(w, j))
       /\ SF_vars(\E t \in armed : PollTimer(w, t))
  /\ WF_vars(LeaseLapses /\ faults' = faults)

LiveSpec == Spec /\ Fairness

\* Every run that was queued ends, although workers crash.
RunEnds == <>(DbStatus \in Terminal)

=============================================================================
