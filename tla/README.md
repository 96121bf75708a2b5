# FlowAId in TLA+

FlowAId runs AI workflows: a compiled plan of nodes (tasks, waits, human
reviews, branches, loops, subflows) is executed by workers that share a
Postgres database with the API. This directory models

* the **run engine**: the pure scheduler step, the event log it is replayed from,
  and the orchestrator that drives one run from several workers which may crash,
  stall, shut down or lose the run to each other;
* what stands around it: the **job queue** everything is woken by, the **hand-over
  of nodes to worker pools**, the **scheduler** that starts runs, the **circuit
  breaker and failover** of model providers, and the **building of page indexes**
  by a worker and a Python service.

TLC checks small instances; TLAPS proves the invariants of the run engine for
every plan, any number of workers and any number of faults, that the queue
driver implements an abstract queue, and the invariants of the modules around it.

Paths below are relative to the repository; `runtime/` stands for
`packages/workflow-runtime/src/` and `database/` for `packages/database/src/`.

## 1. The system

| component | state | operations | interacts with |
|---|---|---|---|
| scheduler step: `runtime/step.ts`, `ready.ts`, `state.ts` | none (pure) | `step(plan, state, trigger)` → state, events, effects | orchestrator |
| reducer: `runtime/reduce.ts` | none (pure) | `reduce`, `reduceAll` | orchestrator, `database/reproject.ts` |
| orchestrator: `runtime/orchestrator.ts` | `held`, `active`, per-run mutex `locks` | `handle`, `fireDueTimers`, `heartbeat`, `reapExpiredLeases`, `close` | step, run store, executor, queue |
| run store: `database/stores/PgRunStore.ts`, `projections.ts` | `runs`, `run_events`, `run_checkpoints`, `run_timers`, `human_tasks` | fenced append with projections, leases, checkpoints, timers, cancel requests | everything |
| queue: `database/stores/PgQueueDriver.ts`, `runtime/queue/BullMqQueueDriver.ts` | `queue_jobs` | enqueue, claim, complete, fail, dead-letter | API, worker |
| worker: `apps/worker/src/worker.ts` | consumers, maintenance timers, child-run listener | `triggerOf`, `runJobs`, `start`, `stop` | queue, orchestrator |
| delegation: `apps/worker/src/delegation.ts`, `poolWorker.ts` | delegated results | hand over a node run, return its result | orchestrator, queue |
| API run routes: `apps/api/src/routes/runs.ts`, `review.ts` | – | create, cancel, retry, respond | run store, queue |
| schedules: `apps/worker/src/jobs/scheduler.ts` | `schedules` | claim a due slot, start a run | run store, queue |
| providers: `packages/providers/src/health.ts`, `registry.ts`, `generation-failover.ts` | a circuit and a window of samples per provider (in memory) | `gate`, `record`, walk of the chain | executor |
| page index: `apps/worker/src/jobs/pageindex.ts`, `apps/api/src/services/pageindex.ts`, `database/stores/PgDocumentIndexes.ts`, `apps/pageindex` (Python) | `documents`, `document_indexes`; the service's job records and documents | request, cancel, delete, build, cleanup, deliver the end to runs | queue, run store, the service |
| executor: `runtime/executor.ts` | – | run one task with a timeout | providers, nodes |
| compiler, core types, SDK, UI, CLI, importers, providers, credentials, knowledge, evaluation, plugins, observability | see `PROJECT.json` | – | – |

`PROJECT.json` lists every part with what is modelled of it, or why nothing is.

How a run goes: the API inserts a `queued` run and enqueues `run.start`. A worker
claims the job and calls `handle`, which serialises all triggers of a run inside
that worker. `take` acquires the lease and rebuilds the state from the checkpoint
and the log; node runs that are `running` without an execution here are recovered;
the trigger is stepped; the events go to the store in one transaction that is
refused unless the worker still owns the lease **and** the log still ends where
the copy does; only then the effects happen (execute, abort, cancel timer,
checkpoint, release). Results, due timers, jobs, heartbeats and the reaper of
expired leases are further triggers.

What is hard here: two workers that both believe they own the run; a crash
between any two awaits; the heartbeat, which drops a run outside the mutex while
a handler is between two awaits; what is read before an await and used after it
(`getRun` before `acquireLease`, `active` before the mutex); the API's "row first,
job second"; timers polled by every worker; retries, recoveries and late results
of the same node; the end of a run racing all of these. `PROJECT.json` lists each
hazard at its line with the properties aimed at it.

What makes each component correct:

* *step*: it never leaves the run hanging (something waits without a timer or a person
  to wake it, or is ready and not started), never takes back an end, never repeats
  what must not be repeated beyond its policy.
* *reducer and store*: from any checkpoint the tail leads to the same state; the
  projected rows agree with the log.
* *queue*: an armed job is delivered at most so many times, completed only after a
  delivery succeeded, dead-lettered only after the last, and one of the two happens.
* *delegation*: somebody carries a delegated node on until the run has settled it;
  one worker executes it; its outcome is neither replaced nor removed too early.
* *schedules*: no cron time fires twice, none disappears unaccounted for, overlap and
  catch-up are what they promise.
* *providers*: a circuit that refuses everybody has a probe out that will decide it;
  no answer is spliced from two providers.
* *page index*: what a reader is sent to exists, a build ends once and its waiters
  hear of it, a deleted document leaves nothing in the service but what a broken child
  left there.
* *orchestrator*: the log is the history of **one** sequential scheduler; effects
  follow commits and happen once; every recorded wish (answer, cancel, timer) is
  eventually looked at; a run that was queued ends.

## 2. Modules

| module | models | proofs |
|---|---|---|
| `RunStep` | `step()`, `ready()` and the effects, on flat plans of task, wait and human nodes | `RunStepProofs` (types, and what a step keeps) |
| `RunMachine` | the abstract specification: a run is one sequential machine that takes scheduler steps | `RunMachineProofs` |
| `RunReplay` | log entries, `reduceAll`, recovery | in `OrchestratorProofs` |
| `Orchestrator` | the store, the workers, the API, time and faults, for one run | `OrchestratorProofs` |
| `JobDelivery` | the abstract specification of a queue: at-least-once, bounded, no false completion | – |
| `QueueJobs` | `PgQueueDriver`: rows, leases, consumer loops of several processes | `QueueJobsProofs` |
| `Delegation` | `delegateNode`, the claim and completion functions of the database, the pool's handler, the signal job | `DelegationProofs` |
| `Schedules` | `dueFires`, `planScheduledRun`, `tickSchedules` on several replicas, and the API beside them | `SchedulesProofs` |
| `Failover` | `HealthTracker`, the gate of the registry, the walk of a generation chain | `FailoverProofs` |
| `PageIndex` | the index and cleanup jobs, the API's request, cancel and delete, the Python service, the waiting node | `PageIndexProofs` |
| `…MC` | the instances TLC checks | – |

`Orchestrator` EXTENDS `RunReplay`, which EXTENDS `RunStep`; it implements
`RunMachine` under the refinement mapping `st <- LogState`, the reduction of the
log (`Sequential == Machine!MachineSpec`). `QueueJobs` implements `JobDelivery`
(`KeepsPromise`), which is what `Orchestrator` and `Delegation` assume of the queue:
their `RedeliverJob`, `Redeliver` and `Throw` are the deliveries `JobDelivery` allows.

`QueueJobs`, `Delegation`, `Schedules`, `Failover` and `PageIndex` take their
environment from a constant `Setups`: a set of records, of which a behaviour draws
one in `Init` (variable `setup`, which never changes; `moving` are the other
variables). A setup names the kinds of faults that may befall the behaviour, and
what is configured (which loops share a process, a schedule's policies, a chain).
One run so covers several situations, and a property that the code keeps only
without a certain fault says so in its text (`"slow" \notin setup.kinds => …`).

### State and actions against the code

`RunStep`: `State` is what the readers of `SchedulerState` look at: the status of
the run, status, attempt and turn of every node, the open timers. A node run is named
by its node and attempt, since the code draws a fresh id exactly once per attempt. A
task may end an execution by asking a person (`Ask`, the outcome `suspend`): its node
run waits, and the answer executes the same node run again (`Reexecute`). An
execution is therefore named by node, attempt and turn, the number of answers the
node run has had; `SameRun` compares node runs, as everything in the code does that
looks up a node run id. A human node and a suspended task have an expiry timer only
where their request has an `expiresAt` (`Expires`), and a node with idempotency
"none" is retried where its policy says `allowOnIrreversible`.
`On…` are the trigger handlers of `Stepper`, `Process` is `process()` with
`checkRunBounds`, `Settle` is `settleStatus` with the end of the loop. `Started`,
`Aborted`, `TimersCancelled`, `Releases` are the effects. Statuses no guard here
tells apart are merged (named in the module's header).

`RunReplay`: a log entry is one commit: the new run status, the nodes it changed,
the timers it set and fired. `Reduce` is `reduce()`; `Replay` says what
`reduceAll` computes without recursion (the last entry that names a node or timer
decides), so it can be used in proofs; lemma `ReplayAppend` shows that appending
one entry is one `Reduce`.

`Orchestrator` splits every handler at its awaits, following `pc[w]`:

| pc | code | action |
|---|---|---|
| `idle` | `take`: cached, or `getRun` | `TakeHeld`, `TakeRead` |
| `acquire`, `acquireNew` | `acquireLease` | `TakeAcquire` |
| `load`, `loadNew` | `recover`, `held.set` | `TakeLoad` |
| `taken` | `appendRaw(RUN_LEASE_TAKEN)` | `TakeRecord` |
| `recover` | lost node runs | `RecoverLost` |
| `trigger` | the trigger itself, or the early return | `RunTrigger`, `SkipTrigger` |
| `human` | answers the API recorded | `HandleResponse`, `FinishTrigger` |
| `perform` | checkpoint, effects, release or drop | `Perform`, `PerformFails` |

`Commit` is `step()` with the append: success with all projections in the same
transaction (`Append_`), the fence's refusal (`Refused`), or another error, after
which the transaction may or may not have committed (`Broken`). Triggers enter the
mutex by `ClaimJob`, `PollTimer`, `FinishExecution`, `Reap` and `Renew`.
`LoseLease` is the heartbeat's drop; it interleaves with every pc, as in the code.
Each answer has a `run.resume` job of its own (`AnswerJob`), as `runs.ts:1208`
enqueues it without an id that would merge two. `tasks` is the row of the latest
request of each node that may ask. `active` holds one execution per node run, as the
map in the code does: `startExecution` starts nothing while the node run is in it
(`Begun`), an abort takes it out whatever its turn (`Without`), and so does the catch
of an execution whose result could not be handled (`Caught`). The environment is
`RequestCancel`, `Respond`, `DeadlinePasses`, `LeaseLapses`, `RedeliverJob`, `Crash`,
`BeginClose`/`EndClose`.

Two reads of `Orchestrator` are earlier in the model than in the code, each harmless: the whole
`recover()` is one action, because only commits change what it reads and a commit
by another worker makes the copy stale, which the model has anyway; and in
`Perform` the effects of one commit are one action, with `PerformFails` for the
store failing among them and `Crash` before them.

`QueueJobs`: `row` is `queue_jobs`, `loop` a consumer loop's place in `consume()`.
`DeadLetterAbandoned` and `Claim` are the two statements of `claim()`; the handler
and the statement that ends it are further steps. The owner of a lease is the
process, as `locked_by` is. `lapsed` stands for `locked_until` having passed, `due`
for `run_at`. A statement may fail (fault `store`), or commit with its reply lost
(fault `reply`): a `claim()` then leaves a row that nobody handles (`ClaimThrows`),
and a `complete()` is followed by the `fail()` of the catch (`CompleteThrows`).

`Delegation`: `effect` is what the orchestrating worker still has to do after its
commit, `call` the row of `delegated_nodes`, `job` its `node.exec` job, `worker` the
place in the pool's handler, `signal` the `run.signal` job and its loop. Of the run
only whether the node waits or is over is kept.

`Schedules`: a tick is a locked transaction (`Plan`, `PlanSkip`, `PlanFails`) and
then, outside it, `Create` and `Enqueue` per fire; `Poll` reads the clock before
the row is locked. `StartFails` is a `createRun` or an `enqueue` that fails in a live
process. `DueFires` is `dueFires()` over a cron that fires at the
multiples of a period. `slots` is history.

`Failover`: a call is in front of `isDown`, of the gate, of the rate limiter, or
sent. `Record` is `HealthTracker.record` with its window, its consecutive failures
and the circuit; `"cooled"` is an open circuit whose time is over. An error may count
against the circuit (`Retryable`) without moving the call on to the next provider
(`AdvancesChain`).

`PageIndex`: `row` is `document_indexes`, `build` the place of a worker in
`runIndexJob` or `runCleanupJob`, `svc` the service's record, thread and `_cancel`
flag of a job, `docs` the documents it stores, `waiter` one run at
`flowaid.pageindex.index`. Every call of the service and every statement is a step.
The child stores its document (`StoreDocument`) and then reads it back and writes
`result.json` (`WriteResult`); it may fail, or be killed, before, between and after
(`ChildFails`), and what it has stored then stays. That it ends after storing is the
fault kind `orphan`: without it, storing and writing are one step. A delivery counts
the attempts from the row it read at its start (`Deliver`), and a service that refuses
a request ends the build at once (`Unreachable`). Abstracted: the service's look at
`_cancel` and its update to `running` are one step; a restart of the service ends its
children; heartbeats of job leases are `Crash` and `Stall`.


## 3. What TLC checks

| run | instance | shows |
|---|---|---|
| `Machine` | a retried task that may ask a person with a time limit; behind it a wait and a non-repeatable task whose policy allows retries, that may ask without a limit and whose failure is ignored; behind that a task that must not be repeated; a human task with a time limit, and behind it one without | `Settled`, `WaitersHaveTimers`, `NoneKeepsItsPolicy`, `Final` of the scheduler alone |
| `Takeover` | two parallel tasks, one retried after failures, the other not safe to repeat and suspended to ask a person; one crash or stall | `MemoryIsReplay`, `ExecutionsAreSound`, `AttemptsAreBounded`, `ExecutedOnce` |
| `Answers` | a task beside a human task, a cancel request at any time; one crash | `TerminalIsLast`, `MarkedIsHandled`, `RequestsArePending` |
| `Reviews` | a task that asks a person with a time limit, is answered and executed again, expires, or times out with the run; one fault of every kind | `RowsMatchLog`, the refinement `Sequential` |
| `Ends` | a task beside a wait; one crash; fairness | `RunEnds` |
| `Queue` | two jobs, two loops in one process or in two; two crashes, stalls, store errors, lost replies; three enqueues; fairness | `OneHandlerAtATime`, the refinement `KeepsPromise`, `JobsEnd` |
| `Delegated` | two nodes, two pool workers; two faults of every kind; fairness | `HandoverIsTracked`, `ClearedIsLogged`, `ExecutedByOne`, `OutcomeIsKept`, `DelegatedEnds` |
| `Fires` | two replicas, six units of time; catch up, skip, and one at a time; two faults | `PolicyIsKept`, `OnePerSlot`, `EverySlotAccounted`, `NoOverlap` |
| `Providers` | two calls, chains of one and two providers; fairness | `ProbeIsOut`, `OneText`, `ProbeEnds` |
| `Indexes` | one build with two workers, one whose child ends at any point, two builds with one worker; two faults; fairness | `ReadableExists`, `NothingLeft`, `EndIsFinal`, `BuildEnds`, `WaiterWakes` |
| `SwallowedTimer` | a non-repeatable task beside a wait; one crash | refutes a comment: section 6 |
| `StuckProbe` | two calls, one provider, a caller that is cancelled | refutes a comment: section 6 |

Each module's type invariant is checked by one of its runs, that of `Schedules` is
proved only.

**Bounds.** The runs of `Orchestrator` have two workers and plans of one or two
nodes (six in `Machine`): the interleavings that matter are between a trigger for
one node and something that happens to the other. `MaxFaults` (faults in a
behaviour) is 1 there, and 2 in the smaller modules, where a fault during the
recovery from another matters. `MaxRestarts` limits how often a lost execution is
restarted while other triggers are queued, `MaxTurns` (1 where tasks ask) how often a
node run asks. `Waits` admits one waiting trigger of
each source per worker: the code has one consumer loop claim per run in flight, one
timer page, one heartbeat and one reaper pass at a time. `CheckpointEvery` is 2, so
that runs have a checkpoint in mid-log and a tail behind it. In `Machine` the
constraint `FewAttempts` cuts off at `MaxAttempt` and `MaxTurn`. In `Queue`, `MaxAttempts` is 2 and
`MaxEnqueues` 3: a job is re-armed after its end while an older delivery is still
at work. In `Fires`, `MaxTime` is 6 with periods 2 and 3, `MaxCatchUp` 2 and a jitter
of 1, so that three slots may be due at once and one is dropped. In `Providers`,
`OpenAfter` is 1 and two samples are kept: a circuit opens, cools, probes and opens
again between the steps of the other call. In `Indexes`, `MaxAttempts` is 2.
The worker slots are symmetric, and `SYMMETRY` is used in safety runs only.
`CHECK_DEADLOCK` is off except in `Queue` and `Machine`, because what has ended stops.

**Fairness.**

* `Ends`: weak fairness of a worker's handler, reaper, heartbeat and executions: the
  event loop runs them, and node timeouts end executions. Strong fairness of
  claiming a job and polling due timers: workers poll again and again, and a claim
  may be disabled for moments while another trigger of the same source waits. Weak
  fairness of the lapse of a lease nobody renews: it is wall-clock time. Nothing is
  assumed of the API, of faults, or of leases of live workers. It is run on a task
  that is safe to repeat, so that the run does not end simply by failing; finding
  `SwallowedTimer` shows what happens otherwise.
* `Queue`: loops poll, handlers end, clocks run; strong fairness of the claim of a
  row, since `claim()` takes the oldest due row first.
* `Delegated`: the worker's loops, the queue's redeliveries and the passing of the
  stale window; nothing of the run settling the node otherwise.
* `Providers`: a call that was let out is answered (providers have timeouts).
* `Indexes`: workers poll, the service's children end (their deadline kills them), a
  run commits its suspension and takes its signal. Nothing is assumed of
  `reconcilePageIndex`, of the API or of timeouts of nodes.

**Mutants.** Each property of a passing run has a mutant: a definition next to the
real one (`MayRetryAny`, `FencedLoosely`, `ClaimableForEver`, `DueAlways`, …) that
makes the mistake a plausible patch could make, under which the same run fails.

## 4. What is proved

For every plan that satisfies `PlanAssumption`, all sets of workers, jobs, processes
and loops, and all values of the bounds, under the named assumptions of the modules.
A theorem that needs more says so in its `ASSUME`, and below:

| theorem | says |
|---|---|
| `RunMachineProofs!MachineType`, `NoneOnce`, `EndsAreFinal`, `NobodyHangs`, `EveryStepSettles` | the five properties of run `Machine` |
| `OrchestratorProofs!TypeCorrect` | `TypeOK` |
| `OrchestratorProofs!MemoryCorrect` | `MemoryIsReplay` |
| `OrchestratorProofs!LogIsSequential` | the refinement: `Spec => Sequential` |
| `OrchestratorProofs!EndIsLast` | `TerminalIsLast` |
| `OrchestratorProofs!LogIsSettled` | the machine's invariants hold of the log of the distributed system |
| `OrchestratorProofs!OnceOnly` | the action property `ExecutedOnce` |
| `OrchestratorProofs!ExecutionsSound` | `ExecutionsAreSound` |
| `OrchestratorProofs!RowsAgree` | `RowsMatchLog` |
| `OrchestratorProofs!AttemptsBounded` | `AttemptsAreBounded` |
| `OrchestratorProofs!MarkedHandled` | `MarkedIsHandled`, under `NoStall` and `RecoveryResumes` |
| `OrchestratorProofs!RequestsPend` | `RequestsArePending`, under `NoStall`, `RecoveryResumes` and `NoApiStop` |
| `QueueJobsProofs!QueueType` | `TypeOK` |
| `QueueJobsProofs!OneHandler` | `OneHandlerAtATime` |
| `QueueJobsProofs!DriverKeepsPromise` | the refinement: `Spec => KeepsPromise` |
| `DelegationProofs!DelegationType` | `TypeOK` |
| `DelegationProofs!OneExecutes` | `ExecutedByOne` |
| `DelegationProofs!NobodyForgets` | `HandoverIsTracked` |
| `DelegationProofs!OutcomesAreLogged`, `OutcomesAreKept` | `ClearedIsLogged`, and the action property `OutcomeIsKept` |
| `SchedulesProofs!ScheduleTypes` | `TypeOK` |
| `SchedulesProofs!OneRunPerSlot` | `OnePerSlot` |
| `SchedulesProofs!PolicyHolds` | `PolicyIsKept` |
| `SchedulesProofs!NoSlotIsLost` | `EverySlotAccounted` |
| `SchedulesProofs!OneAtOnce` | `NoOverlap` |
| `FailoverProofs!FailoverType` | `TypeOK` |
| `FailoverProofs!ProbeStaysOut` | `ProbeIsOut` |
| `FailoverProofs!TextOfOneProvider` | `OneText` |
| `PageIndexProofs!PageIndexType` | `TypeOK` |
| `PageIndexProofs!ReadersFindTheirDocument` | `ReadableExists` |
| `PageIndexProofs!EndsOfBuildsAreFinal` | the action property `EndIsFinal` |
| `PageIndexProofs!NothingRemains` | `NothingLeft` |

The arguments:

* *The step.* A step is a trigger's handler followed by `process()`. Each moves
  every node at most once along its life cycle (`Move`), from which `Tidy` (only
  tasks run, only tasks that are safe to repeat or whose policy allows it await a
  retry, the others are at their first attempt) and the finality of ends follow.
  `NobodyHangs` needs `Timed` together with `Tidy`: a timer is removed only by a
  trigger whose node no longer waits for it, a timer of an earlier turn is not the one
  the node waits for, and who waits without a timer has asked without a time limit.
  `EveryStepSettles` needs to know what a handler may hand to `process()`
  (`Handled`): a run that runs, an unchanged one, or an ended one.
* *The log.* `MemoryIsReplay` is inductive once `TypeOK` is: `NextShape` shows that
  every action either leaves the log alone and gives nobody a copy that is not a
  recovery of it (`Quiet`), or is one worker's fenced commit of one scheduler step
  (`Steps`). The fence makes the committing copy the reduction of the **whole** log
  (`FencedIsLogState`), and `ReplayAppend` carries every other copy and the
  checkpoint along.
* *The refinement* then falls out of the same two cases: `Quiet` is a stutter and a
  commit is a `MachineNext` step from `LogState` (`StepIsMachines`).
* *The end.* `TerminalIsLast` is not inductive. What keeps the log closed is
  `EndedIsUnleased`: the entry that ends the run also clears its lease, and
  `acquireLease` refuses a run that has ended, so afterwards no fence opens.
* *Executions.* A node never returns to an attempt or a turn it has left (`Past`, kept
  by every step: `StepAdvances`), and a step starts only what its state is not past.
  Since the committing copy is the log's state, an execution starts in one entry of
  the log only (`StartsArePast`), one after the first of its node run in the commit of
  an answer. From there it goes through the effects of one worker to `ran` and never
  back (`ExecutionsAreOne`; `NextEffects` sorts the actions by what they do to the
  effects that wait). That a node which must not be repeated ran in one node run only
  follows from the scheduler's `Tidy`, which keeps it at its first attempt.
* *The rows.* A node that waits for a person is decided (`Decided`), which closes its
  task, is cancelled only by a run that ends otherwise than completed (`StepCancels`),
  or goes on waiting (`StepOfWaiting`); one that was decided may ask again, which opens
  a new task; and a run that has ended leaves nothing waiting (`SettledState`): these
  are the cases of `TaskRow`.
* *The attempts.* A step raises the attempt of a node in two ways only: a failure to
  which the retry policy grants another attempt (`RetryGranted`: attempts are left),
  or a recovery, which does not ask the policy. The invariant pays for both: an
  attempt is at most the policy's number plus the recoveries of that node in the log
  (`Paid`), and a node that awaits its retry has room for one more (`Attempts`). The
  log counts the recoveries by a set of indices that only grows (`RecoveriesGrow`),
  so no induction over the log is needed.
* *Timers that are marked.* `MarkedHandled` and `RequestsPend` assume that no lease
  lapses under a live worker (`NoStall`) and that every task is safe to repeat or stops
  the run on an error (`RecoveryResumes`), so that no recovery parks the run before the
  trigger it precedes. What a copy knows to be over is over in the log
  (`CopiesBehind`), and the worker that holds the run and is not closing has its
  lease and the whole log (`Driven`). So a handler that goes beyond its timer either
  committed it or found in the whole log that the run does not need it
  (`TimersFollowed`); every timer's row is of a node run that waits for it or is over.
* *Requests.* For answers no single job can be followed, since the handler of any job
  reads every task, and one that answers a human node on its way parks the run and may
  return with other answers unread. They are counted: of the answers the log has not
  got (`Owed`), those of human nodes and those of tasks whose own job is used up
  (`Counted`) are never more than the human nodes' answers whose own job still waits in
  the queue or in a mutex (`Promised`), which is `AnswersFollowed`. A job is used up
  only by a handler that reads the tasks (`Reads`): it finds none to answer, so that
  nothing is owed, or gives the log one answer for the one job; the answer of a task
  resumes the run, and its handler reads on. For a cancel request it is enough to follow its own
  job (`CancelFollowed`): a handler that uses it up has ended the run. `RequestsPend`
  also assumes that the API does not stop between the row and the job (`NoApiStop`),
  which is `LostAnswer`.
* *The queue.* `KeepsPromise` fails unless what `complete()` and `fail()` write is
  about the current claim, although they are guarded by the owner column only. The
  invariant `Sane` says so: a loop that still owns the row it works on works on the
  current arming, with the current count of attempts, and its handler has returned
  if it is completing. It is inductive in two ways, and the theorems assume one of
  them (`SoundSetups`): every loop has a process of its own, so that the owner tells
  claims apart; or no lease lapses under a live loop and no statement commits with its
  reply lost, so that an owned row is worked on by one loop only (`Exclusive`).
  Without either it is false: `SharedOwner` and `SharedReply` below.
* *Delegation.* `ExecutedByOne` follows from `Owned`: a worker that executes holds the
  claim in its own name, and a claim is taken over only when its owner is dead.
  `HandoverIsTracked` needs `Tracked`: while no job is in two hands, whoever stops
  working on a call leaves behind a job, a claim or an outcome from which somebody
  goes on. `Logged` says that an outcome is removed only after the run has it.
* *Schedules.* `OnePerSlot` follows from what is *named*, a run that exists or a fire a
  replica still has to start: two named fires lie in different slots, and all of them
  before the slot of `next_run_at`. A tick plans only fires from there on and moves
  `next_run_at` past its clock, so a tick that plans from a clock read long ago finds
  the row not due (`DueAt` reads it again under the lock). `PolicyIsKept` compares
  `dueFires()`, which walks back from the clock over at most as many cron times as it
  may fire, with the whole set of due fires: how many members of a set are later than
  a given one is a rank, and the newest of both sets are the same by counting.
  `NoOverlap` needs `LastKept`: while replicas are prompt and a pass starts one run,
  whatever is active or about to be is the run the schedule names last.
  `EverySlotAccounted` is inductive as soon as a jitter cannot jump over a cron time.
* *Failover.* A half-open circuit has a caller whose probe is out, in every setup
  without the cancellation of `StuckProbe`: the gate opens one probe at a time, its
  caller keeps it until it records, and every record ends the half-open state.
* *Page indexes.* `ReadableExists` looks local and is not: four parties remove
  documents. The invariant says why none removes a published one. A job the service
  reports as ready is final, so what a delivery publishes is what its job recorded
  (`Kept`, `Service`); the runner discards the document of a later run than any
  published; a delivery that stops its job has read a row that can never be published
  again, and what it read stays true (`Working`, `Forward`); the cleanup runs only
  after every row is revoked.
  `NothingLeft` accounts for the one document that an index has as long as the service
  does not restart: it exists only while its runner has yet to decide, or once its job
  has recorded it (`Once`). A deletion that finds no build under way finds no job and no
  worker either, so nobody submits again; and the cleanup ticks an index off only after
  its job is finished or told to stop, and its document removed (`TickedOff`,
  `Removed`). What a late runner still stores it discards itself, unless its child
  ended before it handed in its result: then the job is recorded as failed or
  cancelled and its document stays (`Orphaned`), which `NothingLeft` admits and
  `AlwaysRemoved` does not: `Orphan` below.

Only model-checked is liveness: `RunEnds`, `JobsEnd`, `DelegatedEnds`, `ProbeEnds`,
`BuildEnds`, `WaiterWakes`. Liveness under fairness, `ENABLED` and induction over
recursive data are beyond the prover. Every safety property of a passing run has a
theorem. The conditions of `MarkedHandled` and `RequestsPend` are not for convenience:
without `RecoveryResumes` the first is false (`SwallowedTimer` in section 6), without
`NoApiStop` the second (`LostAnswer`).

## 5. Not modelled, and why

* *Of the run engine*: branches, switches, joins and races, subflows and child runs,
  loop and foreach scopes, event waits and suspensions (a task suspends here only to
  ask a person), escalation, manual retry, limits on concurrency, node runs and cost.
  The plans here are flat, so nothing is ever pruned. What a delegated node does to a
  run is `Delegation`'s, apart from it.
* *Two details of `handleNow` and `startExecution`*: the loop that reads recorded
  answers looks at each open task once, where `HandleResponse` goes on until it finds
  none that is answered, so a handler of the model may also pick up an answer recorded
  while it reads, which in the code the answer's own job brings; and an execution that the catch of an earlier one has cut out of
  `active` (`Caught`) runs on in the code, where the model leaves out its late result.
* *Of the queue*: priorities, `NOTIFY` (polling covers it), `stop()`, and the BullMQ
  driver, a wrapper around a library.
* *Of schedules*: webhooks, events and MCP exposures, firing by hand, the cron syntax.
* *Of failover*: eligibility and order of the candidates, prices, the decision chain
  (the same walk), the token bucket's arithmetic.
* *Of page indexes*: `deletePageIndexSource` (the same steps, done by the API),
  uploads, and chunking, embedding and retrieval, which are data.
* *Data*: outputs, expressions, usage, cost, redaction, SSE and logs. No property
  here is about them.
* *A worker slot* of `Orchestrator` stands for a process and its successors, a
  successor having a new worker id; the lease of a dead process is owned by `Dead`.
* *Components without control state* (providers' HTTP, compilers, UI, SDK, CLI, which
  are most of the repository's lines): listed in `PROJECT.json` with the reason.

## 6. Disagreements between code and documentation

Two are runs that violate what the quoted line says.

* `SwallowedTimer`: when the recovery before a trigger parks the run, `handleNow`
  returns `ok` without the trigger (`orchestrator.ts:294`) and the timer's row is
  marked fired; the comment at `orchestrator.ts:533` says it is marked only after
  the run handled the trigger. The wait then never ends.
* `StuckProbe`: the gate takes the half-open probe and then waits for the rate
  limiter outside the block that records (`registry.ts:364`); a caller that is
  cancelled there keeps the probe for ever, and every later call is refused.
  `health.ts:5` says that the probe's outcome closes or opens the circuit.

The others have no run of their own. Each shows under a change of one run's
configuration, and is why a property there is conditional or an instance small.

| name | change | what happens |
|---|---|---|
| `FalseLoss` | `Takeover`, `MaxFaults = 0`, `LossNeedsFault` | an execution leaves `active` before its result has the mutex (`orchestrator.ts:521`), so a parallel result makes it look lost; `step.ts:1048` says that a worker died |
| `ParkedLease` | `Answers` with `TwoWaitsKind`, `ParkedIsReleased` | a worker that takes a parked run for a trigger that does not concern it never releases it (`step.ts:1991`); the design says that what waits releases the lease |
| `LostAnswer` | `Answers`, `Faults = {"api"}` | the answer is committed and its job enqueued in two steps (`runs.ts:1208`); the design says a restart between any two steps loses nothing |
| `CountedRecovery` | `Takeover` with `OneTask`, `AllSafe`, `RecoveryNotCounted` | a restart after a loss counts as an attempt (`step.ts:1075`); the design says it does not |
| `SharedOwner` | `Queue`, `Setups <- StalledShared`, `FinishedSucceeded` | a loop whose lease lapsed completes the claim of a sibling loop, since `locked_by` names the process (`PgQueueDriver.ts:140`) |
| `SharedReply` | `Queue`, `Setups <- RepliesShared`, `OneHandlerAtATime` or `KeepsPromise` | `complete()` commits and its reply is lost, so the catch calls `fail()`; the row, armed again and claimed by a sibling loop of the process, is released under its handler (`PgQueueDriver.ts:152`, `203-208`) |
| `EarlyExpiry` | `Reviews`, `MaxTurns = 2`, no faults, `CanTimeOut` false, and the invariant that no expiry timer of an earlier turn decides a question | the expiry timer of a first question is polled before the answer cancels it and handled after the resumed task has asked again: it expires the second question at once, since `step.ts:802` looks for any open task of the node run |
| `LostSignal` | `Delegated`, `Setups <- OnlySignal`, `AlwaysCarriedOn` | the enqueue of `run.signal` fails after the outcome is stored; the retry finds the call done and returns (`delegation.ts:143`); line 16 says that the queue's retries cover a lost signal |
| `EarlyRedelivery` | `Delegated`, `staleFirst` false | a job that comes back while the dead worker's claim is young is completed without an execution (`delegation.ts:112`); line 15 says it re-executes |
| `LostHandover` | `Delegated`, kind `orchestrator` | the `delegate` effect is not repeated by a takeover (`orchestrator.ts:358`); `delegation.ts:47` speaks of a retried effect |
| `SwallowedResult` | `Delegated`, kind `swallow` | as `SwallowedTimer`, for an outcome, which is then deleted (`worker.ts:685`) |
| `LostFire` | `Fires`, `Setups <- Crashed`, `FireIsStarted` | a crash after the transaction of a tick starts no run and writes no error (`scheduler.ts:282`) |
| `LateFire` | `Fires`, `Setups <- Late`, `OneActive` | the overlap check does not see a run that is planned and not yet created (`scheduler.ts:221`) |
| `Burst` | `Fires`, `Setups <- Burst`, `OneActive` | with catch-up "all" one pass starts several runs although overlap is "skip": the check looks once, before the first (`scheduler.ts:221`) |
| `DroppedFire` | `Fires`, `Setups <- Deployed`, `SlotsAccounted` | a deployment moves `next_run_at` past a fire that is due (`triggers.ts:191`) |
| `JumpedFire` | `Fires`, `Setups <- Jumping`, `Jitter = 3`, `SlotsAccounted` | a jitter of a period or more moves `next_run_at` past cron times that are neither fired nor counted as dropped (`scheduler.ts:251`; the API takes up to an hour); `scheduler.ts:8` says that every cron time after `next_run_at` is due |
| `LateSuccess` | `Providers`, `ClosedByProbe` | a late success of an old call closes an open circuit without cool-down or probe (`health.ts:93`) |
| `Orphan` | `Indexes`, `Setups <- Orphaning`, `AlwaysRemoved` | the child fails, is killed or cancelled after `submit_document` and before `result.json` (`index_job.py:100-122`): nothing names the document and nobody discards it, though `jobs.py:226` says of `_discard` "A cancelled job that still produced a document: remove it so it is never read." |
| `InFlight` | `Indexes`, `Setups <- InFlight`, `AlwaysRemoved` | a deletion while a build's submission is under way: the cleanup's cancel finds nothing, the worker submits, then sees `deleted` and skips; the document stays in the service, though `apps/api/src/services/pageindex.ts` says that the worker's index job removes it (line 632) |

Of page indexes, read in the code while modelling it:

* a build the service failed by its own restart (`SERVICE_RESTARTED`) is marked failed
  at once; `docs/pageindex/SETUP.md:128` and `jobs.py:7` say the worker resubmits;
* a build that fails, expires or is marked again after a cancel request stays
  `cancel_requested`, and later requests join it: `BuildEnds` excludes cancels;
* the paths of a timeout and of a start with a cancel request ignore whether
  `cancelUpstream` succeeded;
* a cancel between the service's last look at `_cancel` and the record it writes is
  overwritten (kind `late`, excluded in `NothingLeft`);
* a deletion wakes nobody who waits for the build, until the node's own timeout;
* of two builds of a document the one that ends last is active, also if it is of an
  older version.

## 7. Plan

1. Extend `RunStep` with scopes, branch, join and race, subflow, and manual retry;
   carry the proofs of `RunStepProofs` along.
2. `McpPool`: the sessions of `packages/mcp/src/pool.ts`, evicted, swept and closed
   while others connect or use them.
3. `Subflow`: two runs composed through the queue, and the live-only listener of
   terminal events; the chunked evaluation job; deployments; the rotation of keys.
4. Proofs: how far `RequestsPend` carries when leases may lapse under a live worker.
