----------------------------- MODULE PageIndex ------------------------------
(***************************************************************************)
(* The page indexes of one document: the rows of document_indexes, the     *)
(* worker's pageindex.index and pageindex.cleanup jobs, the API's request, *)
(* cancel and delete, and the Python service that builds an index in a     *)
(* child process and keeps a record of each job.                           *)
(*                                                                         *)
(* Every call of the service and every statement on a row is a step of its *)
(* own.  docs are the documents the service stores (the n-th build of an   *)
(* index makes <<i, n>>).  A job is delivered again when its worker dies   *)
(* or stalls past its lease; "late" allows a cancel between the service's  *)
(* last look at _cancel and the record it then writes, and "orphan" a      *)
(* child that ends with its document stored and not handed in.  waiter is  *)
(* one run whose node waits for an index.                                  *)
(***************************************************************************)
EXTENDS Naturals, FiniteSets

CONSTANTS
    Workers, Indexes,
    MaxAttempts,        \* maxAttempts of a build
    None,
    Setups,             \* the workers and indexes in play, what happens to them
    MaxFaults           \* bound

ASSUME PageIndexAssumption ==
    /\ MaxAttempts \in Nat \ {0} /\ MaxFaults \in Nat
    /\ None \notin Indexes
    /\ \A s \in Setups : s.workers \subseteq Workers /\ s.indexes \subseteq Indexes

VARIABLES setup, document, row, job, cleanup, build, svc, docs, waiter, faults
moving == <<document, row, job, cleanup, build, svc, docs, waiter, faults>>
vars == <<setup, moving>>

Happens(kind) == kind \in setup.kinds
Fault(kind) == Happens(kind) /\ faults < MaxFaults /\ faults' = faults + 1

RowStates == {"queued", "running", "ready", "superseded", "cancel_requested",
              "canceled", "failed", "deleted"}
Building == {"queued", "running", "cancel_requested"}
Readable == {"ready", "superseded"}
Terminal == {"ready", "failed", "canceled"}

NoRow == [state |-> "absent", active |-> FALSE, attempts |-> 0, doc |-> 0, removed |-> FALSE]
Off == [pc |-> "idle", index |-> None, attempt |-> 0, then |-> "idle", remove |-> FALSE]
NoJob == [rec |-> "none", thread |-> "none", run |-> 0, result |-> 0, cancel |-> FALSE]

Init ==
    /\ setup \in Setups
    /\ document = "live"
    /\ row = [i \in Indexes |-> NoRow]
    /\ job = [i \in Indexes |-> FALSE]
    /\ cleanup = FALSE
    /\ build = [w \in Workers |-> Off]
    /\ svc = [i \in Indexes |-> NoJob]
    /\ docs = {}
    /\ waiter = [pc |-> "out", index |-> None]
    /\ faults = 0

Exists(i) == row[i].state # "absent"
OnIt(i) == \E w \in Workers : build[w].index = i /\ build[w].pc # "idle"
Pending(i) == job[i] \/ OnIt(i)

----------------------------------------------------------------------------
\* The API.

\* requestDocumentIndex and enqueueIndex: joins a live row, otherwise queues a new build.
\* "lost": the process ends between the two.
Request(i) ==
    /\ document = "live" /\ i \in setup.indexes /\ ~Exists(i)
    /\ row' = [row EXCEPT ![i] = [NoRow EXCEPT !.state = "queued"]]
    /\ \/ job' = [job EXCEPT ![i] = TRUE] /\ UNCHANGED faults
       \/ Fault("lost") /\ UNCHANGED job
    /\ UNCHANGED <<document, cleanup, build, svc, docs, waiter>>

\* requestIndexCancel
Cancel(i) ==
    /\ Happens("cancel") /\ document = "live"
    /\ row[i].state \in {"queued", "running"}
    /\ row' = [row EXCEPT ![i].state = IF @ = "queued" THEN "canceled" ELSE "cancel_requested"]
    /\ UNCHANGED <<document, job, cleanup, build, svc, docs, waiter, faults>>

RevokedActive(r) == IF r.state = "absent" THEN r ELSE [r EXCEPT !.state = "deleted"]
Revoked(r) == IF r.state = "absent" THEN r
              ELSE [r EXCEPT !.state = "deleted", !.active = FALSE]

\* deleteDocument: while a build is under way only in a setup that says so
UnderWay == \E i \in Indexes : row[i].state \in Building \/ Pending(i)
Delete ==
    /\ document = "live"
    /\ \/ Happens("delete")
       \/ Happens("deleteIdle") /\ ~UnderWay
    /\ document' = "deleted"
    /\ row' = [i \in Indexes |-> Revoked(row[i])]
    /\ cleanup' = TRUE
    /\ UNCHANGED <<job, build, svc, docs, waiter, faults>>

----------------------------------------------------------------------------
\* The service: its API.

\* submit: the recorded job, unless a restart failed it or it is new
Resubmits(s) == s.rec \in {"none", "restarted"}
Submitted(s) ==
    IF Resubmits(s)
    THEN [s EXCEPT !.rec = "queued", !.thread = "waiting", !.run = @ + 1, !.result = 0]
    ELSE s

\* cancel: a finished job stays as it is; otherwise its process is killed
CanceledJob(s) ==
    IF s.rec \in Terminal \cup {"none", "restarted"} THEN s
    ELSE [s EXCEPT !.rec = "canceled", !.cancel = TRUE,
                   !.thread = IF @ \in {"waiting", "child", "stored"} THEN "none" ELSE @]

\* The runner of a job: _run.
StartChild(i) ==
    /\ svc[i].thread = "waiting"
    /\ svc' = [svc EXCEPT ![i].thread = "child", ![i].rec = "running"]
    /\ UNCHANGED <<document, row, job, cleanup, build, docs, waiter, faults>>

\* The child of a job: submit_document stores, then the tree is read back and result.json
\* written.  "orphan": something befalls the child in between.
StoreDocument(i) ==
    /\ svc[i].thread = "child"
    /\ svc' = [svc EXCEPT ![i].thread = IF Happens("orphan") THEN "stored" ELSE "written"]
    /\ docs' = docs \cup {<<i, svc[i].run>>}
    /\ UNCHANGED <<document, row, job, cleanup, build, waiter, faults>>

WriteResult(i) ==
    /\ svc[i].thread = "stored"
    /\ svc' = [svc EXCEPT ![i].thread = "written"]
    /\ UNCHANGED <<document, row, job, cleanup, build, docs, waiter, faults>>

\* The child fails, or the service's deadline kills it (even with its result written), or
\* _discard throws: what it has stored stays.
MayFail(s) == \/ s.thread \in {"child", "stored"}
              \/ s.thread = "written" /\ Happens("orphan")
ChildFails(i) ==
    /\ MayFail(svc[i])
    /\ Fault("fail")
    /\ svc' = [svc EXCEPT ![i].thread = "none", ![i].rec = "failed"]
    /\ UNCHANGED <<document, row, job, cleanup, build, docs, waiter>>

\* _discard: the document of a cancelled job goes, which its result names
Discard(i) ==
    /\ svc[i].thread = "written" /\ svc[i].cancel
    /\ svc' = [svc EXCEPT ![i].thread = "none"]
    /\ docs' = docs \ {<<i, svc[i].run>>}
    /\ UNCHANGED <<document, row, job, cleanup, build, waiter, faults>>

Recorded(s) == [s EXCEPT !.thread = "none", !.rec = "ready", !.result = s.run]
ChildSucceeds(i) ==
    /\ svc[i].thread = "written" /\ ~svc[i].cancel
    /\ svc' = [svc EXCEPT ![i] = IF Happens("late") THEN [@ EXCEPT !.thread = "checked"]
                                 ELSE Recorded(@)]
    /\ UNCHANGED <<document, row, job, cleanup, build, docs, waiter, faults>>
RecordReady(i) ==
    /\ svc[i].thread = "checked"
    /\ svc' = [svc EXCEPT ![i] = Recorded(@)]
    /\ UNCHANGED <<document, row, job, cleanup, build, docs, waiter, faults>>

Runner(i) == StartChild(i) \/ StoreDocument(i) \/ WriteResult(i) \/ ChildFails(i)
             \/ Discard(i) \/ ChildSucceeds(i) \/ RecordReady(i)

\* _reconcile: a restarted service fails what it was building
RestartService ==
    /\ Fault("restart")
    /\ svc' = [i \in Indexes |->
           [svc[i] EXCEPT !.thread = "none", !.cancel = FALSE,
                          !.rec = IF @ \in Terminal \cup {"none"} THEN @ ELSE "restarted"]]
    /\ UNCHANGED <<document, row, job, cleanup, build, docs, waiter>>

----------------------------------------------------------------------------
\* The worker: runIndexJob.

At(w, pc) == build[w].pc = pc
Row(w) == row[build[w].index]
Goto(w, pc) == build' = [build EXCEPT ![w].pc = pc]
Stop(w, then, remove) ==
    build' = [build EXCEPT ![w].pc = "stopping", ![w].then = then, ![w].remove = remove]
Others == <<document, cleanup, faults>>

\* the row says that the build has ended: runs that still wait are told
AfterEndSilent == "skipping"
AfterEnd == "delivering"

\* a build that has not ended, and is not to be cancelled
MayRunFailed(r) == r.state \in {"queued", "running", "failed"}
MayRun(r) == r.state \in {"queued", "running"}

\* takes the job and reads the row: its attempts are counted from what is read here
Deliver(w, i) ==
    /\ w \in setup.workers /\ At(w, "idle") /\ job[i]
    /\ job' = [job EXCEPT ![i] = FALSE]
    /\ build' = [build EXCEPT ![w] =
         [Off EXCEPT !.index = i, !.then = "canceling",
            !.attempt = IF MayRun(row[i]) THEN row[i].attempts + 1 ELSE 0,
            !.pc = CASE row[i].state = "cancel_requested" -> "stopping"
                     [] row[i].state \in {"queued", "running"} -> "marking"
                     [] row[i].state \in {"absent", "deleted"} -> "skipping"
                     [] OTHER -> AfterEnd]]
    /\ UNCHANGED <<Others, row, svc, docs, waiter>>

Skip(w) == At(w, "skipping") /\ build' = [build EXCEPT ![w] = Off]
           /\ UNCHANGED <<Others, row, job, svc, docs, waiter>>

\* markIndexRunning
MarkRunning(w) ==
    /\ At(w, "marking")
    /\ IF MayRun(Row(w))
       THEN /\ row' = [row EXCEPT ![build[w].index].state = "running",
                                  ![build[w].index].attempts = @ + 1]
            /\ Goto(w, "submitting")
       ELSE /\ UNCHANGED row
            /\ Goto(w, "skipping")
    /\ UNCHANGED <<Others, job, svc, docs, waiter>>

\* where the state the service reports leads
Seen(rec) == CASE rec \in {"queued", "running"} -> "polling"
               [] rec = "ready" -> "publishing"
               [] rec = "canceled" -> "stopped"
               [] OTHER -> "failing"

Submit(w) ==
    LET i == build[w].index  s == Submitted(svc[i])
    IN /\ At(w, "submitting")
       /\ svc' = [svc EXCEPT ![i] = s]
       /\ Goto(w, Seen(s.rec))
       /\ UNCHANGED <<Others, row, job, docs, waiter>>

\* a key, a file or a setting is missing, or the service refuses the job
Refuse(w) ==
    /\ At(w, "submitting") /\ Fault("fail")
    /\ Goto(w, "failing")
    /\ UNCHANGED <<document, cleanup, row, job, svc, docs, waiter>>

\* each poll re-reads the row ...
Reread(w) ==
    LET state == Row(w).state
    IN /\ At(w, "polling")
       /\ CASE state = "running" -> Goto(w, "getting")
            [] state = "cancel_requested" -> Stop(w, "canceling", TRUE)
            [] state = "absent" -> Stop(w, "delivering", TRUE)
            [] OTHER -> Goto(w, "skipping")
       /\ UNCHANGED <<Others, row, job, svc, docs, waiter>>

\* ... and asks the service, which may have lost the job
Get(w) ==
    /\ At(w, "getting")
    /\ Goto(w, IF svc[build[w].index].rec = "none" THEN "submitting"
               ELSE Seen(svc[build[w].index].rec))
    /\ UNCHANGED <<Others, row, job, svc, docs, waiter>>

\* the deadline of the build
Expire(w) ==
    /\ At(w, "polling") /\ Happens("timeout")
    /\ Stop(w, "failing", FALSE)
    /\ UNCHANGED <<Others, row, job, svc, docs, waiter>>

\* cancelUpstream, and deleteUpstream of what the build made
StopUpstream(w) ==
    LET i == build[w].index
    IN /\ At(w, "stopping")
       /\ svc' = [svc EXCEPT ![i] = CanceledJob(@)]
       /\ docs' = IF build[w].remove THEN docs \ {<<i, svc[i].result>>} ELSE docs
       /\ Goto(w, build[w].then)
       /\ UNCHANGED <<Others, row, job, waiter>>

Publishes(r) == r.state = "running"
Superseded(r) == IF r.active THEN [r EXCEPT !.active = FALSE, !.state = "superseded"] ELSE r

\* markIndexReady
Publish(w) ==
    LET i == build[w].index
    IN /\ At(w, "publishing")
       /\ IF Publishes(row[i])
          THEN /\ row' = [k \in Indexes |->
                     IF k = i THEN [row[i] EXCEPT !.state = "ready", !.active = TRUE,
                                                  !.doc = svc[i].result]
                     ELSE Superseded(row[k])]
               /\ Goto(w, "delivering")
          ELSE Goto(w, "unpublished") /\ UNCHANGED row
       /\ UNCHANGED <<Others, job, svc, docs, waiter>>

\* not published: its document goes, unless it is the one another delivery published
IsPublishedNever(r, n) == FALSE
IsPublished(r, n) == r.doc = n
Unpublish(w) ==
    LET i == build[w].index
    IN /\ At(w, "unpublished")
       /\ docs' = IF IsPublished(row[i], svc[i].result) THEN docs
                  ELSE docs \ {<<i, svc[i].result>>}
       /\ Goto(w, IF row[i].state = "cancel_requested" THEN "canceling" ELSE "delivering")
       /\ UNCHANGED <<Others, row, job, svc, waiter>>

\* the service reports the build as canceled
ReadStopped(w) ==
    /\ At(w, "stopped")
    /\ Goto(w, IF Row(w).state = "cancel_requested" THEN "canceling" ELSE "failing")
    /\ UNCHANGED <<Others, row, job, svc, docs, waiter>>

\* markIndexCanceled
MarkCanceled(w) ==
    /\ At(w, "canceling")
    /\ row' = IF Row(w).state \in Building
              THEN [row EXCEPT ![build[w].index].state = "canceled"] ELSE row
    /\ Goto(w, "delivering")
    /\ UNCHANGED <<Others, job, svc, docs, waiter>>

\* markIndexFailed
MarkFailed(w) ==
    /\ At(w, "failing")
    /\ row' = IF Row(w).state \in {"queued", "running"}
              THEN [row EXCEPT ![build[w].index].state = "failed"] ELSE row
    /\ Goto(w, "delivering")
    /\ UNCHANGED <<Others, job, svc, docs, waiter>>

\* deliverIndexEvent, and the job is done
DeliverEvent(w) ==
    /\ At(w, "delivering")
    /\ waiter' = IF waiter.pc = "subscribed" /\ waiter.index = build[w].index
                 THEN [waiter EXCEPT !.pc = "signalled"] ELSE waiter
    /\ build' = [build EXCEPT ![w] = Off]
    /\ UNCHANGED <<Others, row, job, svc, docs>>

\* The service cannot be reached: the build queues itself again, or gives up, as it does
\* at once when the service refuses what is asked.  A job that has not started (its row
\* was cancelled before) goes back to the queue.
RequeuedNever(i) == job
Requeued(i) == [job EXCEPT ![i] = TRUE]
GivesUp(b) == b.attempt >= MaxAttempts
Unreachable(w) ==
    /\ build[w].pc \in {"submitting", "getting", "stopping", "unpublished"}
    /\ Fault("error")
    /\ \/ build[w].attempt > 0 /\ Goto(w, "failing") /\ UNCHANGED job
       \/ /\ ~GivesUp(build[w])
          /\ job' = Requeued(build[w].index)
          /\ build' = [build EXCEPT ![w] = Off]
    /\ UNCHANGED <<document, cleanup, row, svc, docs, waiter>>

IndexStep(w) ==
    \/ MarkRunning(w) \/ Submit(w) \/ Reread(w) \/ Get(w) \/ StopUpstream(w)
    \/ Publish(w) \/ Unpublish(w) \/ ReadStopped(w) \/ MarkCanceled(w) \/ MarkFailed(w)
    \/ DeliverEvent(w) \/ Skip(w)

----------------------------------------------------------------------------
\* The worker: runCleanupJob, row by row; it is repeated until everything is gone.
TakeCleanup(w) ==
    /\ w \in setup.workers /\ At(w, "idle") /\ cleanup
    /\ cleanup' = FALSE
    /\ build' = [build EXCEPT ![w].pc = IF document = "deleted" THEN "cleaning" ELSE "idle"]
    /\ UNCHANGED <<document, row, job, svc, docs, waiter, faults>>

Remaining == {i \in Indexes : Exists(i) /\ ~row[i].removed}

\* the upstream document, or the build that may yet make one
Clean(w, i) ==
    /\ At(w, "cleaning") /\ build[w].index = None /\ i \in Remaining
    /\ IF row[i].doc = 0
       THEN /\ svc' = [svc EXCEPT ![i] = CanceledJob(@)]
            /\ docs' = docs \ {<<i, svc[i].result>>}
       ELSE docs' = docs \ {<<i, row[i].doc>>} /\ UNCHANGED svc
    /\ build' = [build EXCEPT ![w].index = i]
    /\ UNCHANGED <<Others, row, job, waiter>>

MarkRemoved(w) ==
    /\ At(w, "cleaning") /\ build[w].index # None
    /\ row' = [row EXCEPT ![build[w].index].removed = Exists(build[w].index)]
    /\ build' = [build EXCEPT ![w].index = None]
    /\ UNCHANGED <<Others, job, svc, docs, waiter>>

\* the document goes, and its rows with it
RemovesFirst == TRUE
Removes == Remaining = {}
RemoveDocument(w) ==
    /\ At(w, "cleaning") /\ build[w].index = None /\ Removes
    /\ document' = "gone"
    /\ row' = [i \in Indexes |-> NoRow]
    /\ build' = [build EXCEPT ![w] = Off]
    /\ UNCHANGED <<job, cleanup, svc, docs, waiter, faults>>

CleanupFails(w) ==
    /\ At(w, "cleaning") /\ Fault("error")
    /\ cleanup' = TRUE
    /\ build' = [build EXCEPT ![w] = Off]
    /\ UNCHANGED <<document, row, job, svc, docs, waiter>>

CleanupStep(w) == TakeCleanup(w) \/ MarkRemoved(w) \/ RemoveDocument(w)
                  \/ \E i \in Indexes : Clean(w, i)

\* The lease of a job ends while its worker dies, or goes on.
Redelivered(w) ==
    IF At(w, "cleaning") THEN cleanup' = TRUE /\ UNCHANGED job
    ELSE job' = [job EXCEPT ![build[w].index] = TRUE] /\ UNCHANGED cleanup
Crash(w) ==
    /\ ~At(w, "idle") /\ Fault("crash")
    /\ Redelivered(w)
    /\ build' = [build EXCEPT ![w] = Off]
    /\ UNCHANGED <<document, row, svc, docs, waiter>>
Stall(w) ==
    /\ ~At(w, "idle") /\ Fault("stall")
    /\ Redelivered(w)
    /\ UNCHANGED <<document, row, build, svc, docs, waiter>>

\* reconcilePageIndex, when a worker starts
Reconcile ==
    /\ Happens("reconcile")
    /\ job' = [i \in Indexes |-> job[i] \/ (row[i].state \in Building /\ ~Pending(i))]
    /\ cleanup' = (cleanup \/ (document = "deleted" /\ \A w \in Workers : ~At(w, "cleaning")))
    /\ UNCHANGED <<document, row, build, svc, docs, waiter, faults>>

----------------------------------------------------------------------------
\* The node flowaid.pageindex.index of a run: reads the index, then waits for its event.
Settle(i) ==
    waiter' = [index |-> i, pc |-> CASE row[i].state = "ready" -> "ready"
                                     [] row[i].state \in Building -> "suspending"
                                     [] OTHER -> "failed"]
ReadIndex(i) ==
    /\ Happens("wait") /\ waiter.pc = "out" /\ Exists(i)
    /\ Settle(i)
    /\ UNCHANGED <<Others, row, job, build, svc, docs>>
Subscribe ==
    /\ waiter.pc = "suspending"
    /\ waiter' = [waiter EXCEPT !.pc = "subscribed"]
    /\ UNCHANGED <<Others, row, job, build, svc, docs>>
Resume ==
    /\ waiter.pc = "signalled"
    /\ Settle(waiter.index)
    /\ UNCHANGED <<Others, row, job, build, svc, docs>>
\* the node's own timeout, which reads the index once more
GiveUpWaiting ==
    /\ waiter.pc = "subscribed" /\ Happens("timeout")
    /\ waiter' = [waiter EXCEPT !.pc = IF row[waiter.index].state = "ready" THEN "ready"
                                       ELSE "failed"]
    /\ UNCHANGED <<Others, row, job, build, svc, docs>>

----------------------------------------------------------------------------
WorkerStep(w) == IndexStep(w) \/ CleanupStep(w) \/ \E i \in Indexes : Deliver(w, i)

Next ==
    /\ \/ \E i \in Indexes : Request(i) \/ Cancel(i) \/ ReadIndex(i) \/ Runner(i)
       \/ \E w \in Workers : WorkerStep(w) \/ Refuse(w) \/ Expire(w) \/ Unreachable(w)
       \/ \E w \in Workers : CleanupFails(w) \/ Crash(w) \/ Stall(w)
       \/ Delete \/ RestartService \/ Reconcile
       \/ Subscribe \/ Resume \/ GiveUpWaiting
    /\ UNCHANGED setup

Spec == Init /\ [][Next]_vars

\* Workers poll their queue, the service's children end (their deadline kills them), and
\* a run commits its suspension and takes its signal.
Fairness ==
    /\ \A w \in Workers : WF_moving(WorkerStep(w))
    /\ \A i \in Indexes : WF_moving(Runner(i))
    /\ WF_moving(Subscribe) /\ WF_moving(Resume)
LiveSpec == Spec /\ Fairness

----------------------------------------------------------------------------
TypeOK ==
    /\ setup \in Setups
    /\ document \in {"live", "deleted", "gone"}
    /\ job \in [Indexes -> BOOLEAN] /\ cleanup \in BOOLEAN
    /\ \A i \in Indexes :
         /\ row[i].state \in RowStates \cup {"absent"}
         /\ row[i].active => row[i].state = "ready"
         /\ row[i].doc \in 0..svc[i].run
         /\ svc[i].result \in 0..svc[i].run
         /\ svc[i].thread # "none" => svc[i].run > 0
    /\ \A w \in Workers : build[w].index \in Indexes \cup {None}
    /\ docs \subseteq {d \in Indexes \X (1..(MaxFaults + 1)) : d[2] <= svc[d[1]].run}

\* What a reader is sent to exists upstream: whatever the deliveries of a build and
\* the cancellations do, the document of a ready or superseded index is never removed.
ReadableExists ==
    \A i \in Indexes : row[i].state \in Readable => <<i, row[i].doc>> \in docs

\* The end of a build is final: no late delivery revives or publishes it.
EndIsFinal ==
    [][\A i \in Indexes :
         row[i].state \in {"canceled", "failed", "superseded", "deleted"} =>
             row'[i].state \in {row[i].state, "deleted", "absent"}]_vars

\* Once the cleanup of a document is through and nobody works on it, the service holds
\* nothing of it (runCleanupJob: throws until everything is gone).
Settled == /\ \A i \in Indexes : ~Pending(i) /\ svc[i].thread = "none"
           /\ document = "gone"
AlwaysRemoved == Settled => docs = {}

\* ... but for the document of a child that ended between storing it and handing in its
\* result, if no build was under way when the document was deleted, and the service
\* neither restarted nor published a build it had just been told to stop.
Orphaned(i) == Happens("orphan") /\ svc[i].rec \in {"failed", "canceled"}
NothingLeft ==
    setup.kinds \cap {"delete", "late", "restart"} = {} =>
        (Settled => \A d \in docs : Orphaned(d[1]))

\* Every build that is asked for ends, if none is cancelled and no request is lost.
Ended(i) == row[i].state \notin Building
BuildEnds == setup.kinds \cap {"cancel", "lost"} = {} => \A i \in Indexes : (~Ended(i)) ~> Ended(i)

\* A run that waits for a build under way is told of its end, without its timeout.
WaiterWakes ==
    setup.kinds \cap {"cancel", "lost", "delete"} = {} =>
        \A i \in Indexes :
            (waiter = [pc |-> "subscribed", index |-> i] /\ ~Ended(i)) ~> (waiter.pc # "subscribed")

=============================================================================
