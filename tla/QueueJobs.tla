------------------------------ MODULE QueueJobs ------------------------------
(***************************************************************************)
(* PgQueueDriver: the table queue_jobs, the consumer loops of several      *)
(* processes and the leases under which they hold a job.                   *)
(*                                                                         *)
(* A loop's claim, its handler and the statement that ends it are separate *)
(* steps, because a loop may stall between any two of them while its lease *)
(* lapses.  The owner of a lease is the PROCESS (locked_by is the driver's *)
(* workerId), not the loop.  "dead" is a row finished by fail() or by      *)
(* deadLetterAbandoned(), "done" one finished by complete(): the code sets *)
(* done_at for both.  arm and succeeded are history: which enqueue armed   *)
(* the row, and whether a handler called for that arming returned.         *)
(***************************************************************************)
EXTENDS Naturals, FiniteSets

CONSTANTS
    Jobs,           \* job ids (the callers' jobId)
    Procs,          \* processes: one driver, one workerId each
    Loops,          \* the consumer loops
    MaxAttempts,    \* max_attempts of every row
    None, Dead,     \* no owner; a process that is gone
    Setups,         \* pairings of loops with processes, and the faults that befall them:
                    \* crash, stall, store (a statement fails), reply (it commits, and
                    \* its reply is lost)
    MaxFaults, MaxEnqueues   \* bounds

ASSUME QueueAssumption ==
    /\ \A s \in Setups : s.procOf \in [Loops -> Procs]
    /\ MaxAttempts \in Nat \ {0} /\ MaxFaults \in Nat /\ MaxEnqueues \in Nat
    /\ None \notin Procs \cup {Dead} /\ Dead \notin Procs
    /\ None \notin Jobs

VARIABLES setup, row, loop, succeeded, enqueues, faults
moving == <<row, loop, succeeded, enqueues, faults>>
vars == <<setup, moving>>

\* the process a loop belongs to; loops of one consume() call share it
ProcOf == setup.procOf

RowStates == {"absent", "pending", "done", "dead"}
Row == [state : RowStates, attempts : 0..MaxAttempts, owner : Procs \cup {None, Dead},
        lapsed : BOOLEAN, due : BOOLEAN, arm : Nat]
Loop == [pc : {"idle", "claiming", "handling", "completing", "failing"},
         job : Jobs \cup {None}, attempts : 0..MaxAttempts, arm : Nat]

Idle == [pc |-> "idle", job |-> None, attempts |-> 0, arm |-> 0]
Working(l) == loop[l].pc \in {"handling", "completing", "failing"}
Handling(l) == loop[l].pc \in {"handling", "completing"}
Fault(kind) == kind \in setup.kinds /\ faults < MaxFaults /\ faults' = faults + 1

Init ==
    /\ setup \in Setups
    /\ row = [j \in Jobs |-> [state |-> "absent", attempts |-> 0, owner |-> None,
                              lapsed |-> FALSE, due |-> FALSE, arm |-> 0]]
    /\ loop = [l \in Loops |-> Idle]
    /\ succeeded = [j \in Jobs |-> FALSE]
    /\ enqueues = 0
    /\ faults = 0

----------------------------------------------------------------------------
\* enqueue: insert, or re-arm a finished row; a pending row is left as it is.
Armed(r, due) ==
    [state |-> "pending", attempts |-> 0, owner |-> None, lapsed |-> FALSE,
     due |-> due, arm |-> r.arm + 1]
Rearms(r) == r.state # "pending"

Enqueue(j, due) ==
    /\ enqueues < MaxEnqueues
    /\ enqueues' = enqueues + 1
    /\ IF Rearms(row[j])
       THEN /\ row' = [row EXCEPT ![j] = Armed(@, due)]
            /\ succeeded' = [succeeded EXCEPT ![j] = FALSE]
       ELSE UNCHANGED <<row, succeeded>>
    /\ UNCHANGED <<loop, faults>>

\* locked_until is null or has passed
Free(r) == r.owner = None \/ r.lapsed
AbandonedUnlocked(r) == r.state = "pending" /\ r.attempts >= MaxAttempts /\ r.owner = None
Abandoned(r) == r.state = "pending" /\ r.attempts >= MaxAttempts /\ Free(r)
Buried(r) == [r EXCEPT !.state = "dead", !.owner = None, !.lapsed = FALSE]

\* The first statement of claim(): deadLetterAbandoned.
DeadLetterAbandoned(l) ==
    /\ loop[l].pc = "idle"
    /\ row' = [j \in Jobs |-> IF Abandoned(row[j]) THEN Buried(row[j]) ELSE row[j]]
    /\ loop' = [loop EXCEPT ![l].pc = "claiming"]
    /\ UNCHANGED <<succeeded, enqueues, faults>>

ClaimableLocked(r) == r.state = "pending" /\ r.due /\ r.attempts < MaxAttempts
ClaimableForEver(r) == r.state = "pending" /\ r.due /\ Free(r)
Claimable(r) == r.state = "pending" /\ r.due /\ r.attempts < MaxAttempts /\ Free(r)
ClaimedBy(r, p) == [r EXCEPT !.owner = p, !.lapsed = FALSE, !.attempts = @ + 1]

Claim(l, j) ==
    /\ loop[l].pc = "claiming"
    /\ Claimable(row[j])
    /\ row' = [row EXCEPT ![j] = ClaimedBy(@, ProcOf[l])]
    /\ loop' = [loop EXCEPT ![l] =
           [pc |-> "handling", job |-> j, attempts |-> row[j].attempts + 1, arm |-> row[j].arm]]
    /\ UNCHANGED <<succeeded, enqueues, faults>>

\* The reply of claim() is lost: the row is claimed and nobody handles it.
ClaimThrows(l, j) ==
    /\ loop[l].pc = "claiming"
    /\ Claimable(row[j])
    /\ Fault("reply")
    /\ row' = [row EXCEPT ![j] = ClaimedBy(@, ProcOf[l])]
    /\ loop' = [loop EXCEPT ![l] = Idle]
    /\ UNCHANGED <<succeeded, enqueues>>

ClaimNothing(l) ==
    /\ loop[l].pc = "claiming"
    /\ \A j \in Jobs : ~Claimable(row[j])
    /\ loop' = [loop EXCEPT ![l] = Idle]
    /\ UNCHANGED <<row, succeeded, enqueues, faults>>

HandlerReturns(l) ==
    /\ loop[l].pc = "handling"
    /\ loop' = [loop EXCEPT ![l].pc = "completing"]
    /\ succeeded' = [succeeded EXCEPT ![loop[l].job] =
           @ \/ row[loop[l].job].arm = loop[l].arm]
    /\ UNCHANGED <<row, enqueues, faults>>

HandlerThrows(l) ==
    /\ loop[l].pc = "handling"
    /\ loop' = [loop EXCEPT ![l].pc = "failing"]
    /\ UNCHANGED <<row, succeeded, enqueues, faults>>

\* complete() and fail() touch the row only if this process still owns it.
OwnsAny(l) == row[loop[l].job].owner # None
Owns(l) == row[loop[l].job].owner = ProcOf[l]
Completed(r) == [r EXCEPT !.state = "done", !.owner = None, !.lapsed = FALSE]
Failed(r, attempts) ==
    [r EXCEPT !.state = IF attempts >= MaxAttempts THEN "dead" ELSE @,
              !.owner = None, !.lapsed = FALSE, !.due = FALSE]

RowsCompleted(l) ==
    IF Owns(l) THEN [row EXCEPT ![loop[l].job] = Completed(@)] ELSE row

Complete(l) ==
    /\ loop[l].pc = "completing"
    /\ row' = RowsCompleted(l)
    /\ loop' = [loop EXCEPT ![l] = Idle]
    /\ UNCHANGED <<succeeded, enqueues, faults>>

\* The database fails complete(), or commits it and its reply is lost: either way the
\* loop's catch calls fail().
CompleteThrows(l) ==
    /\ loop[l].pc = "completing"
    /\ \/ Fault("store") /\ row' = row
       \/ Fault("reply") /\ row' = RowsCompleted(l)
    /\ loop' = [loop EXCEPT ![l].pc = "failing"]
    /\ UNCHANGED <<succeeded, enqueues>>

Fail(l) ==
    /\ loop[l].pc = "failing"
    /\ row' = IF Owns(l) THEN [row EXCEPT ![loop[l].job] = Failed(@, loop[l].attempts)] ELSE row
    /\ loop' = [loop EXCEPT ![l] = Idle]
    /\ UNCHANGED <<succeeded, enqueues, faults>>

\* The database fails fail(): swallowed, and the heartbeat ends.  (A fail() whose reply
\* is lost has done what Fail does.)
FailThrows(l) ==
    /\ loop[l].pc = "failing"
    /\ Fault("store")
    /\ loop' = [loop EXCEPT ![l] = Idle]
    /\ UNCHANGED <<row, succeeded, enqueues>>

----------------------------------------------------------------------------
\* run_at passes.
Due(j) ==
    /\ row[j].state = "pending" /\ ~row[j].due
    /\ row' = [row EXCEPT ![j].due = TRUE]
    /\ UNCHANGED <<loop, succeeded, enqueues, faults>>

\* A live loop's heartbeat extends its lease; without one the lease lapses.
Heartbeats(j) == \E l \in Loops : Working(l) /\ loop[l].job = j /\ ProcOf[l] = row[j].owner
Held(j) == row[j].owner # None /\ ~row[j].lapsed

Lapse(j) ==
    /\ Held(j) /\ ~Heartbeats(j)
    /\ row' = [row EXCEPT ![j].lapsed = TRUE]
    /\ UNCHANGED <<loop, succeeded, enqueues, faults>>

\* The heartbeats of a live loop fail, or its process stalls, for the whole lease.
Stall(j) ==
    /\ Held(j) /\ Heartbeats(j)
    /\ Fault("stall")
    /\ row' = [row EXCEPT ![j].lapsed = TRUE]
    /\ UNCHANGED <<loop, succeeded, enqueues>>

\* The next beat of a process that still owns the row extends the lease again.
Beat(j) ==
    /\ row[j].lapsed /\ Heartbeats(j)
    /\ row' = [row EXCEPT ![j].lapsed = FALSE]
    /\ UNCHANGED <<loop, succeeded, enqueues, faults>>

\* A process dies; its successor draws another workerId.
Crash(p) ==
    /\ Fault("crash")
    /\ loop' = [l \in Loops |-> IF ProcOf[l] = p THEN Idle ELSE loop[l]]
    /\ row' = [j \in Jobs |-> IF row[j].owner = p THEN [row[j] EXCEPT !.owner = Dead] ELSE row[j]]
    /\ UNCHANGED <<succeeded, enqueues>>

----------------------------------------------------------------------------
Consume(l) ==
    \/ DeadLetterAbandoned(l) \/ ClaimNothing(l)
    \/ \E j \in Jobs : Claim(l, j) \/ ClaimThrows(l, j)
    \/ HandlerReturns(l) \/ HandlerThrows(l)
    \/ Complete(l) \/ CompleteThrows(l) \/ Fail(l) \/ FailThrows(l)

Next ==
    /\ \/ \E j \in Jobs : (\E due \in BOOLEAN : Enqueue(j, due)) \/ Due(j) \/ Lapse(j) \/ Stall(j) \/ Beat(j)
       \/ \E l \in Loops : Consume(l)
       \/ \E p \in Procs : Crash(p)
    /\ UNCHANGED setup

Spec == Init /\ [][Next]_vars

\* Loops poll for ever, handlers end, clocks run; claim() takes the oldest due
\* row first, so a row that is claimable again and again is claimed.
Fairness ==
    /\ \A l \in Loops : WF_moving(Consume(l))
    /\ \A j \in Jobs : WF_moving(Due(j)) /\ WF_moving(Lapse(j)) /\ SF_moving(\E l \in Loops : Claim(l, j))
LiveSpec == Spec /\ Fairness

----------------------------------------------------------------------------
TypeOK ==
    /\ setup \in Setups
    /\ row \in [Jobs -> Row]
    /\ loop \in [Loops -> Loop]
    /\ \A l \in Loops : Working(l) => loop[l].job \in Jobs
    /\ succeeded \in [Jobs -> BOOLEAN]
    /\ enqueues \in 0..MaxEnqueues
    /\ faults \in 0..MaxFaults

\* A row is finished as completed only when a handler that was called for this
\* arming of it has returned: complete() of an older claim must not finish it.
FinishedSucceeded == \A j \in Jobs : row[j].state = "done" => succeeded[j]

\* Unless a lease lapses under a live loop, no two loops handle one job.
OneHandlerAtATime ==
    "stall" \notin setup.kinds =>
    \A l, m \in Loops : Handling(l) /\ Handling(m) /\ l # m => loop[l].job # loop[m].job

\* The driver keeps the queue's promise: the claims, leases and dead letters of
\* any number of processes implement JobDelivery.
Delivery == INSTANCE JobDelivery WITH
    state <- [j \in Jobs |-> row[j].state],
    tries <- [j \in Jobs |-> row[j].attempts]
KeepsPromise == Delivery!DeliverySpec

\* An armed job comes to an end: completed, or dead-lettered.
JobsEnd == \A j \in Jobs : row[j].state = "pending" ~> row[j].state \in {"done", "dead"}

=============================================================================
