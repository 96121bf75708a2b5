------------------------------ MODULE Schedules ------------------------------
(***************************************************************************)
(* One cron schedule and the scheduler replicas that poll it.              *)
(*                                                                         *)
(* Time is counted in units; the cron fires at the multiples of Period.    *)
(* A tick is a transaction on the schedule's row (locked, so atomic) and   *)
(* then, outside it, createRun and enqueue for every planned fire.  A run  *)
(* is named by its fire time, as its idempotency key is.  slots is         *)
(* history: what became of every cron time.                                *)
(***************************************************************************)
EXTENDS Integers, FiniteSets, Sequences, FiniteSetsExt

CONSTANTS
    Replicas, MaxTime, MaxCatchUp, Grace, Jitter, None, MaxFaults,
    Setups      \* schedules (period, catchUp: "skip", "one" or "all", overlap: "skip" or
                \* "allow"), the kinds of faults, and whether replicas are prompt: end
                \* their tick before the next cron time

ASSUME SchedulesAssumption ==
    /\ MaxTime \in Nat /\ MaxCatchUp \in Nat \ {0} /\ None \notin Nat
    /\ Grace \in Nat /\ Jitter \in Nat
    /\ \A s \in Setups :
         /\ s.period \in Nat \ {0} /\ s.prompt \in BOOLEAN
         /\ s.catchUp \in {"skip", "one", "all"} /\ s.overlap \in {"skip", "allow"}

VARIABLES setup, clock, schedule, run, slots, tick, faults
vars == <<setup, clock, schedule, run, slots, tick, faults>>

Period == setup.period
CatchUp == setup.catchUp
Overlap == setup.overlap
Times == 1..(MaxTime + Period + Jitter)
Cron == {t \in Times : t % Period = 0}
SlotOf(t) == t - (t % Period)
NextRunEarly(now) == SlotOf(now) + Period - 1
NextRunFar(now) == SlotOf(now) + 2 * Period
NextRun(now) == SlotOf(now) + Period
NoTick == [pc |-> "idle", now |-> 0, todo |-> <<>>]
Fault(kind) == kind \in setup.kinds /\ faults < MaxFaults /\ faults' = faults + 1

Init ==
    /\ setup \in Setups
    /\ clock = 0
    /\ schedule = [next |-> Period, last |-> None, enabled |-> TRUE]
    /\ run = [t \in Times |-> "none"]
    /\ slots = [t \in Cron |-> "open"]
    /\ tick = [r \in Replicas |-> NoTick]
    /\ faults = 0

----------------------------------------------------------------------------
\* dueFires: the newest Keep cron times up to now, after next; next itself when
\* there is room for it.
Keep == IF CatchUp = "all" THEN MaxCatchUp ELSE 1
CronIn(from, to) == {t \in Cron : from < t /\ t <= to}
Newest(k, S) == {t \in S : Cardinality({u \in S : u > t}) < k}
Recent(next, now) == Newest(Keep, CronIn(0, now)) \cap CronIn(next, now)
DueAlways(next, recent) == {next} \cup recent
Due(next, recent) == IF Cardinality(recent) < Keep THEN {next} \cup recent ELSE recent
ChosenLate(due, now) == IF CatchUp = "all" THEN due ELSE {Max(due)}
Chosen(due, now) ==
    CASE CatchUp = "all" -> due
      [] CatchUp = "one" -> {Max(due)}
      [] CatchUp = "skip" -> {t \in {Max(due)} : now - t <= Grace}
DueFires(next, now) ==
    LET recent == Recent(next, now)
        due == Due(next, recent)
        total == IF Cardinality(recent) >= Keep THEN 1 + Cardinality(CronIn(next, now))
                 ELSE Cardinality(due)
        fire == Chosen(due, now)
    IN [fire |-> fire, dropped |-> total - Cardinality(fire)]

\* The schedule's fires in the order in which they are planned.
Ordered(S) == CHOOSE s \in [1..Cardinality(S) -> S] :
                 \A i, j \in 1..Cardinality(S) : i < j => s[i] < s[j]

Active(t) == run[t] \in {"created", "queued", "running"}

----------------------------------------------------------------------------
\* A tick reads the clock, then locks the row if it is due.
Poll(r) ==
    /\ tick[r].pc = "idle"
    /\ schedule.enabled /\ schedule.next <= clock
    /\ tick' = [tick EXCEPT ![r] = [pc |-> "plan", now |-> clock, todo |-> <<>>]]
    /\ UNCHANGED <<clock, schedule, run, slots, faults>>

DueAt(r) == schedule.enabled /\ schedule.next <= tick[r].now
OverlapsRunning == Overlap = "skip" /\ schedule.last # None /\ run[schedule.last] = "running"
Overlaps == Overlap = "skip" /\ schedule.last # None /\ Active(schedule.last)
Mark(S, how) == [t \in Cron |-> IF t \in {SlotOf(d) : d \in S} THEN how ELSE slots[t]]
DueSlots(now) == {schedule.next} \cup CronIn(schedule.next, now)

PlanNothing(r) ==
    /\ tick[r].pc = "plan"
    /\ ~DueAt(r)
    /\ tick' = [tick EXCEPT ![r] = NoTick]
    /\ UNCHANGED <<clock, schedule, run, slots, faults>>

PlanSkip(r) ==
    /\ tick[r].pc = "plan"
    /\ DueAt(r)
    /\ Overlaps
    /\ schedule' = [schedule EXCEPT !.next = NextRun(tick[r].now)]
    /\ slots' = Mark(DueSlots(tick[r].now), "skipped")
    /\ tick' = [tick EXCEPT ![r] = NoTick]
    /\ UNCHANGED <<clock, run, faults>>

\* planScheduledRun: a fire that has a run already is left out.
Planned(fires) == Ordered({f \in fires : run[f] = "none"})
Last(todo) == IF todo = <<>> THEN schedule.last ELSE todo[Len(todo)]

Plan(r, jitter) ==
    LET now == tick[r].now
        todo == Planned(DueFires(schedule.next, now).fire)
        dropped == DueSlots(now) \ DueFires(schedule.next, now).fire
    IN  /\ tick[r].pc = "plan"
        /\ DueAt(r)
        /\ ~Overlaps
        /\ schedule' = [schedule EXCEPT !.next = NextRun(now) + jitter, !.last = Last(todo)]
        /\ slots' = [t \in Cron |->
               IF t \in {SlotOf(d) : d \in DueFires(schedule.next, now).fire} THEN "fired"
               ELSE IF t \in {SlotOf(d) : d \in dropped} THEN "dropped" ELSE slots[t]]
        /\ tick' = [tick EXCEPT ![r] = [pc |-> "create", now |-> now, todo |-> todo]]
        /\ UNCHANGED <<clock, run, faults>>

\* Planning the fire after the first k of them throws: last_error is written, the
\* k before it are started all the same.
PlanFails(r, k) ==
    LET now == tick[r].now
        fires == DueFires(schedule.next, now).fire
    IN  /\ tick[r].pc = "plan"
        /\ DueAt(r)
        /\ ~Overlaps
        /\ k < Cardinality(fires)
        /\ Fault("plan")
        /\ schedule' = [schedule EXCEPT !.next = NextRun(now)]
        /\ slots' = Mark(DueSlots(now), "failed")
        /\ tick' = [tick EXCEPT ![r] =
               [pc |-> "create", now |-> now, todo |-> SubSeq(Ordered(fires), 1, k)]]
        /\ UNCHANGED <<clock, run>>

----------------------------------------------------------------------------
\* After the transaction: createRun for the next planned fire ...
Taken(f) == run[f] # "none"

Create(r) ==
    /\ tick[r].pc = "create" /\ tick[r].todo # <<>>
    /\ LET f == Head(tick[r].todo) IN
       IF Taken(f)
       THEN /\ tick' = [tick EXCEPT ![r].todo = Tail(@)]
            /\ UNCHANGED run
       ELSE /\ run' = [run EXCEPT ![f] = "created"]
            /\ tick' = [tick EXCEPT ![r].pc = "enqueue"]
    /\ UNCHANGED <<clock, schedule, slots, faults>>

\* ... and its run.start job.
Enqueue(r) ==
    /\ tick[r].pc = "enqueue"
    /\ run' = [run EXCEPT ![Head(tick[r].todo)] = "queued"]
    /\ tick' = [tick EXCEPT ![r].pc = "create", ![r].todo = Tail(@)]
    /\ UNCHANGED <<clock, schedule, slots, faults>>

\* createRun fails, or enqueue after it: reported to onError, the next fire follows.
StartFails(r) ==
    /\ tick[r].pc \in {"create", "enqueue"} /\ tick[r].todo # <<>>
    /\ Fault("store")
    /\ tick' = [tick EXCEPT ![r].pc = "create", ![r].todo = Tail(@)]
    /\ UNCHANGED <<clock, schedule, run, slots>>

EndTick(r) ==
    /\ tick[r].pc = "create" /\ tick[r].todo = <<>>
    /\ tick' = [tick EXCEPT ![r] = NoTick]
    /\ UNCHANGED <<clock, schedule, run, slots, faults>>

Crash(r) ==
    /\ tick[r].pc # "idle"
    /\ Fault("crash")
    /\ tick' = [tick EXCEPT ![r] = NoTick]
    /\ UNCHANGED <<clock, schedule, run, slots>>

----------------------------------------------------------------------------
\* Time; runs; the API: PATCH enabled, and a deployment that materialises its
\* triggers again.
Ready == \A r \in Replicas : tick[r] = NoTick
Advance ==
    /\ clock < MaxTime
    /\ setup.prompt => Ready
    /\ clock' = clock + 1
    /\ UNCHANGED <<schedule, run, slots, tick, faults>>

StartRun(t) ==
    /\ run[t] = "queued"
    /\ run' = [run EXCEPT ![t] = "running"]
    /\ UNCHANGED <<clock, schedule, slots, tick, faults>>

EndRun(t) ==
    /\ run[t] = "running"
    /\ run' = [run EXCEPT ![t] = "ended"]
    /\ UNCHANGED <<clock, schedule, slots, tick, faults>>

Switch ==
    /\ Fault("switch")
    /\ schedule' = [schedule EXCEPT !.enabled = ~@]
    /\ UNCHANGED <<clock, run, slots, tick>>

Redeploy ==
    /\ Fault("deploy")
    /\ schedule' = [schedule EXCEPT !.next = NextRun(clock)]
    /\ UNCHANGED <<clock, run, slots, tick>>

----------------------------------------------------------------------------
Tick(r) ==
    \/ Poll(r) \/ PlanNothing(r) \/ PlanSkip(r) \/ \E j \in 0..Jitter : Plan(r, j)
    \/ Create(r) \/ Enqueue(r) \/ EndTick(r)

Next ==
    /\ \/ \E r \in Replicas : Tick(r) \/ StartFails(r) \/ Crash(r)
       \/ \E r \in Replicas, k \in 0..MaxCatchUp : PlanFails(r, k)
       \/ \E t \in Times : StartRun(t) \/ EndRun(t)
       \/ Advance \/ Switch \/ Redeploy
    /\ UNCHANGED setup

Spec == Init /\ [][Next]_vars

----------------------------------------------------------------------------
\* Values, and what a tick has of a plan at each point of it.
TypeOK ==
    /\ setup \in Setups
    /\ clock \in 0..MaxTime
    /\ schedule \in [next : Nat \ {0}, last : Times \cup {None}, enabled : BOOLEAN]
    /\ run \in [Times -> {"none", "created", "queued", "running", "ended"}]
    /\ slots \in [Cron -> {"open", "skipped", "fired", "dropped", "failed"}]
    /\ tick \in [Replicas -> [pc : {"idle", "plan", "create", "enqueue"}, now : Nat,
                              todo : Seq(Times)]]
    /\ \A r \in Replicas :
         /\ tick[r].now <= clock
         /\ tick[r].pc \in {"idle", "plan"} => tick[r].todo = <<>>
         /\ tick[r].pc = "enqueue" => tick[r].todo # <<>>

\* What the policies promise, against the due fires themselves: skip starts only a
\* fire that is on time, one the newest, all the newest MaxCatchUp; every other due
\* fire is counted as dropped.
Promised(due, now) ==
    CASE CatchUp = "skip" -> {t \in Newest(1, due) : now - t <= Grace}
      [] CatchUp = "one" -> Newest(1, due)
      [] CatchUp = "all" -> Newest(MaxCatchUp, due)
PolicyIsKept ==
    schedule.next <= clock =>
        LET due == DueSlots(clock)
            d == DueFires(schedule.next, clock)
        IN d.fire = Promised(due, clock) /\ d.dropped = Cardinality(due) - Cardinality(d.fire)

\* No cron time starts two runs, whatever replicas, jitter, crashes and overlaps
\* do, and although a late tick plans from a clock it read long ago.
OnePerSlot ==
    \A t, u \in Times : t # u /\ run[t] # "none" /\ run[u] # "none" => SlotOf(t) # SlotOf(u)

\* overlap "skip": never two runs of the schedule at once, if replicas are prompt and
\* one pass starts one run (catch-up "all" starts several).
OneActive == \A t, u \in Times : Active(t) /\ Active(u) => t = u
NoOverlap == Overlap = "skip" /\ setup.prompt /\ CatchUp # "all" => OneActive

\* A cron time the schedule has gone past was fired, or its absence is accounted for,
\* unless the schedule is materialised anew or the jitter reaches over a whole period.
SlotsAccounted == \A t \in Cron : t < SlotOf(schedule.next) => slots[t] # "open"
EverySlotAccounted == "deploy" \notin setup.kinds /\ Jitter < Period => SlotsAccounted

\* A fire that was recorded as started has a run with a job, or a replica about to
\* create them.
FireIsStarted ==
    \A t \in Times :
        schedule.last = t =>
            \/ run[t] \in {"queued", "running", "ended"}
            \/ \E r \in Replicas : \E i \in DOMAIN tick[r].todo : tick[r].todo[i] = t

=============================================================================
