------------------------------ MODULE Failover ------------------------------
(***************************************************************************)
(* Calls that walk a failover chain of providers, each behind the circuit  *)
(* breaker of HealthTracker.                                               *)
(*                                                                         *)
(* A call passes the chain's own check (isDown), the gate that takes the   *)
(* half-open probe, the rate limiter's queue, and is sent; each of these   *)
(* is a step, because the circuit may change in between.  probe and        *)
(* closedBy are history: whether the gate let the call out as the probe,   *)
(* and how the circuit was last closed.  Latencies and prices are left     *)
(* out.                                                                    *)
(***************************************************************************)
EXTENDS Naturals, Sequences, FiniteSets

CONSTANTS
    Providers, Calls,
    OpenAfter,          \* OPEN_AFTER_CONSECUTIVE
    MinSamples,         \* OPEN_MIN_SAMPLES
    MaxSamples,         \* bound: the newest samples of a window that are kept
    Setups              \* the chain (providers in the order they are tried) and the ways in
                        \* which its calls may leave without a record

ASSUME FailoverAssumption ==
    /\ OpenAfter \in Nat \ {0} /\ MinSamples \in Nat \ {0} /\ MaxSamples \in Nat \ {0}
    /\ \A s \in Setups : /\ s.chain \in Seq(Providers) /\ s.chain # <<>>
                        /\ s.leaves \subseteq {"cancelled", "stopped"}

VARIABLES setup, circuit, samples, failures, closedBy, call
moving == <<circuit, samples, failures, closedBy, call>>
vars == <<setup, moving>>

Chain == setup.chain
Circuit == {"closed", "open", "cooled", "half-open", "probing"}
NoCall == [pc |-> "idle", at |-> 0, probe |-> FALSE, yielded |-> FALSE]

Init ==
    /\ setup \in Setups
    /\ circuit = [p \in Providers |-> "closed"]
    /\ samples = [p \in Providers |-> <<>>]
    /\ failures = [p \in Providers |-> 0]
    /\ closedBy = [p \in Providers |-> "start"]
    /\ call = [c \in Calls |-> NoCall]

----------------------------------------------------------------------------
\* HealthTracker: samples in the window, newest last; "cooled" is an open circuit
\* whose time is over.
Errors(s) == Cardinality({i \in DOMAIN s : ~s[i]})
RateTrips(s) == Len(s) >= MinSamples /\ 2 * Errors(s) > Len(s)
Half(p) == circuit[p] \in {"half-open", "probing"}

\* allow
Allowed(p) == circuit[p] \in {"closed", "cooled", "half-open"}
AfterAllowKeep(p) == circuit[p]
AfterAllow(p) == IF circuit[p] = "closed" THEN "closed" ELSE "probing"

\* record: what the outcome of a call makes of the circuit
AfterOk(p) == "closed"
AfterFailureStuck(p, retryable) ==
    IF retryable /\ (Half(p) \/ failures[p] + 1 >= OpenAfter \/ RateTrips(Append(samples[p], FALSE)))
    THEN "open" ELSE circuit[p]
AfterFailure(p, retryable) ==
    IF retryable /\ (Half(p) \/ failures[p] + 1 >= OpenAfter \/ RateTrips(Append(samples[p], FALSE)))
    THEN "open"
    ELSE IF Half(p) THEN "closed" ELSE circuit[p]

Record(c, p, ok, retryable) ==
    /\ samples' = [samples EXCEPT ![p] =
           Append(IF Len(@) < MaxSamples THEN @ ELSE Tail(@), ok)]
    /\ failures' = [failures EXCEPT ![p] =
           IF ok THEN 0 ELSE IF retryable /\ @ < OpenAfter THEN @ + 1 ELSE @]
    /\ circuit' = [circuit EXCEPT ![p] = IF ok THEN AfterOk(p) ELSE AfterFailure(p, retryable)]
    /\ closedBy' = [closedBy EXCEPT ![p] =
           IF circuit[p] # "closed" /\ circuit'[p] = "closed"
           THEN IF call[c].probe THEN "probe" ELSE "late" ELSE @]

\* A sample leaves the window; the cool-down of an open circuit ends.
Prune(p) ==
    /\ samples[p] # <<>>
    /\ samples' = [samples EXCEPT ![p] = Tail(@)]
    /\ UNCHANGED <<circuit, failures, closedBy, call>>

CoolDown(p) ==
    /\ circuit[p] = "open"
    /\ circuit' = [circuit EXCEPT ![p] = "cooled"]
    /\ UNCHANGED <<samples, failures, closedBy, call>>

----------------------------------------------------------------------------
\* GenerationFailoverChain and guardedGeneration.
At(c, pc) == call[c].pc = pc
Goto(c, pc) == call' = [call EXCEPT ![c].pc = pc]
Provider(c) == Chain[call[c].at]
NextHopKeeps(c) == call' = [call EXCEPT ![c] =
    IF @.at < Len(Chain) THEN [@ EXCEPT !.pc = "try", !.at = @ + 1] ELSE [@ EXCEPT !.pc = "failed"]]
NextHop(c) == call' = [call EXCEPT ![c] =
    IF @.at < Len(Chain) THEN [pc |-> "try", at |-> @.at + 1, probe |-> FALSE, yielded |-> FALSE]
    ELSE [@ EXCEPT !.pc = "failed", !.probe = FALSE]]
Health == <<circuit, samples, failures, closedBy>>

Begin(c) ==
    /\ At(c, "idle")
    /\ call' = [call EXCEPT ![c] = [pc |-> "try", at |-> 1, probe |-> FALSE, yielded |-> FALSE]]
    /\ UNCHANGED Health

\* isDown: an open circuit is skipped without taking the probe.
SkipDown(c) ==
    /\ At(c, "try")
    /\ circuit[Provider(c)] = "open"
    /\ NextHop(c)
    /\ UNCHANGED Health

TryHop(c) ==
    /\ At(c, "try")
    /\ circuit[Provider(c)] # "open"
    /\ Goto(c, "gate")
    /\ UNCHANGED Health

\* gate: allow(), or CircuitOpenError, which advances the chain.
PassGate(c) ==
    LET p == Provider(c) IN
    /\ At(c, "gate")
    /\ Allowed(p)
    /\ circuit' = [circuit EXCEPT ![p] = AfterAllow(p)]
    /\ call' = [call EXCEPT ![c].pc = "bucket", ![c].probe = circuit[p] # "closed"]
    /\ UNCHANGED <<samples, failures, closedBy>>

Refuse(c) ==
    /\ At(c, "gate")
    /\ ~Allowed(Provider(c))
    /\ NextHop(c)
    /\ UNCHANGED Health

SendClosed(c) ==
    /\ At(c, "bucket")
    /\ circuit[Provider(c)] = "closed"
    /\ Goto(c, "sent")
    /\ UNCHANGED Health

\* The rate limiter lets the call out; a cancelled caller throws here, past the gate
\* and before the try block that records.
Send(c) ==
    /\ At(c, "bucket")
    /\ Goto(c, "sent")
    /\ UNCHANGED Health

CancelInBucket(c) ==
    /\ At(c, "bucket")
    /\ "cancelled" \in setup.leaves
    /\ call' = [call EXCEPT ![c].pc = "failed", ![c].probe = FALSE]
    /\ UNCHANGED Health

Chunk(c) ==
    /\ At(c, "sent") /\ ~call[c].yielded
    /\ call' = [call EXCEPT ![c].yielded = TRUE]
    /\ UNCHANGED Health

\* The consumer of a stream stops early: the generator returns, nothing is recorded.
StopStream(c) ==
    /\ At(c, "sent") /\ call[c].yielded
    /\ "stopped" \in setup.leaves
    /\ call' = [call EXCEPT ![c].pc = "ok", ![c].probe = FALSE]
    /\ UNCHANGED Health

Succeed(c) ==
    /\ At(c, "sent")
    /\ Record(c, Provider(c), TRUE, FALSE)
    /\ call' = [call EXCEPT ![c].pc = "ok", ![c].probe = FALSE]

\* advancesChain: a retryable error of the provider, its limits or the network moves on,
\* unless text was delivered.  Others end the call: errors that are retryable count
\* against the provider's circuit all the same.
Failures == {"provider", "retryable", "other"}
Retryable(error) == error # "other"
AdvancesChain(error) == error = "provider"
MovesOnAlways(c) == TRUE
MovesOn(c) == ~call[c].yielded

Fail(c, error) ==
    /\ At(c, "sent")
    /\ Record(c, Provider(c), FALSE, Retryable(error))
    /\ IF AdvancesChain(error) /\ MovesOn(c) THEN NextHop(c)
       ELSE call' = [call EXCEPT ![c].pc = "failed", ![c].probe = FALSE]

Answer(c) == Succeed(c) \/ \E error \in Failures : Fail(c, error)

\* The caller asks again.
Again(c) ==
    /\ call[c].pc \in {"ok", "failed"}
    /\ call' = [call EXCEPT ![c] = NoCall]
    /\ UNCHANGED Health

----------------------------------------------------------------------------
Walk(c) == SkipDown(c) \/ TryHop(c) \/ PassGate(c) \/ Refuse(c) \/ Send(c)

Next ==
    /\ \/ \E c \in Calls : Begin(c) \/ Walk(c) \/ Chunk(c) \/ Answer(c) \/ Again(c)
       \/ \E c \in Calls : CancelInBucket(c) \/ StopStream(c)
       \/ \E p \in Providers : Prune(p) \/ CoolDown(p)
    /\ UNCHANGED setup

Spec == Init /\ [][Next]_vars

\* Calls that were let out are answered (providers have timeouts).
Fairness == \A c \in Calls : WF_moving(Send(c)) /\ WF_moving(Answer(c))
LiveSpec == Spec /\ Fairness

----------------------------------------------------------------------------
TypeOK ==
    /\ setup \in Setups
    /\ circuit \in [Providers -> Circuit]
    /\ failures \in [Providers -> 0..OpenAfter]
    /\ closedBy \in [Providers -> {"start", "probe", "late"}]
    /\ \A p \in Providers : Len(samples[p]) <= MaxSamples
    /\ \A c \in Calls :
         /\ call[c].pc \in {"idle", "try", "gate", "bucket", "sent", "ok", "failed"}
         /\ call[c].pc # "idle" => call[c].at \in DOMAIN Chain
         /\ call[c].probe => call[c].pc \in {"bucket", "sent"}

ProbeOut(p) == \E c \in Calls : call[c].probe /\ Provider(c) = p

\* A circuit that refuses everybody because its probe is out has a probe out: one
\* that is answered, and then closes or opens the circuit.
AlwaysProbeOut == \A p \in Providers : circuit[p] = "probing" => ProbeOut(p)

\* ... if no call leaves without a record.
ProbeIsOut == setup.leaves = {} => AlwaysProbeOut

\* Only a successful probe closes a circuit that has opened.
ClosedByProbe == \A p \in Providers : circuit[p] = "closed" => closedBy[p] # "late"

\* A stream that has delivered text is not continued by another provider: its
\* consumer never sees the texts of two providers in one answer.
OneText == [][\A c \in Calls : call[c].yielded => call'[c].at \in {call[c].at, 0}]_vars

\* A circuit does not stay half-open: the provider is tried again or given time.
ProbeEnds == setup.leaves = {} => \A p \in Providers : circuit[p] = "probing" ~> circuit[p] # "probing"

=============================================================================
