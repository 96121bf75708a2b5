--------------------------- MODULE FailoverProofs ---------------------------
(***************************************************************************)
(* The circuits of the providers and the calls behind them, for any        *)
(* providers, calls, chains and thresholds.                                *)
(*                                                                         *)
(* The argument: a call that the gate lets out as the probe stays in front *)
(* of the rate limiter or sent, at the provider it probes, until it        *)
(* records; and every record, also of another call, ends the half-open     *)
(* state.  So a circuit that is probing has its probe out, unless a call   *)
(* leaves without recording.                                               *)
(***************************************************************************)
EXTENDS Failover, TLAPS

CallType == [pc : {"idle", "try", "gate", "bucket", "sent", "ok", "failed"},
             at : Nat, probe : BOOLEAN, yielded : BOOLEAN]

\* Text has been delivered only by a call that was sent.
Delivered == \A c \in Calls : call[c].yielded => call[c].pc \in {"sent", "ok", "failed"}

IInv ==
    /\ TypeOK
    /\ samples \in [Providers -> Seq(BOOLEAN)]
    /\ call \in [Calls -> CallType]
    /\ Delivered
    /\ ProbeIsOut

\* A call that is under way is at a provider of its chain.
LEMMA AtProvider ==
  ASSUME IInv, NEW c \in Calls, call[c].pc # "idle"
  PROVE  /\ Provider(c) \in Providers
         /\ call[c].at \in DOMAIN Chain /\ Chain \in Seq(Providers)
  BY FailoverAssumption DEF IInv, TypeOK, Chain, Provider

\* Where a call goes when its provider is out: on, without a probe, or it fails.
LEMMA HopType ==
  ASSUME IInv, NEW c \in Calls, call[c].pc # "idle", NextHop(c)
  PROVE  /\ call' \in [Calls -> CallType]
         /\ \A d \in Calls : d # c => call'[d] = call[d]
         /\ call'[c].pc \in {"try", "failed"} /\ ~call'[c].probe
         /\ call'[c].at \in DOMAIN Chain
         /\ call'[c].pc = "try" => ~call'[c].yielded
         /\ call'[c].pc = "failed" => call'[c].at = call[c].at
<1>1. call[c] \in CallType /\ call \in [Calls -> CallType]
  BY DEF IInv
<1>2. call[c].at \in 1..Len(Chain) /\ Len(Chain) \in Nat
  BY AtProvider
<1>3. CASE call[c].at < Len(Chain)
  <2>1. call' = [call EXCEPT ![c] =
            [pc |-> "try", at |-> call[c].at + 1, probe |-> FALSE, yielded |-> FALSE]]
    BY <1>3 DEF NextHop
  <2>2. call[c].at + 1 \in DOMAIN Chain
    BY <1>2, <1>3, AtProvider
  <2>3. QED
    BY <1>1, <1>2, <2>1, <2>2 DEF CallType
<1>4. CASE ~(call[c].at < Len(Chain))
  <2>1. call' = [call EXCEPT ![c] = [call[c] EXCEPT !.pc = "failed", !.probe = FALSE]]
    BY <1>4 DEF NextHop
  <2>2. QED
    BY <1>1, <1>2, <2>1, AtProvider DEF CallType
<1>5. QED
  BY <1>3, <1>4

\* What a record leaves behind: types, and a circuit that is no longer half-open.
LEMMA RecordType ==
  ASSUME IInv, NEW c \in Calls, call[c].pc = "sent", NEW ok \in BOOLEAN, NEW retryable \in BOOLEAN,
         Record(c, Provider(c), ok, retryable)
  PROVE  /\ circuit' \in [Providers -> Circuit]
         /\ circuit'[Provider(c)] # "probing"
         /\ \A q \in Providers : q # Provider(c) => circuit'[q] = circuit[q]
         /\ failures' \in [Providers -> 0..OpenAfter]
         /\ closedBy' \in [Providers -> {"start", "probe", "late"}]
         /\ samples' \in [Providers -> Seq(BOOLEAN)]
         /\ \A q \in Providers : Len(samples'[q]) <= MaxSamples
<1> DEFINE p == Provider(c)
<1>1. p \in Providers
  BY AtProvider
<1>2. /\ circuit \in [Providers -> Circuit] /\ failures \in [Providers -> 0..OpenAfter]
      /\ closedBy \in [Providers -> {"start", "probe", "late"}]
      /\ samples \in [Providers -> Seq(BOOLEAN)]
      /\ \A q \in Providers : Len(samples[q]) <= MaxSamples
  BY DEF IInv, TypeOK
<1>3. AfterOk(p) \in Circuit \ {"probing"} /\ AfterFailure(p, retryable) \in Circuit \ {"probing"}
  BY <1>1, <1>2 DEF AfterOk, AfterFailure, Half, Circuit
<1>4. circuit' = [circuit EXCEPT ![p] = IF ok THEN AfterOk(p) ELSE AfterFailure(p, retryable)]
  BY DEF Record
<1>5. circuit' \in [Providers -> Circuit] /\ circuit'[p] # "probing"
      /\ \A q \in Providers : q # p => circuit'[q] = circuit[q]
  <2> HIDE DEF p
  <2>1. QED
    BY <1>1, <1>2, <1>3, <1>4
<1>6. failures' \in [Providers -> 0..OpenAfter]
  BY <1>1, <1>2, FailoverAssumption DEF Record
<1>7. closedBy' \in [Providers -> {"start", "probe", "late"}]
  BY <1>1, <1>2 DEF Record
<1>8. ASSUME NEW s \in Seq(BOOLEAN), Len(s) <= MaxSamples
      PROVE  LET t == Append(IF Len(s) < MaxSamples THEN s ELSE Tail(s), ok)
             IN t \in Seq(BOOLEAN) /\ Len(t) <= MaxSamples
  <2>1. CASE Len(s) < MaxSamples
    BY <1>8, <2>1, FailoverAssumption
  <2>2. CASE ~(Len(s) < MaxSamples)
    <3>1. s # <<>> /\ Len(s) = MaxSamples
      BY <1>8, <2>2, FailoverAssumption
    <3>2. Tail(s) \in Seq(BOOLEAN) /\ Len(Tail(s)) = Len(s) - 1
      BY <1>8, <3>1
    <3>3. QED
      BY <2>2, <3>1, <3>2, FailoverAssumption
  <2>3. QED
    BY <2>1, <2>2
<1>9. samples' \in [Providers -> Seq(BOOLEAN)] /\ \A q \in Providers : Len(samples'[q]) <= MaxSamples
  <2>1. samples' = [samples EXCEPT ![p] =
            Append(IF Len(samples[p]) < MaxSamples THEN samples[p] ELSE Tail(samples[p]), ok)]
    BY DEF Record
  <2> HIDE DEF p
  <2>2. QED
    BY <1>1, <1>2, <1>8, <2>1
<1>10. QED
  BY <1>5, <1>6, <1>7, <1>9

----------------------------------------------------------------------------
LEMMA InitIInv == Init => IInv
<1> SUFFICES ASSUME Init
             PROVE  IInv
  OBVIOUS
<1>1. samples \in [Providers -> Seq(BOOLEAN)] /\ \A p \in Providers : Len(samples[p]) <= MaxSamples
  BY FailoverAssumption DEF Init
<1>2. QED
  BY <1>1, FailoverAssumption
  DEF Init, IInv, TypeOK, Circuit, NoCall, CallType, Delivered, ProbeIsOut, AlwaysProbeOut

\* A step of one call keeps the invariant if it keeps the call well-formed, the
\* health of the providers typed, and leaves no circuit probing without a probe.
LEMMA Rejoin ==
  ASSUME IInv, setup' = setup, NEW c \in Calls,
         call' \in [Calls -> CallType],
         \A d \in Calls : d # c => call'[d] = call[d],
         call'[c].pc # "idle" => call'[c].at \in DOMAIN Chain,
         call'[c].probe => call'[c].pc \in {"bucket", "sent"},
         call'[c].yielded => call'[c].pc \in {"sent", "ok", "failed"},
         circuit' \in [Providers -> Circuit],
         failures' \in [Providers -> 0..OpenAfter],
         closedBy' \in [Providers -> {"start", "probe", "late"}],
         samples' \in [Providers -> Seq(BOOLEAN)],
         \A p \in Providers : Len(samples'[p]) <= MaxSamples,
         setup.leaves = {} =>
             \A p \in Providers : circuit'[p] = "probing" =>
                 \E d \in Calls : call'[d].probe /\ Chain[call'[d].at] = p
  PROVE  IInv'
<1>1. TypeOK'
  BY DEF IInv, TypeOK, CallType, Chain
<1>2. Delivered'
  BY DEF IInv, Delivered
<1>3. ProbeIsOut'
  BY DEF ProbeIsOut, AlwaysProbeOut, ProbeOut, Provider, Chain
<1>4. QED
  BY <1>1, <1>2, <1>3 DEF IInv

\* Steps that leave the health of the providers alone, and a probe where it is.
LEMMA QuietInv ==
  ASSUME IInv, setup' = setup, UNCHANGED Health, NEW c \in Calls,
         call' \in [Calls -> CallType],
         \A d \in Calls : d # c => call'[d] = call[d],
         call'[c].pc # "idle" => call'[c].at \in DOMAIN Chain,
         call'[c].probe => call'[c].pc \in {"bucket", "sent"},
         call'[c].yielded => call'[c].pc \in {"sent", "ok", "failed"},
         setup.leaves = {} /\ call[c].probe => call'[c].probe /\ call'[c].at = call[c].at
  PROVE  IInv'
<1>1. ASSUME setup.leaves = {}, NEW p \in Providers, circuit'[p] = "probing"
      PROVE  \E d \in Calls : call'[d].probe /\ Chain[call'[d].at] = p
  <2>1. PICK d \in Calls : call[d].probe /\ Chain[call[d].at] = p
    BY <1>1 DEF IInv, ProbeIsOut, AlwaysProbeOut, ProbeOut, Provider, Health
  <2>2. call'[d].probe /\ call'[d].at = call[d].at
    BY <1>1, <2>1
  <2>3. QED
    BY <2>1, <2>2
<1>2. QED
  BY <1>1, Rejoin DEF IInv, TypeOK, Health

LEMMA TryInv ==
  ASSUME IInv, setup' = setup, NEW c \in Calls, SkipDown(c) \/ Refuse(c)
  PROVE  IInv'
<1>1. NextHop(c) /\ UNCHANGED Health /\ call[c].pc \in {"try", "gate"}
  BY DEF SkipDown, Refuse, At
<1>2. ~call[c].probe /\ ~call[c].yielded /\ call[c].at \in DOMAIN Chain
  BY <1>1, AtProvider DEF IInv, TypeOK, Delivered
<1>3. call'[c].yielded => call'[c].pc \in {"sent", "ok", "failed"}
  BY <1>1, HopType
<1>4. QED
  BY <1>1, <1>2, <1>3, HopType, QuietInv

LEMMA WalkInv ==
  ASSUME IInv, setup' = setup, NEW c \in Calls,
         \/ Begin(c) \/ TryHop(c) \/ Send(c) \/ Chunk(c) \/ Again(c)
         \/ CancelInBucket(c) \/ StopStream(c)
  PROVE  IInv'
<1>1. UNCHANGED Health
  BY DEF Begin, TryHop, Send, Chunk, Again, CancelInBucket, StopStream
<1>2. call[c] \in CallType /\ call \in [Calls -> CallType] /\ 1 \in DOMAIN Chain
  BY FailoverAssumption DEF IInv, TypeOK, Chain
<1>3. /\ call[c].pc # "idle" => call[c].at \in DOMAIN Chain
      /\ call[c].probe => call[c].pc \in {"bucket", "sent"}
      /\ call[c].yielded => call[c].pc \in {"sent", "ok", "failed"}
  BY DEF IInv, TypeOK, Delivered
<1>4. /\ call' \in [Calls -> CallType]
      /\ \A d \in Calls : d # c => call'[d] = call[d]
      /\ call'[c].pc # "idle" => call'[c].at \in DOMAIN Chain
      /\ call'[c].probe => call'[c].pc \in {"bucket", "sent"}
      /\ call'[c].yielded => call'[c].pc \in {"sent", "ok", "failed"}
      /\ setup.leaves = {} /\ call[c].probe => call'[c].probe /\ call'[c].at = call[c].at
  <2>1. CASE Begin(c)
    <3>1. call' = [call EXCEPT ![c] = [pc |-> "try", at |-> 1, probe |-> FALSE, yielded |-> FALSE]]
          /\ ~call[c].probe
      BY <2>1, <1>3 DEF Begin, At
    <3>2. QED
      BY <3>1, <1>2 DEF CallType
  <2>2. CASE TryHop(c)
    <3>1. call' = [call EXCEPT ![c] = [call[c] EXCEPT !.pc = "gate"]] /\ call[c].pc = "try"
      BY <2>2 DEF TryHop, At, Goto
    <3>2. QED
      BY <3>1, <1>2, <1>3 DEF CallType
  <2>3. CASE Send(c)
    <3>1. call' = [call EXCEPT ![c] = [call[c] EXCEPT !.pc = "sent"]] /\ call[c].pc = "bucket"
      BY <2>3 DEF Send, At, Goto
    <3>2. QED
      BY <3>1, <1>2, <1>3 DEF CallType
  <2>4. CASE Chunk(c)
    <3>1. call' = [call EXCEPT ![c] = [call[c] EXCEPT !.yielded = TRUE]] /\ call[c].pc = "sent"
      BY <2>4 DEF Chunk, At
    <3>2. QED
      BY <3>1, <1>2, <1>3 DEF CallType
  <2>5. CASE Again(c)
    <3>1. call' = [call EXCEPT ![c] = [pc |-> "idle", at |-> 0, probe |-> FALSE, yielded |-> FALSE]]
          /\ ~call[c].probe
      BY <2>5, <1>3 DEF Again, NoCall
    <3>2. QED
      BY <3>1, <1>2 DEF CallType
  <2>6. CASE CancelInBucket(c)
    <3>1. /\ call' = [call EXCEPT ![c] = [call[c] EXCEPT !.pc = "failed", !.probe = FALSE]]
          /\ call[c].pc = "bucket" /\ setup.leaves # {}
      BY <2>6 DEF CancelInBucket, At
    <3>2. QED
      BY <3>1, <1>2, <1>3 DEF CallType
  <2>7. CASE StopStream(c)
    <3>1. /\ call' = [call EXCEPT ![c] = [call[c] EXCEPT !.pc = "ok", !.probe = FALSE]]
          /\ call[c].pc = "sent" /\ setup.leaves # {}
      BY <2>7 DEF StopStream, At
    <3>2. QED
      BY <3>1, <1>2, <1>3 DEF CallType
  <2>8. QED
    BY <2>1, <2>2, <2>3, <2>4, <2>5, <2>6, <2>7
<1>5. QED
  BY <1>1, <1>4, QuietInv

\* The gate: whoever turns the circuit to probing is its probe.
LEMMA GateInv ==
  ASSUME IInv, setup' = setup, NEW c \in Calls, PassGate(c)
  PROVE  IInv'
<1> DEFINE p == Provider(c)
<1>1. /\ call' = [call EXCEPT ![c] = [call[c] EXCEPT !.pc = "bucket", !.probe = circuit[p] # "closed"]]
      /\ circuit' = [circuit EXCEPT ![p] = IF circuit[p] = "closed" THEN "closed" ELSE "probing"]
      /\ circuit[p] # "probing" /\ call[c].pc = "gate"
      /\ UNCHANGED <<samples, failures, closedBy>>
  BY DEF PassGate, AfterAllow, Allowed, At
<1>2. p \in Providers /\ call[c].at \in DOMAIN Chain /\ p = Chain[call[c].at]
  BY <1>1, AtProvider DEF Provider
<1>3. /\ call \in [Calls -> CallType] /\ circuit \in [Providers -> Circuit]
      /\ ~call[c].probe /\ ~call[c].yielded
  BY <1>1 DEF IInv, TypeOK, Delivered
<1> HIDE DEF p
<1>4. /\ call' \in [Calls -> CallType]
      /\ call'[c].pc = "bucket" /\ call'[c].at = call[c].at /\ ~call'[c].yielded
      /\ call'[c].probe <=> circuit[p] # "closed"
      /\ \A d \in Calls : d # c => call'[d] = call[d]
  BY <1>1, <1>3 DEF CallType
<1>5. /\ circuit' \in [Providers -> Circuit]
      /\ \A q \in Providers : q # p => circuit'[q] = circuit[q]
      /\ circuit'[p] = "probing" => circuit[p] # "closed"
  BY <1>1, <1>2, <1>3 DEF Circuit
<1>6. ASSUME setup.leaves = {}, NEW q \in Providers, circuit'[q] = "probing"
      PROVE  \E d \in Calls : call'[d].probe /\ Chain[call'[d].at] = q
  <2>1. CASE q = p
    <3>1. call'[c].probe
      BY <2>1, <1>4, <1>5, <1>6
    <3>2. Chain[call'[c].at] = q
      BY <2>1, <1>2, <1>4
    <3>3. QED
      BY <3>1, <3>2
  <2>2. CASE q # p
    <3>1. circuit[q] = "probing"
      BY <1>5, <1>6, <2>2
    <3>2. PICK d \in Calls : call[d].probe /\ Provider(d) = q
      BY <1>6, <3>1 DEF IInv, ProbeIsOut, AlwaysProbeOut, ProbeOut
    <3>3. d # c
      BY <3>2, <1>3
    <3>4. QED
      BY <3>2, <3>3, <1>4 DEF Provider
  <2>3. QED
    BY <2>1, <2>2
<1>7. /\ failures' \in [Providers -> 0..OpenAfter]
      /\ closedBy' \in [Providers -> {"start", "probe", "late"}]
      /\ samples' \in [Providers -> Seq(BOOLEAN)]
      /\ \A q \in Providers : Len(samples'[q]) <= MaxSamples
  BY <1>1 DEF IInv, TypeOK
<1>8. call'[c].pc = "bucket" /\ call'[c].at \in DOMAIN Chain /\ ~call'[c].yielded
  BY <1>2, <1>4
<1>9. QED
  BY <1>4, <1>5, <1>6, <1>7, <1>8, Rejoin

\* A record: the circuit of this provider is decided, the others keep their probes.
LEMMA AnswerInv ==
  ASSUME IInv, setup' = setup, NEW c \in Calls, Answer(c)
  PROVE  IInv'
<1>1. call[c].pc = "sent"
  BY DEF Answer, Succeed, Fail, At
<1>2. PICK ok \in BOOLEAN, retryable \in BOOLEAN : Record(c, Provider(c), ok, retryable)
  BY DEF Answer, Succeed, Fail, Retryable
<1>3. /\ call \in [Calls -> CallType] /\ call[c].at \in DOMAIN Chain
      /\ call[c] \in CallType
  BY <1>1, AtProvider DEF IInv
<1>4. /\ call' \in [Calls -> CallType]
      /\ \A d \in Calls : d # c => call'[d] = call[d]
      /\ call'[c].pc \in {"ok", "failed", "try"} /\ ~call'[c].probe
      /\ call'[c].at \in DOMAIN Chain
      /\ call'[c].yielded => call'[c].pc \in {"sent", "ok", "failed"}
  <2>1. CASE NextHop(c)
    BY <2>1, <1>1, <1>3, HopType
  <2>2. CASE call' = [call EXCEPT ![c] = [call[c] EXCEPT !.pc = "ok", !.probe = FALSE]]
    BY <2>2, <1>3 DEF CallType
  <2>3. CASE call' = [call EXCEPT ![c] = [call[c] EXCEPT !.pc = "failed", !.probe = FALSE]]
    BY <2>3, <1>3 DEF CallType
  <2>4. QED
    BY <2>1, <2>2, <2>3 DEF Answer, Succeed, Fail
<1>5. /\ circuit' \in [Providers -> Circuit]
      /\ circuit'[Provider(c)] # "probing"
      /\ \A q \in Providers : q # Provider(c) => circuit'[q] = circuit[q]
  BY <1>1, <1>2, RecordType
<1>6. ASSUME setup.leaves = {}, NEW q \in Providers, circuit'[q] = "probing"
      PROVE  \E d \in Calls : call'[d].probe /\ Chain[call'[d].at] = q
  <2>1. q # Provider(c) /\ circuit[q] = "probing"
    BY <1>5, <1>6
  <2>2. PICK d \in Calls : call[d].probe /\ Provider(d) = q
    BY <1>6, <2>1 DEF IInv, ProbeIsOut, AlwaysProbeOut, ProbeOut
  <2>3. d # c
    BY <2>1, <2>2
  <2>4. QED
    BY <2>2, <2>3, <1>4 DEF Provider
<1>7. /\ failures' \in [Providers -> 0..OpenAfter]
      /\ closedBy' \in [Providers -> {"start", "probe", "late"}]
      /\ samples' \in [Providers -> Seq(BOOLEAN)]
      /\ \A q \in Providers : Len(samples'[q]) <= MaxSamples
  BY <1>1, <1>2, RecordType
<1>8. QED
  BY <1>4, <1>5, <1>6, <1>7, Rejoin

\* A sample leaves the window, or a cool-down ends.
LEMMA ProviderInv ==
  ASSUME IInv, setup' = setup, NEW p \in Providers, Prune(p) \/ CoolDown(p)
  PROVE  IInv'
<1>1. /\ UNCHANGED <<failures, closedBy, call>>
      /\ circuit' \in [Providers -> Circuit]
      /\ \A q \in Providers : circuit'[q] = "probing" => circuit[q] = "probing"
  BY DEF Prune, CoolDown, IInv, TypeOK, Circuit
<1>2. samples' \in [Providers -> Seq(BOOLEAN)]
      /\ \A q \in Providers : Len(samples'[q]) <= MaxSamples
  <2>1. CASE Prune(p)
    <3>1. /\ samples[p] \in Seq(BOOLEAN) /\ samples[p] # <<>> /\ Len(samples[p]) <= MaxSamples
          /\ samples' = [samples EXCEPT ![p] = Tail(samples[p])]
      BY <2>1 DEF Prune, IInv, TypeOK
    <3>2. \A s \in Seq(BOOLEAN) : s # <<>> => Tail(s) \in Seq(BOOLEAN) /\ Len(Tail(s)) = Len(s) - 1
      OBVIOUS
    <3>3. Len(Tail(samples[p])) <= MaxSamples
      BY <3>1, <3>2, FailoverAssumption
    <3>4. QED
      BY <3>1, <3>2, <3>3 DEF IInv, TypeOK
  <2>2. CASE CoolDown(p)
    BY <2>2 DEF CoolDown, IInv, TypeOK
  <2>3. QED
    BY <2>1, <2>2
<1>3. TypeOK' /\ Delivered'
  BY <1>1, <1>2 DEF IInv, TypeOK, Delivered, Chain
<1>4. ProbeIsOut'
  BY <1>1 DEF IInv, ProbeIsOut, AlwaysProbeOut, ProbeOut, Provider, Chain
<1>5. QED
  BY <1>1, <1>2, <1>3, <1>4 DEF IInv

LEMMA NextInv == IInv /\ [Next]_vars => IInv'
<1> SUFFICES ASSUME IInv, [Next]_vars
             PROVE  IInv'
  OBVIOUS
<1>1. CASE UNCHANGED vars
  BY <1>1 DEF IInv, vars, moving, TypeOK, Delivered, ProbeIsOut, AlwaysProbeOut, ProbeOut,
              Provider, Chain
<1>2. CASE Next
  BY <1>2, TryInv, WalkInv, GateInv, AnswerInv, ProviderInv DEF Next, Walk
<1>3. QED
  BY <1>1, <1>2

LEMMA Invariance == Spec => []IInv
<1>1. Init => IInv
  BY InitIInv
<1>2. IInv /\ [Next]_vars => IInv'
  BY NextInv
<1>3. QED
  BY <1>1, <1>2, PTL DEF Spec

----------------------------------------------------------------------------
\* Circuits, windows and calls are what their types say, in every reachable state.
THEOREM FailoverType == Spec => []TypeOK
<1>1. IInv => TypeOK
  BY DEF IInv
<1>2. QED
  BY <1>1, Invariance, PTL

\* A circuit that refuses everybody has a probe out, if no call leaves without a
\* record (HealthTracker.allow against record).
THEOREM ProbeStaysOut == Spec => []ProbeIsOut
<1>1. IInv => ProbeIsOut
  BY DEF IInv
<1>2. QED
  BY <1>1, Invariance, PTL

Stays == \A c \in Calls : call[c].yielded => call'[c].at \in {call[c].at, 0}

\* A stream that has delivered text stays with its provider
\* (GenerationFailoverChain: no failover after the first chunk).
THEOREM TextOfOneProvider == Spec => OneText
<1>1. ASSUME IInv, [Next]_vars
      PROVE  [Stays]_vars
  <2>1. CASE UNCHANGED vars
    BY <2>1
  <2>2. CASE \E p \in Providers : Prune(p) \/ CoolDown(p)
    BY <2>2 DEF Prune, CoolDown, Stays
  <2>3. ASSUME NEW c \in Calls,
               \/ Begin(c) \/ Walk(c) \/ Chunk(c) \/ Answer(c) \/ Again(c)
               \/ CancelInBucket(c) \/ StopStream(c)
        PROVE  Stays
    <3>1. call \in [Calls -> CallType] /\ (call[c].yielded => call[c].pc \in {"sent", "ok", "failed"})
      BY <1>1 DEF IInv, Delivered
    <3>2. CASE call[c].yielded
      <4>1. \/ call' = [call EXCEPT ![c] = [call[c] EXCEPT !.pc = "failed", !.probe = FALSE]]
            \/ Succeed(c) \/ Again(c) \/ StopStream(c)
        BY <2>3, <3>1, <3>2
        DEF Begin, Walk, SkipDown, TryHop, PassGate, Refuse, Send, Chunk, Answer, Fail,
            MovesOn, CancelInBucket, At
      <4>2. CASE call' = [call EXCEPT ![c] = [call[c] EXCEPT !.pc = "failed", !.probe = FALSE]]
        BY <3>1, <4>2 DEF CallType, Stays
      <4>3. CASE call' = [call EXCEPT ![c] = [call[c] EXCEPT !.pc = "ok", !.probe = FALSE]]
        BY <3>1, <4>3 DEF CallType, Stays
      <4>4. CASE call' = [call EXCEPT ![c] = NoCall]
        BY <3>1, <4>4 DEF NoCall, Stays
      <4>5. QED
        BY <4>1, <4>2, <4>3, <4>4 DEF Succeed, Again, StopStream
    <3>3. CASE ~call[c].yielded
      <4>1. \A d \in Calls : d # c => call'[d] = call[d]
        BY <2>3, <3>1
        DEF Begin, Walk, SkipDown, TryHop, PassGate, Refuse, Send, Chunk, Answer, Succeed,
            Fail, Again, CancelInBucket, StopStream, NextHop, Goto
      <4>2. QED
        BY <3>3, <4>1 DEF Stays
    <3>4. QED
      BY <3>2, <3>3
  <2>4. QED
    BY <1>1, <2>1, <2>2, <2>3 DEF Next
<1>2. QED
  BY <1>1, Invariance, PTL DEF Spec, OneText, Stays

=============================================================================
