-------------------------- MODULE PageIndexProofs ---------------------------
(***************************************************************************)
(* The builds of a document's page indexes, for any workers, indexes,      *)
(* faults and setups.                                                      *)
(*                                                                         *)
(* The argument: a job the service reports as ready is final, so the       *)
(* document a delivery publishes is the one its job has recorded, and it   *)
(* is there as long as the row may still be published.  Whoever removes a  *)
(* document removes one no row refers to: the runner, the document of a    *)
(* later run than the published one; a delivery that stops its job, only   *)
(* after it has read a row that can never be published again; a delivery   *)
(* that comes too late, only what the row does not name; the cleanup, only *)
(* when every row is revoked.  Nothing is left of a deleted document,      *)
(* since an index is ticked off only once its job is over and its document *)
(* removed, and a job that ran once has no other.                          *)
(***************************************************************************)
EXTENDS PageIndex, TLAPS

Points == {"idle", "skipping", "marking", "submitting", "polling", "getting", "stopping",
           "publishing", "unpublished", "stopped", "canceling", "failing", "delivering",
           "cleaning"}
RowType == [state : RowStates \cup {"absent"}, active : BOOLEAN, attempts : Nat, doc : Nat,
            removed : BOOLEAN]
JobType == [rec : {"none", "queued", "running", "ready", "failed", "canceled", "restarted"},
            thread : {"none", "waiting", "child", "stored", "written", "checked"},
            run : Nat, result : Nat, cancel : BOOLEAN]
BuildType == [pc : Points, index : Indexes \cup {None}, attempt : Nat,
              then : {"idle", "canceling", "delivering", "failing"}, remove : BOOLEAN]

Types ==
    /\ setup \in Setups
    /\ document \in {"live", "deleted", "gone"}
    /\ row \in [Indexes -> RowType]
    /\ job \in [Indexes -> BOOLEAN] /\ cleanup \in BOOLEAN
    /\ build \in [Workers -> BuildType]
    /\ svc \in [Indexes -> JobType]
    /\ docs \subseteq Indexes \X Nat
    /\ faults \in 0..MaxFaults

\* The service's record of a job, its runner, and the documents of its runs.
Service(i) ==
    LET s == svc[i]
    IN /\ s.rec \in {"none", "restarted"} => s.thread = "none" /\ s.run <= faults
       /\ s.run <= faults + 1 /\ s.result <= s.run
       /\ s.rec = "none" => s.run = 0
       /\ s.rec = "ready" => s.thread = "none" /\ s.result = s.run
       /\ s.thread # "none" => s.run > 0 /\ s.result = 0
       /\ s.thread \in {"stored", "written", "checked"} => <<i, s.run>> \in docs
       /\ \A n \in Nat : <<i, n>> \in docs => n \in 1..s.run

\* A row, what it publishes, and what it may yet publish.
Publishable(r) == r.state \in {"queued", "running"}
Kept(i) ==
    LET r == row[i]  s == svc[i]
    IN /\ r.active => r.state = "ready"
       /\ r.doc <= s.run
       /\ s.thread # "none" => r.doc < s.run
       /\ r.state \in Readable => <<i, r.doc>> \in docs
       /\ Publishable(r) /\ s.rec = "ready" => <<i, s.result>> \in docs
       /\ document = "live" /\ ~Exists(i) => s.rec = "none" /\ ~job[i]
       /\ document # "live" => r.state \in {"deleted", "absent"}

\* A delivery and what it has read.
Busy(w) == build[w].pc \notin {"idle", "cleaning"}
Working(w) ==
    LET b == build[w]  r == row[b.index]
    IN /\ b.pc = "cleaning" => document # "live"
       /\ Busy(w) =>
            /\ b.index \in Indexes
            /\ document = "live" => Exists(b.index)
            /\ b.pc \in {"publishing", "unpublished"} => svc[b.index].rec = "ready"
            /\ b.pc \in {"submitting", "polling", "getting", "publishing"} => r.state # "queued"
            /\ b.pc = "unpublished" => ~Publishable(r)
            /\ b.pc = "stopping" /\ b.remove => ~Publishable(r) /\ r.state \notin Readable

IInv ==
    /\ Types
    /\ \A i \in Indexes : Service(i) /\ Kept(i)
    /\ \A w \in Workers : Working(w)

----------------------------------------------------------------------------
LEMMA InitIInv == Init => IInv
<1> SUFFICES ASSUME Init
             PROVE  IInv
  OBVIOUS
<1>1. Types
  <2>1. NoRow \in RowType
    BY DEF NoRow, RowType
  <2>2. NoJob \in JobType
    BY DEF NoJob, JobType
  <2>3. Off \in BuildType
    BY DEF Off, BuildType, Points
  <2>4. row \in [Indexes -> RowType] /\ svc \in [Indexes -> JobType] /\ build \in [Workers -> BuildType]
    BY <2>1, <2>2, <2>3 DEF Init
  <2>5. job \in [Indexes -> BOOLEAN] /\ cleanup \in BOOLEAN /\ docs \subseteq Indexes \X Nat
    BY DEF Init
  <2>6. setup \in Setups /\ document \in {"live", "deleted", "gone"} /\ faults \in 0..MaxFaults
    BY PageIndexAssumption DEF Init
  <2>7. QED
    BY <2>1, <2>2, <2>3, <2>4, <2>5, <2>6 DEF Types
<1>2. ASSUME NEW i \in Indexes
      PROVE  Service(i) /\ Kept(i)
  BY PageIndexAssumption DEF Init, Service, Kept, NoRow, NoJob, Readable, Publishable, Exists
<1>3. ASSUME NEW w \in Workers
      PROVE  Working(w)
  BY DEF Init, Working, Busy, Off
<1>4. QED
  BY <1>1, <1>2, <1>3 DEF IInv

\* What a step may do to an index without harm to the deliveries that have read it.
Forward(i) ==
    /\ svc[i].rec = "ready" => svc'[i].rec = "ready"
    /\ row[i].state # "queued" => row'[i].state # "queued"
    /\ ~Publishable(row[i]) => ~Publishable(row'[i])
    /\ ~Publishable(row[i]) /\ row[i].state \notin Readable => row'[i].state \notin Readable
    /\ document' = "live" => document = "live" /\ (Exists(i) => Exists(i)')

LEMMA WorkingStays ==
  ASSUME NEW w \in Workers, Working(w), build'[w] = build[w], document' = "live" => document = "live",
         Busy(w) => Forward(build[w].index)
  PROVE  Working(w)'
  BY DEF Working, Busy, Forward, Publishable, Exists

\* The other indexes, when a step is about one of them.
LEMMA OneIndex ==
  ASSUME IInv, NEW i \in Indexes, document' = document, faults' \in Nat, faults' >= faults,
         \A j \in Indexes : j # i =>
             /\ row'[j] = row[j] /\ svc'[j] = svc[j] /\ job'[j] = job[j]
             /\ \A n \in Nat : <<j, n>> \in docs' <=> <<j, n>> \in docs,
         Service(i)', Kept(i)'
  PROVE  \A j \in Indexes : Service(j)' /\ Kept(j)'
<1> SUFFICES ASSUME NEW j \in Indexes, j # i
             PROVE  Service(j)' /\ Kept(j)'
  OBVIOUS
<1>1. /\ row'[j] = row[j] /\ svc'[j] = svc[j] /\ job'[j] = job[j]
      /\ \A n \in Nat : <<j, n>> \in docs' <=> <<j, n>> \in docs
  OBVIOUS
<1>2. svc[j] \in JobType /\ row[j] \in RowType /\ faults \in Nat /\ Service(j) /\ Kept(j)
  BY DEF IInv, Types
<1>3. svc[j].run \in Nat /\ svc[j].result \in Nat /\ row[j].doc \in Nat
  BY <1>2 DEF JobType, RowType
<1>4. Service(j)'
  BY <1>1, <1>2, <1>3 DEF Service
<1>5. Kept(j)'
  BY <1>1, <1>2, <1>3 DEF Kept, Exists, Publishable
<1>6. QED
  BY <1>4, <1>5

\* A step about one index keeps the invariant if it keeps it of that index and of the
\* worker that takes the step.
LEMMA OneIndexInv ==
  ASSUME IInv, Types', document' = document, faults' >= faults, NEW i \in Indexes,
         \A j \in Indexes : j # i =>
             /\ row'[j] = row[j] /\ svc'[j] = svc[j] /\ job'[j] = job[j]
             /\ \A n \in Nat : <<j, n>> \in docs' <=> <<j, n>> \in docs,
         Service(i)', Kept(i)', Forward(i),
         \A w \in Workers : build'[w] = build[w] \/ Working(w)'
  PROVE  IInv'
<1>1. \A j \in Indexes : Service(j)' /\ Kept(j)'
  BY OneIndex DEF Types
<1>2. ASSUME NEW w \in Workers
      PROVE  Working(w)'
  <2>1. CASE Working(w)'
    BY <2>1
  <2>2. CASE build'[w] = build[w]
    <3>1. Busy(w) => Forward(build[w].index)
      <4>1. Working(w)
        BY DEF IInv
      <4>2. ASSUME NEW j \in Indexes, j # i
            PROVE  Forward(j)
        BY <4>2 DEF Forward, Exists
      <4>3. QED
        BY <4>1, <4>2 DEF Working
    <3>2. QED
      BY <2>2, <3>1, WorkingStays DEF IInv
  <2>3. QED
    BY <2>1, <2>2
<1>3. QED
  BY <1>1, <1>2 DEF IInv

\* A step that only moves a worker, or queues a job of an index that exists.
LEMMA QuietInv ==
  ASSUME IInv, setup' = setup, UNCHANGED <<document, row, svc, docs>>,
         job' \in [Indexes -> BOOLEAN], cleanup' \in BOOLEAN, build' \in [Workers -> BuildType],
         faults' \in 0..MaxFaults, faults' >= faults,
         \A i \in Indexes : job'[i] => job[i] \/ document # "live" \/ Exists(i),
         \A w \in Workers : build'[w] = build[w] \/ Working(w)'
  PROVE  IInv'
<1>1. Types'
  BY DEF IInv, Types
<1>2. ASSUME NEW i \in Indexes
      PROVE  Service(i)' /\ Kept(i)'
  <2>1. Service(i) /\ Kept(i) /\ svc[i] \in JobType /\ faults \in Nat /\ faults' \in Nat
    BY DEF IInv, Types
  <2>2. svc[i].run \in Nat
    BY <2>1 DEF JobType
  <2>3. Service(i)'
    BY <2>1, <2>2 DEF Service
  <2>4. Kept(i)'
    BY <2>1 DEF Kept, Exists, Publishable
  <2>5. QED
    BY <2>3, <2>4
<1>3. ASSUME NEW w \in Workers, build'[w] = build[w]
      PROVE  Working(w)'
  BY <1>3 DEF IInv, Working, Busy, Exists, Publishable
<1>4. QED
  BY <1>1, <1>2, <1>3 DEF IInv

LEMMA FaultCounts ==
  ASSUME IInv, NEW kind, Fault(kind)
  PROVE  faults' \in 0..MaxFaults /\ faults' >= faults /\ faults' = faults + 1 /\ faults \in Nat
  BY PageIndexAssumption DEF IInv, Types, Fault

LEMMA NoFault ==
  ASSUME IInv, faults' = faults
  PROVE  faults' \in 0..MaxFaults /\ faults' >= faults /\ faults \in Nat
  BY PageIndexAssumption DEF IInv, Types

----------------------------------------------------------------------------
\* A step that changes the service's job of one index, or its documents.
LEMMA JobInv ==
  ASSUME IInv, setup' = setup, UNCHANGED <<document, row, job, cleanup>>,
         build' \in [Workers -> BuildType], faults' \in 0..MaxFaults, faults' >= faults,
         NEW i \in Indexes, NEW t \in JobType, svc' = [svc EXCEPT ![i] = t],
         svc[i].rec = "ready" => t.rec = "ready",
         docs' \subseteq Indexes \X Nat,
         \A j \in Indexes, n \in Nat : j # i => (<<j, n>> \in docs' <=> <<j, n>> \in docs),
         Service(i)', Kept(i)',
         \A w \in Workers : build'[w] = build[w] \/ Working(w)'
  PROVE  IInv'
<1>1. svc \in [Indexes -> JobType]
  BY DEF IInv, Types
<1>2. svc'[i] = t /\ svc' \in [Indexes -> JobType] /\ \A j \in Indexes : j # i => svc'[j] = svc[j]
  BY <1>1
<1>3. Types'
  BY <1>2 DEF IInv, Types
<1>4. Forward(i)
  BY <1>2 DEF Forward, Exists
<1>5. QED
  BY <1>2, <1>3, <1>4, OneIndexInv

\* The runner of a job.
LEMMA RunnerInv ==
  ASSUME IInv, setup' = setup, NEW i \in Indexes, Runner(i)
  PROVE  IInv'
<1> DEFINE s == svc[i]
<1>1. /\ svc \in [Indexes -> JobType] /\ s \in JobType /\ Service(i) /\ Kept(i)
      /\ row[i] \in RowType /\ docs \subseteq Indexes \X Nat /\ build \in [Workers -> BuildType]
  BY DEF IInv, Types
<1>2. s.run \in Nat /\ s.result \in Nat /\ row[i].doc \in Nat
  BY <1>1 DEF JobType, RowType
<1>3. UNCHANGED <<document, row, job, cleanup, build>>
  BY DEF Runner, StartChild, StoreDocument, WriteResult, ChildFails, MayFail, Discard, ChildSucceeds, RecordReady
<1>4. faults' \in 0..MaxFaults /\ faults' >= faults /\ faults \in Nat /\ faults' \in Nat
  BY FaultCounts, NoFault
  DEF Runner, StartChild, StoreDocument, WriteResult, ChildFails, MayFail, Discard, ChildSucceeds, RecordReady
<1>5. /\ s.thread # "none" /\ s.rec \notin {"none", "restarted", "ready"}
      /\ s.run > 0 /\ s.result = 0 /\ row[i].doc < s.run /\ s.run <= faults + 1
      /\ \A n \in Nat : <<i, n>> \in docs => n \in 1..s.run
      /\ s.thread \in {"stored", "written", "checked"} => <<i, s.run>> \in docs
  BY <1>1
  DEF Service, Kept, Runner, StartChild, StoreDocument, WriteResult, ChildFails, MayFail, Discard,
      ChildSucceeds, RecordReady
<1>6. /\ row[i].active => row[i].state = "ready"
      /\ row[i].state \in Readable => <<i, row[i].doc>> \in docs
      /\ document = "live" => Exists(i)
      /\ document # "live" => row[i].state \in {"deleted", "absent"}
  BY <1>1, <1>5 DEF Kept
\* Enough: the new job is typed, keeps its run, and its document stays if it is stored.
<1>7. ASSUME NEW t \in JobType, svc' = [svc EXCEPT ![i] = t],
             t.run = s.run, t.rec \notin {"none", "restarted"},
             t.thread # "none" => t.result = 0 /\ t.rec # "ready",
             t.rec = "ready" => t.result = s.run /\ <<i, s.run>> \in docs',
             t.result \in {0, s.run},
             t.thread \in {"stored", "written", "checked"} => <<i, s.run>> \in docs',
             docs' \subseteq docs \cup {<<i, s.run>>}, docs \ {<<i, s.run>>} \subseteq docs'
      PROVE  IInv'
  <2>1. svc'[i] = t
    BY <1>1, <1>7
  <2>2. docs' \subseteq Indexes \X Nat
    BY <1>1, <1>2, <1>7
  <2>3. \A j \in Indexes, n \in Nat : j # i \/ n # s.run => (<<j, n>> \in docs' <=> <<j, n>> \in docs)
    BY <1>7
  <2>4. Service(i)'
    BY <1>2, <1>4, <1>5, <1>7, <2>1, <2>3 DEF Service
  <2>5. Kept(i)'
    BY <1>2, <1>3, <1>5, <1>6, <1>7, <2>1, <2>3 DEF Kept, Publishable, Exists
  <2>6. QED
    BY <1>3, <1>4, <1>5, <1>1, <1>7, <2>2, <2>3, <2>4, <2>5, JobInv
<1>8. CASE StartChild(i)
  <2> DEFINE t == [s EXCEPT !.thread = "child", !.rec = "running"]
  <2>1. svc' = [svc EXCEPT ![i] = t] /\ docs' = docs
    BY <1>8, <1>1 DEF StartChild
  <2>2. QED
    BY <1>1, <1>5, <1>7, <2>1 DEF JobType
<1>9. CASE StoreDocument(i)
  <2> DEFINE t == [s EXCEPT !.thread = IF Happens("orphan") THEN "stored" ELSE "written"]
  <2>1. svc' = [svc EXCEPT ![i] = t] /\ docs' = docs \cup {<<i, s.run>>}
    BY <1>9, <1>1 DEF StoreDocument
  <2>2. QED
    BY <1>1, <1>5, <1>7, <2>1 DEF JobType
<1>16. CASE WriteResult(i)
  <2> DEFINE t == [s EXCEPT !.thread = "written"]
  <2>1. svc' = [svc EXCEPT ![i] = t] /\ docs' = docs /\ s.thread = "stored"
    BY <1>16, <1>1 DEF WriteResult
  <2>2. QED
    BY <1>1, <1>5, <1>7, <2>1 DEF JobType
<1>10. CASE ChildFails(i)
  <2> DEFINE t == [s EXCEPT !.thread = "none", !.rec = "failed"]
  <2>1. svc' = [svc EXCEPT ![i] = t] /\ docs' = docs
    BY <1>10, <1>1 DEF ChildFails
  <2>2. QED
    BY <1>1, <1>5, <1>7, <2>1 DEF JobType
<1>11. CASE Discard(i)
  <2> DEFINE t == [s EXCEPT !.thread = "none"]
  <2>1. svc' = [svc EXCEPT ![i] = t] /\ docs' = docs \ {<<i, s.run>>}
    BY <1>11, <1>1 DEF Discard
  <2>2. QED
    BY <1>1, <1>5, <1>7, <2>1 DEF JobType
<1>12. ASSUME svc' = [svc EXCEPT ![i] = Recorded(s)], docs' = docs, s.thread \in {"written", "checked"}
       PROVE  IInv'
  <2> DEFINE t == [s EXCEPT !.thread = "none", !.rec = "ready", !.result = s.run]
  <2>1. svc' = [svc EXCEPT ![i] = t]
    BY <1>12 DEF Recorded
  <2>2. t \in JobType
    BY <1>1, <1>2 DEF JobType
  <2>3. QED
    BY <1>1, <1>5, <1>7, <1>12, <2>1, <2>2 DEF JobType
<1>13. CASE ChildSucceeds(i)
  <2>1. CASE Happens("late")
    <3> DEFINE t == [s EXCEPT !.thread = "checked"]
    <3>1. svc' = [svc EXCEPT ![i] = t] /\ docs' = docs /\ s.thread = "written"
      BY <2>1, <1>13, <1>1 DEF ChildSucceeds
    <3>2. QED
      BY <1>1, <1>5, <1>7, <3>1 DEF JobType
  <2>2. CASE ~Happens("late")
    BY <2>2, <1>12, <1>13, <1>1 DEF ChildSucceeds
  <2>3. QED
    BY <2>1, <2>2
<1>14. CASE RecordReady(i)
  BY <1>12, <1>14, <1>1 DEF RecordReady
<1>15. QED
  BY <1>8, <1>9, <1>10, <1>11, <1>13, <1>14, <1>16 DEF Runner

\* A restart of the service ends every runner, and fails what was not finished.
LEMMA RestartInv ==
  ASSUME IInv, setup' = setup, RestartService
  PROVE  IInv'
<1>1. UNCHANGED <<document, row, job, cleanup, build, docs>>
      /\ faults' = faults + 1 /\ faults \in Nat /\ faults' \in 0..MaxFaults
  BY FaultCounts DEF RestartService
<1>2. ASSUME NEW j \in Indexes
      PROVE  /\ svc'[j] \in JobType /\ svc'[j].thread = "none"
             /\ svc'[j].run = svc[j].run /\ svc'[j].result = svc[j].result
             /\ svc'[j].rec = IF svc[j].rec \in Terminal \cup {"none"} THEN svc[j].rec ELSE "restarted"
  <2>1. svc[j] \in JobType
    BY DEF IInv, Types
  <2>2. svc'[j] = [svc[j] EXCEPT !.thread = "none", !.cancel = FALSE,
                     !.rec = IF svc[j].rec \in Terminal \cup {"none"} THEN svc[j].rec ELSE "restarted"]
    BY DEF RestartService
  <2>3. QED
    BY <2>1, <2>2 DEF JobType, Terminal
<1>3. svc' \in [Indexes -> JobType]
  <2>1. svc' = [j \in Indexes |-> svc'[j]]
    BY DEF RestartService
  <2>2. QED
    BY <1>2, <2>1
<1>4. Types'
  BY <1>1, <1>3 DEF IInv, Types
<1>5. ASSUME NEW j \in Indexes
      PROVE  Service(j)' /\ Kept(j)'
  <2>1. Service(j) /\ Kept(j) /\ svc[j] \in JobType /\ row[j] \in RowType
    BY DEF IInv, Types
  <2>2. svc[j].run \in Nat /\ svc[j].result \in Nat /\ row[j].doc \in Nat
    BY <2>1 DEF JobType, RowType
  <2>3. Service(j)'
    BY <1>1, <1>2, <2>1, <2>2 DEF Service, Terminal
  <2>4. Kept(j)'
    BY <1>1, <1>2, <2>1, <2>2 DEF Kept, Publishable, Exists, Terminal
  <2>5. QED
    BY <2>3, <2>4
<1>6. \A j \in Indexes : Forward(j)
  BY <1>1, <1>2 DEF Forward, Exists, Terminal
<1>7. \A w \in Workers : Working(w)'
  BY <1>1, <1>6, WorkingStays DEF IInv, Working
<1>8. QED
  BY <1>4, <1>5, <1>7 DEF IInv

----------------------------------------------------------------------------
\* The steps of a worker that only move it.
LEMMA GotoType ==
  ASSUME IInv, NEW w \in Workers, NEW p \in Points, Goto(w, p)
  PROVE  /\ build' \in [Workers -> BuildType]
         /\ \A v \in Workers : v # w => build'[v] = build[v]
         /\ build'[w].pc = p /\ build'[w].index = build[w].index
         /\ build'[w].remove = build[w].remove
<1>1. build \in [Workers -> BuildType] /\ build[w] \in BuildType
  BY DEF IInv, Types
<1>2. build' = [build EXCEPT ![w] = [build[w] EXCEPT !.pc = p]]
  BY DEF Goto
<1>3. QED
  BY <1>1, <1>2 DEF BuildType

LEMMA StopType ==
  ASSUME IInv, NEW w \in Workers, NEW then \in {"canceling", "delivering", "failing"},
         NEW remove \in BOOLEAN, Stop(w, then, remove)
  PROVE  /\ build' \in [Workers -> BuildType]
         /\ \A v \in Workers : v # w => build'[v] = build[v]
         /\ build'[w].pc = "stopping" /\ build'[w].index = build[w].index
         /\ build'[w].remove = remove
<1>1. build \in [Workers -> BuildType] /\ build[w] \in BuildType
  BY DEF IInv, Types
<1>2. build' = [build EXCEPT ![w] =
                  [build[w] EXCEPT !.pc = "stopping", !.then = then, !.remove = remove]]
  BY DEF Stop
<1>3. QED
  BY <1>1, <1>2 DEF BuildType, Points

LEMMA OffType ==
  ASSUME IInv, NEW w \in Workers, build' = [build EXCEPT ![w] = Off]
  PROVE  /\ build' \in [Workers -> BuildType]
         /\ \A v \in Workers : v # w => build'[v] = build[v]
         /\ Working(w)'
<1>1. build \in [Workers -> BuildType]
  BY DEF IInv, Types
<1>2. Off \in BuildType
  BY DEF Off, BuildType, Points
<1>3. build' \in [Workers -> BuildType] /\ build'[w] = Off
      /\ \A v \in Workers : v # w => build'[v] = build[v]
  BY <1>1, <1>2
<1>4. Working(w)'
  BY <1>3 DEF Off, Working, Busy
<1>5. QED
  BY <1>3, <1>4

\* A delivery goes on to a point where it relies on nothing it has read.
Plain == {"skipping", "marking", "stopped", "canceling", "failing", "delivering"}

LEMMA PlainInv ==
  ASSUME IInv, setup' = setup, UNCHANGED <<document, row, svc, docs, job, cleanup>>,
         faults' \in 0..MaxFaults, faults' >= faults,
         NEW w \in Workers, Busy(w), NEW p \in Plain, Goto(w, p)
  PROVE  IInv'
<1>1. p \in Points
  BY DEF Plain, Points
<1>2. Working(w)
  BY DEF IInv
<1>3. Working(w)'
  BY <1>1, <1>2, GotoType DEF Working, Busy, Plain, Exists
<1>4. job \in [Indexes -> BOOLEAN] /\ cleanup \in BOOLEAN
  BY DEF IInv, Types
<1>5. QED
  BY <1>1, <1>3, <1>4, GotoType, QuietInv

LEMMA MoveInv ==
  ASSUME IInv, setup' = setup, NEW w \in Workers,
         \/ Skip(w) \/ Get(w) \/ Expire(w) \/ ReadStopped(w) \/ Refuse(w)
         \/ DeliverEvent(w) \/ Reread(w)
  PROVE  IInv'
<1>1. UNCHANGED <<document, row, svc, docs, job, cleanup>>
  BY DEF Skip, Get, Expire, ReadStopped, Refuse, DeliverEvent, Reread, Others
<1>2. faults' \in 0..MaxFaults /\ faults' >= faults
  BY FaultCounts, NoFault DEF Skip, Get, Expire, ReadStopped, Refuse, DeliverEvent, Reread, Others
<1>3. Busy(w) /\ Working(w)
  BY DEF IInv, Busy, Skip, Get, Expire, ReadStopped, Refuse, DeliverEvent, Reread, At
<1>4. job \in [Indexes -> BOOLEAN] /\ cleanup \in BOOLEAN /\ build \in [Workers -> BuildType]
  BY DEF IInv, Types
<1>5. ASSUME Working(w)', build' \in [Workers -> BuildType],
             \A v \in Workers : v # w => build'[v] = build[v]
      PROVE  IInv'
  BY <1>1, <1>2, <1>4, <1>5, QuietInv
<1>6. CASE Skip(w) \/ DeliverEvent(w)
  BY <1>5, <1>6, OffType DEF Skip, DeliverEvent
<1>7. CASE ReadStopped(w) \/ Refuse(w)
  <2>1. Goto(w, "canceling") \/ Goto(w, "failing")
    BY <1>7 DEF ReadStopped, Refuse
  <2>2. QED
    BY <1>1, <1>2, <1>3, <2>1, PlainInv DEF Plain
<1>8. CASE Expire(w)
  <2>1. Stop(w, "failing", FALSE)
    BY <1>8 DEF Expire
  <2>2. Working(w)'
    BY <1>1, <1>3, <2>1, StopType DEF Working, Busy, Exists
  <2>3. QED
    BY <1>5, <2>1, <2>2, StopType
<1>9. CASE Reread(w)
  <2>1. build[w].pc = "polling" /\ row[build[w].index].state # "queued"
    BY <1>3, <1>9 DEF Reread, At, Working, Busy
  <2>2. CASE Row(w).state = "running"
    <3>1. Goto(w, "getting")
      BY <1>9, <2>2 DEF Reread
    <3>2. Working(w)'
      BY <1>1, <1>3, <2>1, <3>1, GotoType DEF Working, Busy, Points, Exists
    <3>3. QED
      BY <1>5, <3>1, <3>2, GotoType DEF Points
  <2>3. CASE Row(w).state \in {"cancel_requested", "absent"}
    <3>1. PICK then \in {"canceling", "delivering"} : Stop(w, then, TRUE)
      BY <1>9, <2>3 DEF Reread
    <3>2. Working(w)'
      BY <1>1, <1>3, <2>3, <3>1, StopType DEF Working, Busy, Publishable, Readable, Row, Exists
    <3>3. QED
      BY <1>5, <3>1, <3>2, StopType
  <2>4. CASE Row(w).state \notin {"running", "cancel_requested", "absent"}
    <3>1. Goto(w, "skipping")
      BY <1>9, <2>4 DEF Reread
    <3>2. QED
      BY <1>1, <1>2, <1>3, <3>1, PlainInv DEF Plain
  <2>5. QED
    BY <2>2, <2>3, <2>4
<1>10. CASE Get(w)
  <2>1. build[w].pc = "getting" /\ row[build[w].index].state # "queued" /\ build[w].index \in Indexes
    BY <1>3, <1>10 DEF Get, At, Working, Busy
  <2>2. PICK p \in {"submitting", "polling", "publishing", "stopped", "failing"} :
          Goto(w, p) /\ (p = "publishing" => svc[build[w].index].rec = "ready")
    BY <1>10 DEF Get, Seen
  <2>3. p \in Points
    BY DEF Points
  <2>4. Working(w)'
    BY <1>1, <1>3, <2>1, <2>2, <2>3, GotoType DEF Working, Busy, Exists
  <2>5. QED
    BY <1>5, <2>2, <2>3, <2>4, GotoType
<1>11. QED
  BY <1>6, <1>7, <1>8, <1>9, <1>10

\* The steps that take a job or give it back.
LEMMA DeliverInv ==
  ASSUME IInv, setup' = setup, NEW w \in Workers, NEW i \in Indexes, Deliver(w, i)
  PROVE  IInv'
<1>1. UNCHANGED <<document, row, svc, docs, cleanup, faults>> /\ job[i]
      /\ job' = [job EXCEPT ![i] = FALSE]
  BY DEF Deliver, Others
<1>2. job \in [Indexes -> BOOLEAN] /\ cleanup \in BOOLEAN /\ build \in [Workers -> BuildType]
  BY DEF IInv, Types
<1>10. row[i].attempts \in Nat
  BY DEF IInv, Types, RowType
<1> DEFINE n == IF MayRun(row[i]) THEN row[i].attempts + 1 ELSE 0
<1>3. PICK p \in Plain \cup {"stopping"} :
        build' = [build EXCEPT ![w] = [Off EXCEPT !.index = i, !.then = "canceling",
                                                  !.attempt = n, !.pc = p]]
  BY DEF Deliver, AfterEnd, Plain
<1>11. n \in Nat
  BY <1>10
<1> HIDE DEF n
<1>4. /\ build' \in [Workers -> BuildType]
      /\ build'[w].pc = p /\ build'[w].index = i /\ build'[w].remove = FALSE
      /\ \A v \in Workers : v # w => build'[v] = build[v]
  BY <1>2, <1>3, <1>11 DEF Off, BuildType, Points, Plain
<1>5. document = "live" => Exists(i)
  BY <1>1 DEF IInv, Kept
<1>6. Working(w)'
  BY <1>1, <1>4, <1>5 DEF Working, Busy, Plain, Exists
<1>7. job' \in [Indexes -> BOOLEAN] /\ \A j \in Indexes : job'[j] => job[j]
  BY <1>1, <1>2
<1>8. faults' \in 0..MaxFaults /\ faults' >= faults
  BY <1>1, NoFault
<1>9. QED
  BY <1>1, <1>2, <1>4, <1>6, <1>7, <1>8, QuietInv

\* Giving a job back: its index exists, unless the document is gone.
LEMMA GiveBack ==
  ASSUME IInv, NEW w \in Workers, ~At(w, "idle"), Redelivered(w)
  PROVE  /\ job' \in [Indexes -> BOOLEAN] /\ cleanup' \in BOOLEAN
         /\ \A i \in Indexes : job'[i] => job[i] \/ document # "live" \/ Exists(i)
<1>1. job \in [Indexes -> BOOLEAN] /\ cleanup \in BOOLEAN /\ Working(w)
  BY DEF IInv, Types
<1>2. CASE At(w, "cleaning")
  BY <1>1, <1>2 DEF Redelivered
<1>3. CASE ~At(w, "cleaning")
  <2>1. Busy(w) /\ job' = [job EXCEPT ![build[w].index] = TRUE] /\ cleanup' = cleanup
    BY <1>3 DEF Redelivered, Busy, At
  <2>2. document # "live" \/ Exists(build[w].index)
    BY <1>1, <2>1 DEF Working
  <2>3. QED
    BY <1>1, <2>1, <2>2
<1>4. QED
  BY <1>2, <1>3

LEMMA LoseInv ==
  ASSUME IInv, setup' = setup, NEW w \in Workers, Crash(w) \/ Stall(w) \/ CleanupFails(w)
  PROVE  IInv'
<1>1. UNCHANGED <<document, row, svc, docs>> /\ faults' \in 0..MaxFaults /\ faults' >= faults
  BY FaultCounts DEF Crash, Stall, CleanupFails
<1>2. job \in [Indexes -> BOOLEAN] /\ cleanup \in BOOLEAN /\ build \in [Workers -> BuildType]
  BY DEF IInv, Types
<1>3. /\ job' \in [Indexes -> BOOLEAN] /\ cleanup' \in BOOLEAN
      /\ \A i \in Indexes : job'[i] => job[i] \/ document # "live" \/ Exists(i)
  BY <1>2, GiveBack DEF Crash, Stall, CleanupFails
<1>4. build' \in [Workers -> BuildType] /\ \A v \in Workers : build'[v] = build[v] \/ Working(v)'
  BY <1>2, OffType DEF Crash, Stall, CleanupFails
<1>5. QED
  BY <1>1, <1>3, <1>4, QuietInv

LEMMA UnreachableInv ==
  ASSUME IInv, setup' = setup, NEW w \in Workers, Unreachable(w)
  PROVE  IInv'
<1>1. UNCHANGED <<document, row, svc, docs, cleanup>> /\ faults' \in 0..MaxFaults /\ faults' >= faults
  BY FaultCounts DEF Unreachable
<1>2. job \in [Indexes -> BOOLEAN] /\ cleanup \in BOOLEAN /\ Working(w)
  BY DEF IInv, Types
<1>3. Busy(w) /\ build[w].index \in Indexes
  BY <1>2 DEF Unreachable, Busy, Working
<1>4. CASE Goto(w, "failing") /\ UNCHANGED job
  BY <1>1, <1>3, <1>4, PlainInv DEF Plain
<1>5. CASE job' = Requeued(build[w].index) /\ build' = [build EXCEPT ![w] = Off]
  <2>1. job' = [job EXCEPT ![build[w].index] = TRUE] /\ build' = [build EXCEPT ![w] = Off]
    BY <1>5 DEF Requeued
  <2>2. document # "live" \/ Exists(build[w].index)
    BY <1>2, <1>3 DEF Working
  <2>3. job' \in [Indexes -> BOOLEAN]
        /\ \A i \in Indexes : job'[i] => job[i] \/ document # "live" \/ Exists(i)
    BY <1>2, <1>3, <2>1, <2>2
  <2>4. QED
    BY <1>1, <1>2, <2>1, <2>3, OffType, QuietInv
<1>6. QED
  BY <1>4, <1>5 DEF Unreachable

LEMMA TakeCleanupInv ==
  ASSUME IInv, setup' = setup, NEW w \in Workers, TakeCleanup(w)
  PROVE  IInv'
<1>1. UNCHANGED <<document, row, svc, docs, job, faults>> /\ cleanup' \in BOOLEAN
      /\ faults' \in 0..MaxFaults /\ faults' >= faults
  BY NoFault DEF TakeCleanup
<1>2. PICK p \in {"cleaning", "idle"} : Goto(w, p) /\ (p = "cleaning" => document # "live")
  BY DEF TakeCleanup, Goto
<1>3. p \in Points /\ job \in [Indexes -> BOOLEAN]
  BY DEF Points, IInv, Types
<1>4. Working(w)'
  BY <1>1, <1>2, <1>3, GotoType DEF Working, Busy
<1>5. QED
  BY <1>1, <1>2, <1>3, <1>4, GotoType, QuietInv

----------------------------------------------------------------------------
\* The steps of a worker that write a row.
LEMMA RowInv ==
  ASSUME IInv, setup' = setup, UNCHANGED <<document, svc, docs, job, cleanup, faults>>,
         NEW i \in Indexes, NEW r \in RowType, row' = [row EXCEPT ![i] = r],
         r.doc = row[i].doc, r.active = row[i].active,
         r.state # row[i].state => ~row[i].active /\ r.state \notin Readable \cup {"queued", "absent"},
         document # "live" => r.state = row[i].state,
         Publishable(r) => Publishable(row[i]),
         build' \in [Workers -> BuildType],
         \A w \in Workers : build'[w] = build[w] \/ Working(w)'
  PROVE  IInv'
<1>1. /\ row \in [Indexes -> RowType] /\ svc[i] \in JobType /\ faults \in Nat
      /\ Service(i) /\ Kept(i)
  BY DEF IInv, Types
<1>2. row'[i] = r /\ row' \in [Indexes -> RowType] /\ \A j \in Indexes : j # i => row'[j] = row[j]
  BY <1>1
<1>3. Types'
  BY <1>2 DEF IInv, Types
<1>4. Forward(i)
  BY <1>2 DEF Forward, Exists
<1>5. Service(i)'
  BY <1>1 DEF Service
<1>6. Kept(i)'
  BY <1>1, <1>2 DEF Kept, Exists, Publishable
<1>7. faults' >= faults
  BY <1>1
<1>8. QED
  BY <1>2, <1>3, <1>4, <1>5, <1>6, <1>7, OneIndexInv

LEMMA MarkInv ==
  ASSUME IInv, setup' = setup, NEW w \in Workers,
         MarkRunning(w) \/ MarkCanceled(w) \/ MarkFailed(w) \/ MarkRemoved(w)
  PROVE  IInv'
<1> DEFINE i == build[w].index
           r == row[i]
<1>1. UNCHANGED <<document, svc, docs, job, cleanup, faults>>
  BY DEF MarkRunning, MarkCanceled, MarkFailed, MarkRemoved, Others
<1>2. /\ build \in [Workers -> BuildType] /\ build[w] \in BuildType /\ Working(w)
      /\ row \in [Indexes -> RowType]
  BY DEF IInv, Types
<1>3. i \in Indexes
  BY <1>2 DEF MarkRunning, MarkCanceled, MarkFailed, MarkRemoved, Working, Busy, At, BuildType
<1>4. /\ r \in RowType /\ Kept(i) /\ r.attempts \in Nat /\ r.attempts + 1 \in Nat
      /\ document # "live" => r.state \in {"deleted", "absent"}
  BY <1>2, <1>3 DEF IInv, Kept, RowType
<1>5. r.active => r.state = "ready"
  BY <1>4 DEF Kept
<1>6. faults' \in 0..MaxFaults /\ faults' >= faults /\ job \in [Indexes -> BOOLEAN] /\ cleanup \in BOOLEAN
  BY <1>1, NoFault DEF IInv, Types
<1>7. CASE MarkRunning(w)
  <2>1. CASE MayRun(r)
    <3> DEFINE t == [r EXCEPT !.state = "running", !.attempts = r.attempts + 1]
               b == [build[w] EXCEPT !.pc = "submitting"]
    <3>1. row' = [row EXCEPT ![i] = t] /\ build' = [build EXCEPT ![w] = b]
      BY <1>2, <1>3, <1>7, <2>1 DEF MarkRunning, Row, Goto
    <3>2. t \in RowType /\ t.state = "running" /\ t.doc = r.doc /\ t.active = r.active
      BY <1>4 DEF RowType, RowStates
    <3>3. b \in BuildType /\ b.pc = "submitting" /\ b.index = i
      BY <1>2, <1>4 DEF BuildType, Points, RowType
    <3>4. build' \in [Workers -> BuildType] /\ build'[w] = b
          /\ \A v \in Workers : v # w => build'[v] = build[v]
      BY <1>2, <3>1, <3>3
    <3>5. row'[i] = t
      BY <1>2, <1>3, <3>1
    <3>6. Working(w)'
      BY <1>3, <3>2, <3>3, <3>4, <3>5 DEF Working, Busy, Exists
    <3>7. r.state \in {"queued", "running"}
      BY <2>1 DEF MayRun
    <3> HIDE DEF t, b
    <3>8. QED
      BY <1>1, <1>3, <1>4, <1>5, <3>1, <3>2, <3>4, <3>6, <3>7, RowInv DEF Publishable, Readable
  <2>2. CASE ~MayRun(r)
    <3>1. Goto(w, "skipping") /\ row' = row /\ Busy(w)
      BY <1>7, <2>2 DEF MarkRunning, Row, Busy, At
    <3>2. QED
      BY <1>1, <1>6, <3>1, PlainInv DEF Plain
  <2>3. QED
    BY <2>1, <2>2
<1>8. ASSUME Busy(w), Goto(w, "delivering"),
             NEW from \in {Building, {"queued", "running"}}, NEW to \in {"canceled", "failed"},
             row' = IF r.state \in from THEN [row EXCEPT ![i].state = to] ELSE row
      PROVE  IInv'
  <2>1. CASE r.state \in from
    <3> DEFINE t == [r EXCEPT !.state = to]
    <3>1. row' = [row EXCEPT ![i] = t] /\ row'[i] = t
      BY <1>2, <1>3, <1>8, <2>1
    <3>2. t \in RowType /\ t.state = to /\ t.doc = r.doc /\ t.active = r.active
      BY <1>4 DEF RowType, RowStates
    <3>3. r.state \in Building
      BY <1>8, <2>1 DEF Building
    <3>4. Working(w)'
      BY <1>1, <1>2, <1>8, <3>1, <3>2, GotoType DEF Working, Busy, Exists, Points
    <3>5. build' \in [Workers -> BuildType] /\ \A v \in Workers : v # w => build'[v] = build[v]
      BY <1>8, GotoType DEF Points
    <3>6. /\ ~r.active /\ t.state \notin Readable \cup {"queued", "absent"} /\ ~Publishable(t)
          /\ document # "live" => t.state = r.state
      BY <1>4, <1>5, <3>2, <3>3 DEF Publishable, Readable, Building
    <3> HIDE DEF t
    <3>7. QED
      BY <1>1, <1>3, <3>1, <3>2, <3>4, <3>5, <3>6, RowInv
  <2>2. CASE r.state \notin from
    BY <1>1, <1>6, <1>8, <2>2, PlainInv DEF Plain
  <2>3. QED
    BY <2>1, <2>2
<1>9. CASE MarkCanceled(w)
  BY <1>8, <1>9 DEF MarkCanceled, Row, Busy, At
<1>10. CASE MarkFailed(w)
  BY <1>8, <1>10 DEF MarkFailed, Row, Busy, At
<1>11. CASE MarkRemoved(w)
  <2> DEFINE t == [r EXCEPT !.removed = Exists(i)]
             b == [build[w] EXCEPT !.index = None]
  <2>1. row' = [row EXCEPT ![i] = t] /\ build' = [build EXCEPT ![w] = b] /\ build[w].pc = "cleaning"
    BY <1>2, <1>3, <1>11 DEF MarkRemoved, At
  <2>2. t \in RowType /\ t.state = r.state /\ t.doc = r.doc /\ t.active = r.active
    BY <1>4 DEF RowType, Exists
  <2>3. b \in BuildType /\ b.pc = "cleaning"
    BY <1>2, <2>1 DEF BuildType
  <2>4. build' \in [Workers -> BuildType] /\ build'[w] = b
        /\ \A v \in Workers : v # w => build'[v] = build[v]
    BY <1>2, <2>1, <2>3
  <2>5. Working(w)'
    BY <1>1, <1>2, <2>1, <2>3, <2>4 DEF Working, Busy
  <2> HIDE DEF t, b
  <2>6. QED
    BY <1>1, <1>3, <1>4, <2>1, <2>2, <2>4, <2>5, RowInv DEF Publishable
<1>12. QED
  BY <1>7, <1>9, <1>10, <1>11

----------------------------------------------------------------------------
\* The steps of a worker that call the service.
LEMMA SubmittedType ==
  ASSUME NEW s \in JobType, Resubmits(s)
  PROVE  LET t == Submitted(s)
         IN /\ t \in JobType /\ t.rec = "queued" /\ t.thread = "waiting"
            /\ t.run = s.run + 1 /\ t.result = 0
<1> DEFINE New(n) == [s EXCEPT !.rec = "queued", !.thread = "waiting", !.run = n, !.result = 0]
<1>1. ASSUME NEW n \in Nat
      PROVE  /\ New(n) \in JobType /\ New(n).rec = "queued" /\ New(n).thread = "waiting"
             /\ New(n).run = n /\ New(n).result = 0
  BY DEF JobType
<1>2. s.run + 1 \in Nat
  BY DEF JobType
<1>3. Submitted(s) = New(s.run + 1)
  BY DEF Submitted
<1> HIDE DEF New
<1>4. QED
  BY <1>1, <1>2, <1>3

LEMMA SubmitInv ==
  ASSUME IInv, setup' = setup, NEW w \in Workers, Submit(w),
         NEW i \in Indexes, i = build[w].index
  PROVE  IInv'
<1> DEFINE s == svc[i]
           t == Submitted(s)
<1>1. UNCHANGED <<document, row, job, cleanup, docs, faults>> /\ faults \in Nat
      /\ svc' = [svc EXCEPT ![i] = t] /\ Goto(w, Seen(t.rec)) /\ build[w].pc = "submitting"
  BY NoFault DEF Submit, Others, At
<1>2. Working(w) /\ Busy(w) /\ i \in Indexes
  BY <1>1 DEF IInv, Working, Busy
<1>3. row[i].state # "queued" /\ (document = "live" => Exists(i))
  BY <1>1, <1>2 DEF Working
<1>4. s \in JobType /\ row[i] \in RowType /\ Service(i) /\ Kept(i) /\ svc \in [Indexes -> JobType]
      /\ docs \subseteq Indexes \X Nat
  BY <1>2 DEF IInv, Types
<1>5. s.run \in Nat /\ s.run + 1 \in Nat /\ s.result \in Nat /\ row[i].doc \in Nat
  BY <1>4 DEF JobType, RowType
<1>6. svc'[i] = t
  BY <1>1, <1>2, <1>4
<1>7. t \in JobType /\ (s.rec = "ready" => t.rec = "ready") /\ Service(i)' /\ Kept(i)'
  <2>1. CASE Resubmits(s)
    <3>1. s.thread = "none" /\ s.run <= faults /\ s.rec # "ready"
      BY <2>1, <1>4 DEF Resubmits, Service
    <3>3. /\ t \in JobType /\ t.rec = "queued" /\ t.thread = "waiting"
          /\ t.run = s.run + 1 /\ t.result = 0
      BY <2>1, <1>4, SubmittedType
    <3> HIDE DEF t
    <3>4. Service(i)'
      <4>1. svc'[i].rec = "queued" /\ svc'[i].thread = "waiting" /\ svc'[i].run = s.run + 1
            /\ svc'[i].result = 0
        BY <1>6, <3>3
      <4>2. \A n \in Nat : <<i, n>> \in docs' => n \in 1..(s.run + 1)
        BY <1>1, <1>4, <1>5 DEF Service
      <4>3. faults' = faults /\ s.run + 1 <= faults + 1
        BY <1>1, <1>5, <3>1
      <4>4. QED
        BY <1>1, <1>5, <4>1, <4>2, <4>3 DEF Service
    <3>5. Kept(i)'
      <4>1. svc'[i].rec = "queued" /\ svc'[i].run = s.run + 1 /\ row[i].doc < s.run + 1
        BY <1>4, <1>5, <1>6, <3>3 DEF Kept
      <4>2. QED
        BY <1>1, <1>3, <1>4, <1>5, <4>1 DEF Kept, Exists, Publishable
    <3>6. QED
      BY <3>1, <3>3, <3>4, <3>5
  <2>2. CASE ~Resubmits(s)
    <3>1. t = s
      BY <2>2 DEF Submitted
    <3> HIDE DEF t
    <3>2. QED
      <4>1. svc'[i] = svc[i] /\ row'[i] = row[i] /\ job'[i] = job[i]
        BY <1>1, <1>6, <3>1
      <4>2. Service(i)'
        BY <1>1, <1>4, <4>1 DEF Service
      <4>3. Kept(i)'
        BY <1>1, <1>4, <4>1 DEF Kept, Exists, Publishable
      <4>4. QED
        BY <1>4, <3>1, <4>2, <4>3
  <2>3. QED
    BY <2>1, <2>2
<1>8. PICK p \in {"polling", "publishing", "stopped", "failing"} :
        Goto(w, p) /\ (p = "publishing" => t.rec = "ready")
  BY <1>1 DEF Seen
<1> HIDE DEF t
<1>9. p \in Points
  BY DEF Points
<1>10. Working(w)'
  BY <1>1, <1>2, <1>3, <1>6, <1>8, <1>9, GotoType DEF Working, Busy, Exists
<1>11. faults' \in 0..MaxFaults /\ faults' >= faults
  BY <1>1, NoFault
<1>12. QED
  BY <1>1, <1>2, <1>4, <1>7, <1>8, <1>9, <1>10, <1>11, GotoType, JobInv

LEMMA CanceledType ==
  ASSUME NEW s \in JobType
  PROVE  LET t == CanceledJob(s)
         IN /\ t \in JobType /\ t.run = s.run /\ t.result = s.result
            /\ t.thread \in {"none", s.thread}
            /\ s.rec \in {"none", "restarted", "ready"} => t = s
            /\ t.rec \in {"none", "restarted", "ready"} => t = s
  BY DEF CanceledJob, JobType, Terminal

\* A document is removed that neither the runner nor the row will refer to.
LEMMA RemovalInv ==
  ASSUME IInv, setup' = setup, UNCHANGED <<document, row, job, cleanup, faults>>,
         NEW i \in Indexes, NEW t \in JobType, svc' = [svc EXCEPT ![i] = t],
         t.run = svc[i].run, t.result = svc[i].result, t.thread \in {"none", svc[i].thread},
         svc[i].rec \in {"none", "restarted", "ready"} => t = svc[i],
         t.rec \in {"none", "restarted", "ready"} => t = svc[i],
         NEW n \in Nat, docs' \in {docs, docs \ {<<i, n>>}},
         svc[i].thread # "none" => n # svc[i].run \/ docs' = docs,
         Publishable(row[i]) => n # svc[i].result \/ docs' = docs,
         row[i].state \in Readable => n # row[i].doc \/ docs' = docs,
         build' \in [Workers -> BuildType],
         \A w \in Workers : build'[w] = build[w] \/ Working(w)'
  PROVE  IInv'
<1>1. /\ svc[i] \in JobType /\ row[i] \in RowType /\ Service(i) /\ Kept(i) /\ faults \in Nat
      /\ svc \in [Indexes -> JobType] /\ docs \subseteq Indexes \X Nat
  BY DEF IInv, Types
<1>2. svc'[i] = t
  BY <1>1
<1>3. svc[i].run \in Nat /\ svc[i].result \in Nat /\ row[i].doc \in Nat
  BY <1>1 DEF JobType, RowType
<1>4. /\ docs' \subseteq Indexes \X Nat
      /\ \A j \in Indexes, m \in Nat : j # i => (<<j, m>> \in docs' <=> <<j, m>> \in docs)
      /\ \A m \in Nat : m # n \/ docs' = docs => (<<i, m>> \in docs' <=> <<i, m>> \in docs)
      /\ \A m \in Nat : <<i, m>> \in docs' => <<i, m>> \in docs
  BY <1>1
<1>5. Service(i)'
  BY <1>1, <1>2, <1>3, <1>4 DEF Service
<1>6. Kept(i)'
  BY <1>1, <1>2, <1>3, <1>4 DEF Kept, Exists, Publishable
<1>7. faults' \in 0..MaxFaults /\ faults' >= faults
  BY NoFault
<1>8. QED
  BY <1>4, <1>5, <1>6, <1>7, JobInv

LEMMA StopUpstreamInv ==
  ASSUME IInv, setup' = setup, NEW w \in Workers, StopUpstream(w)
  PROVE  IInv'
<1> DEFINE i == build[w].index
           s == svc[i]
           t == CanceledJob(s)
<1>1. UNCHANGED <<document, row, job, cleanup, faults>>
      /\ svc' = [svc EXCEPT ![i] = t] /\ Goto(w, build[w].then) /\ build[w].pc = "stopping"
      /\ docs' = IF build[w].remove THEN docs \ {<<i, s.result>>} ELSE docs
  BY DEF StopUpstream, Others, At
<1>2. Working(w) /\ Busy(w) /\ i \in Indexes /\ build[w] \in BuildType
  BY <1>1 DEF IInv, Types, Working, Busy
<1>3. s \in JobType /\ Service(i)
  BY <1>2 DEF IInv, Types
<1>4. s.result \in Nat /\ (s.thread # "none" => s.result # s.run)
  BY <1>3 DEF JobType, Service
<1>5. build[w].remove => ~Publishable(row[i]) /\ row[i].state \notin Readable
  BY <1>1, <1>2 DEF Working
<1>6. build[w].then \in {"idle", "canceling", "delivering", "failing"}
      /\ build[w].then \in Points
  BY <1>2 DEF BuildType, Points
<1>7. Working(w)'
  BY <1>1, <1>2, <1>6, GotoType DEF Working, Busy, Exists
<1>8. /\ t \in JobType /\ t.run = s.run /\ t.result = s.result
      /\ t.thread \in {"none", s.thread}
      /\ s.rec \in {"none", "restarted", "ready"} => t = s
      /\ t.rec \in {"none", "restarted", "ready"} => t = s
  BY <1>3, CanceledType
<1>9. docs' \in {docs, docs \ {<<i, s.result>>}} /\ (~build[w].remove => docs' = docs)
  BY <1>1
<1> HIDE DEF t
<1>10. QED
  BY <1>1, <1>2, <1>4, <1>5, <1>6, <1>7, <1>8, <1>9, GotoType, RemovalInv

LEMMA UnpublishInv ==
  ASSUME IInv, setup' = setup, NEW w \in Workers, Unpublish(w)
  PROVE  IInv'
<1> DEFINE i == build[w].index
           s == svc[i]
<1>1. UNCHANGED <<document, row, svc, job, cleanup, faults>> /\ build[w].pc = "unpublished"
      /\ docs' = IF IsPublished(row[i], s.result) THEN docs ELSE docs \ {<<i, s.result>>}
  BY DEF Unpublish, Others, At
<1>2. Working(w) /\ Busy(w) /\ i \in Indexes
  BY <1>1 DEF IInv, Types, Working, Busy
<1>3. ~Publishable(row[i]) /\ s.rec = "ready"
  BY <1>1, <1>2 DEF Working
<1>4. s \in JobType /\ Service(i) /\ svc \in [Indexes -> JobType]
  BY <1>2 DEF IInv, Types
<1>5. s.result \in Nat /\ s.thread = "none"
  BY <1>3, <1>4 DEF JobType, Service
<1>6. docs' \in {docs, docs \ {<<i, s.result>>}} /\ (s.result = row[i].doc => docs' = docs)
  BY <1>1 DEF IsPublished
<1>7. PICK p \in {"canceling", "delivering"} : Goto(w, p)
  BY DEF Unpublish
<1>8. p \in Points
  BY DEF Points
<1>9. Working(w)'
  BY <1>1, <1>2, <1>7, <1>8, GotoType DEF Working, Busy, Exists
<1>10. svc' = [svc EXCEPT ![i] = s]
  BY <1>1, <1>4
<1>11. QED
  BY <1>1, <1>2, <1>3, <1>4, <1>5, <1>6, <1>7, <1>8, <1>9, <1>10, GotoType, RemovalInv

\* The cleanup removes only what belongs to revoked rows.
LEMMA CleanInv ==
  ASSUME IInv, setup' = setup, NEW w \in Workers, NEW i \in Indexes, Clean(w, i)
  PROVE  IInv'
<1> DEFINE s == svc[i]
           n == IF row[i].doc = 0 THEN s.result ELSE row[i].doc
           t == IF row[i].doc = 0 THEN CanceledJob(s) ELSE s
<1>1. UNCHANGED <<document, row, job, cleanup, faults>> /\ build[w].pc = "cleaning"
      /\ build' = [build EXCEPT ![w].index = i] /\ docs' = docs \ {<<i, n>>}
  BY DEF Clean, Others, At
<1>2. /\ s \in JobType /\ row[i] \in RowType /\ Service(i) /\ Kept(i)
      /\ svc \in [Indexes -> JobType] /\ build \in [Workers -> BuildType] /\ Working(w)
  BY DEF IInv, Types
<1>3. document # "live"
  BY <1>1, <1>2 DEF Working
<1>4. ~Publishable(row[i]) /\ row[i].state \notin Readable
  BY <1>2, <1>3 DEF Kept, Publishable, Readable
<1>5. n \in Nat /\ (s.thread # "none" => n # s.run)
  BY <1>2 DEF JobType, RowType, Service, Kept
<1>6. svc' = [svc EXCEPT ![i] = t]
  BY <1>2 DEF Clean
<1>7. /\ t \in JobType /\ t.run = s.run /\ t.result = s.result
      /\ t.thread \in {"none", s.thread}
      /\ s.rec \in {"none", "restarted", "ready"} => t = s
      /\ t.rec \in {"none", "restarted", "ready"} => t = s
  BY <1>2, CanceledType
<1>8. build' = [build EXCEPT ![w] = [build[w] EXCEPT !.index = i]]
  BY <1>1
<1>9. /\ build' \in [Workers -> BuildType] /\ build'[w].pc = "cleaning"
      /\ \A v \in Workers : v # w => build'[v] = build[v]
  BY <1>1, <1>2, <1>8 DEF BuildType
<1>10. Working(w)'
  BY <1>1, <1>3, <1>9 DEF Working, Busy
<1> HIDE DEF t, n
<1>11. QED
  BY <1>1, <1>4, <1>5, <1>6, <1>7, <1>9, <1>10, RemovalInv

\* Only what is still running is published, and then its document is there.
LEMMA PublishInv ==
  ASSUME IInv, setup' = setup, NEW w \in Workers, Publish(w),
         NEW i \in Indexes, i = build[w].index
  PROVE  IInv'
<1> DEFINE s == svc[i]
<1>1. UNCHANGED <<document, job, cleanup, svc, docs, faults>> /\ build[w].pc = "publishing"
  BY DEF Publish, Others, At
<1>2. /\ Working(w) /\ Busy(w) /\ s \in JobType /\ row \in [Indexes -> RowType]
      /\ Service(i) /\ Kept(i) /\ job \in [Indexes -> BOOLEAN] /\ cleanup \in BOOLEAN
  BY <1>1 DEF IInv, Types, Busy
<1>3. s.rec = "ready" /\ row[i].state # "queued" /\ (document = "live" => Exists(i))
  BY <1>1, <1>2 DEF Working
<1>4. s.thread = "none" /\ s.result = s.run /\ s.result \in Nat
  BY <1>2, <1>3 DEF Service, JobType
<1>5. faults' \in 0..MaxFaults /\ faults' >= faults
  BY <1>1, NoFault
<1>6. CASE Publishes(row[i])
  <2>1. row[i].state = "running" /\ document = "live" /\ <<i, s.result>> \in docs
    BY <1>2, <1>3, <1>6 DEF Publishes, Kept, Publishable
  <2>2. Goto(w, "delivering")
        /\ row' = [k \in Indexes |->
                     IF k = i THEN [row[i] EXCEPT !.state = "ready", !.active = TRUE, !.doc = s.result]
                     ELSE Superseded(row[k])]
    BY <1>6 DEF Publish
  <2>3. /\ row'[i] \in RowType /\ row'[i].state = "ready" /\ row'[i].doc = s.result
    <3>1. row'[i] = [row[i] EXCEPT !.state = "ready", !.active = TRUE, !.doc = s.result]
      BY <2>2
    <3>2. row[i] \in RowType
      BY <1>2
    <3>3. QED
      BY <1>4, <3>1, <3>2 DEF RowType, RowStates
  <2>4. ASSUME NEW k \in Indexes, k # i
        PROVE  /\ row'[k] \in RowType /\ row'[k].doc = row[k].doc
               /\ \/ row'[k] = row[k]
                  \/ row[k].state = "ready" /\ row'[k].state = "superseded" /\ ~row'[k].active
    <3>1. row'[k] = Superseded(row[k]) /\ row[k] \in RowType /\ Kept(k)
      BY <1>2, <2>2, <2>4 DEF IInv
    <3>2. QED
      BY <3>1 DEF Superseded, RowType, RowStates, Kept
  <2>5. row' \in [Indexes -> RowType]
    BY <2>2, <2>3, <2>4
  <2>6. Types'
    BY <1>1, <2>2, <2>5, GotoType DEF IInv, Types, Points
  <2>7. ASSUME NEW k \in Indexes
        PROVE  Service(k)'
    BY <1>1 DEF IInv, Service
  <2>8. ASSUME NEW k \in Indexes
        PROVE  Kept(k)' /\ Forward(k)
    <3>1. CASE k = i
      BY <3>1, <1>1, <1>2, <1>4, <2>1, <2>3 DEF Kept, Forward, Exists, Publishable, Readable
    <3>2. CASE k # i
      <4>1. Kept(k)
        BY DEF IInv
      <4>2. QED
        BY <3>2, <4>1, <1>1, <2>1, <2>4 DEF Kept, Forward, Exists, Publishable, Readable
    <3>3. QED
      BY <3>1, <3>2
  <2>9. Working(w)'
    BY <1>1, <1>2, <2>2, <2>3, GotoType DEF Working, Busy, Exists, Points
  <2>10. ASSUME NEW v \in Workers, v # w
         PROVE  Working(v)'
    <3>1. build'[v] = build[v] /\ Working(v)
      BY <2>2, <2>10, GotoType DEF Points, IInv
    <3>2. Busy(v) => Forward(build[v].index)
      BY <2>8, <3>1 DEF Working
    <3>3. QED
      BY <1>1, <3>1, <3>2, WorkingStays
  <2>11. QED
    BY <2>6, <2>7, <2>8, <2>9, <2>10 DEF IInv
<1>7. CASE ~Publishes(row[i])
  <2>1. Goto(w, "unpublished") /\ row' = row
    BY <1>7 DEF Publish
  <2>2. ~Publishable(row[i])
    BY <1>3, <1>7 DEF Publishable, Publishes
  <2>3. Working(w)'
    BY <1>1, <1>2, <1>3, <2>1, <2>2, GotoType DEF Working, Busy, Exists, Publishable, Points
  <2>4. QED
    BY <1>1, <1>2, <1>5, <2>1, <2>3, GotoType, QuietInv DEF Points
<1>8. QED
  BY <1>6, <1>7

\* The rows of a document that is deleted, or gone: nothing is published any more.
LEMMA RevokeInv ==
  ASSUME IInv, setup' = setup, UNCHANGED <<job, svc, docs, faults>>, cleanup' \in BOOLEAN,
         document' \in {"deleted", "gone"}, row' \in [Indexes -> RowType],
         \A i \in Indexes : /\ row'[i].state \in {"deleted", "absent"} /\ ~row'[i].active
                            /\ row'[i].doc \in {0, row[i].doc},
         build' \in [Workers -> BuildType],
         \A w \in Workers : build'[w] = build[w] \/ Working(w)'
  PROVE  IInv'
<1>1. Types'
  BY DEF IInv, Types
<1>2. ASSUME NEW i \in Indexes
      PROVE  Service(i)' /\ Kept(i)' /\ Forward(i)
  <2>1. Service(i) /\ Kept(i) /\ svc[i] \in JobType /\ row[i] \in RowType
    BY DEF IInv, Types
  <2>2. svc[i].run \in Nat /\ row[i].doc \in Nat
    BY <2>1 DEF JobType, RowType
  <2>3. Service(i)'
    BY <2>1 DEF Service
  <2>4. Kept(i)'
    BY <2>1, <2>2 DEF Kept, Service, Publishable, Readable
  <2>5. Forward(i)
    BY <2>1 DEF Forward, Publishable, Readable
  <2>6. QED
    BY <2>3, <2>4, <2>5
<1>3. ASSUME NEW w \in Workers, build'[w] = build[w]
      PROVE  Working(w)'
  <2>1. Working(w)
    BY DEF IInv
  <2>2. Busy(w) => Forward(build[w].index)
    BY <1>2, <2>1 DEF Working
  <2>3. QED
    BY <1>3, <2>1, <2>2, WorkingStays
<1>4. QED
  BY <1>1, <1>2, <1>3 DEF IInv

LEMMA RemoveDocumentInv ==
  ASSUME IInv, setup' = setup, NEW w \in Workers, RemoveDocument(w)
  PROVE  IInv'
<1>1. /\ UNCHANGED <<job, svc, docs, faults, cleanup>> /\ document' = "gone"
      /\ row' = [i \in Indexes |-> NoRow] /\ build' = [build EXCEPT ![w] = Off]
  BY DEF RemoveDocument
<1>2. NoRow \in RowType /\ NoRow.state = "absent" /\ NoRow.doc = 0 /\ ~NoRow.active
  BY DEF NoRow, RowType
<1>3. cleanup' \in BOOLEAN
  BY <1>1 DEF IInv, Types
<1>4. QED
  BY <1>1, <1>2, <1>3, OffType, RevokeInv

----------------------------------------------------------------------------
\* The API and the start of a worker.
LEMMA DeleteInv ==
  ASSUME IInv, setup' = setup, Delete
  PROVE  IInv'
<1>1. /\ UNCHANGED <<job, build, svc, docs, faults>> /\ document' = "deleted" /\ cleanup' \in BOOLEAN
      /\ row' = [i \in Indexes |-> Revoked(row[i])]
  BY DEF Delete
<1>2. build \in [Workers -> BuildType] /\ row \in [Indexes -> RowType]
  BY DEF IInv, Types
<1>3. ASSUME NEW i \in Indexes
      PROVE  /\ row'[i] \in RowType /\ row'[i].state \in {"deleted", "absent"}
             /\ ~row'[i].active /\ row'[i].doc = row[i].doc
  <2>1. row'[i] = Revoked(row[i]) /\ row[i] \in RowType /\ Kept(i)
    BY <1>1, <1>2 DEF IInv
  <2>2. row[i].active => row[i].state = "ready"
    BY <2>1 DEF Kept
  <2>3. QED
    BY <2>1, <2>2 DEF Revoked, RowType, RowStates
<1>4. row' \in [Indexes -> RowType]
  BY <1>1, <1>3
<1>5. QED
  BY <1>1, <1>2, <1>3, <1>4, RevokeInv

LEMMA CancelInv ==
  ASSUME IInv, setup' = setup, NEW i \in Indexes, Cancel(i)
  PROVE  IInv'
<1> DEFINE t == [row[i] EXCEPT !.state = IF row[i].state = "queued" THEN "canceled" ELSE "cancel_requested"]
<1>1. UNCHANGED <<document, job, cleanup, build, svc, docs, faults>>
      /\ row[i].state \in {"queued", "running"} /\ document = "live"
  BY DEF Cancel
<1>2. row \in [Indexes -> RowType] /\ build \in [Workers -> BuildType] /\ row[i] \in RowType /\ Kept(i)
  BY DEF IInv, Types
<1>3. row' = [row EXCEPT ![i] = t]
  BY <1>2 DEF Cancel
<1>4. /\ t \in RowType /\ t.doc = row[i].doc /\ t.active = row[i].active
      /\ t.state \in {"canceled", "cancel_requested"}
  BY <1>2 DEF RowType, RowStates
<1>5. ~row[i].active
  BY <1>1, <1>2 DEF Kept
<1> HIDE DEF t
<1>6. QED
  BY <1>1, <1>2, <1>3, <1>4, <1>5, RowInv DEF Publishable, Readable

\* A new row: no delivery is about it, and the service does not know it.
LEMMA RequestInv ==
  ASSUME IInv, setup' = setup, NEW i \in Indexes, Request(i)
  PROVE  IInv'
<1> DEFINE t == [NoRow EXCEPT !.state = "queued"]
<1>1. UNCHANGED <<document, cleanup, build, svc, docs>> /\ document = "live" /\ ~Exists(i)
      /\ row' = [row EXCEPT ![i] = t]
      /\ job' \in {job, [job EXCEPT ![i] = TRUE]}
  BY DEF Request
<1>2. faults' \in 0..MaxFaults /\ faults' >= faults /\ faults \in Nat /\ faults' \in Nat
  BY FaultCounts, NoFault DEF Request
<1>3. /\ row \in [Indexes -> RowType] /\ job \in [Indexes -> BOOLEAN] /\ svc[i] \in JobType
      /\ Service(i) /\ Kept(i)
  BY DEF IInv, Types
<1>4. t \in RowType /\ t.state = "queued" /\ t.doc = 0 /\ ~t.active
  BY DEF NoRow, RowType, RowStates
<1> HIDE DEF t
<1>5. /\ row' \in [Indexes -> RowType] /\ row'[i] = t /\ job' \in [Indexes -> BOOLEAN]
      /\ \A j \in Indexes : j # i => row'[j] = row[j] /\ job'[j] = job[j]
  BY <1>1, <1>3, <1>4
<1>6. Types'
  BY <1>1, <1>2, <1>5 DEF IInv, Types
<1>7. svc[i].rec = "none" /\ svc[i].thread = "none" /\ svc[i].run \in Nat
  BY <1>1, <1>3 DEF Kept, Service, JobType
<1>8. Service(i)'
  BY <1>1, <1>2, <1>3, <1>7 DEF Service, JobType
<1>9. Kept(i)'
  BY <1>1, <1>4, <1>5, <1>7 DEF Kept, Exists, Publishable, Readable
<1>10. \A j \in Indexes : Service(j)' /\ Kept(j)'
  BY <1>1, <1>2, <1>5, <1>8, <1>9, OneIndex
<1>11. ASSUME NEW w \in Workers
       PROVE  Working(w)'
  <2>1. Working(w) /\ (Busy(w) => build[w].index \in Indexes \ {i})
    BY <1>1 DEF IInv, Working
  <2>2. Busy(w) => row'[build[w].index] = row[build[w].index]
    BY <1>5, <2>1
  <2>3. QED
    BY <1>1, <2>1, <2>2 DEF Working, Busy, Exists, Publishable
<1>12. QED
  BY <1>6, <1>10, <1>11 DEF IInv

LEMMA ReconcileInv ==
  ASSUME IInv, setup' = setup, Reconcile
  PROVE  IInv'
<1>1. UNCHANGED <<document, row, build, svc, docs, faults>>
      /\ job' = [i \in Indexes |-> job[i] \/ (row[i].state \in Building /\ ~Pending(i))]
      /\ cleanup' \in BOOLEAN
  BY DEF Reconcile
<1>2. job \in [Indexes -> BOOLEAN] /\ build \in [Workers -> BuildType]
  BY DEF IInv, Types
<1>3. job' \in [Indexes -> BOOLEAN] /\ \A i \in Indexes : job'[i] => job[i] \/ Exists(i)
  BY <1>1, <1>2 DEF Building, Exists
<1>4. faults' \in 0..MaxFaults /\ faults' >= faults
  BY <1>1, NoFault
<1>5. QED
  BY <1>1, <1>2, <1>3, <1>4, QuietInv

\* The waiting run only reads.
LEMMA WaiterInv ==
  ASSUME IInv, setup' = setup, UNCHANGED <<document, row, job, cleanup, build, svc, docs, faults>>
  PROVE  IInv'
<1>1. job \in [Indexes -> BOOLEAN] /\ cleanup \in BOOLEAN /\ build \in [Workers -> BuildType]
  BY DEF IInv, Types
<1>2. faults' \in 0..MaxFaults /\ faults' >= faults
  BY NoFault
<1>3. QED
  BY <1>1, <1>2, QuietInv

LEMMA NextIInv == IInv /\ [Next]_vars => IInv'
<1> SUFFICES ASSUME IInv, [Next]_vars
             PROVE  IInv'
  OBVIOUS
<1>1. CASE UNCHANGED vars
  BY <1>1, WaiterInv DEF vars, moving
<1>2. setup' = setup
  BY DEF Next, vars
<1>3. ASSUME NEW i \in Indexes, Request(i) \/ Cancel(i) \/ ReadIndex(i) \/ Runner(i)
      PROVE  IInv'
  <2>1. CASE ReadIndex(i)
    BY <1>2, <2>1, WaiterInv DEF ReadIndex, Others
  <2>2. QED
    BY <1>2, <1>3, <2>1, RequestInv, CancelInv, RunnerInv
<1>4. ASSUME NEW w \in Workers, WorkerStep(w)
      PROVE  IInv'
  <2>1. At(w, "submitting") \/ At(w, "publishing") => build[w].index \in Indexes
    BY DEF IInv, Working, Busy, At
  <2>2. CASE Submit(w) \/ Publish(w)
    BY <1>2, <2>1, <2>2, SubmitInv, PublishInv DEF Submit, Publish
  <2>3. CASE IndexStep(w)
    BY <1>2, <2>2, <2>3, MarkInv, MoveInv, StopUpstreamInv, UnpublishInv DEF IndexStep
  <2>4. CASE CleanupStep(w)
    BY <1>2, <2>4, TakeCleanupInv, MarkInv, RemoveDocumentInv, CleanInv DEF CleanupStep
  <2>5. QED
    BY <1>2, <1>4, <2>3, <2>4, DeliverInv DEF WorkerStep
<1>5. ASSUME NEW w \in Workers,
             Refuse(w) \/ Expire(w) \/ Unreachable(w) \/ CleanupFails(w) \/ Crash(w) \/ Stall(w)
      PROVE  IInv'
  BY <1>2, <1>5, MoveInv, UnreachableInv, LoseInv
<1>6. CASE Subscribe \/ Resume \/ GiveUpWaiting
  BY <1>2, <1>6, WaiterInv DEF Subscribe, Resume, GiveUpWaiting, Others
<1>7. CASE Delete \/ RestartService \/ Reconcile
  BY <1>2, <1>7, DeleteInv, RestartInv, ReconcileInv
<1>8. QED
  BY <1>1, <1>3, <1>4, <1>5, <1>6, <1>7 DEF Next

LEMMA Invariance == Spec => []IInv
  BY InitIInv, NextIInv, PTL DEF Spec

----------------------------------------------------------------------------
\* The types, with what an active row, a result and a runner imply.
THEOREM PageIndexType == Spec => []TypeOK
<1>1. IInv => TypeOK
  <2> SUFFICES ASSUME IInv
               PROVE  TypeOK
    OBVIOUS
  <2>1. ASSUME NEW i \in Indexes
        PROVE  /\ row[i].state \in RowStates \cup {"absent"}
               /\ row[i].active => row[i].state = "ready"
               /\ row[i].doc \in 0..svc[i].run
               /\ svc[i].result \in 0..svc[i].run
               /\ svc[i].thread # "none" => svc[i].run > 0
    <3>1. svc[i] \in JobType /\ row[i] \in RowType /\ Service(i) /\ Kept(i)
      BY DEF IInv, Types
    <3>2. svc[i].run \in Nat /\ svc[i].result \in Nat /\ row[i].doc \in Nat
          /\ row[i].state \in RowStates \cup {"absent"}
      BY <3>1 DEF JobType, RowType
    <3>3. QED
      BY <3>1, <3>2 DEF Service, Kept
  <2>2. ASSUME NEW d \in docs
        PROVE  d \in Indexes \X (1..(MaxFaults + 1)) /\ d[2] <= svc[d[1]].run
    <3>1. PICK i \in Indexes, n \in Nat : d = <<i, n>>
      BY DEF IInv, Types
    <3>2. n \in 1..svc[i].run /\ svc[i].run <= faults + 1 /\ svc[i].run \in Nat
      BY <3>1 DEF IInv, Service, Types, JobType
    <3>3. faults \in 0..MaxFaults /\ MaxFaults \in Nat
      BY PageIndexAssumption DEF IInv, Types
    <3>4. n \in 1..(MaxFaults + 1) /\ n <= svc[i].run
      BY <3>2, <3>3
    <3>5. QED
      BY <3>1, <3>4
  <2>3. \A w \in Workers : build[w].index \in Indexes \cup {None}
    BY DEF IInv, Types, BuildType
  <2>4. QED
    BY <2>1, <2>2, <2>3 DEF TypeOK, IInv, Types
<1>2. QED
  BY <1>1, Invariance, PTL

\* What a reader is sent to exists, whatever is delivered twice, cancelled or deleted.
THEOREM ReadersFindTheirDocument == Spec => []ReadableExists
<1>1. IInv => ReadableExists
  BY DEF IInv, Kept, ReadableExists
<1>2. QED
  BY <1>1, Invariance, PTL

\* The end of a build is final: only its deletion still changes the row.
THEOREM EndsOfBuildsAreFinal == Spec => EndIsFinal
<1> DEFINE Final(i) == row[i].state \in {"canceled", "failed", "superseded", "deleted"} =>
                           row'[i].state \in {row[i].state, "deleted", "absent"}
<1>1. IInv /\ [Next]_vars => [\A i \in Indexes : Final(i)]_vars
  <2> SUFFICES ASSUME IInv, Next, NEW i \in Indexes,
                      row[i].state \in {"canceled", "failed", "superseded", "deleted"},
                      row'[i] # row[i]
               PROVE  row'[i].state \in {row[i].state, "deleted", "absent"}
    BY DEF vars, moving
  <2>1. row \in [Indexes -> RowType] /\ Kept(i)
    BY DEF IInv, Types
  <2>2. ~row[i].active
    BY <2>1 DEF Kept
  <2>3. ASSUME NEW k \in Indexes, Request(k) \/ Cancel(k) \/ ReadIndex(k) \/ Runner(k)
        PROVE  FALSE
    BY <2>1, <2>3
    DEF Request, Cancel, ReadIndex, Others, Exists, Runner, StartChild, StoreDocument, WriteResult,
        ChildFails, Discard, ChildSucceeds, RecordReady
  <2>4. CASE Delete
    <3>1. row'[i] = Revoked(row[i])
      BY <2>4 DEF Delete
    <3>2. QED
      BY <2>1, <3>1 DEF Revoked, RowType
  <2>5. ASSUME NEW w \in Workers, WorkerStep(w)
        PROVE  row'[i].state \in {row[i].state, "deleted", "absent"}
    <3>1. CASE MarkRunning(w) \/ MarkCanceled(w) \/ MarkFailed(w)
      BY <2>1, <3>1 DEF MarkRunning, MarkCanceled, MarkFailed, MayRun, Building, Row
    <3>2. CASE Publish(w)
      BY <2>1, <2>2, <3>2 DEF Publish, Publishes, Superseded
    <3>3. CASE MarkRemoved(w)
      BY <2>1, <3>3 DEF MarkRemoved
    <3>4. CASE RemoveDocument(w)
      BY <3>4 DEF RemoveDocument, NoRow
    <3>5. CASE UNCHANGED row
      BY <3>5
    <3>6. QED
      BY <2>5, <3>1, <3>2, <3>3, <3>4, <3>5
      DEF WorkerStep, IndexStep, CleanupStep, Deliver, Submit, Reread, Get, StopUpstream, Unpublish,
          ReadStopped, DeliverEvent, Skip, TakeCleanup, Clean, Others
  <2>6. ASSUME NEW w \in Workers,
               Refuse(w) \/ Expire(w) \/ Unreachable(w) \/ CleanupFails(w) \/ Crash(w) \/ Stall(w)
        PROVE  FALSE
    BY <2>6 DEF Refuse, Expire, Unreachable, CleanupFails, Crash, Stall, Others
  <2>7. ~(RestartService \/ Reconcile \/ Subscribe \/ Resume \/ GiveUpWaiting)
    BY DEF RestartService, Reconcile, Subscribe, Resume, GiveUpWaiting, Others
  <2>8. QED
    BY <2>3, <2>4, <2>5, <2>6, <2>7 DEF Next
<1>2. QED
  BY <1>1, Invariance, PTL DEF Spec, EndIsFinal

----------------------------------------------------------------------------
\* What the service still holds when a document is gone.  Without a restart a job runs
\* once, so there is one document per index to account for.
Harmless == setup.kinds \cap {"delete", "late", "restart"} = {}

\* A document exists only while its runner has yet to decide, or once it is recorded, or
\* as that of a child that ended too early.
Once(i) ==
    LET s == svc[i]
    IN /\ s.run <= 1 /\ s.rec # "restarted" /\ s.thread # "checked"
       /\ s.rec \in {"none", "failed"} => s.thread = "none"
       /\ s.rec = "canceled" => s.thread = "none" \/ (s.thread = "written" /\ s.cancel)
       /\ s.rec = "none" \/ s.thread \in {"waiting", "child", "stored"} => ~s.cancel
       /\ s.thread = "stored" => Happens("orphan")
       /\ <<i, 1>> \in docs => s.thread \in {"stored", "written"} \/ s.rec = "ready" \/ Orphaned(i)

\* Nothing is left of the index, but for a document its runner is about to discard, or an
\* orphan.
Removed(i) ==
    /\ svc[i].thread = "none" \/ (svc[i].thread = "written" /\ svc[i].cancel)
    /\ <<i, 1>> \in docs => svc[i].thread = "written" \/ Orphaned(i)

\* A deletion finds no job, and an index is ticked off only when it is removed.
TickedOff(i) ==
    /\ document = "live" => ~row[i].removed
    /\ document # "live" => ~job[i]
    /\ document # "live" /\ (document = "gone" \/ ~Exists(i) \/ row[i].removed) => Removed(i)
Cleaning(w) ==
    LET b == build[w]
    IN /\ b.pc = "idle" => b.index = None
       /\ b.pc = "cleaning" /\ b.index # None => Removed(b.index)
       /\ Busy(w) => document = "live" /\ b.then # "idle"

LeftInv == /\ \A i \in Indexes : Once(i) /\ TickedOff(i)
           /\ \A w \in Workers : Cleaning(w)

\* What a step may do to the service's job of an index.
Asks(i) ==
    /\ \/ svc'[i] = svc[i] \/ svc'[i] = CanceledJob(svc[i])
    /\ <<i, 1>> \in docs' => <<i, 1>> \in docs
Submits(i) == svc'[i] = Submitted(svc[i]) /\ docs' = docs

LEMMA CanceledIs ==
  ASSUME NEW s \in JobType
  PROVE  \/ CanceledJob(s) = s /\ s.rec \in Terminal \cup {"none", "restarted"}
         \/ /\ CanceledJob(s).rec = "canceled" /\ CanceledJob(s).cancel
            /\ CanceledJob(s).thread = IF s.thread \in {"waiting", "child", "stored"} THEN "none" ELSE s.thread
            /\ CanceledJob(s).run = s.run
            /\ s.rec \notin Terminal \cup {"none", "restarted"}
  BY DEF CanceledJob, JobType

LEMMA AsksOnce ==
  ASSUME setup' = setup, NEW i \in Indexes, svc[i] \in JobType, Service(i), Once(i), Asks(i)
  PROVE  Once(i)' /\ (Removed(i) => Removed(i)')
<1>1. CASE svc'[i] = svc[i]
  BY <1>1 DEF Asks, Once, Removed, Orphaned, Happens
<1>2. CASE svc'[i] = CanceledJob(svc[i]) /\ svc'[i] # svc[i]
  <2>1. /\ svc'[i].rec = "canceled" /\ svc'[i].cancel /\ svc'[i].run = svc[i].run
        /\ svc'[i].thread = IF svc[i].thread \in {"waiting", "child", "stored"} THEN "none" ELSE svc[i].thread
        /\ svc[i].rec \notin Terminal
    BY <1>2, CanceledIs
  <2>2. svc[i].thread \in {"none", "waiting", "child", "stored", "written"}
    BY DEF Once, JobType
  <2>3. <<i, 1>> \in docs' => svc[i].thread \in {"stored", "written"}
    BY <2>1 DEF Asks, Once, Terminal, Orphaned
  <2>5. svc[i].thread = "stored" => Orphaned(i)'
    BY <2>1 DEF Once, Orphaned, Happens
  <2>6. svc'[i].thread # "stored" /\ svc'[i].thread # "checked"
    BY <2>1, <2>2
  <2>7. svc[i].thread = "none" => svc'[i].thread = "none" /\ <<i, 1>> \notin docs'
    BY <2>1, <2>3
  <2>8. Once(i)'
    BY <2>1, <2>2, <2>3, <2>5, <2>6 DEF Once
  <2>4. QED
    BY <2>1, <2>2, <2>3, <2>5, <2>8 DEF Removed
<1>3. QED
  BY <1>1, <1>2 DEF Asks

LEMMA SubmitsOnce ==
  ASSUME setup' = setup, NEW i \in Indexes, svc[i] \in JobType, Service(i), Once(i), Submits(i)
  PROVE  Once(i)'
<1>1. CASE Resubmits(svc[i])
  <2>1. /\ svc'[i].rec = "queued" /\ svc'[i].thread = "waiting" /\ svc'[i].run = svc[i].run + 1
        /\ svc'[i].cancel = svc[i].cancel
    BY <1>1 DEF Submits, Submitted, JobType
  <2>2. svc[i].rec = "none" /\ svc[i].run = 0 /\ svc[i].thread = "none" /\ <<i, 1>> \notin docs
        /\ ~svc[i].cancel
    BY <1>1 DEF Resubmits, Once, Service
  <2>3. QED
    BY <2>1, <2>2 DEF Once, Submits
<1>2. CASE ~Resubmits(svc[i])
  BY <1>2 DEF Submits, Submitted, Once, Orphaned, Happens
<1>3. QED
  BY <1>1, <1>2

\* The runner: it records only what was not cancelled, and discards what was.
LEMMA RunnerOnce ==
  ASSUME setup' = setup, IInv, Harmless, NEW i \in Indexes, Once(i), Runner(i)
  PROVE  /\ Once(i)' /\ (Removed(i) => Removed(i)')
         /\ \A j \in Indexes : j # i => Asks(j)
         /\ UNCHANGED <<document, row, job, build>>
<1> DEFINE s == svc[i]
           Left(t) == Happens("orphan") /\ t.rec \in {"failed", "canceled"}
<1>1. /\ svc \in [Indexes -> JobType] /\ s \in JobType /\ Service(i) /\ docs \subseteq Indexes \X Nat
  BY DEF IInv, Types
<1>2. ~Happens("late")
  BY DEF Harmless, Happens
<1>3. UNCHANGED <<document, row, job, build>>
  BY DEF Runner, StartChild, StoreDocument, WriteResult, ChildFails, MayFail, Discard, ChildSucceeds, RecordReady
<1>4. s.thread # "none" => s.run = 1 /\ s.rec # "ready"
  BY <1>1 DEF Service, Once, JobType
\* Enough: what becomes of the job and of its document.
<1>5. ASSUME NEW t, svc' = [svc EXCEPT ![i] = t],
             \A j \in Indexes : j # i => (<<j, 1>> \in docs' => <<j, 1>> \in docs),
             t.run = s.run, t.rec # "restarted", t.thread # "checked",
             t.rec \in {"none", "failed"} => t.thread = "none",
             t.rec = "canceled" => t.thread = "none" \/ (t.thread = "written" /\ t.cancel),
             t.rec = "none" \/ t.thread \in {"waiting", "child", "stored"} => ~t.cancel,
             t.thread = "stored" => Happens("orphan"),
             <<i, 1>> \in docs' =>
                 t.thread \in {"stored", "written"} \/ t.rec = "ready" \/ Left(t),
             Removed(i) => t.thread = "none" /\ (<<i, 1>> \in docs' => Left(t))
      PROVE  /\ Once(i)' /\ (Removed(i) => Removed(i)')
             /\ \A j \in Indexes : j # i => Asks(j)
  <2>1. svc'[i] = t /\ \A j \in Indexes : j # i => svc'[j] = svc[j]
    BY <1>1, <1>5
  <2>5. Left(t) => Orphaned(i)'
    BY <2>1 DEF Orphaned, Happens
  <2>2. Once(i)'
    BY <1>5, <2>1, <2>5 DEF Once, Happens
  <2>3. Removed(i) => Removed(i)'
    BY <1>5, <2>1, <2>5 DEF Removed
  <2>4. QED
    BY <1>5, <2>1, <2>2, <2>3 DEF Asks
<1>6. CASE StartChild(i)
  <2> DEFINE t == [s EXCEPT !.thread = "child", !.rec = "running"]
  <2>1. svc' = [svc EXCEPT ![i] = t] /\ docs' = docs /\ s.thread = "waiting"
    BY <1>6, <1>1 DEF StartChild
  <2>2. t.thread = "child" /\ t.rec = "running" /\ t.run = s.run /\ t.cancel = s.cancel
    BY <1>1 DEF JobType
  <2>3. s.rec \notin {"none", "failed", "canceled", "ready"} /\ ~s.cancel
    BY <1>4, <2>1 DEF Once
  <2>4. <<i, 1>> \notin docs /\ ~Removed(i)
    BY <2>1, <2>3 DEF Once, Removed, Orphaned
  <2> HIDE DEF t
  <2>5. QED
    BY <1>1, <1>3, <1>5, <2>1, <2>2, <2>3, <2>4
<1>7. CASE StoreDocument(i)
  <2> DEFINE p == IF Happens("orphan") THEN "stored" ELSE "written"
             t == [s EXCEPT !.thread = p]
  <2>1. svc' = [svc EXCEPT ![i] = t] /\ docs' = docs \cup {<<i, s.run>>} /\ s.thread = "child"
    BY <1>7, <1>1 DEF StoreDocument
  <2>2. t.thread = p /\ t.rec = s.rec /\ t.run = s.run /\ t.cancel = s.cancel
    BY <1>1 DEF JobType
  <2>3. s.rec \notin {"none", "failed", "canceled", "restarted"} /\ ~s.cancel /\ ~Removed(i)
    BY <2>1 DEF Once, Removed
  <2>4. \A j \in Indexes : j # i => (<<j, 1>> \in docs' => <<j, 1>> \in docs)
    BY <2>1
  <2> HIDE DEF t
  <2>5. QED
    BY <1>1, <1>3, <1>5, <2>1, <2>2, <2>3, <2>4
<1>12. CASE WriteResult(i)
  <2> DEFINE t == [s EXCEPT !.thread = "written"]
  <2>1. svc' = [svc EXCEPT ![i] = t] /\ docs' = docs /\ s.thread = "stored"
    BY <1>12, <1>1 DEF WriteResult
  <2>2. t.thread = "written" /\ t.rec = s.rec /\ t.run = s.run
    BY <1>1 DEF JobType
  <2>3. s.rec \notin {"none", "failed", "canceled", "restarted"} /\ ~Removed(i)
    BY <2>1 DEF Once, Removed
  <2> HIDE DEF t
  <2>4. QED
    BY <1>1, <1>3, <1>5, <2>1, <2>2, <2>3
<1>8. CASE ChildFails(i)
  <2> DEFINE t == [s EXCEPT !.thread = "none", !.rec = "failed"]
  <2>1. svc' = [svc EXCEPT ![i] = t] /\ docs' = docs /\ MayFail(s)
    BY <1>8, <1>1 DEF ChildFails
  <2>2. t.thread = "none" /\ t.rec = "failed" /\ t.run = s.run
    BY <1>1 DEF JobType
  <2>3. <<i, 1>> \in docs => Happens("orphan")
    <3>1. CASE s.thread = "child"
      <4>1. s.rec \notin {"none", "failed", "canceled", "ready"}
        BY <1>4, <3>1 DEF Once
      <4>2. QED
        BY <3>1, <4>1 DEF Once, Orphaned
    <3>2. CASE s.thread # "child"
      BY <2>1, <3>2 DEF MayFail, Once
    <3>3. QED
      BY <3>1, <3>2
  <2> HIDE DEF t
  <2>4. QED
    BY <1>1, <1>3, <1>5, <2>1, <2>2, <2>3
<1>9. CASE Discard(i)
  <2> DEFINE t == [s EXCEPT !.thread = "none"]
  <2>1. svc' = [svc EXCEPT ![i] = t] /\ docs' = docs \ {<<i, s.run>>} /\ s.thread = "written"
    BY <1>9, <1>1 DEF Discard
  <2>2. t.thread = "none" /\ t.rec = s.rec /\ t.run = s.run
    BY <1>1 DEF JobType
  <2>3. <<i, 1>> \notin docs'
    BY <1>4, <2>1
  <2>4. s.rec \notin {"none", "restarted"} /\ \A j \in Indexes : j # i => (<<j, 1>> \in docs' => <<j, 1>> \in docs)
    BY <2>1 DEF Once
  <2> HIDE DEF t
  <2>5. QED
    BY <1>3, <1>5, <2>1, <2>2, <2>3, <2>4
<1>10. CASE ChildSucceeds(i)
  <2> DEFINE t == [s EXCEPT !.thread = "none", !.rec = "ready", !.result = s.run]
  <2>1. svc' = [svc EXCEPT ![i] = t] /\ docs' = docs /\ s.thread = "written" /\ ~s.cancel
    BY <1>2, <1>10, <1>1 DEF ChildSucceeds, Recorded
  <2>2. t.thread = "none" /\ t.rec = "ready" /\ t.run = s.run
    BY <1>1 DEF JobType
  <2>3. ~Removed(i)
    BY <2>1 DEF Removed
  <2> HIDE DEF t
  <2>4. QED
    BY <1>1, <1>3, <1>5, <2>1, <2>2, <2>3
<1>11. ~RecordReady(i)
  BY DEF RecordReady, Once
<1>13. QED
  BY <1>3, <1>6, <1>7, <1>8, <1>9, <1>10, <1>11, <1>12 DEF Runner

\* A worker does nothing, ends its job, or goes on with it.
Moves == \A v \in Workers :
            \/ build'[v] = build[v] \/ build'[v] = Off
            \/ build'[v].pc \notin {"idle", "cleaning"} /\ build'[v].then # "idle"

LEMMA GotoMoves ==
  ASSUME IInv, NEW w \in Workers, Busy(w), Cleaning(w),
         NEW p \in Points \ {"idle", "cleaning"}, Goto(w, p)
  PROVE  Moves
<1>1. build \in [Workers -> BuildType] /\ build[w] \in BuildType /\ build[w].then # "idle"
  BY DEF IInv, Types, Cleaning
<1>2. build' = [build EXCEPT ![w] = [build[w] EXCEPT !.pc = p]]
  BY DEF Goto
<1>3. build'[w].pc = p /\ build'[w].then = build[w].then
      /\ \A v \in Workers : v # w => build'[v] = build[v]
  BY <1>1, <1>2 DEF BuildType
<1>4. QED
  BY <1>1, <1>3 DEF Moves

LEMMA StopMoves ==
  ASSUME IInv, NEW w \in Workers,
         NEW then \in {"canceling", "delivering", "failing"}, NEW remove \in BOOLEAN,
         Stop(w, then, remove)
  PROVE  Moves
<1>1. build \in [Workers -> BuildType] /\ build[w] \in BuildType
  BY DEF IInv, Types
<1>2. build' = [build EXCEPT ![w] =
                  [build[w] EXCEPT !.pc = "stopping", !.then = then, !.remove = remove]]
  BY DEF Stop
<1>3. build'[w].pc = "stopping" /\ build'[w].then = then
      /\ \A v \in Workers : v # w => build'[v] = build[v]
  BY <1>1, <1>2 DEF BuildType
<1>4. QED
  BY <1>1, <1>3 DEF Moves

LEMMA OffMoves ==
  ASSUME IInv, NEW w \in Workers, build' = [build EXCEPT ![w] = Off]
  PROVE  Moves
  BY DEF IInv, Types, Moves

\* A step of a worker that only moves it.
LEMMA QuietMoves ==
  ASSUME IInv, NEW w \in Workers, Cleaning(w), document = "live",
         \/ Skip(w) \/ Refuse(w) \/ Reread(w) \/ Get(w) \/ Expire(w) \/ ReadStopped(w)
         \/ DeliverEvent(w) \/ Unreachable(w) \/ TakeCleanup(w) \/ Crash(w) \/ Stall(w)
         \/ \E i \in Indexes : Deliver(w, i)
  PROVE  Moves /\ UNCHANGED <<document, row, svc, docs>>
<1>1. build \in [Workers -> BuildType] /\ build[w] \in BuildType /\ (Busy(w) => build[w].then # "idle")
  BY DEF IInv, Types, Cleaning
<1>2. UNCHANGED <<document, row, svc, docs>>
  BY DEF Skip, Refuse, Reread, Get, Expire, ReadStopped, DeliverEvent, Unreachable, TakeCleanup,
         Crash, Stall, Deliver, Others
<1>3. CASE Skip(w) \/ DeliverEvent(w) \/ Crash(w)
  BY <1>2, <1>3, OffMoves DEF Skip, DeliverEvent, Crash
<1>4. CASE Stall(w)
  BY <1>2, <1>4 DEF Stall, Moves
<1>5. CASE TakeCleanup(w)
  <2>1. build' = [build EXCEPT ![w] = [build[w] EXCEPT !.pc = "idle"]] /\ build[w].pc = "idle"
    BY <1>5 DEF TakeCleanup, At
  <2>2. [build[w] EXCEPT !.pc = "idle"] = build[w]
    BY <1>1, <2>1 DEF BuildType
  <2>3. build' = build
    BY <1>1, <2>1, <2>2
  <2>4. QED
    BY <1>2, <2>3 DEF Moves
<1>6. CASE Expire(w)
  BY <1>2, <1>6, StopMoves DEF Expire
<1>7. CASE Refuse(w) \/ ReadStopped(w) \/ Get(w)
  <2>1. Busy(w)
    BY <1>7 DEF Refuse, ReadStopped, Get, At, Busy
  <2>2. \E p \in Points \ {"idle", "cleaning"} : Goto(w, p)
    BY <1>7 DEF Refuse, ReadStopped, Get, Seen, Points
  <2>3. QED
    BY <1>2, <2>1, <2>2, GotoMoves
<1>8. CASE Reread(w)
  <2>1. Busy(w)
    BY <1>8 DEF Reread, At, Busy
  <2>2. \/ \E p \in Points \ {"idle", "cleaning"} : Goto(w, p)
        \/ \E then \in {"canceling", "delivering"} : Stop(w, then, TRUE)
    BY <1>8 DEF Reread, Points
  <2>3. QED
    BY <1>2, <2>1, <2>2, GotoMoves, StopMoves
<1>9. CASE Unreachable(w)
  <2>1. Busy(w)
    BY <1>9 DEF Unreachable, Busy
  <2>2. Goto(w, "failing") \/ build' = [build EXCEPT ![w] = Off]
    BY <1>9 DEF Unreachable
  <2>3. QED
    BY <1>2, <2>1, <2>2, GotoMoves, OffMoves DEF Points
<1>10. ASSUME NEW i \in Indexes, Deliver(w, i)
       PROVE  Moves
  <2> DEFINE n == IF MayRun(row[i]) THEN row[i].attempts + 1 ELSE 0
  <2>1. PICK p \in Plain \cup {"stopping"} :
          build' = [build EXCEPT ![w] = [Off EXCEPT !.index = i, !.then = "canceling",
                                                    !.attempt = n, !.pc = p]]
    BY <1>10 DEF Deliver, AfterEnd, Plain
  <2> HIDE DEF n
  <2>2. build'[w].pc = p /\ build'[w].then = "canceling"
        /\ \A v \in Workers : v # w => build'[v] = build[v]
    BY <1>1, <2>1 DEF Off
  <2>3. QED
    BY <2>2 DEF Moves, Plain
<1>11. QED
  BY <1>2, <1>3, <1>4, <1>5, <1>6, <1>7, <1>8, <1>9, <1>10

\* A step of a worker that writes rows: it ticks nothing off.
LEMMA RowMoves ==
  ASSUME IInv, NEW w \in Workers, Cleaning(w),
         MarkRunning(w) \/ Publish(w) \/ MarkCanceled(w) \/ MarkFailed(w)
  PROVE  /\ Moves /\ UNCHANGED <<document, svc, docs>>
         /\ \A i \in Indexes : row'[i].removed = row[i].removed
<1>1. /\ build \in [Workers -> BuildType] /\ build[w] \in BuildType
      /\ row \in [Indexes -> RowType]
  BY DEF IInv, Types
<1>2. UNCHANGED <<document, svc, docs>> /\ Busy(w) /\ build[w].then # "idle"
  BY DEF MarkRunning, Publish, MarkCanceled, MarkFailed, Others, At, Busy, Cleaning
<1>3. \A i \in Indexes : row[i] \in RowType
  BY <1>1
<1>4. CASE MarkRunning(w)
  <2>1. \A i \in Indexes : row'[i].removed = row[i].removed
    BY <1>1, <1>3, <1>4 DEF MarkRunning, RowType
  <2>2. CASE MayRun(Row(w))
    <3>1. build' = [build EXCEPT ![w] = [build[w] EXCEPT !.pc = "submitting"]]
      BY <1>1, <1>4, <2>2 DEF MarkRunning, Goto
    <3>2. build'[w].pc = "submitting" /\ build'[w].then = build[w].then
          /\ \A v \in Workers : v # w => build'[v] = build[v]
      BY <1>1, <3>1 DEF BuildType
    <3>3. QED
      BY <1>2, <2>1, <3>2 DEF Moves
  <2>3. CASE ~MayRun(Row(w))
    BY <1>2, <1>4, <2>1, <2>3, GotoMoves DEF MarkRunning, Points
  <2>4. QED
    BY <2>2, <2>3
<1>5. CASE MarkCanceled(w) \/ MarkFailed(w)
  <2>1. Goto(w, "delivering")
    BY <1>5 DEF MarkCanceled, MarkFailed
  <2>2. \A i \in Indexes : row'[i].removed = row[i].removed
    BY <1>1, <1>3, <1>5 DEF MarkCanceled, MarkFailed, RowType
  <2>3. QED
    BY <1>2, <2>1, <2>2, GotoMoves DEF Points
<1>6. CASE Publish(w)
  <2>1. Goto(w, "delivering") \/ Goto(w, "unpublished")
    BY <1>6 DEF Publish
  <2>2. ASSUME NEW i \in Indexes
        PROVE  row'[i].removed = row[i].removed
    <3>1. \/ row'[i] = row[i] \/ row'[i] = Superseded(row[i])
          \/ row'[i] = [row[i] EXCEPT !.state = "ready", !.active = TRUE, !.doc = svc[i].result]
      BY <1>6 DEF Publish
    <3>2. QED
      BY <1>3, <3>1 DEF Superseded, RowType
  <2>3. QED
    BY <1>2, <2>1, <2>2, GotoMoves DEF Points
<1>7. QED
  BY <1>4, <1>5, <1>6

\* A step of a worker that calls the service.
LEMMA ServiceMoves ==
  ASSUME IInv, NEW w \in Workers, Cleaning(w), Submit(w) \/ StopUpstream(w) \/ Unpublish(w)
  PROVE  /\ Moves /\ UNCHANGED <<document, row>>
         /\ \A i \in Indexes : Asks(i) \/ Submits(i)
<1>1. UNCHANGED <<document, row>> /\ Busy(w) /\ build[w].then # "idle"
  BY DEF Submit, StopUpstream, Unpublish, Others, At, Busy, Cleaning
<1>2. svc \in [Indexes -> JobType] /\ build[w] \in BuildType
  BY DEF IInv, Types
<1>3. \E p \in Points \ {"idle", "cleaning"} : Goto(w, p)
  <2>1. CASE Submit(w) \/ Unpublish(w)
    BY <2>1 DEF Submit, Unpublish, Seen, Points
  <2>2. CASE StopUpstream(w)
    BY <1>1, <1>2, <2>2 DEF StopUpstream, BuildType, Points
  <2>3. QED
    BY <2>1, <2>2
<1>4. Moves
  BY <1>1, <1>3, GotoMoves
<1>5. ASSUME NEW i \in Indexes
      PROVE  Asks(i) \/ Submits(i)
  <2>1. CASE Submit(w)
    BY <1>2, <2>1 DEF Submit, Asks, Submits
  <2>2. CASE StopUpstream(w)
    BY <1>2, <2>2 DEF StopUpstream, Asks
  <2>3. CASE Unpublish(w)
    BY <2>3 DEF Unpublish, Asks
  <2>4. QED
    BY <2>1, <2>2, <2>3
<1>6. QED
  BY <1>1, <1>4, <1>5

\* While the document lives, there is nothing to tick off.
LEMMA LiveLeft ==
  ASSUME IInv, IInv', LeftInv, document = "live", document' = "live", Moves,
         \A i \in Indexes : Once(i)' /\ (row'[i].removed => row[i].removed)
  PROVE  LeftInv'
<1>1. ASSUME NEW i \in Indexes
      PROVE  TickedOff(i)'
  BY DEF LeftInv, TickedOff
<1>2. ASSUME NEW w \in Workers
      PROVE  Cleaning(w)'
  <2>1. build'[w].pc # "cleaning"
    BY DEF IInv, Working
  <2>2. CASE build'[w] = build[w]
    BY <2>1, <2>2 DEF LeftInv, Cleaning, Busy
  <2>3. CASE build'[w] = Off
    BY <2>3 DEF Off, Cleaning, Busy
  <2>4. CASE build'[w].pc \notin {"idle", "cleaning"} /\ build'[w].then # "idle"
    BY <2>4 DEF Cleaning, Busy
  <2>5. QED
    BY <2>2, <2>3, <2>4 DEF Moves
<1>3. QED
  BY <1>1, <1>2 DEF LeftInv

LEMMA OnceStays ==
  ASSUME setup' = setup, IInv, LeftInv, NEW i \in Indexes, Asks(i) \/ Submits(i)
  PROVE  Once(i)'
<1>1. svc[i] \in JobType /\ Service(i) /\ Once(i)
  BY DEF IInv, Types, LeftInv
<1>2. QED
  BY <1>1, AsksOnce, SubmitsOnce

LEMMA WorkerLeft ==
  ASSUME setup' = setup, IInv, IInv', LeftInv, document = "live", NEW w \in Workers,
         WorkerStep(w) \/ Refuse(w) \/ Expire(w) \/ Unreachable(w)
         \/ CleanupFails(w) \/ Crash(w) \/ Stall(w)
  PROVE  LeftInv'
<1>1. Cleaning(w) /\ build[w].pc # "cleaning"
  BY DEF LeftInv, IInv, Working
<1>2. ASSUME Moves, document' = document,
             \A i \in Indexes : row'[i].removed = row[i].removed,
             \A i \in Indexes : Asks(i) \/ Submits(i)
      PROVE  LeftInv'
  BY <1>2, OnceStays, LiveLeft
<1>3. CASE Skip(w) \/ Refuse(w) \/ Reread(w) \/ Get(w) \/ Expire(w) \/ ReadStopped(w)
           \/ DeliverEvent(w) \/ Unreachable(w) \/ TakeCleanup(w) \/ Crash(w) \/ Stall(w)
           \/ \E i \in Indexes : Deliver(w, i)
  <2>1. Moves /\ UNCHANGED <<document, row, svc, docs>>
    BY <1>1, <1>3, QuietMoves
  <2>2. QED
    BY <1>2, <2>1 DEF Asks
<1>4. CASE MarkRunning(w) \/ Publish(w) \/ MarkCanceled(w) \/ MarkFailed(w)
  <2>1. Moves /\ UNCHANGED <<document, svc, docs>> /\ \A i \in Indexes : row'[i].removed = row[i].removed
    BY <1>1, <1>4, RowMoves
  <2>2. QED
    BY <1>2, <2>1 DEF Asks
<1>5. CASE Submit(w) \/ StopUpstream(w) \/ Unpublish(w)
  BY <1>1, <1>2, <1>5, ServiceMoves
<1>6. ~(CleanupFails(w) \/ MarkRemoved(w) \/ RemoveDocument(w) \/ \E i \in Indexes : Clean(w, i))
  BY <1>1 DEF CleanupFails, MarkRemoved, RemoveDocument, Clean, At
<1>7. QED
  BY <1>3, <1>4, <1>5, <1>6 DEF WorkerStep, IndexStep, CleanupStep

----------------------------------------------------------------------------
\* The deletion: nobody works on the document, and an index without a row was never built.
LEMMA DeleteLeft ==
  ASSUME setup' = setup, IInv, IInv', LeftInv, Harmless, Delete
  PROVE  LeftInv'
<1>1. /\ UNCHANGED <<job, build, svc, docs>> /\ document = "live" /\ document' = "deleted"
      /\ row' = [i \in Indexes |-> Revoked(row[i])] /\ ~UnderWay
  BY DEF Delete, Harmless, Happens
<1>2. ASSUME NEW i \in Indexes
      PROVE  Once(i)' /\ TickedOff(i)'
  <2>1. /\ Once(i) /\ TickedOff(i) /\ Kept(i) /\ Service(i) /\ svc[i] \in JobType
        /\ row[i] \in RowType /\ ~Pending(i)
    BY <1>1 DEF LeftInv, IInv, Types, UnderWay
  <2>2. row'[i].removed = row[i].removed /\ (row'[i].state = "absent" => row[i].state = "absent")
    BY <1>1, <2>1 DEF Revoked, RowType
  <2>3. ~row'[i].removed /\ ~job'[i]
    BY <1>1, <2>1, <2>2 DEF TickedOff, Pending
  <2>4. ~Exists(i) => Removed(i)
    BY <1>1, <2>1 DEF Kept, Service, Removed
  <2>5. Once(i)'
    BY <1>1, <2>1 DEF Once, Orphaned, Happens
  <2>6. QED
    BY <1>1, <2>2, <2>3, <2>4, <2>5 DEF TickedOff, Removed, Orphaned, Happens, Exists
<1>3. ASSUME NEW w \in Workers
      PROVE  Cleaning(w)'
  <2>1. Cleaning(w) /\ Working(w)
    BY DEF LeftInv, IInv
  <2>2. Busy(w) => build[w].index \in Indexes /\ build[w].pc # "idle"
    BY <2>1 DEF Working, Busy
  <2>3. ~Busy(w)
    BY <1>1, <2>2 DEF UnderWay, Pending, OnIt
  <2>4. QED
    BY <1>1, <2>1, <2>3 DEF Cleaning, Busy, Removed, Working
<1>4. QED
  BY <1>2, <1>3 DEF LeftInv

\* After the deletion: what is removed stays so, and a worker ticks off what it removed.
LEMMA GoneLeft ==
  ASSUME IInv, LeftInv, document # "live", document' # "live",
         \A i \in Indexes : /\ Once(i)' /\ ~job'[i] /\ (Removed(i) => Removed(i)')
                            /\ row'[i] # row[i] \/ document' # document => Removed(i)',
         \A w \in Workers :
            \/ build'[w] = build[w] \/ build'[w] = Off
            \/ build'[w].pc = "cleaning"
               /\ \/ build'[w].index = None
                  \/ \E i \in Indexes : build'[w].index = i /\ Removed(i)'
  PROVE  LeftInv'
<1>1. ASSUME NEW i \in Indexes
      PROVE  TickedOff(i)'
  BY DEF LeftInv, TickedOff, Exists
<1>2. ASSUME NEW w \in Workers
      PROVE  Cleaning(w)'
  <2>1. CASE build'[w] = build[w]
    <3>1. build[w].index \in Indexes \cup {None} /\ Cleaning(w)
      BY DEF IInv, Types, BuildType, LeftInv
    <3>2. QED
      BY <2>1, <3>1 DEF Cleaning, Busy
  <2>2. CASE build'[w] = Off
    BY <2>2 DEF Off, Cleaning, Busy
  <2>3. CASE /\ build'[w].pc = "cleaning"
             /\ \/ build'[w].index = None
                \/ \E i \in Indexes : build'[w].index = i /\ Removed(i)'
    BY <2>3 DEF Cleaning, Busy
  <2>4. QED
    BY <2>1, <2>2, <2>3
<1>3. QED
  BY <1>1, <1>2 DEF LeftInv

LEMMA CleanupLeft ==
  ASSUME setup' = setup, IInv, LeftInv, document # "live", NEW w \in Workers,
         WorkerStep(w) \/ Refuse(w) \/ Expire(w) \/ Unreachable(w)
         \/ CleanupFails(w) \/ Crash(w) \/ Stall(w)
  PROVE  LeftInv'
<1>1. /\ build \in [Workers -> BuildType] /\ build[w] \in BuildType /\ Cleaning(w) /\ ~Busy(w)
      /\ row \in [Indexes -> RowType] /\ svc \in [Indexes -> JobType]
  BY DEF IInv, Types, LeftInv, Cleaning
<1>2. \A i \in Indexes : ~job[i] /\ Once(i) /\ TickedOff(i) /\ svc[i] \in JobType /\ Service(i)
  BY <1>1 DEF LeftInv, TickedOff, IInv
<1>3. CASE TakeCleanup(w) \/ CleanupFails(w) \/ Crash(w) \/ Stall(w)
  <2>1. UNCHANGED <<document, row, svc, docs>>
    BY <1>3 DEF TakeCleanup, CleanupFails, Crash, Stall
  <2>2. job' = job
    BY <1>1, <1>3 DEF TakeCleanup, CleanupFails, Crash, Stall, Redelivered, At, Busy
  <2>3. \/ build' = build \/ build' = [build EXCEPT ![w] = Off]
        \/ build[w].pc = "idle" /\ \E p \in {"idle", "cleaning"} : Goto(w, p)
    BY <1>3 DEF TakeCleanup, CleanupFails, Crash, Stall, Goto, At
  <2>4. ASSUME NEW p \in {"idle", "cleaning"}, Goto(w, p), build[w].pc = "idle"
        PROVE  \A v \in Workers : \/ build'[v] = build[v]
                                  \/ build'[v].pc = "cleaning" /\ build'[v].index = None
    <3>1. build' = [build EXCEPT ![w] = [build[w] EXCEPT !.pc = p]]
      BY <2>4 DEF Goto
    <3>2. [build[w] EXCEPT !.pc = "idle"] = build[w]
      BY <1>1, <2>4 DEF BuildType
    <3>3. [build[w] EXCEPT !.pc = "cleaning"].pc = "cleaning"
          /\ [build[w] EXCEPT !.pc = "cleaning"].index = build[w].index
      BY <1>1 DEF BuildType
    <3>4. build[w].index = None
      BY <1>1, <2>4 DEF Cleaning
    <3>5. QED
      BY <1>1, <3>1, <3>2, <3>3, <3>4
  <2>5. \A v \in Workers : \/ build'[v] = build[v] \/ build'[v] = Off
                           \/ build'[v].pc = "cleaning" /\ build'[v].index = None
    BY <1>1, <2>3, <2>4
  <2>6. \A i \in Indexes : Once(i)' /\ (Removed(i) => Removed(i)')
    BY <1>2, <2>1 DEF Once, Removed, Orphaned, Happens
  <2>7. QED
    BY <1>2, <2>1, <2>2, <2>5, <2>6, GoneLeft
<1>4. ASSUME NEW i \in Indexes, Clean(w, i)
      PROVE  LeftInv'
  <2> DEFINE s == svc[i]
  <2>1. UNCHANGED <<document, row, job>> /\ build[w].pc = "cleaning"
        /\ build' = [build EXCEPT ![w].index = i]
    BY <1>4 DEF Clean, Others, At
  <2>2. /\ IF row[i].doc = 0 THEN svc'[i] = CanceledJob(s) ELSE svc'[i] = s
        /\ docs' = docs \ {<<i, IF row[i].doc = 0 THEN s.result ELSE row[i].doc>>}
        /\ \A j \in Indexes : j # i => svc'[j] = svc[j]
    BY <1>1, <1>4 DEF Clean
  <2>3. \A j \in Indexes : Asks(j)
    BY <2>2 DEF Asks
  <2>4. \A j \in Indexes : Once(j)' /\ (Removed(j) => Removed(j)')
    BY <1>2, <2>3, AsksOnce
  <2>5. Removed(i)'
    <3>1. /\ Kept(i) /\ Service(i) /\ Once(i)
          /\ row[i].doc \in Nat /\ s.result \in Nat /\ s.run \in Nat
      BY <1>1, <1>2 DEF IInv, RowType, JobType
    <3>2. CASE row[i].doc # 0
      <4>1. row[i].doc = 1 /\ s.thread = "none"
        BY <3>1, <3>2 DEF Kept, Once
      <4>2. QED
        BY <2>2, <3>2, <4>1 DEF Removed
    <3>3. CASE row[i].doc = 0 /\ svc'[i] # s
      <4>1. /\ svc'[i].cancel /\ svc'[i].rec = "canceled"
            /\ svc'[i].thread = IF s.thread \in {"waiting", "child", "stored"} THEN "none" ELSE s.thread
        BY <1>2, <2>2, <3>3, CanceledIs
      <4>2. QED
        BY <2>4, <4>1 DEF Once, Removed
    <3>4. CASE row[i].doc = 0 /\ svc'[i] = s
      <4>1. s.rec \in Terminal \cup {"none", "restarted"}
        <5>1. CanceledJob(s) = s
          BY <2>2, <3>4
        <5>2. s.rec # "canceled" => CanceledJob(s).rec # "canceled"
          BY <5>1
        <5>3. QED
          BY <1>2, <5>1, <5>2, CanceledIs DEF Terminal
      <4>2. s.rec = "ready" => s.thread = "none" /\ <<i, 1>> \notin docs'
        <5>1. ASSUME s.rec = "ready", <<i, 1>> \in docs
              PROVE  s.result = 1
          BY <3>1, <5>1 DEF Service, Once
        <5>2. QED
          BY <1>2, <2>2, <3>4, <5>1 DEF Service
      <4>3. QED
        BY <2>4, <3>4, <4>1, <4>2 DEF Once, Removed, Terminal
    <3>5. QED
      BY <3>2, <3>3, <3>4
  <2>6. \A v \in Workers : \/ build'[v] = build[v]
                           \/ build'[v].pc = "cleaning" /\ build'[v].index = i
    <3>1. build' = [build EXCEPT ![w] = [build[w] EXCEPT !.index = i]]
      BY <2>1
    <3>2. [build[w] EXCEPT !.index = i].pc = "cleaning" /\ [build[w] EXCEPT !.index = i].index = i
      BY <1>1, <2>1 DEF BuildType
    <3>3. QED
      BY <1>1, <3>1, <3>2
  <2>7. QED
    BY <1>2, <2>1, <2>4, <2>5, <2>6, GoneLeft
<1>5. CASE MarkRemoved(w)
  <2> DEFINE i == build[w].index
  <2>1. UNCHANGED <<document, svc, docs, job>> /\ build[w].pc = "cleaning" /\ i # None
        /\ build' = [build EXCEPT ![w] = [build[w] EXCEPT !.index = None]]
    BY <1>5 DEF MarkRemoved, Others, At
  <2>2. i \in Indexes /\ Removed(i)
    BY <1>1, <2>1 DEF BuildType, Cleaning
  <2>3. \A j \in Indexes : j # i => row'[j] = row[j]
    BY <1>1, <1>5 DEF MarkRemoved
  <2>4. \A j \in Indexes : Once(j)' /\ (Removed(j) => Removed(j)')
    BY <1>2, <2>1 DEF Once, Removed, Orphaned, Happens
  <2>5. \A v \in Workers : \/ build'[v] = build[v]
                           \/ build'[v].pc = "cleaning" /\ build'[v].index = None
    <3>1. [build[w] EXCEPT !.index = None].pc = "cleaning" /\ [build[w] EXCEPT !.index = None].index = None
      BY <1>1, <2>1 DEF BuildType
    <3>2. QED
      BY <1>1, <2>1, <3>1
  <2>6. \A j \in Indexes : row'[j] # row[j] => Removed(j)'
    BY <2>2, <2>3, <2>4
  <2>7. QED
    BY <1>2, <2>1, <2>4, <2>5, <2>6, GoneLeft
<1>6. CASE RemoveDocument(w)
  <2>1. UNCHANGED <<svc, docs, job>> /\ document' = "gone" /\ Remaining = {}
        /\ build' = [build EXCEPT ![w] = Off]
    BY <1>6 DEF RemoveDocument, Removes
  <2>2. \A i \in Indexes : Removed(i)
    BY <1>2, <2>1 DEF Remaining, TickedOff
  <2>3. \A i \in Indexes : Once(i)' /\ Removed(i)'
    BY <1>2, <2>1, <2>2 DEF Once, Removed, Orphaned, Happens
  <2>4. QED
    BY <1>1, <1>2, <2>1, <2>3, GoneLeft
<1>7. ~(IndexStep(w) \/ Refuse(w) \/ Expire(w) \/ Unreachable(w) \/ \E i \in Indexes : Deliver(w, i))
  BY <1>1, <1>2
  DEF Busy, IndexStep, MarkRunning, Submit, Reread, Get, StopUpstream, Publish, Unpublish, ReadStopped,
      MarkCanceled, MarkFailed, DeliverEvent, Skip, Refuse, Expire, Unreachable, Deliver, At
<1>8. QED
  BY <1>3, <1>4, <1>5, <1>6, <1>7 DEF WorkerStep, CleanupStep

\* A step that leaves rows, documents and jobs of the service, and the workers, alone.
LEMMA IdleLeft ==
  ASSUME setup' = setup, IInv, LeftInv, UNCHANGED <<document, row, build, svc, docs>>,
         document # "live" => \A i \in Indexes : ~job'[i]
  PROVE  LeftInv'
<1>1. ASSUME NEW i \in Indexes
      PROVE  Once(i)' /\ TickedOff(i)'
  <2>1. Once(i) /\ TickedOff(i)
    BY DEF LeftInv
  <2>2. QED
    BY <2>1 DEF Once, TickedOff, Removed, Orphaned, Happens, Exists
<1>2. ASSUME NEW w \in Workers
      PROVE  Cleaning(w)'
  BY DEF LeftInv, Cleaning, Removed, Orphaned, Happens, Busy
<1>3. QED
  BY <1>1, <1>2 DEF LeftInv

LEMMA RunnerLeft ==
  ASSUME setup' = setup, IInv, IInv', LeftInv, Harmless, NEW i \in Indexes, Runner(i)
  PROVE  LeftInv'
<1>1. /\ Once(i)' /\ (Removed(i) => Removed(i)') /\ \A j \in Indexes : j # i => Asks(j)
      /\ UNCHANGED <<document, row, job, build>>
  BY RunnerOnce DEF LeftInv
<1>2. ASSUME NEW j \in Indexes
      PROVE  Once(j)' /\ (Removed(j) => Removed(j)')
  <2>1. svc[j] \in JobType /\ Service(j) /\ Once(j)
    BY DEF IInv, Types, LeftInv
  <2>2. QED
    BY <1>1, <2>1, AsksOnce
<1>3. CASE document = "live"
  BY <1>1, <1>2, <1>3, LiveLeft DEF Moves
<1>4. CASE document # "live"
  <2>1. \A j \in Indexes : ~job'[j]
    BY <1>1, <1>4 DEF LeftInv, TickedOff
  <2>2. QED
    BY <1>1, <1>2, <1>4, <2>1, GoneLeft
<1>5. QED
  BY <1>3, <1>4

LEMMA NextLeft ==
  ASSUME IInv, IInv', Harmless => LeftInv, [Next]_vars
  PROVE  (Harmless => LeftInv)'
<1>1. setup' = setup
  BY DEF Next, vars
<1> SUFFICES ASSUME Harmless, LeftInv
             PROVE  LeftInv'
  BY <1>1 DEF Harmless
<1>2. \A i \in Indexes : (document # "live" => ~job[i]) /\ row[i] \in RowType
  BY DEF LeftInv, TickedOff, IInv, Types
<1>3. ASSUME vars' = vars
      PROVE  LeftInv'
  BY <1>2, <1>3, IdleLeft DEF vars, moving
<1>4. ASSUME NEW i \in Indexes, Request(i) \/ Cancel(i)
      PROVE  LeftInv'
  <2>1. UNCHANGED <<document, build, svc, docs>> /\ document = "live"
    BY <1>4 DEF Request, Cancel
  <2>2. \A j \in Indexes : row'[j].removed => row[j].removed
    <3>1. row \in [Indexes -> RowType]
      BY DEF IInv, Types
    <3>2. QED
      BY <1>2, <1>4, <3>1 DEF Request, Cancel, RowType, NoRow
  <2>3. \A j \in Indexes : Once(j)'
    BY <1>1, <2>1 DEF LeftInv, Once, Orphaned, Happens
  <2>4. QED
    BY <2>1, <2>2, <2>3, LiveLeft DEF Moves
<1>5. ASSUME NEW i \in Indexes, ReadIndex(i)
      PROVE  LeftInv'
  BY <1>1, <1>2, <1>5, IdleLeft DEF ReadIndex, Others
<1>6. ASSUME Subscribe \/ Resume \/ GiveUpWaiting
      PROVE  LeftInv'
  BY <1>1, <1>2, <1>6, IdleLeft DEF Subscribe, Resume, GiveUpWaiting, Others
<1>7. ASSUME Reconcile
      PROVE  LeftInv'
  <2>1. UNCHANGED <<document, row, build, svc, docs>>
        /\ job' = [i \in Indexes |-> job[i] \/ (row[i].state \in Building /\ ~Pending(i))]
    BY <1>7 DEF Reconcile
  <2>2. document # "live" => \A i \in Indexes : row[i].state \notin Building
    BY DEF IInv, Kept, Building
  <2>3. QED
    BY <1>1, <1>2, <2>1, <2>2, IdleLeft
<1>8. ASSUME NEW w \in Workers,
             WorkerStep(w) \/ Refuse(w) \/ Expire(w) \/ Unreachable(w)
             \/ CleanupFails(w) \/ Crash(w) \/ Stall(w)
      PROVE  LeftInv'
  BY <1>1, <1>8, WorkerLeft, CleanupLeft
<1>9. ~RestartService
  BY DEF RestartService, Fault, Happens, Harmless
<1>10. Next => LeftInv'
  BY <1>4, <1>5, <1>6, <1>7, <1>8, <1>9, RunnerLeft, DeleteLeft DEF Next
<1>11. QED
  BY <1>3, <1>10

\* A document that was deleted while none of its builds was under way leaves nothing in
\* the service but what a child left that ended before it handed in its result, whatever
\* failed, crashed, stalled or was cancelled before and during it.
THEOREM NothingRemains == Spec => []NothingLeft
<1>1. Init => LeftInv
  BY DEF Init, LeftInv, Once, TickedOff, Cleaning, Busy, NoRow, NoJob, Off
<1>2. IInv /\ IInv' /\ (Harmless => LeftInv) /\ [Next]_vars => (Harmless => LeftInv)'
  BY NextLeft
<1>3. IInv /\ (Harmless => LeftInv) => NothingLeft
  <2> SUFFICES ASSUME IInv, Harmless, LeftInv, Settled, NEW d \in docs
               PROVE  Orphaned(d[1])
    BY DEF NothingLeft, Harmless
  <2>1. ASSUME NEW i \in Indexes, NEW n \in Nat, <<i, n>> \in docs
        PROVE  Orphaned(i)
    <3>1. Kept(i) /\ Service(i) /\ Once(i) /\ TickedOff(i) /\ svc[i].run \in Nat
      BY DEF IInv, LeftInv, Types, JobType
    <3>2. n = 1
      BY <2>1, <3>1 DEF Service, Once
    <3>3. Removed(i)
      BY <3>1 DEF TickedOff, Settled
    <3>4. QED
      BY <2>1, <3>2, <3>3 DEF Removed, Settled
  <2>2. QED
    BY <2>1 DEF IInv, Types
<1>4. QED
  BY <1>1, <1>2, <1>3, Invariance, PTL DEF Spec

=============================================================================
