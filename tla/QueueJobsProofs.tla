--------------------------- MODULE QueueJobsProofs ---------------------------
(***************************************************************************)
(* PgQueueDriver implements JobDelivery: for any jobs, processes and       *)
(* loops, and any number of crashes and database errors, provided that     *)
(* each loop has a process of its own, or no lease lapses under a live     *)
(* loop and no reply to a committed statement is lost.                     *)
(*                                                                         *)
(* The argument: a loop that still owns the row it works on is working on  *)
(* the current claim of the current arming (Sane), so what complete() and  *)
(* fail() write is about that claim; the owner column tells claims apart   *)
(* when processes have one loop each, and otherwise because an owned row   *)
(* is worked on by one loop only (Exclusive).  Only the catch of a loop    *)
(* whose complete() lost its reply works for a row the loop let go of.     *)
(***************************************************************************)
EXTENDS QueueJobs, TLAPS

\* Setups in which the owner column identifies the claim.
OwnProcess(s) == \A l, m \in Loops : s.procOf[l] = s.procOf[m] => l = m
Safe(s) == "stall" \notin s.kinds /\ "reply" \notin s.kinds
SoundSetups == \A s \in Setups : OwnProcess(s) \/ Safe(s)

\* A loop works on a claim that was made, and if it still owns the row, on the last.
Sane(l) ==
    LET r == row[loop[l].job]
    IN /\ loop[l].attempts > 0
       /\ loop[l].arm <= r.arm
       /\ loop[l].arm = r.arm => loop[l].attempts <= r.attempts
       /\ loop[l].pc = "completing" /\ loop[l].arm = r.arm => succeeded[loop[l].job]
       /\ Owns(l) => loop[l].arm = r.arm /\ loop[l].attempts = r.attempts

\* Without stalls a loop keeps the row it handles, alone.
Keeps(l) == Handling(l) \/ (Working(l) /\ "reply" \notin setup.kinds)
Exclusive ==
    /\ \A l \in Loops : Keeps(l) => Owns(l)
    /\ \A l \in Loops : Working(l) /\ Owns(l) => ~row[loop[l].job].lapsed
    /\ \A l, m \in Loops :
         Working(l) /\ Owns(l) /\ Working(m) /\ Owns(m) /\ loop[l].job = loop[m].job => l = m

Trusted == OwnProcess(setup) \/ Safe(setup)

IInv ==
    /\ TypeOK
    /\ Trusted
    /\ \A j \in Jobs : row[j].owner # None => row[j].state = "pending"
    /\ \A l \in Loops : Working(l) => Sane(l)
    /\ "stall" \notin setup.kinds => Exclusive

----------------------------------------------------------------------------
\* What a step must keep of every loop that works on after it.
LEMMA ExclusiveStays ==
  ASSUME Exclusive, setup' = setup,
         \A m \in Loops : Working(m)' =>
           /\ Working(m) /\ loop'[m].job = loop[m].job
           /\ Handling(m)' => Handling(m)
           /\ Owns(m) => Owns(m)' \/ (~Handling(m)' /\ "reply" \in setup.kinds)
           /\ Owns(m)' => Owns(m) /\ (row'[loop[m].job].lapsed => row[loop[m].job].lapsed)
  PROVE  Exclusive'
<1>1. \A m \in Loops : Handling(m)' => Working(m)'
  BY DEF Handling, Working
<1>2. ASSUME NEW m \in Loops, Keeps(m)' PROVE Owns(m)'
  <2>1. Working(m)' /\ Keeps(m)
    BY <1>1, <1>2 DEF Keeps
  <2> QED
    BY <1>2, <2>1 DEF Exclusive, Keeps
<1>3. ASSUME NEW m \in Loops, Working(m)', Owns(m)' PROVE ~row'[loop'[m].job].lapsed
  BY <1>3 DEF Exclusive
<1>4. QED
  BY <1>2, <1>3 DEF Exclusive

LEMMA InitInv == SoundSetups /\ Init => IInv
<1> SUFFICES ASSUME SoundSetups, Init PROVE IInv
  OBVIOUS
<1> USE QueueAssumption
<1>1. \A l \in Loops : ~Working(l)
  BY DEF Init, Working, Idle
<1>2. TypeOK
  BY <1>1 DEF Init, TypeOK, Row, Loop, RowStates, Idle
<1>3. QED
  BY <1>1, <1>2 DEF Init, SoundSetups, IInv, Trusted, Exclusive, Keeps, Handling, Working

\* enqueue() re-arms only a row that is not pending, which nobody owns.
LEMMA EnqueueInv ==
  ASSUME IInv, NEW j \in Jobs, NEW due \in BOOLEAN, Enqueue(j, due), setup' = setup
  PROVE  IInv'
<1> USE QueueAssumption DEF IInv
<1>0. CASE ~Rearms(row[j])
  BY <1>0 DEF Enqueue, TypeOK, Trusted, Exclusive, Keeps, Handling, Sane, Owns, Working, ProcOf
<1>1. CASE Rearms(row[j])
  <2>1. /\ row' = [row EXCEPT ![j] = Armed(row[j], due)]
        /\ succeeded' = [succeeded EXCEPT ![j] = FALSE]
        /\ loop' = loop /\ faults' = faults
        /\ enqueues' \in 0..MaxEnqueues
    BY <1>1 DEF Enqueue, TypeOK
  <2>2. Armed(row[j], due) \in Row
    BY DEF Armed, Row, RowStates, TypeOK
  <2>3. TypeOK'
    BY <2>1, <2>2 DEF TypeOK, Working
  <2>4. row[j].owner = None
    BY <1>1 DEF Rearms
  <2>5. \A l \in Loops : Working(l) => ~(loop[l].job = j /\ Owns(l))
    BY <2>4 DEF Owns, TypeOK, ProcOf
  <2>6. ASSUME NEW l \in Loops, Working(l)' PROVE Sane(l)'
    <3>1. Working(l) /\ Sane(l) /\ loop[l].job \in Jobs /\ loop[l] \in Loop
      BY <2>1, <2>6 DEF Working, TypeOK
    <3>2. CASE loop[l].job = j
      <4>1. row'[j].arm = row[j].arm + 1 /\ row'[j].owner = None /\ row[j].arm \in Nat
        BY <2>1 DEF TypeOK, Armed, Row
      <4>2. ~Owns(l)'
        BY <2>1, <3>2, <4>1 DEF Owns, ProcOf, TypeOK
      <4>3. QED
        BY <2>1, <3>1, <3>2, <4>1, <4>2 DEF Sane, Loop
    <3>3. CASE loop[l].job # j
      BY <2>1, <3>1, <3>3 DEF Sane, Owns, ProcOf, TypeOK
    <3>4. QED
      BY <3>2, <3>3
  <2>7. \A k \in Jobs : row'[k].owner # None => row'[k].state = "pending"
    BY <2>1 DEF Armed, TypeOK
  <2>8. "stall" \notin setup'.kinds => Exclusive'
    <3>1. ASSUME NEW m \in Loops, Working(m)'
          PROVE  /\ Working(m) /\ loop'[m] = loop[m] /\ (Handling(m)' => Handling(m))
                 /\ Owns(m) => Owns(m)' /\ row'[loop[m].job] = row[loop[m].job]
                 /\ Owns(m)' => Owns(m) /\ row'[loop[m].job] = row[loop[m].job]
      BY <2>1, <2>4, <2>5, <3>1 DEF Handling, Working, Owns, ProcOf, TypeOK, Armed
    <3>2. QED
      BY <3>1, ExclusiveStays
  <2>9. QED
    BY <2>3, <2>6, <2>7, <2>8 DEF Trusted
<1>2. QED
  BY <1>0, <1>1

\* deadLetterAbandoned() buries rows that nobody holds.
LEMMA BuryInv ==
  ASSUME IInv, NEW l \in Loops, DeadLetterAbandoned(l), setup' = setup
  PROVE  IInv'
<1> USE QueueAssumption DEF IInv
<1>1. /\ row' = [j \in Jobs |-> IF Abandoned(row[j]) THEN Buried(row[j]) ELSE row[j]]
      /\ loop' = [loop EXCEPT ![l].pc = "claiming"]
      /\ succeeded' = succeeded /\ enqueues' = enqueues /\ faults' = faults
      /\ loop[l].pc = "idle"
  BY DEF DeadLetterAbandoned
<1>2. ASSUME NEW j \in Jobs PROVE row[j] \in Row /\ Buried(row[j]) \in Row
  <2>1. row[j] \in Row
    BY <1>2 DEF TypeOK
  <2>2. QED
    BY <2>1 DEF Buried, Row, RowStates
<1>3. \A m \in Loops : loop'[m] \in Loop /\ (Working(m)' <=> Working(m))
                     /\ (Working(m) => loop'[m] = loop[m])
  BY <1>1 DEF TypeOK, Working, Loop
<1>4. \A j \in Jobs : row'[j] \in Row
  BY <1>1, <1>2
<1>5. TypeOK'
  BY <1>1, <1>3, <1>4 DEF TypeOK
<1>6. \A j \in Jobs : /\ row'[j].arm = row[j].arm /\ row'[j].attempts = row[j].attempts
                      /\ row'[j].owner \in {row[j].owner, None}
                      /\ row'[j].owner # None => row'[j] = row[j]
                      /\ row[j].owner # None /\ ~row[j].lapsed => row'[j] = row[j]
  BY <1>1, <1>2 DEF Buried, Abandoned, Free, Row
<1>7. ASSUME NEW m \in Loops, Working(m)' PROVE Sane(m)'
  <2>1. Working(m) /\ Sane(m) /\ loop'[m] = loop[m] /\ loop[m].job \in Jobs
    BY <1>3, <1>7 DEF TypeOK
  <2>2. Owns(m)' => Owns(m)
    <3>1. row'[loop[m].job].owner \in {row[loop[m].job].owner, None} /\ ProcOf[m] # None
      BY <2>1, <1>6, <1>7 DEF ProcOf, TypeOK
    <3>2. QED
      BY <2>1, <3>1 DEF Owns, ProcOf
  <2>3. /\ row'[loop[m].job].arm = row[loop[m].job].arm
        /\ row'[loop[m].job].attempts = row[loop[m].job].attempts
    BY <2>1, <1>6
  <2>4. QED
    BY <2>1, <2>2, <2>3, <1>1 DEF Sane
<1>8. "stall" \notin setup.kinds => Exclusive'
  <2> SUFFICES ASSUME Exclusive PROVE Exclusive'
    OBVIOUS
  <2>1. ASSUME NEW m \in Loops, Working(m)'
        PROVE  /\ Working(m) /\ loop'[m] = loop[m] /\ (Handling(m)' => Handling(m))
               /\ Owns(m) \/ Owns(m)' => row'[loop[m].job] = row[loop[m].job]
    <3>1. Working(m) /\ loop'[m] = loop[m] /\ loop[m].job \in Jobs /\ ProcOf[m] # None
      BY <1>3, <2>1 DEF TypeOK, ProcOf
    <3>2. Owns(m) => ~row[loop[m].job].lapsed /\ row[loop[m].job].owner # None
      BY <3>1 DEF Exclusive, Owns
    <3>3. Owns(m)' => row'[loop[m].job].owner # None
      BY <3>1 DEF Owns, ProcOf
    <3>4. QED
      BY <3>1, <3>2, <3>3, <1>6 DEF Handling
  <2>2. \A m \in Loops : Working(m)' => (Owns(m)' <=> Owns(m))
    <3>1. ASSUME NEW m \in Loops, Working(m)' PROVE Owns(m)' <=> Owns(m)
      <4>1. row'[loop[m].job].owner \in {row[loop[m].job].owner, None} /\ ProcOf[m] # None
        BY <2>1, <3>1, <1>6 DEF TypeOK, ProcOf
      <4>2. QED
        BY <2>1, <3>1, <4>1 DEF Owns, ProcOf
    <3>2. QED
      BY <3>1
  <2>3. QED
    BY <2>1, <2>2, ExclusiveStays
<1>9. QED
  BY <1>5, <1>6, <1>7, <1>8, <1>1 DEF Trusted

\* claim() takes a row that is free: no loop of the same process still owns it.
LEMMA ClaimInv ==
  ASSUME IInv, NEW l \in Loops, NEW j \in Jobs, Claim(l, j) \/ ClaimThrows(l, j),
         setup' = setup
  PROVE  IInv'
<1> USE QueueAssumption DEF IInv
<1> DEFINE taken == [pc |-> "handling", job |-> j,
                     attempts |-> row[j].attempts + 1, arm |-> row[j].arm]
<1>1. /\ row' = [row EXCEPT ![j] = ClaimedBy(row[j], ProcOf[l])]
      /\ \E x \in {taken, Idle} : loop' = [loop EXCEPT ![l] = x]
      /\ succeeded' = succeeded /\ enqueues' = enqueues /\ faults' \in 0..MaxFaults
      /\ loop[l].pc = "claiming" /\ Claimable(row[j])
  BY DEF Claim, ClaimThrows, Fault, TypeOK
<1>11. /\ loop'[l] \in {taken, Idle}
       /\ \A m \in Loops \ {l} : loop'[m] = loop[m]
       /\ loop' \in [Loops -> {taken, Idle} \cup Loop]
  BY <1>1 DEF TypeOK
<1>2. row[j] \in Row /\ ClaimedBy(row[j], ProcOf[l]) \in Row /\ ProcOf[l] \in Procs
  <2>1. row[j] \in Row /\ ProcOf[l] \in Procs
    BY DEF TypeOK, ProcOf
  <2>2. row[j].attempts + 1 \in 0..MaxAttempts
    BY <2>1, <1>1 DEF Row, Claimable
  <2>3. QED
    BY <2>1, <2>2 DEF ClaimedBy, Row, RowStates
<1>3. loop'[l] \in Loop /\ (Working(l)' => loop'[l] = taken)
  BY <1>1, <1>2, <1>11 DEF TypeOK, Loop, Row, Claimable, Idle, Working
<1>12. loop' \in [Loops -> Loop]
  BY <1>3, <1>11 DEF TypeOK
<1>4. TypeOK'
  <2>1. \A m \in Loops : Working(m)' => loop'[m].job \in Jobs
    BY <1>3, <1>11 DEF TypeOK, Working
  <2>2. QED
    BY <1>1, <1>2, <1>12, <2>1 DEF TypeOK
<1>5. \A k \in Jobs : row'[k].owner # None => row'[k].state = "pending"
  BY <1>1, <1>2 DEF ClaimedBy, Claimable, Row, TypeOK
\* a working loop on j does not own it after the claim
<1>7. ASSUME NEW m \in Loops \ {l}, Working(m), loop[m].job = j
      PROVE  /\ ProcOf[m] # ProcOf[l]
             /\ "stall" \notin setup.kinds => ~Owns(m) /\ ~Keeps(m)
  <2>1. "stall" \notin setup.kinds => ~Owns(m) /\ ~Keeps(m)
    <3>1. "stall" \notin setup.kinds /\ Owns(m) => ~row[j].lapsed /\ row[j].owner # None
      BY <1>7 DEF Exclusive, Owns, ProcOf, TypeOK
    <3>2. "stall" \notin setup.kinds => ~Owns(m)
      BY <3>1, <1>1 DEF Claimable, Free
    <3>3. QED
      BY <3>2 DEF Exclusive
  <2>2. Safe(setup) => FALSE
    BY <2>1, <1>7 DEF Safe, Keeps
  <2>3. QED
    BY <1>7, <2>1, <2>2 DEF Trusted, OwnProcess, ProcOf
<1>8. ASSUME NEW m \in Loops, Working(m)' PROVE Sane(m)'
  <2>1. CASE m = l
    <3>1. loop'[l] = taken /\ row'[j] = ClaimedBy(row[j], ProcOf[l]) /\ row[j] \in Row
      BY <2>1, <1>1, <1>3, <1>8 DEF TypeOK
    <3>2. /\ row'[j].arm = row[j].arm /\ row'[j].attempts = row[j].attempts + 1
          /\ row[j].attempts \in Nat /\ row[j].arm \in Nat
      BY <3>1 DEF ClaimedBy, Row
    <3>3. QED
      BY <2>1, <3>1, <3>2 DEF Sane
  <2>2. CASE m # l /\ loop[m].job = j
    <3>1. Working(m)
      BY <2>2, <1>11, <1>8 DEF Working
    <3>0. Sane(m)
      BY <3>1
    <3>2. row'[j].owner = ProcOf[l] /\ row'[j].arm = row[j].arm
          /\ row'[j].attempts = row[j].attempts + 1
      BY <1>1, <1>2 DEF ClaimedBy, Row, TypeOK
    <3>3. ~Owns(m)'
      BY <3>1, <3>2, <2>2, <1>7, <1>11 DEF Owns, ProcOf
    <3>4. loop'[m] = loop[m] /\ loop[m] \in Loop
      BY <2>2, <1>11 DEF TypeOK
    <3>5. QED
      BY <3>0, <3>2, <3>3, <3>4, <2>2, <1>1, <1>2 DEF Sane, Row, Loop
  <2>3. CASE m # l /\ loop[m].job # j
    <3>1. Working(m) /\ loop'[m] = loop[m] /\ row'[loop[m].job] = row[loop[m].job]
      BY <2>3, <1>1, <1>8, <1>11 DEF Working, TypeOK
    <3>2. QED
      BY <3>1, <1>1 DEF Sane, Owns, ProcOf
  <2>4. QED
    BY <2>1, <2>2, <2>3
<1>9. "stall" \notin setup.kinds => Exclusive'
  <2> SUFFICES ASSUME "stall" \notin setup.kinds PROVE Exclusive'
    OBVIOUS
  <2>1. row'[j].owner = ProcOf[l] /\ row'[j].lapsed = FALSE
    BY <1>1, <1>2 DEF ClaimedBy, Row, TypeOK
  <2>2. ASSUME NEW m \in Loops \ {l}, Working(m)'
        PROVE  /\ Working(m) /\ loop'[m] = loop[m] /\ (Keeps(m)' => Keeps(m))
               /\ loop[m].job = j => ~Owns(m)' /\ ~Keeps(m)
               /\ loop[m].job # j => row'[loop[m].job] = row[loop[m].job] /\ (Owns(m)' <=> Owns(m))
    <3>1. Working(m) /\ loop'[m] = loop[m] /\ (Keeps(m)' => Keeps(m))
      BY <1>11, <2>2 DEF Working, Keeps, Handling
    <3>2. loop[m].job = j => ~Owns(m)' /\ ~Keeps(m)
      BY <1>7, <2>1, <3>1 DEF Owns, ProcOf
    <3>3. loop[m].job # j => row'[loop[m].job] = row[loop[m].job]
      BY <1>1, <3>1 DEF TypeOK
    <3>4. QED
      BY <3>1, <3>2, <3>3 DEF Owns, ProcOf
  <2>3. Working(l)' => loop'[l].job = j /\ Owns(l)'
    BY <1>3, <2>1 DEF Owns, ProcOf
  <2>4. \A m \in Loops : Keeps(m)' => Working(m)'
    BY DEF Keeps, Handling, Working
  <2>5. ASSUME NEW m \in Loops, Keeps(m)' PROVE Owns(m)'
    BY <2>2, <2>3, <2>4, <2>5 DEF Exclusive
  <2>6. ASSUME NEW m \in Loops, Working(m)', Owns(m)' PROVE ~row'[loop'[m].job].lapsed
    BY <2>1, <2>2, <2>3, <2>6 DEF Exclusive
  <2>7. ASSUME NEW m \in Loops, NEW n \in Loops, Working(m)', Owns(m)', Working(n)', Owns(n)',
               loop'[m].job = loop'[n].job
        PROVE  m = n
    BY <2>2, <2>3, <2>7 DEF Exclusive
  <2>8. QED
    BY <2>5, <2>6, <2>7 DEF Exclusive
<1>10. QED
  BY <1>1, <1>4, <1>5, <1>8, <1>9 DEF Trusted

\* The handler returns: the success counts for the arming the loop was called for.
LEMMA ReturnInv ==
  ASSUME IInv, NEW l \in Loops, HandlerReturns(l), setup' = setup
  PROVE  IInv'
<1> USE QueueAssumption DEF IInv
<1> DEFINE j == loop[l].job
<1>1. /\ loop' = [loop EXCEPT ![l].pc = "completing"]
      /\ succeeded' = [succeeded EXCEPT ![j] = succeeded[j] \/ row[j].arm = loop[l].arm]
      /\ row' = row /\ enqueues' = enqueues /\ faults' = faults
      /\ loop[l].pc = "handling" /\ Working(l) /\ j \in Jobs /\ loop[l] \in Loop
  BY DEF HandlerReturns, Working, TypeOK
<1>2. TypeOK'
  BY <1>1 DEF TypeOK, Loop, Working
<1>3. \A k \in Jobs : succeeded[k] => succeeded'[k]
  BY <1>1 DEF TypeOK
<1>4. ASSUME NEW m \in Loops, Working(m)' PROVE Sane(m)'
  <2>1. CASE m = l
    <3>1. Sane(l)
      BY <1>1
    <3>2. loop'[l] = [loop[l] EXCEPT !.pc = "completing"] /\ loop'[l].job = j
          /\ loop'[l].arm = loop[l].arm /\ loop'[l].attempts = loop[l].attempts
      BY <1>1 DEF TypeOK, Loop
    <3>3. row[j].arm = loop[l].arm => succeeded'[j]
      BY <1>1 DEF TypeOK
    <3>4. QED
      BY <2>1, <3>1, <3>2, <3>3, <1>1 DEF Sane, Owns, ProcOf
  <2>2. CASE m # l
    <3>1. loop'[m] = loop[m] /\ Working(m) /\ loop[m].job \in Jobs
      BY <2>2, <1>1, <1>4 DEF TypeOK, Working
    <3>2. QED
      BY <3>1, <1>1, <1>3 DEF Sane, Owns, ProcOf
  <2>3. QED
    BY <2>1, <2>2
<1>5. \A m \in Loops : loop'[m].job = loop[m].job
  BY <1>1 DEF TypeOK, Loop
<1>6. ASSUME NEW m \in Loops, Working(m)' PROVE Working(m) /\ (Handling(m)' => Handling(m))
  BY <1>1, <1>6 DEF TypeOK, Working, Handling
<1>9. \A m \in Loops : Owns(m)' <=> Owns(m)
  BY <1>1, <1>5 DEF Owns, ProcOf
<1>7. "stall" \notin setup.kinds => Exclusive'
  BY <1>1, <1>5, <1>6, <1>9, ExclusiveStays
<1>8. QED
  BY <1>1, <1>2, <1>4, <1>7 DEF Trusted

\* The handler throws or complete() does, having committed or not: the loop goes on to
\* fail().
LEMMA ThrowInv ==
  ASSUME IInv, NEW l \in Loops, HandlerThrows(l) \/ CompleteThrows(l), setup' = setup
  PROVE  IInv'
<1> USE QueueAssumption DEF IInv
<1> DEFINE j == loop[l].job
           r == Completed(row[j])
<1>1. /\ loop' = [loop EXCEPT ![l].pc = "failing"]
      /\ succeeded' = succeeded /\ enqueues' = enqueues /\ faults' \in 0..MaxFaults
      /\ Working(l) /\ j \in Jobs /\ loop[l] \in Loop /\ row[j] \in Row
  BY DEF HandlerThrows, CompleteThrows, Fault, Working, TypeOK
<1>2. \/ row' = row
      \/ Owns(l) /\ "reply" \in setup.kinds /\ row' = [row EXCEPT ![j] = r]
  BY DEF HandlerThrows, CompleteThrows, RowsCompleted, Fault
<1>3. /\ r \in Row /\ r.owner = None /\ r.arm = row[j].arm /\ r.attempts = row[j].attempts
  BY <1>1 DEF Completed, Row, RowStates
<1> HIDE DEF r
<1>4. TypeOK'
  <2>1. row' \in [Jobs -> Row]
    BY <1>2, <1>3 DEF TypeOK
  <2>2. QED
    BY <1>1, <2>1 DEF TypeOK, Loop, Working
<1>5. ASSUME NEW k \in Jobs
      PROVE  /\ row'[k].arm = row[k].arm /\ row'[k].attempts = row[k].attempts
             /\ row'[k].owner \in {row[k].owner, None}
             /\ row'[k].owner # None => row'[k] = row[k]
  BY <1>1, <1>2, <1>3 DEF TypeOK
<1>6. ASSUME NEW m \in Loops, Working(m)'
      PROVE  /\ Working(m) /\ loop'[m].job = loop[m].job /\ loop[m].job \in Jobs
             /\ loop'[m] \in {loop[m], [loop[m] EXCEPT !.pc = "failing"]}
             /\ loop[m] \in Loop /\ (Handling(m)' => Handling(m) /\ m # l)
             /\ ProcOf[m] # None
  BY <1>1, <1>6 DEF TypeOK, Working, Handling, Loop, ProcOf
<1>7. ASSUME NEW m \in Loops, Working(m)'
      PROVE  Owns(m)' => Owns(m) /\ row'[loop[m].job] = row[loop[m].job]
  BY <1>5, <1>6, <1>7 DEF Owns, ProcOf
<1>8. ASSUME NEW m \in Loops, Working(m)' PROVE Sane(m)'
  <2>1. Sane(m)
    BY <1>6, <1>8
  <2>2. QED
    <3> DEFINE k == loop[m].job
    <3>1. /\ loop'[m].job = k /\ loop'[m].arm = loop[m].arm /\ k \in Jobs
          /\ loop'[m].attempts = loop[m].attempts
          /\ loop'[m].pc = "completing" => loop[m].pc = "completing"
      BY <1>6, <1>8 DEF Loop
    <3>2. row'[k].arm = row[k].arm /\ row'[k].attempts = row[k].attempts
      BY <1>5, <3>1
    <3>3. Owns(m)' => Owns(m)
      BY <1>7, <1>8
    <3>4. QED
      BY <2>1, <1>1, <3>1, <3>2, <3>3 DEF Sane
<1>9. "stall" \notin setup.kinds => Exclusive'
  <2> SUFFICES ASSUME Exclusive PROVE Exclusive'
    OBVIOUS
  <2>1. ASSUME NEW m \in Loops, Working(m)', Owns(m), m # l PROVE Owns(m)'
    <3>1. row'[loop[m].job] = row[loop[m].job]
      BY <1>1, <1>2, <1>6, <2>1 DEF Exclusive, TypeOK
    <3>2. QED
      BY <1>6, <2>1, <3>1 DEF Owns, ProcOf
  <2>2. Owns(l) => Owns(l)' \/ (~Handling(l)' /\ "reply" \in setup.kinds)
    <3>1. ~Handling(l)' /\ loop'[l].job = j
      BY <1>1 DEF Handling, TypeOK, Loop
    <3>2. QED
      BY <1>2, <3>1 DEF Owns, ProcOf
  <2>3. QED
    BY <1>6, <1>7, <2>1, <2>2, ExclusiveStays
<1>10. QED
  BY <1>4, <1>5, <1>8, <1>9 DEF Trusted

\* A loop that lets go of its job, having freed the row of it or not: its row, if it
\* owns it, changes to r, which nobody owns.
LEMMA LetGoInv ==
  ASSUME IInv, setup' = setup, NEW l \in Loops,
         loop' = [loop EXCEPT ![l] = Idle],
         succeeded' = succeeded, enqueues' = enqueues, faults' \in 0..MaxFaults,
         NEW r \in Row,
         \/ row' = row
         \/ /\ Working(l) /\ Owns(l)
            /\ row' = [row EXCEPT ![loop[l].job] = r]
            /\ r.owner = None
            /\ r.arm = row[loop[l].job].arm /\ r.attempts = row[loop[l].job].attempts
  PROVE  IInv'
<1> USE QueueAssumption DEF IInv
<1>1. TypeOK'
  BY DEF TypeOK, Idle, Loop, Working
<1>2. ASSUME NEW m \in Loops, Working(m)'
      PROVE  m # l /\ Working(m) /\ loop'[m] = loop[m] /\ loop[m].job \in Jobs
  BY <1>2 DEF TypeOK, Working, Idle
<1>3. ASSUME NEW j \in Jobs
      PROVE  /\ row'[j].arm = row[j].arm /\ row'[j].attempts = row[j].attempts
             /\ row'[j].owner \in {row[j].owner, None}
             /\ row'[j].owner # None => row'[j] = row[j]
  BY DEF TypeOK
<1>4. ASSUME NEW m \in Loops, Working(m)' PROVE Sane(m)'
  <2>1. Sane(m) /\ ProcOf[m] # None
    BY <1>2, <1>4 DEF TypeOK, ProcOf
  <2>2. QED
    BY <2>1, <1>2, <1>3, <1>4 DEF Sane, Owns, ProcOf
<1>5. "stall" \notin setup.kinds => Exclusive'
  <2> SUFFICES ASSUME Exclusive PROVE Exclusive'
    OBVIOUS
  <2>1. ASSUME NEW m \in Loops, Working(m)'
        PROVE  /\ Owns(m) => Owns(m)'
               /\ Owns(m)' => Owns(m) /\ row'[loop[m].job] = row[loop[m].job]
    <3>1. Owns(m) => row'[loop[m].job] = row[loop[m].job]
      BY <1>2, <2>1 DEF Exclusive, TypeOK
    <3>2. ProcOf[m] # None
      BY DEF TypeOK, ProcOf
    <3>3. QED
      BY <1>2, <1>3, <2>1, <3>1, <3>2 DEF Owns, ProcOf
  <2>2. QED
    BY <1>2, <2>1, ExclusiveStays DEF Handling
<1>6. QED
  BY <1>1, <1>3, <1>4, <1>5 DEF Trusted

LEMMA EndInv ==
  ASSUME IInv, setup' = setup, NEW l \in Loops,
         ClaimNothing(l) \/ Complete(l) \/ Fail(l) \/ FailThrows(l)
  PROVE  IInv'
<1> USE QueueAssumption
<1>0. TypeOK /\ faults \in 0..MaxFaults
  BY DEF IInv, TypeOK
<1> DEFINE j == loop[l].job
<1>1. CASE Complete(l) /\ Owns(l)
  <2>1. j \in Jobs /\ row[j] \in Row /\ Working(l)
    BY <1>0, <1>1 DEF Complete, TypeOK, Working
  <2>2. Completed(row[j]) \in Row
    BY <2>1 DEF Completed, Row, RowStates
  <2> DEFINE r == Completed(row[j])
  <2>3. r.owner = None /\ r.arm = row[j].arm /\ r.attempts = row[j].attempts
    BY <2>1 DEF Completed, Row
  <2>4. row' = [row EXCEPT ![j] = r] /\ loop' = [loop EXCEPT ![l] = Idle]
        /\ succeeded' = succeeded /\ enqueues' = enqueues /\ faults' = faults
    BY <1>1 DEF Complete, RowsCompleted
  <2> HIDE DEF r
  <2>5. QED
    BY <1>0, <1>1, <2>1, <2>2, <2>3, <2>4, LetGoInv DEF r
<1>2. CASE Fail(l) /\ Owns(l)
  <2> DEFINE r == Failed(row[j], loop[l].attempts)
  <2>1. j \in Jobs /\ row[j] \in Row /\ Working(l)
    BY <1>0, <1>2 DEF Fail, TypeOK, Working
  <2>2. r \in Row
    BY <2>1 DEF Failed, Row, RowStates
  <2>3. r.owner = None /\ r.arm = row[j].arm /\ r.attempts = row[j].attempts
    BY <2>1 DEF Failed, Row
  <2>4. row' = [row EXCEPT ![j] = r] /\ loop' = [loop EXCEPT ![l] = Idle]
        /\ succeeded' = succeeded /\ enqueues' = enqueues /\ faults' = faults
    BY <1>2 DEF Fail
  <2> HIDE DEF r
  <2>5. QED
    BY <1>0, <1>2, <2>1, <2>2, <2>3, <2>4, LetGoInv
<1>3. CASE ClaimNothing(l) \/ FailThrows(l) \/ ((Complete(l) \/ Fail(l)) /\ ~Owns(l))
  <2>1. row' = row /\ loop' = [loop EXCEPT ![l] = Idle]
        /\ succeeded' = succeeded /\ enqueues' = enqueues /\ faults' \in 0..MaxFaults
    BY <1>0, <1>3 DEF ClaimNothing, FailThrows, Complete, RowsCompleted, Fail, Fault
  <2>2. \E r : r \in Row
    <3>1. [state |-> "done", attempts |-> 0, owner |-> None, lapsed |-> FALSE,
           due |-> FALSE, arm |-> 0] \in Row
      BY DEF Row, RowStates
    <3>2. QED
      BY <3>1
  <2>3. QED
    BY <2>1, <2>2, LetGoInv
<1>4. QED
  BY <1>1, <1>2, <1>3

----------------------------------------------------------------------------
\* run_at passes, a lease lapses or is extended: only those two columns change.
LEMMA ClockInv ==
  ASSUME IInv, setup' = setup, NEW j \in Jobs, Due(j) \/ Lapse(j) \/ Stall(j) \/ Beat(j)
  PROVE  IInv'
<1> USE QueueAssumption DEF IInv
<1>1. /\ row' \in {[row EXCEPT ![j].due = TRUE], [row EXCEPT ![j].lapsed = TRUE],
                   [row EXCEPT ![j].lapsed = FALSE]}
      /\ loop' = loop /\ succeeded' = succeeded /\ enqueues' = enqueues
      /\ faults' \in 0..MaxFaults
      /\ row[j] \in Row
  BY DEF Due, Lapse, Stall, Beat, Fault, TypeOK
<1>2. ASSUME NEW k \in Jobs
      PROVE  /\ row'[k] \in Row
             /\ row'[k].arm = row[k].arm /\ row'[k].attempts = row[k].attempts
             /\ row'[k].owner = row[k].owner /\ row'[k].state = row[k].state
  <2>1. row[k] \in Row /\ row \in [Jobs -> Row]
    BY DEF TypeOK
  <2>2. row'[k] \in {row[k], [row[k] EXCEPT !.due = TRUE], [row[k] EXCEPT !.lapsed = TRUE],
                     [row[k] EXCEPT !.lapsed = FALSE]}
    BY <1>1, <2>1
  <2>3. QED
    BY <2>1, <2>2 DEF Row
<1>3. TypeOK'
  BY <1>1, <1>2 DEF TypeOK, Working
<1>4. ASSUME NEW m \in Loops, Working(m)' PROVE Sane(m)'
  <2>1. Working(m) /\ Sane(m) /\ loop[m].job \in Jobs
    BY <1>1, <1>4 DEF Working, TypeOK
  <2>2. QED
    BY <2>1, <1>1, <1>2 DEF Sane, Owns, ProcOf
<1>5. "stall" \notin setup.kinds => Exclusive'
  <2> SUFFICES ASSUME "stall" \notin setup.kinds PROVE Exclusive'
    OBVIOUS
  <2>1. ASSUME NEW m \in Loops, Working(m)'
        PROVE  /\ Working(m) /\ loop'[m] = loop[m] /\ loop[m].job \in Jobs
               /\ Handling(m)' => Handling(m)
               /\ Owns(m)' <=> Owns(m)
    BY <1>1, <1>2, <2>1 DEF Working, Handling, TypeOK, Owns, ProcOf
  <2>2. ASSUME NEW m \in Loops, Working(m)', Owns(m) PROVE row'[loop[m].job].lapsed = FALSE
    <3>1. ~row[loop[m].job].lapsed /\ row[loop[m].job] \in Row
      BY <2>1, <2>2 DEF Exclusive, TypeOK
    <3>2. loop[m].job = j => ~Lapse(j) /\ ~Stall(j)
      BY <2>1, <2>2 DEF Lapse, Stall, Heartbeats, Owns, Fault
    <3>3. QED
      <4>1. CASE loop[m].job # j
        <5> DEFINE k == loop[m].job
        <5>1. k \in Jobs /\ k # j /\ row \in [Jobs -> Row]
          BY <2>1, <2>2, <4>1 DEF TypeOK
        <5> HIDE DEF k
        <5>2. row'[k] = row[k]
          BY <1>1, <5>1
        <5>3. ~row[k].lapsed /\ row[k].lapsed \in BOOLEAN
          BY <3>1 DEF k, Row
        <5>4. QED
          BY <5>2, <5>3 DEF k
      <4>2. CASE loop[m].job = j
        <5>1. row' \in {[row EXCEPT ![j].due = TRUE], [row EXCEPT ![j].lapsed = FALSE]}
          BY <3>2, <4>2 DEF Due, Lapse, Stall, Beat
        <5>2. row'[j] \in {[row[j] EXCEPT !.due = TRUE], [row[j] EXCEPT !.lapsed = FALSE]}
          BY <5>1 DEF TypeOK
        <5>3. QED
          BY <3>1, <4>2, <5>2 DEF Row
      <4>3. QED
        BY <4>1, <4>2
  <2>3. QED
    BY <2>1, <2>2, ExclusiveStays
<1>6. QED
  BY <1>1, <1>2, <1>3, <1>4, <1>5 DEF Trusted

\* A process dies: its rows belong to nobody who lives.
LEMMA CrashInv ==
  ASSUME IInv, setup' = setup, NEW p \in Procs, Crash(p)
  PROVE  IInv'
<1> USE QueueAssumption DEF IInv
<1>1. /\ loop' = [l \in Loops |-> IF ProcOf[l] = p THEN Idle ELSE loop[l]]
      /\ row' = [j \in Jobs |-> IF row[j].owner = p THEN [row[j] EXCEPT !.owner = Dead] ELSE row[j]]
      /\ succeeded' = succeeded /\ enqueues' = enqueues /\ faults' \in 0..MaxFaults
  BY DEF Crash, Fault, TypeOK
<1>2. ASSUME NEW j \in Jobs
      PROVE  /\ row'[j] \in Row
             /\ row'[j].arm = row[j].arm /\ row'[j].attempts = row[j].attempts
             /\ row'[j].state = row[j].state /\ row'[j].lapsed = row[j].lapsed
             /\ row'[j].owner = IF row[j].owner = p THEN Dead ELSE row[j].owner
  <2>1. row[j] \in Row
    BY DEF TypeOK
  <2>2. QED
    BY <1>1, <2>1 DEF Row
<1>3. ASSUME NEW m \in Loops, Working(m)'
      PROVE  /\ Working(m) /\ loop'[m] = loop[m] /\ loop[m].job \in Jobs
             /\ ProcOf[m] # p /\ ProcOf[m] \in Procs
  BY <1>1, <1>3 DEF TypeOK, Working, Idle, ProcOf
<1>4. TypeOK'
  <2>1. \A m \in Loops : loop'[m] \in Loop
    BY <1>1 DEF TypeOK, Idle, Loop
  <2>2. QED
    BY <1>1, <1>2, <1>3, <2>1 DEF TypeOK
<1>5. ASSUME NEW m \in Loops, Working(m)' PROVE (Owns(m)' <=> Owns(m))
  BY <1>2, <1>3, <1>5 DEF Owns, ProcOf
<1>6. ASSUME NEW m \in Loops, Working(m)' PROVE Sane(m)'
  <2>1. Sane(m)
    BY <1>3, <1>6
  <2>2. QED
    BY <2>1, <1>1, <1>2, <1>3, <1>5, <1>6 DEF Sane
<1>7. "stall" \notin setup.kinds => Exclusive'
  <2> SUFFICES ASSUME Exclusive PROVE Exclusive'
    OBVIOUS
  <2>1. ASSUME NEW m \in Loops, Working(m)'
        PROVE  /\ Handling(m)' => Handling(m)
               /\ row'[loop[m].job].lapsed = row[loop[m].job].lapsed
    BY <1>2, <1>3, <2>1 DEF Handling
  <2>2. QED
    BY <1>3, <1>5, <2>1, ExclusiveStays
<1>8. \A j \in Jobs : row'[j].owner # None => row'[j].state = "pending"
  BY <1>2 DEF TypeOK
<1>9. QED
  BY <1>4, <1>6, <1>7, <1>8 DEF Trusted

----------------------------------------------------------------------------
LEMMA NextInv == IInv /\ [Next]_vars => IInv'
<1> SUFFICES ASSUME IInv, [Next]_vars PROVE IInv'
  OBVIOUS
<1>1. CASE UNCHANGED vars
  BY <1>1 DEF vars, moving, IInv, TypeOK, Trusted, Exclusive, Keeps, Handling, Sane, Owns,
              ProcOf, Working
<1>2. CASE Next
  <2>0. setup' = setup
    BY <1>2 DEF Next
  <2>1. ASSUME NEW j \in Jobs, NEW due \in BOOLEAN, Enqueue(j, due) PROVE IInv'
    BY <2>0, <2>1, EnqueueInv
  <2>2. ASSUME NEW j \in Jobs, Due(j) \/ Lapse(j) \/ Stall(j) \/ Beat(j) PROVE IInv'
    BY <2>0, <2>2, ClockInv
  <2>3. ASSUME NEW l \in Loops, Consume(l) PROVE IInv'
    <3>1. CASE DeadLetterAbandoned(l)
      BY <2>0, <3>1, BuryInv
    <3>2. ASSUME NEW j \in Jobs, Claim(l, j) \/ ClaimThrows(l, j) PROVE IInv'
      BY <2>0, <3>2, ClaimInv
    <3>3. CASE HandlerReturns(l)
      BY <2>0, <3>3, ReturnInv
    <3>4. CASE HandlerThrows(l) \/ CompleteThrows(l)
      BY <2>0, <3>4, ThrowInv
    <3>5. CASE ClaimNothing(l) \/ Complete(l) \/ Fail(l) \/ FailThrows(l)
      BY <2>0, <3>5, EndInv
    <3>6. QED
      BY <2>3, <3>1, <3>2, <3>3, <3>4, <3>5 DEF Consume
  <2>4. ASSUME NEW p \in Procs, Crash(p) PROVE IInv'
    BY <2>0, <2>4, CrashInv
  <2>5. QED
    BY <1>2, <2>1, <2>2, <2>3, <2>4 DEF Next
<1>3. QED
  BY <1>1, <1>2

LEMMA Invariance == SoundSetups => (Spec => []IInv)
<1>1. SoundSetups => (Init => IInv)
  BY InitInv
<1>2. IInv /\ [Next]_vars => IInv'
  BY NextInv
<1>3. QED
  BY <1>1, <1>2, PTL DEF Spec

\* Without stalls no two loops handle a job (PgQueueDriver: leases), where a lost reply
\* cannot hit the claim of a sibling.
THEOREM OneHandler == SoundSetups => (Spec => []OneHandlerAtATime)
<1>1. IInv => OneHandlerAtATime
  BY DEF IInv, Exclusive, Keeps, Handling, Working, OneHandlerAtATime
<1>2. QED
  BY <1>1, Invariance, PTL

\* The rows and the loops are what their types say, in every reachable state.
THEOREM QueueType == SoundSetups => (Spec => []TypeOK)
<1>1. IInv => TypeOK
  BY DEF IInv
<1>2. QED
  BY <1>1, Invariance, PTL

----------------------------------------------------------------------------
\* The refinement: a step of the driver is a step of the abstract queue or none.
states == [j \in Jobs |-> row[j].state]
tries == [j \in Jobs |-> row[j].attempts]
Stutters == UNCHANGED <<states, tries, succeeded>>

LEMMA InitDelivers == Init => Delivery!DeliveryInit
  BY DEF Init, Delivery!DeliveryInit

LEMMA SameRows ==
  ASSUME \A j \in Jobs : row'[j].state = row[j].state /\ row'[j].attempts = row[j].attempts,
         succeeded' = succeeded
  PROVE  Stutters
  BY DEF Stutters, states, tries

LEMMA EnqueueArms ==
  ASSUME IInv, NEW j \in Jobs, NEW due \in BOOLEAN, Enqueue(j, due)
  PROVE  Stutters \/ Delivery!Arm(j)
<1>1. CASE Rearms(row[j])
  <2>1. row' = [row EXCEPT ![j] = Armed(row[j], due)] /\ row \in [Jobs -> Row]
        /\ succeeded' = [succeeded EXCEPT ![j] = FALSE]
    BY <1>1 DEF Enqueue, IInv, TypeOK
  <2>2. states' = [states EXCEPT ![j] = "pending"] /\ tries' = [tries EXCEPT ![j] = 0]
    BY <2>1 DEF states, tries, Armed, Row
  <2>3. QED
    BY <1>1, <2>1, <2>2 DEF Delivery!Arm, states, tries, Rearms
<1>2. CASE ~Rearms(row[j])
  BY <1>2, SameRows DEF Enqueue
<1>3. QED
  BY <1>1, <1>2

LEMMA BuryGivesUp ==
  ASSUME IInv, NEW l \in Loops, DeadLetterAbandoned(l)
  PROVE  \E S \in SUBSET Jobs : Delivery!GiveUp(S)
<1> DEFINE S == {j \in Jobs : Abandoned(row[j])}
<1>1. row' = [j \in Jobs |-> IF Abandoned(row[j]) THEN Buried(row[j]) ELSE row[j]]
      /\ succeeded' = succeeded
  BY DEF DeadLetterAbandoned
<1>2. \A j \in S : row[j].state = "pending" /\ row[j].attempts = MaxAttempts
  BY QueueAssumption DEF Abandoned, IInv, TypeOK, Row
<1>3. ASSUME NEW j \in Jobs
      PROVE  /\ row'[j].state = IF j \in S THEN "dead" ELSE row[j].state
             /\ row'[j].attempts = row[j].attempts
  <2>1. row[j] \in Row
    BY DEF IInv, TypeOK
  <2>2. QED
    BY <1>1, <2>1 DEF Buried, Row
<1>4. Delivery!GiveUp(S)
  BY <1>1, <1>2, <1>3 DEF Delivery!GiveUp
<1>5. S \in SUBSET Jobs
  OBVIOUS
<1> HIDE DEF S
<1>6. QED
  BY <1>4, <1>5 DEF Delivery!GiveUp

LEMMA ClaimDelivers ==
  ASSUME IInv, NEW l \in Loops, NEW j \in Jobs, Claim(l, j) \/ ClaimThrows(l, j)
  PROVE  Delivery!Deliver(j)
<1>1. row' = [row EXCEPT ![j] = ClaimedBy(row[j], ProcOf[l])] /\ Claimable(row[j])
      /\ succeeded' = succeeded /\ row \in [Jobs -> Row]
  BY DEF Claim, ClaimThrows, IInv, TypeOK
<1>2. ASSUME NEW k \in Jobs
      PROVE  /\ row'[k].state = row[k].state
             /\ row'[k].attempts = IF k = j THEN row[k].attempts + 1 ELSE row[k].attempts
  <2>1. row[k] \in Row
    BY <1>1
  <2>2. QED
    BY <1>1, <2>1 DEF ClaimedBy, Row
<1>3. states' = states /\ tries' = [tries EXCEPT ![j] = tries[j] + 1]
  BY <1>2 DEF states, tries
<1>4. QED
  BY <1>1, <1>3 DEF Delivery!Deliver, Claimable, states, tries

LEMMA ReturnSucceeds ==
  ASSUME IInv, NEW l \in Loops, HandlerReturns(l)
  PROVE  Stutters \/ \E j \in Jobs : Delivery!Succeed(j)
<1> DEFINE j == loop[l].job
<1>1. /\ row' = row /\ succeeded \in [Jobs -> BOOLEAN]
      /\ succeeded' = [succeeded EXCEPT ![j] = succeeded[j] \/ row[j].arm = loop[l].arm]
      /\ j \in Jobs /\ Sane(l) /\ row[j] \in Row /\ loop[l] \in Loop
  BY DEF HandlerReturns, IInv, TypeOK, Working
<1>2. states' = states /\ tries' = tries
  BY <1>1 DEF states, tries
<1>3. CASE row[j].arm = loop[l].arm
  <2>1. row[j].attempts > 0
    BY <1>1, <1>3, QueueAssumption DEF Sane, Row, Loop
  <2>2. succeeded' = [succeeded EXCEPT ![j] = TRUE]
    BY <1>1, <1>3
  <2>3. Delivery!Succeed(j)
    BY <1>1, <1>2, <2>1, <2>2 DEF Delivery!Succeed, states, tries
  <2>4. QED
    BY <1>1, <2>3
<1>4. CASE row[j].arm # loop[l].arm
  <2>1. succeeded' = succeeded
    BY <1>1, <1>4
  <2>2. QED
    BY <1>2, <2>1 DEF Stutters
<1>5. QED
  BY <1>3, <1>4

LEMMA CompleteFinishes ==
  ASSUME IInv, NEW l \in Loops, Complete(l) \/ CompleteThrows(l)
  PROVE  Stutters \/ \E j \in Jobs : Delivery!Finish(j)
<1> DEFINE j == loop[l].job
<1>1. CASE Owns(l) /\ row' # row
  <2>1. /\ row' = [row EXCEPT ![j] = Completed(row[j])] /\ succeeded' = succeeded
        /\ row \in [Jobs -> Row] /\ j \in Jobs /\ loop[l].pc = "completing" /\ Sane(l)
    BY <1>1 DEF Complete, CompleteThrows, RowsCompleted, IInv, TypeOK, Working
  <2>2. succeeded[j]
    BY <1>1, <2>1 DEF Sane
  <2>3. row[j].state = "pending"
    BY <1>1, <2>1, QueueAssumption DEF IInv, Owns, ProcOf, TypeOK
  <2>4. states' = [states EXCEPT ![j] = "done"] /\ tries' = tries
    BY <2>1 DEF states, tries, Completed, Row
  <2>5. Delivery!Finish(j)
    BY <2>1, <2>2, <2>3, <2>4 DEF Delivery!Finish, states, tries
  <2>6. \E i \in Jobs : Delivery!Finish(i)
    <3> HIDE DEF j
    <3>1. QED
      BY <2>1, <2>5 DEF Delivery!Finish
  <2>7. QED
    BY <2>6
<1>2. CASE ~Owns(l) \/ row' = row
  BY <1>2, SameRows DEF Complete, CompleteThrows, RowsCompleted
<1>3. QED
  BY <1>1, <1>2

LEMMA FailGivesUp ==
  ASSUME IInv, NEW l \in Loops, Fail(l)
  PROVE  Stutters \/ \E S \in SUBSET Jobs : Delivery!GiveUp(S)
<1> DEFINE j == loop[l].job
<1>1. CASE Owns(l) /\ loop[l].attempts >= MaxAttempts
  <2>1. /\ row' = [row EXCEPT ![j] = Failed(row[j], loop[l].attempts)]
        /\ succeeded' = succeeded /\ row \in [Jobs -> Row] /\ j \in Jobs /\ Sane(l)
        /\ loop[l] \in Loop
    BY <1>1 DEF Fail, IInv, TypeOK, Working
  <2>2. row[j].state = "pending"
    BY <1>1, <2>1, QueueAssumption DEF IInv, Owns, ProcOf, TypeOK
  <2>3. row[j].attempts = MaxAttempts
    BY <1>1, <2>1, QueueAssumption DEF Sane, Loop
  <2>4. ASSUME NEW k \in Jobs
        PROVE  /\ row'[k].state = IF k = j THEN "dead" ELSE row[k].state
               /\ row'[k].attempts = row[k].attempts
    <3>1. row[k] \in Row
      BY <2>1
    <3>2. QED
      BY <1>1, <2>1, <3>1 DEF Failed, Row
  <2>5. Delivery!GiveUp({j})
    BY <2>1, <2>2, <2>3, <2>4 DEF Delivery!GiveUp
  <2>6. {j} \in SUBSET Jobs
    BY <2>1
  <2>7. \E S \in SUBSET Jobs : Delivery!GiveUp(S)
    <3> HIDE DEF j
    <3>1. QED
      BY <2>5, <2>6 DEF Delivery!GiveUp
  <2>8. QED
    BY <2>7
<1>2. CASE Owns(l) /\ ~(loop[l].attempts >= MaxAttempts)
  <2>1. row' = [row EXCEPT ![j] = Failed(row[j], loop[l].attempts)]
        /\ succeeded' = succeeded /\ row \in [Jobs -> Row]
    BY <1>2 DEF Fail, IInv, TypeOK
  <2>2. \A k \in Jobs : row'[k].state = row[k].state /\ row'[k].attempts = row[k].attempts
    BY <1>2, <2>1 DEF Failed, Row
  <2>3. QED
    BY <2>1, <2>2, SameRows
<1>3. CASE ~Owns(l)
  BY <1>3, SameRows DEF Fail
<1>4. QED
  BY <1>1, <1>2, <1>3

\* Everything else leaves the promise as it is.
LEMMA OthersStutter ==
  ASSUME IInv,
         \/ UNCHANGED vars
         \/ \E j \in Jobs : Due(j) \/ Lapse(j) \/ Stall(j) \/ Beat(j)
         \/ \E l \in Loops : HandlerThrows(l) \/ ClaimNothing(l) \/ FailThrows(l)
         \/ \E p \in Procs : Crash(p)
  PROVE  Stutters
<1>1. succeeded' = succeeded
  BY DEF vars, moving, Due, Lapse, Stall, Beat, HandlerThrows, ClaimNothing, FailThrows, Crash
<1>2. ASSUME NEW k \in Jobs
      PROVE  row'[k].state = row[k].state /\ row'[k].attempts = row[k].attempts
  <2>1. row[k] \in Row /\ row \in [Jobs -> Row]
    BY DEF IInv, TypeOK
  <2>2. row'[k] \in {row[k], [row[k] EXCEPT !.due = TRUE], [row[k] EXCEPT !.lapsed = TRUE],
                     [row[k] EXCEPT !.lapsed = FALSE], [row[k] EXCEPT !.owner = Dead]}
    BY <2>1 DEF vars, moving, Due, Lapse, Stall, Beat, HandlerThrows, ClaimNothing, FailThrows,
                Crash
  <2>3. QED
    BY <2>1, <2>2 DEF Row
<1>3. QED
  BY <1>1, <1>2, SameRows

LEMMA StepDelivers == IInv /\ [Next]_vars => [Delivery!DeliveryNext]_(Delivery!deliveryVars)
<1> SUFFICES ASSUME IInv, [Next]_vars
             PROVE  [Delivery!DeliveryNext]_(Delivery!deliveryVars)
  OBVIOUS
<1>1. Stutters => UNCHANGED Delivery!deliveryVars
  BY DEF Stutters, states, tries, Delivery!deliveryVars
<1>2. CASE Stutters
  BY <1>1, <1>2
<1>3. ASSUME NEW j \in Jobs, NEW due \in BOOLEAN, Enqueue(j, due)
      PROVE  Stutters \/ Delivery!DeliveryNext
  BY <1>3, EnqueueArms DEF Delivery!DeliveryNext
<1>4. ASSUME NEW l \in Loops, Consume(l) PROVE Stutters \/ Delivery!DeliveryNext
  <2>1. CASE DeadLetterAbandoned(l)
    BY <2>1, BuryGivesUp DEF Delivery!DeliveryNext
  <2>2. ASSUME NEW j \in Jobs, Claim(l, j) \/ ClaimThrows(l, j) PROVE Delivery!DeliveryNext
    BY <2>2, ClaimDelivers DEF Delivery!DeliveryNext
  <2>3. CASE HandlerReturns(l)
    BY <2>3, ReturnSucceeds DEF Delivery!DeliveryNext
  <2>4. CASE Complete(l) \/ CompleteThrows(l)
    BY <2>4, CompleteFinishes DEF Delivery!DeliveryNext
  <2>5. CASE Fail(l)
    BY <2>5, FailGivesUp DEF Delivery!DeliveryNext
  <2>6. CASE HandlerThrows(l) \/ ClaimNothing(l) \/ FailThrows(l)
    BY <2>6, OthersStutter
  <2>7. QED
    BY <1>4, <2>1, <2>2, <2>3, <2>4, <2>5, <2>6 DEF Consume
<1>5. CASE \/ UNCHANGED vars
           \/ \E j \in Jobs : Due(j) \/ Lapse(j) \/ Stall(j) \/ Beat(j)
           \/ \E p \in Procs : Crash(p)
  BY <1>5, <1>2, OthersStutter
<1>6. QED
  BY <1>2, <1>3, <1>4, <1>5 DEF Next

\* The driver implements the abstract queue: an armed job is delivered at most
\* MaxAttempts times, is completed only after a delivery of this arming succeeded, and
\* is given up only when its deliveries are used up.
THEOREM DriverKeepsPromise == SoundSetups => (Spec => KeepsPromise)
<1>1. Init => Delivery!DeliveryInit
  BY InitDelivers
<1>2. IInv /\ [Next]_vars => [Delivery!DeliveryNext]_(Delivery!deliveryVars)
  BY StepDelivers
<1>3. QED
  BY <1>1, <1>2, Invariance, PTL DEF Spec, KeepsPromise, Delivery!DeliverySpec

=============================================================================
