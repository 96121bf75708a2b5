--------------------------- MODULE SchedulesProofs ---------------------------
(***************************************************************************)
(* What holds of a schedule whatever its period and its policies, and      *)
(* however many replicas plan it.                                          *)
(***************************************************************************)
EXTENDS Schedules, SequenceTheorems, FiniteSetTheorems, TLAPS

(***************************************************************************)
(* The multiples of a period.                                              *)
(***************************************************************************)
\* the multiple of p at or before t.
Floor(t, p) == t - (t % p)

\* it is at most a period before t, and a multiple.
LEMMA FloorOf ==
  ASSUME NEW t \in Nat, NEW p \in Nat \ {0}
  PROVE  /\ Floor(t, p) \in Nat
         /\ Floor(t, p) <= t /\ t < Floor(t, p) + p
         /\ Floor(t, p) % p = 0
<1>1. t % p \in 0 .. p - 1
  OBVIOUS
<1>2. t = p * (t \div p) + (t % p) /\ t \div p \in Int
  OBVIOUS
<1>3. Floor(t, p) = p * (t \div p)
  BY <1>1, <1>2 DEF Floor
<1>4. (p * (t \div p)) % p = 0
  BY <1>2
<1>5. Floor(t, p) <= t /\ t < Floor(t, p) + p
  BY <1>1 DEF Floor
<1>6. t % p <= t
  OBVIOUS
<1> QED
  BY <1>1, <1>3, <1>4, <1>5, <1>6 DEF Floor

\* different multiples are a period apart.
LEMMA MultiplesApart ==
  ASSUME NEW p \in Nat \ {0}, NEW a \in Nat, NEW b \in Nat, a % p = 0, b % p = 0, a < b
  PROVE  a + p <= b
<1> DEFINE q == a \div p
           r == b \div p
<1>1. a = p * q /\ b = p * r /\ q \in Int /\ r \in Int
  OBVIOUS
<1> HIDE DEF q, r
<1>2. q < r
  <2>1. SUFFICES ASSUME r <= q PROVE FALSE
    BY <1>1
  <2>2. p * r <= p * q
    BY <1>1, <2>1
  <2> QED
    BY <1>1, <2>2
<1>3. p * (q + 1) <= p * r
  BY <1>1, <1>2
<1>4. p * (q + 1) = p * q + p
  BY <1>1
<1> QED
  BY <1>1, <1>3, <1>4

\* the next multiple is one.
LEMMA NextMultiple ==
  ASSUME NEW p \in Nat \ {0}, NEW a \in Nat, a % p = 0
  PROVE  (a + p) % p = 0
<1> DEFINE q == a \div p
<1>1. a = p * q /\ q \in Int
  OBVIOUS
<1> HIDE DEF q
<1>2. a + p = p * (q + 1)
  BY <1>1
<1>3. (p * (q + 1)) % p = 0
  BY <1>1
<1> QED
  BY <1>2, <1>3

\* the floor of a later time is no earlier, and a multiple is its own floor.
LEMMA FloorGrows ==
  ASSUME NEW p \in Nat \ {0}, NEW a \in Nat, NEW b \in Nat, a <= b
  PROVE  /\ Floor(a, p) <= Floor(b, p)
         /\ a % p = 0 => Floor(a, p) = a /\ a <= Floor(b, p)
<1>1. ASSUME NEW c \in Nat, c % p = 0, c <= b
      PROVE  c <= Floor(b, p)
  <2>1. CASE Floor(b, p) < c
    <3>1. Floor(b, p) + p <= c
      BY <1>1, <2>1, FloorOf, MultiplesApart
    <3> QED
      BY <1>1, <3>1, FloorOf
  <2> QED
    BY <1>1, <2>1, FloorOf
<1>2. Floor(a, p) <= Floor(b, p)
  BY <1>1, FloorOf
<1>3. a % p = 0 => Floor(a, p) = a
  BY DEF Floor
<1> QED
  BY <1>1, <1>2, <1>3

-----------------------------------------------------------------------------
(***************************************************************************)
(* The newest of a finite set of times.                                    *)
(***************************************************************************)
Above(t, S) == Cardinality({u \in S : u > t})

\* the elements above one are counted.
LEMMA AboveFinite ==
  ASSUME NEW S \in SUBSET Nat, IsFiniteSet(S), NEW t
  PROVE  /\ IsFiniteSet({u \in S : u > t})
         /\ Above(t, S) \in Nat
         /\ Cardinality({u \in S : u > t}) <= Cardinality(S)
<1>1. {u \in S : u > t} \subseteq S
  OBVIOUS
<1> QED
  BY <1>1, FS_Subset, FS_CardinalityType DEF Above

\* the later of two elements has fewer above it.
LEMMA AboveFalls ==
  ASSUME NEW S \in SUBSET Nat, IsFiniteSet(S), NEW t \in S, NEW u \in S, t < u
  PROVE  Above(u, S) < Above(t, S)
<1> DEFINE T == {v \in S : v > t}
           U == {v \in S : v > u}
<1>1. U \subseteq T /\ u \in T /\ u \notin U
  <2>1. t \in Nat /\ u \in Nat /\ \A v \in S : v \in Nat
    OBVIOUS
  <2>2. (\A v \in S : v > u => v > t) /\ u > t /\ ~(u > u)
    BY <2>1
  <2> QED
    BY <2>2
<1>2. IsFiniteSet(T) /\ Cardinality(T) \in Nat /\ Cardinality(U) \in Nat
  BY AboveFinite DEF Above
<1>3. Cardinality(U) <= Cardinality(T) /\ Cardinality(U) # Cardinality(T)
  BY <1>1, <1>2, FS_Subset
<1> QED
  BY <1>2, <1>3 DEF Above

\* the numbers of elements above the elements of a set of n are 0, 1, ..., n - 1.
LEMMA AboveRanks ==
  ASSUME NEW S \in SUBSET Nat, IsFiniteSet(S), NEW n, n = Cardinality(S)
  PROVE  /\ n \in Nat
         /\ \A t \in S : Above(t, S) \in 0 .. n - 1
         /\ \A i \in 0 .. n - 1 : \E t \in S : Above(t, S) = i
<1>1. n \in Nat
  BY FS_CardinalityType
<1>2. ASSUME NEW t \in S
      PROVE  Above(t, S) \in 0 .. n - 1
  <2>1. {u \in S : u > t} \subseteq S /\ t \notin {u \in S : u > t}
    OBVIOUS
  <2>2. Above(t, S) <= n /\ Above(t, S) # n
    BY <2>1, FS_Subset DEF Above
  <2>3. Above(t, S) \in Nat
    BY AboveFinite
  <2> QED
    BY <1>1, <2>2, <2>3
<1> DEFINE f == [t \in S |-> Above(t, S)]
<1>3. f \in Injection(S, 0 .. n - 1)
  <2>1. f \in [S -> 0 .. n - 1]
    BY <1>2
  <2>2. ASSUME NEW t \in S, NEW u \in S, f[t] = f[u]
        PROVE  t = u
    <3>1. t \in Nat /\ u \in Nat /\ Above(t, S) = Above(u, S)
      BY <2>2
    <3>2. Above(t, S) \in Nat /\ Above(u, S) \in Nat
      BY AboveFinite
    <3> QED
      BY <3>1, <3>2, AboveFalls
  <2> QED
    BY <2>1, <2>2 DEF Injection, IsInjective
<1>4. IsFiniteSet(0 .. n - 1) /\ Cardinality(0 .. n - 1) = n
  <2>1. 0 \in Int /\ n - 1 \in Int
    BY <1>1
  <2>2. /\ IsFiniteSet(0 .. n - 1)
        /\ Cardinality(0 .. n - 1) = IF 0 > n - 1 THEN 0 ELSE (n - 1) - 0 + 1
    BY <2>1, FS_Interval
  <2> QED
    BY <1>1, <2>2
<1>5. f \in Surjection(S, 0 .. n - 1)
  BY <1>3, <1>4, FS_Injection
<1>6. \A i \in 0 .. n - 1 : \E t \in S : f[t] = i
  BY <1>5 DEF Surjection
<1> QED
  BY <1>1, <1>2, <1>6

\* the elements of a set can be planned in their order.
LEMMA OrderedType ==
  ASSUME NEW S \in SUBSET Nat, IsFiniteSet(S)
  PROVE  /\ Ordered(S) \in [1 .. Cardinality(S) -> S]
         /\ \A i, j \in 1 .. Cardinality(S) : i < j => Ordered(S)[i] < Ordered(S)[j]
<1> DEFINE n == Cardinality(S)
           At(i) == CHOOSE t \in S : Above(t, S) = n - i
           s == [i \in 1 .. n |-> At(i)]
<1>1. n \in Nat
  BY FS_CardinalityType
<1>2. ASSUME NEW i \in 1 .. n
      PROVE  At(i) \in S /\ Above(At(i), S) = n - i
  <2>1. n - i \in 0 .. n - 1
    BY <1>1
  <2>2. \E t \in S : Above(t, S) = n - i
    BY <2>1, AboveRanks
  <2> QED
    BY <2>2
<1>3. ASSUME NEW i \in 1 .. n, NEW j \in 1 .. n, i < j
      PROVE  At(i) < At(j)
  <2> HIDE DEF At
  <2>1. /\ At(i) \in S /\ Above(At(i), S) = n - i
        /\ At(j) \in S /\ Above(At(j), S) = n - j
    BY <1>2
  <2>2. At(i) # At(j)
    BY <1>1, <1>3, <2>1
  <2>3. ~ At(j) < At(i)
    <3>1. At(j) < At(i) => Above(At(i), S) < Above(At(j), S)
      BY <2>1, AboveFalls
    <3>2. ~(n - i < n - j)
      BY <1>1, <1>3
    <3> QED
      BY <2>1, <3>1, <3>2
  <2>4. At(i) \in Nat /\ At(j) \in Nat
    BY <2>1
  <2> QED
    BY <2>2, <2>3, <2>4
<1> HIDE DEF At
<1>4. s \in [1 .. n -> S] /\ \A i, j \in 1 .. n : i < j => s[i] < s[j]
  BY <1>2, <1>3
<1> QED
  BY <1>4 DEF Ordered

\* a set that has an element with k - 1 others above it has at least k among its newest k.
LEMMA NewestCount ==
  ASSUME NEW S \in SUBSET Nat, IsFiniteSet(S), NEW k \in Nat, k <= Cardinality(S)
  PROVE  IsFiniteSet(Newest(k, S)) /\ k <= Cardinality(Newest(k, S))
<1> DEFINE f == [t \in Newest(k, S) |-> Above(t, S)]
<1>1. IsFiniteSet(Newest(k, S))
  BY FS_Subset DEF Newest
<1>2. \A t \in Newest(k, S) : Above(t, S) \in 0 .. k - 1
  BY AboveFinite DEF Newest, Above
<1>3. ASSUME NEW i \in 0 .. k - 1
      PROVE  \E t \in Newest(k, S) : Above(t, S) = i
  <2>1. Cardinality(S) \in Nat
    BY FS_CardinalityType
  <2>2. PICK t \in S : Above(t, S) = i
    BY <2>1, AboveRanks
  <2>3. Above(t, S) < k
    BY <2>2
  <2> QED
    BY <2>2, <2>3 DEF Newest, Above
<1>4. f \in Surjection(Newest(k, S), 0 .. k - 1)
  BY <1>2, <1>3 DEF Surjection
<1>5. Cardinality(0 .. k - 1) = k
  BY FS_Interval
<1> QED
  BY <1>1, <1>4, <1>5, FS_Surjection

\* the newest one is the maximum.
LEMMA NewestIsMax ==
  ASSUME NEW S \in SUBSET Nat, IsFiniteSet(S), S # {}
  PROVE  Max(S) \in S /\ Newest(1, S) = {Max(S)}
<1>1. Cardinality(S) \in Nat /\ Cardinality(S) # 0
  BY FS_CardinalityType, FS_EmptySet
<1>2. PICK m \in S : Above(m, S) = 0
  BY <1>1, AboveRanks
<1>3. ASSUME NEW t \in S
      PROVE  Above(t, S) < 1 <=> \A u \in S : t >= u
  <2>1. Above(t, S) \in Nat /\ (Above(t, S) = 0 <=> {u \in S : u > t} = {})
    BY AboveFinite, FS_EmptySet DEF Above
  <2>2. \A u \in S : u \in Nat
    OBVIOUS
  <2>3. \A u \in S : u > t <=> ~(t >= u)
    BY <2>2
  <2>4. {u \in S : u > t} = {} <=> \A u \in S : t >= u
    BY <2>3
  <2> QED
    BY <2>1, <2>4
<1>4. \A u \in S : m >= u
  BY <1>2, <1>3
<1>5. Max(S) \in S /\ \A u \in S : Max(S) >= u
  BY <1>4 DEF Max
<1>6. Newest(1, S) = {t \in S : \A u \in S : t >= u}
  BY <1>3 DEF Newest, Above
<1>7. ASSUME NEW t \in S, \A u \in S : t >= u
      PROVE  t = Max(S)
  <2>1. t \in Nat /\ Max(S) \in Nat /\ t >= Max(S) /\ Max(S) >= t
    BY <1>5, <1>7
  <2> QED
    BY <2>1
<1> QED
  BY <1>5, <1>6, <1>7

-----------------------------------------------------------------------------
(***************************************************************************)
(* The due fires, for every policy and every bound.                        *)
(***************************************************************************)
\* the period and the bound of the fires of one pass.
LEMMA SetupType ==
  ASSUME setup \in Setups
  PROVE  /\ Period \in Nat \ {0} /\ setup.prompt \in BOOLEAN
         /\ CatchUp \in {"skip", "one", "all"} /\ Overlap \in {"skip", "allow"}
         /\ Keep \in Nat \ {0}
         /\ CatchUp = "all" => Keep = MaxCatchUp
         /\ CatchUp # "all" => Keep = 1
         /\ IsFiniteSet(Times) /\ Times \subseteq Nat \ {0}
<1>1. /\ Period \in Nat \ {0} /\ setup.prompt \in BOOLEAN
      /\ CatchUp \in {"skip", "one", "all"} /\ Overlap \in {"skip", "allow"}
  BY SchedulesAssumption DEF Period, CatchUp, Overlap
<1>2. MaxTime + Period + Jitter \in Int
  BY <1>1, SchedulesAssumption
<1>3. IsFiniteSet(Times) /\ Times \subseteq Nat \ {0}
  BY <1>2, FS_Interval DEF Times
<1> QED
  BY <1>1, <1>3, SchedulesAssumption DEF Keep

\* the slot of a time is the cron time at or before it.
LEMMA SlotIsFloor ==
  ASSUME NEW t
  PROVE  SlotOf(t) = Floor(t, Period) /\ (t \in Cron => SlotOf(t) = t)
<1>1. t \in Cron => t \in Int /\ t % Period = 0
  BY DEF Cron, Times
<1> QED
  BY <1>1 DEF SlotOf, Floor

\* the cron times between two times are finitely many.
LEMMA CronInType ==
  ASSUME setup \in Setups, NEW from \in Nat, NEW to
  PROVE  /\ CronIn(from, to) \in SUBSET Nat /\ IsFiniteSet(CronIn(from, to))
         /\ \A t \in CronIn(from, to) : t \in Cron /\ from < t /\ t <= to
         /\ from \notin CronIn(from, to)
<1>1. CronIn(from, to) \subseteq Times
  BY DEF CronIn, Cron
<1>2. IsFiniteSet(CronIn(from, to)) /\ CronIn(from, to) \in SUBSET Nat
  BY <1>1, SetupType, FS_Subset
<1>3. \A t \in CronIn(from, to) : t \in Cron /\ from < t /\ t <= to
  BY DEF CronIn
<1>4. ~(from < from)
  OBVIOUS
<1> QED
  BY <1>2, <1>3, <1>4

\* with less than Keep recent cron times after next, the recent ones are all there are.
LEMMA RecentIsAll ==
  ASSUME setup \in Setups, NEW next \in Nat, NEW now \in Nat,
         Cardinality(Recent(next, now)) < Keep
  PROVE  Recent(next, now) = CronIn(next, now)
<1> DEFINE C == CronIn(0, now)
           D == CronIn(next, now)
<1>1. /\ C \in SUBSET Nat /\ IsFiniteSet(C)
      /\ D \in SUBSET Nat /\ IsFiniteSet(D)
      /\ Keep \in Nat \ {0}
  BY CronInType, SetupType
<1>2. D = {t \in C : next < t}
  BY SetupType DEF CronIn, Cron
<1> HIDE DEF C, D
<1>3. ASSUME NEW t \in D, t \notin Newest(Keep, C)
      PROVE  FALSE
  <2>1. t \in C /\ next < t /\ ~(Above(t, C) < Keep)
    BY <1>2, <1>3 DEF Newest, Above
  <2>2. Above(t, C) \in Nat /\ Above(t, C) <= Cardinality(C) /\ Cardinality(C) \in Nat
    BY <1>1, AboveFinite, FS_CardinalityType DEF Above
  <2>3. Keep <= Cardinality(C)
    BY <1>1, <2>1, <2>2
  <2>4. Newest(Keep, C) \subseteq D
    <3>1. ASSUME NEW u \in C, u <= t
          PROVE  u \notin Newest(Keep, C)
      <4>1. u = t \/ u < t
        BY <1>1, <2>1, <3>1
      <4>2. Above(u, C) \in Nat
        BY <1>1, AboveFinite
      <4>3. u < t => Above(t, C) < Above(u, C)
        BY <1>1, <2>1, AboveFalls
      <4>4. Above(t, C) <= Above(u, C)
        BY <2>2, <4>1, <4>2, <4>3
      <4> QED
        BY <1>1, <2>1, <2>2, <4>2, <4>4 DEF Newest, Above
    <3>2. ASSUME NEW u \in C, ~(u <= t)
          PROVE  u \in D
      BY <1>1, <1>2, <2>1, <3>2
    <3> QED
      BY <3>1, <3>2 DEF Newest
  <2>5. Recent(next, now) = Newest(Keep, C)
    BY <2>4 DEF Recent, C, D
  <2>6. Keep <= Cardinality(Newest(Keep, C)) /\ IsFiniteSet(Newest(Keep, C))
    BY <1>1, <2>3, NewestCount
  <2>7. Cardinality(Newest(Keep, C)) \in Nat
    BY <2>6, FS_CardinalityType
  <2> QED
    BY <1>1, <2>5, <2>6, <2>7
<1> QED
  BY <1>3 DEF Recent, C, D

\* with Keep of them or more, the recent ones are the newest of all that are due.
LEMMA RecentIsNewest ==
  ASSUME setup \in Setups, NEW next \in Nat, NEW now \in Nat,
         ~(Cardinality(Recent(next, now)) < Keep)
  PROVE  Recent(next, now) = Newest(Keep, {next} \cup CronIn(next, now))
<1> DEFINE C == CronIn(0, now)
           D == CronIn(next, now)
           E == {next} \cup D
<1>1. /\ C \in SUBSET Nat /\ IsFiniteSet(C)
      /\ D \in SUBSET Nat /\ IsFiniteSet(D)
      /\ Keep \in Nat \ {0}
  BY CronInType, SetupType
<1>2. D = {t \in C : next < t}
  BY SetupType DEF CronIn, Cron
<1>3. Recent(next, now) = Newest(Keep, C) \cap D
  BY DEF Recent
<1> HIDE DEF C, D
<1>4. ASSUME NEW t \in D
      PROVE  {u \in C : u > t} = {u \in E : u > t}
  <2>1. t \in Nat /\ next < t
    BY <1>1, <1>2
  <2>2. \A u \in C : u > t => u \in D
    BY <1>1, <1>2, <2>1
  <2>3. ~(next > t)
    BY <2>1
  <2> QED
    BY <1>2, <2>2, <2>3
<1>5. \A t \in D : t \in Newest(Keep, C) <=> t \in Newest(Keep, E)
  BY <1>2, <1>4 DEF Newest
<1>6. next \notin Newest(Keep, E)
  <2>1. {u \in E : u > next} = D
    BY <1>2
  <2>2. Recent(next, now) \subseteq D
    BY <1>3
  <2>3. Cardinality(Recent(next, now)) <= Cardinality(D) /\ Cardinality(D) \in Nat
    BY <1>1, <2>2, FS_Subset, FS_CardinalityType
  <2>4. Cardinality(Recent(next, now)) \in Nat
    BY <1>1, <2>2, FS_Subset, FS_CardinalityType
  <2>5. ~(Cardinality(D) < Keep)
    BY <1>1, <2>3, <2>4
  <2> QED
    BY <2>1, <2>5 DEF Newest
<1>7. Newest(Keep, E) \subseteq E
  BY DEF Newest
<1>8. Recent(next, now) = Newest(Keep, E)
  BY <1>3, <1>5, <1>6, <1>7
<1> QED
  BY <1>8 DEF D

\* what dueFires() starts and what it counts as dropped, against what the policies promise.
LEMMA FiresPromised ==
  ASSUME setup \in Setups, NEW next \in Nat, NEW now \in Nat,
         NEW due, due = {next} \cup CronIn(next, now)
  PROVE  /\ DueFires(next, now).fire = Promised(due, now)
         /\ DueFires(next, now).dropped =
              Cardinality(due) - Cardinality(DueFires(next, now).fire)
<1> DEFINE D == CronIn(next, now)
           recent == Recent(next, now)
           mine == Due(next, recent)
<1>1. /\ D \in SUBSET Nat /\ IsFiniteSet(D) /\ next \notin D
      /\ Keep \in Nat \ {0}
  BY CronInType, SetupType
<1>2. /\ due \in SUBSET Nat /\ IsFiniteSet(due) /\ due # {}
      /\ Cardinality(due) = 1 + Cardinality(D) /\ Cardinality(D) \in Nat
  BY <1>1, FS_AddElement, FS_CardinalityType
<1> HIDE DEF D
<1>3. /\ mine = due \/ mine = Newest(Keep, due)
      /\ Cardinality(recent) >= Keep => mine = Newest(Keep, due)
      /\ ~(Cardinality(recent) >= Keep) => mine = due /\ Cardinality(D) < Keep
  <2>1. recent \subseteq D
    BY DEF Recent, D
  <2>2. Cardinality(recent) \in Nat
    BY <1>1, <2>1, FS_Subset, FS_CardinalityType
  <2>3. CASE Cardinality(recent) < Keep
    <3>1. recent = D
      BY <2>3, RecentIsAll DEF D
    <3> QED
      BY <1>1, <2>2, <2>3, <3>1 DEF Due, D
  <2>4. CASE ~(Cardinality(recent) < Keep)
    <3>1. recent = Newest(Keep, due)
      BY <2>4, RecentIsNewest
    <3> QED
      BY <1>1, <2>2, <2>4, <3>1 DEF Due
  <2> QED
    BY <2>3, <2>4
<1>4. ~(Cardinality(recent) >= Keep) => Newest(Keep, due) = due
  <2> SUFFICES ASSUME ~(Cardinality(recent) >= Keep), NEW t \in due
               PROVE  Above(t, due) < Keep
    BY DEF Newest, Above
  <2>1. Cardinality(D) < Keep
    BY <1>3
  <2>2. Above(t, due) \in 0 .. Cardinality(due) - 1
    BY <1>2, AboveRanks
  <2> QED
    BY <1>1, <1>2, <2>1, <2>2
<1>5. mine = Newest(Keep, due)
  BY <1>3, <1>4
<1> HIDE DEF mine, recent
<1>6. Chosen(mine, now) = Promised(due, now)
  <2>1. CASE CatchUp = "all"
    BY <1>5, <2>1, SetupType DEF Chosen, Promised
  <2>2. CASE CatchUp # "all"
    <3>1. Newest(1, due) = {Max(due)}
      BY <1>2, NewestIsMax
    <3>2. mine = {Max(due)} /\ Max(due) \in Nat
      BY <1>2, <1>5, <2>2, <3>1, SetupType, NewestIsMax
    <3>3. IsFiniteSet(mine)
      BY <3>2, FS_Singleton
    <3>4. Max(mine) = Max(due)
      BY <3>2, <3>3, NewestIsMax
    <3> QED
      BY <2>2, <3>1, <3>4, SetupType DEF Chosen, Promised
  <2> QED
    BY <2>1, <2>2
<1>7. DueFires(next, now).fire = Chosen(mine, now)
  BY DEF DueFires, mine, recent
<1>8. DueFires(next, now).dropped =
        (IF Cardinality(recent) >= Keep THEN 1 + Cardinality(D) ELSE Cardinality(mine))
          - Cardinality(Chosen(mine, now))
  BY DEF DueFires, mine, recent, D
<1>9. (IF Cardinality(recent) >= Keep THEN 1 + Cardinality(D) ELSE Cardinality(mine))
        = Cardinality(due)
  BY <1>2, <1>3
<1> QED
  BY <1>6, <1>7, <1>8, <1>9

-----------------------------------------------------------------------------
(***************************************************************************)
(* Type correctness.                                                       *)
(***************************************************************************)
Members(s) == {s[i] : i \in DOMAIN s}

\* an empty sequence has none.
LEMMA NoMembers == Members(<<>>) = {}
BY EmptySeq DEF Members

\* the members of the sequences a tick works off.
LEMMA MembersOf ==
  ASSUME NEW T, NEW s \in Seq(T)
  PROVE  /\ Members(s) \subseteq T
         /\ Members(<<>>) = {}
         /\ s # <<>> => /\ Head(s) \in Members(s) /\ s[Len(s)] \in Members(s)
                        /\ Tail(s) \in Seq(T)
                        /\ Members(Tail(s)) \subseteq Members(s)
<1>1. DOMAIN s = 1 .. Len(s) /\ Len(s) \in Nat /\ \A i \in DOMAIN s : s[i] \in T
  BY ElementOfSeq, LenProperties
<1>2. DOMAIN <<>> = {}
  BY EmptySeq
<1>3. ASSUME s # <<>>
      PROVE  /\ Head(s) \in Members(s) /\ s[Len(s)] \in Members(s)
             /\ Tail(s) \in Seq(T)
             /\ Members(Tail(s)) \subseteq Members(s)
  <2>1. Len(s) # 0
    BY <1>3, EmptySeq
  <2>2. 1 \in DOMAIN s /\ Len(s) \in DOMAIN s /\ Head(s) = s[1]
    BY <1>1, <1>3, <2>1, HeadTailProperties
  <2>3. /\ Tail(s) \in Seq(T) /\ Len(Tail(s)) = Len(s) - 1
        /\ \A i \in 1 .. Len(Tail(s)) : Tail(s)[i] = s[i + 1]
    BY <1>3, HeadTailProperties
  <2>4. DOMAIN Tail(s) = 1 .. Len(Tail(s))
    BY <2>3, LenProperties
  <2>5. \A i \in DOMAIN Tail(s) : Tail(s)[i] = s[i + 1] /\ i + 1 \in DOMAIN s
    BY <1>1, <2>3, <2>4
  <2> QED
    BY <2>2, <2>3, <2>5 DEF Members
<1> QED
  BY <1>1, <1>2, <1>3 DEF Members

\* a schedule keeps its setup, and with it its cron times.
LEMMA SetupStays ==
  ASSUME [Next]_vars
  PROVE  /\ setup' = setup /\ Period' = Period /\ CatchUp' = CatchUp /\ Overlap' = Overlap
         /\ Times' = Times /\ Cron' = Cron /\ \A t : SlotOf(t)' = SlotOf(t)
<1>1. setup' = setup
  BY DEF Next, vars
<1> QED
  BY <1>1 DEF Period, CatchUp, Overlap, Times, Cron, SlotOf

\* the next run is a cron time after now, and at most a period after it.
LEMMA NextRunType ==
  ASSUME TypeOK, NEW now \in Nat
  PROVE  /\ SlotOf(now) \in Nat /\ SlotOf(now) <= now
         /\ NextRun(now) \in Nat \ {0} /\ now < NextRun(now)
         /\ NextRun(now) = SlotOf(now) + Period
         /\ NextRun(now) % Period = 0
<1>1. Period \in Nat \ {0}
  BY SetupType DEF TypeOK
<1>2. SlotOf(now) = Floor(now, Period)
  BY SlotIsFloor
<1>3. /\ Floor(now, Period) \in Nat /\ Floor(now, Period) <= now
      /\ now < Floor(now, Period) + Period
      /\ Floor(now, Period) % Period = 0
  BY <1>1, FloorOf
<1>4. (Floor(now, Period) + Period) % Period = 0
  BY <1>1, <1>3, NextMultiple
<1> QED
  BY <1>1, <1>2, <1>3, <1>4 DEF NextRun

\* what a pass plans is due: next_run_at, or a cron time after it.
LEMMA FiresAreDue ==
  ASSUME TypeOK, NEW r \in Replicas, DueAt(r),
         NEW S, S \subseteq DueFires(schedule.next, tick[r].now).fire
  PROVE  /\ IsFiniteSet(S) /\ Cardinality(S) \in Nat
         /\ \A t \in S : /\ t \in Times /\ t <= tick[r].now
                         /\ t = schedule.next \/ (t \in Cron /\ schedule.next < t)
<1> DEFINE next == schedule.next
           now == tick[r].now
           due == {next} \cup CronIn(next, now)
<1>1. setup \in Setups /\ next \in Nat \ {0} /\ now \in Nat /\ next <= now /\ now <= clock
      /\ clock \in 0 .. MaxTime
  BY DEF TypeOK, DueAt
<1>2. IsFiniteSet(due) /\ \A t \in CronIn(next, now) : t \in Cron /\ next < t /\ t <= now
  BY <1>1, CronInType, FS_AddElement
<1>3. DueFires(next, now).fire = Promised(due, now)
  BY <1>1, FiresPromised
<1>4. Promised(due, now) \subseteq due
  BY <1>1, SetupType DEF Promised, Newest
<1>5. S \subseteq due
  BY <1>3, <1>4
<1>6. next \in Times
  BY <1>1, SetupType, SchedulesAssumption DEF Times
<1>7. Cron \subseteq Times
  BY DEF Cron
<1>8. IsFiniteSet(S) /\ Cardinality(S) \in Nat
  BY <1>2, <1>5, FS_Subset, FS_CardinalityType
<1>9. ASSUME NEW t \in S
      PROVE  /\ t \in Times /\ t <= now
             /\ t = next \/ (t \in Cron /\ next < t)
  <2>1. t = next \/ t \in CronIn(next, now)
    BY <1>5
  <2> QED
    BY <1>1, <1>2, <1>6, <1>7, <2>1
<1> QED
  BY <1>8, <1>9

\* the plan of a pass is a sequence of its fires.
LEMMA PlanType ==
  ASSUME TypeOK, NEW r \in Replicas, DueAt(r),
         NEW S, S \subseteq DueFires(schedule.next, tick[r].now).fire,
         NEW k \in Nat, k <= Cardinality(S)
  PROVE  /\ Ordered(S) \in Seq(Times) /\ Len(Ordered(S)) = Cardinality(S)
         /\ Members(Ordered(S)) \subseteq S
         /\ SubSeq(Ordered(S), 1, k) \in Seq(Times) /\ Len(SubSeq(Ordered(S), 1, k)) = k
         /\ Members(SubSeq(Ordered(S), 1, k)) \subseteq S
<1> DEFINE n == Cardinality(S)
           s == Ordered(S)
           p == SubSeq(s, 1, k)
<1>1. IsFiniteSet(S) /\ n \in Nat /\ S \subseteq Times
  BY FiresAreDue
<1>2. S \in SUBSET Nat
  BY <1>1, SetupType DEF TypeOK
<1>3. s \in [1 .. n -> S]
  BY <1>1, <1>2, OrderedType
<1> HIDE DEF n, s
<1>4. s \in Seq(S) /\ Len(s) = n /\ s \in Seq(Times)
  BY <1>1, <1>3
<1>5. Members(s) \subseteq S
  BY <1>4, MembersOf
<1>6. \A i \in 1 .. k : s[i] \in S
  BY <1>1, <1>3 DEF n
<1>7. p \in Seq(S) /\ Len(p) = IF 1 <= k THEN k - 1 + 1 ELSE 0
  BY <1>6, SubSeqProperties
<1>8. Len(p) = k /\ Members(p) \subseteq S
  <2>1. Members(p) \subseteq S
    BY <1>7, MembersOf
  <2>2. Len(p) = k
    BY <1>7
  <2> QED
    BY <2>1, <2>2
<1>9. p \in Seq(Times)
  BY <1>1, <1>7
<1> QED
  BY <1>4, <1>5, <1>8, <1>9 DEF n, s

\* one replica's tick changes, to a record of the type.
LEMMA TickType ==
  ASSUME TypeOK, NEW r \in Replicas,
         NEW pc \in {"idle", "plan", "create", "enqueue"}, NEW now \in Nat, now <= clock,
         NEW todo \in Seq(Times),
         pc \in {"idle", "plan"} => todo = <<>>, pc = "enqueue" => todo # <<>>,
         tick' = [tick EXCEPT ![r] = [pc |-> pc, now |-> now, todo |-> todo]],
         Times' = Times, clock' = clock
  PROVE  /\ tick' \in [Replicas -> [pc : {"idle", "plan", "create", "enqueue"}, now : Nat,
                                    todo : Seq(Times)]]
         /\ \A q \in Replicas :
              /\ tick'[q].now <= clock'
              /\ tick'[q].pc \in {"idle", "plan"} => tick'[q].todo = <<>>
              /\ tick'[q].pc = "enqueue" => tick'[q].todo # <<>>
<1> DEFINE rec == [pc |-> pc, now |-> now, todo |-> todo]
<1>1. rec \in [pc : {"idle", "plan", "create", "enqueue"}, now : Nat, todo : Seq(Times)]
  OBVIOUS
<1>2. rec.pc = pc /\ rec.now = now /\ rec.todo = todo
  OBVIOUS
<1>3. tick' = [tick EXCEPT ![r] = rec]
  OBVIOUS
<1> HIDE DEF rec
<1>4. tick' \in [Replicas -> [pc : {"idle", "plan", "create", "enqueue"}, now : Nat,
                              todo : Seq(Times)]]
  BY <1>1, <1>3 DEF TypeOK
<1>5. ASSUME NEW q \in Replicas
      PROVE  /\ tick'[q].now <= clock'
             /\ tick'[q].pc \in {"idle", "plan"} => tick'[q].todo = <<>>
             /\ tick'[q].pc = "enqueue" => tick'[q].todo # <<>>
  <2>1. CASE q = r
    <3>1. tick'[q] = rec
      BY <1>3, <2>1 DEF TypeOK
    <3> QED
      BY <1>2, <3>1
  <2>2. CASE q # r
    <3>1. tick'[q] = tick[q]
      BY <1>3, <2>2 DEF TypeOK
    <3> QED
      BY <3>1 DEF TypeOK
  <2> QED
    BY <2>1, <2>2
<1> QED
  BY <1>4, <1>5

\* a tick that ends, or dies, forgets what it planned.
LEMMA NoTickType ==
  ASSUME TypeOK, NEW r \in Replicas, tick' = [tick EXCEPT ![r] = NoTick],
         Times' = Times, clock' = clock
  PROVE  /\ tick' \in [Replicas -> [pc : {"idle", "plan", "create", "enqueue"}, now : Nat,
                                    todo : Seq(Times)]]
         /\ \A q \in Replicas :
              /\ tick'[q].now <= clock'
              /\ tick'[q].pc \in {"idle", "plan"} => tick'[q].todo = <<>>
              /\ tick'[q].pc = "enqueue" => tick'[q].todo # <<>>
<1>1. <<>> \in Seq(Times)
  BY EmptySeq
<1>2. clock \in Nat
  BY SchedulesAssumption DEF TypeOK
<1>3. 0 <= clock
  BY <1>2
<1> QED
  BY <1>1, <1>3, TickType DEF NoTick

\* every action keeps every variable well typed.
LEMMA NextType ==
  ASSUME TypeOK, [Next]_vars
  PROVE  TypeOK'
<1>0. /\ setup' = setup /\ Times' = Times /\ Cron' = Cron /\ setup \in Setups
      /\ clock \in Nat /\ MaxTime \in Nat
  BY SetupStays, SchedulesAssumption DEF TypeOK
<1> DEFINE Ticks == [Replicas -> [pc : {"idle", "plan", "create", "enqueue"}, now : Nat,
                                  todo : Seq(Times)]]
           TicksOK ==
             /\ tick' \in Ticks
             /\ \A q \in Replicas :
                  /\ tick'[q].now <= clock'
                  /\ tick'[q].pc \in {"idle", "plan"} => tick'[q].todo = <<>>
                  /\ tick'[q].pc = "enqueue" => tick'[q].todo # <<>>
           ScheduleOK == schedule' \in [next : Nat \ {0}, last : Times \cup {None},
                                        enabled : BOOLEAN]
           SlotsOK == slots' \in [Cron -> {"open", "skipped", "fired", "dropped", "failed"}]
           RunOK == run' \in [Times -> {"none", "created", "queued", "running", "ended"}]
<1>1. ASSUME clock' \in 0 .. MaxTime, ScheduleOK, RunOK, SlotsOK, TicksOK
      PROVE  TypeOK'
  BY <1>0, <1>1 DEF TypeOK
<1>2. /\ schedule' = schedule => ScheduleOK
      /\ run' = run => RunOK
      /\ slots' = slots => SlotsOK
      /\ clock' = clock => clock' \in 0 .. MaxTime
      /\ tick' = tick /\ clock <= clock' /\ clock' \in Nat => TicksOK
  <2>1. tick' = tick /\ clock <= clock' /\ clock' \in Nat => TicksOK
    <3> SUFFICES ASSUME tick' = tick, clock <= clock', clock' \in Nat
                 PROVE  TicksOK
      OBVIOUS
    <3>1. \A q \in Replicas : tick[q].now \in Nat /\ tick[q].now <= clock
      BY DEF TypeOK
    <3>2. \A q \in Replicas : tick[q].now <= clock'
      BY <1>0, <3>1
    <3> QED
      BY <3>2 DEF TypeOK
  <2> QED
    BY <2>1 DEF TypeOK
<1>3. ASSUME NEW r \in Replicas, tick' = [tick EXCEPT ![r] = NoTick], clock' = clock
      PROVE  TicksOK
  BY <1>0, <1>3, NoTickType
<1>4. ASSUME NEW r \in Replicas, clock' = clock,
             NEW pc \in {"idle", "plan", "create", "enqueue"}, NEW now \in Nat, now <= clock,
             NEW todo \in Seq(Times),
             pc \in {"idle", "plan"} => todo = <<>>, pc = "enqueue" => todo # <<>>,
             tick' = [tick EXCEPT ![r] = [pc |-> pc, now |-> now, todo |-> todo]]
      PROVE  TicksOK
  BY <1>0, <1>4, TickType
<1>5. ASSUME NEW S, NEW how \in {"skipped", "failed"}, slots' = Mark(S, how)
      PROVE  SlotsOK
  BY <1>5 DEF Mark, TypeOK
<1>6. \A r \in Replicas : /\ tick[r].now \in Nat /\ tick[r].now <= clock
                          /\ tick[r].todo \in Seq(Times)
                          /\ tick[r] = [pc |-> tick[r].pc, now |-> tick[r].now,
                                        todo |-> tick[r].todo]
  BY DEF TypeOK
<1>7. ASSUME NEW now \in Nat, NEW j \in Nat, NEW last \in Times \cup {None},
             schedule' = [schedule EXCEPT !.next = NextRun(now) + j, !.last = last]
      PROVE  ScheduleOK
  <2>1. NextRun(now) + j \in Nat \ {0}
    BY NextRunType
  <2> QED
    BY <1>7, <2>1 DEF TypeOK
<1>8. ASSUME NEW now \in Nat, schedule' = [schedule EXCEPT !.next = NextRun(now)]
      PROVE  ScheduleOK
  <2>1. NextRun(now) \in Nat \ {0}
    BY NextRunType
  <2> QED
    BY <1>8, <2>1 DEF TypeOK
<1> HIDE DEF TicksOK, ScheduleOK, SlotsOK, RunOK, Ticks
<1>9. CASE UNCHANGED vars
  BY <1>0, <1>1, <1>2, <1>9 DEF vars
<1>10. ASSUME NEW r \in Replicas, Poll(r)
       PROVE  TypeOK'
  <2>1. tick' = [tick EXCEPT ![r] = [pc |-> "plan", now |-> clock, todo |-> <<>>]]
        /\ clock' = clock
    BY <1>10 DEF Poll
  <2>2. TicksOK
    <3>1. <<>> \in Seq(Times) /\ clock <= clock
      BY <1>0, EmptySeq
    <3> QED
      BY <1>0, <1>4, <2>1, <3>1
  <2> QED
    BY <1>0, <1>1, <1>2, <1>10, <2>2 DEF Poll
<1>11. ASSUME NEW r \in Replicas, PlanNothing(r) \/ EndTick(r) \/ Crash(r)
       PROVE  TypeOK'
  BY <1>0, <1>1, <1>2, <1>3, <1>11 DEF PlanNothing, EndTick, Crash
<1>12. ASSUME NEW r \in Replicas, PlanSkip(r)
       PROVE  TypeOK'
  BY <1>0, <1>1, <1>2, <1>3, <1>5, <1>6, <1>8, <1>12 DEF PlanSkip
<1>13. ASSUME NEW r \in Replicas, NEW j \in 0 .. Jitter, Plan(r, j)
       PROVE  TypeOK'
  <2> DEFINE now == tick[r].now
             fires == DueFires(schedule.next, now).fire
             S == {f \in fires : run[f] = "none"}
             todo == Ordered(S)
  <2>1. DueAt(r) /\ S \subseteq fires
    BY <1>13 DEF Plan
  <2>2. todo \in Seq(Times)
    <3>1. Cardinality(S) \in Nat
      BY <2>1, FiresAreDue
    <3> QED
      BY <2>1, <3>1, PlanType
  <2>3. todo = Planned(fires)
    BY DEF Planned
  <2> HIDE DEF todo, fires
  <2>4. TicksOK
    <3>1. tick' = [tick EXCEPT ![r] = [pc |-> "create", now |-> now, todo |-> todo]]
          /\ clock' = clock
      BY <1>13, <2>3 DEF Plan, fires
    <3> QED
      BY <1>4, <1>6, <2>2, <3>1
  <2>5. ScheduleOK
    <3>1. Last(todo) \in Times \cup {None}
      <4>1. schedule.last \in Times \cup {None}
        BY DEF TypeOK
      <4>2. todo # <<>> => todo[Len(todo)] \in Times
        BY <2>2, MembersOf
      <4> QED
        BY <4>1, <4>2 DEF Last
    <3>2. schedule' = [schedule EXCEPT !.next = NextRun(now) + j, !.last = Last(todo)]
      BY <1>13, <2>3 DEF Plan, fires
    <3>3. j \in Nat
      BY SchedulesAssumption
    <3> QED
      BY <1>6, <1>7, <3>1, <3>2, <3>3
  <2>6. SlotsOK
    <3>1. PICK A, B :
            slots' = [t \in Cron |-> IF t \in A THEN "fired"
                                     ELSE IF t \in B THEN "dropped" ELSE slots[t]]
      BY <1>13 DEF Plan
    <3>2. \A t \in Cron : slots[t] \in {"open", "skipped", "fired", "dropped", "failed"}
      BY DEF TypeOK
    <3> QED
      BY <3>1, <3>2 DEF SlotsOK
  <2> QED
    BY <1>0, <1>1, <1>2, <1>13, <2>4, <2>5, <2>6 DEF Plan
<1>14. ASSUME NEW r \in Replicas, NEW k \in 0 .. MaxCatchUp, PlanFails(r, k)
       PROVE  TypeOK'
  <2> DEFINE now == tick[r].now
             fires == DueFires(schedule.next, now).fire
             todo == SubSeq(Ordered(fires), 1, k)
  <2>1. todo \in Seq(Times)
    <3>1. DueAt(r) /\ k < Cardinality(fires) /\ k \in Nat
      BY <1>14 DEF PlanFails
    <3>2. Cardinality(fires) \in Nat
      BY <3>1, FiresAreDue
    <3>3. k <= Cardinality(fires)
      BY <3>1, <3>2
    <3> QED
      BY <3>1, <3>3, PlanType
  <2>2. /\ tick' = [tick EXCEPT ![r] = [pc |-> "create", now |-> now, todo |-> todo]]
        /\ clock' = clock
    BY <1>14 DEF PlanFails
  <2> HIDE DEF todo, fires
  <2>3. TicksOK
    BY <1>4, <1>6, <2>1, <2>2
  <2> QED
    BY <1>0, <1>1, <1>2, <1>5, <1>6, <1>8, <1>14, <2>3 DEF PlanFails
<1>15. ASSUME NEW r \in Replicas, Create(r) \/ StartFails(r) \/ Enqueue(r)
       PROVE  TypeOK'
  <2> DEFINE now == tick[r].now
             todo == tick[r].todo
  <2>1. todo # <<>> /\ todo \in Seq(Times) /\ clock' = clock
    BY <1>6, <1>15 DEF Create, StartFails, Enqueue, TypeOK
  <2>2. /\ Tail(todo) \in Seq(Times) /\ Head(todo) \in Times
    BY <2>1, MembersOf
  <2>3. TicksOK
    <3>1. CASE tick' = [tick EXCEPT ![r] = [pc |-> "create", now |-> now, todo |-> Tail(todo)]]
      BY <1>4, <1>6, <2>1, <2>2, <3>1
    <3>2. CASE tick' = [tick EXCEPT ![r] = [pc |-> "enqueue", now |-> now, todo |-> todo]]
      BY <1>4, <1>6, <2>1, <2>2, <3>2
    <3>3. /\ Create(r) => tick[r].pc = "create"
          /\ tick[r] = [pc |-> tick[r].pc, now |-> now, todo |-> todo]
      BY <1>6 DEF Create
    <3>4. tick' = [tick EXCEPT ![r].todo = Tail(todo)] /\ tick[r].pc = "create"
            => tick' = [tick EXCEPT ![r] = [pc |-> "create", now |-> now, todo |-> Tail(todo)]]
      BY <3>3
    <3>5. tick' = [tick EXCEPT ![r].pc = "enqueue"]
            => tick' = [tick EXCEPT ![r] = [pc |-> "enqueue", now |-> now, todo |-> todo]]
      BY <3>3
    <3>6. Enqueue(r) \/ StartFails(r)
            => tick' = [tick EXCEPT ![r] = [pc |-> "create", now |-> now, todo |-> Tail(todo)]]
      BY <3>3 DEF Enqueue, StartFails, TypeOK
    <3>7. \/ tick' = [tick EXCEPT ![r].todo = Tail(todo)] /\ tick[r].pc = "create"
          \/ tick' = [tick EXCEPT ![r].pc = "enqueue"]
          \/ Enqueue(r) \/ StartFails(r)
      BY <1>15, <3>3 DEF Create
    <3> QED
      BY <3>1, <3>2, <3>4, <3>5, <3>6, <3>7
  <2>4. RunOK
    <3>1. \/ run' = run
          \/ run' = [run EXCEPT ![Head(todo)] = "created"]
          \/ run' = [run EXCEPT ![Head(todo)] = "queued"]
      BY <1>15 DEF Create, StartFails, Enqueue
    <3> QED
      BY <2>2, <3>1 DEF RunOK, TypeOK
  <2> QED
    BY <1>0, <1>1, <1>2, <1>15, <2>1, <2>3, <2>4 DEF Create, StartFails, Enqueue
<1>16. CASE Advance
  <2>1. clock' = clock + 1 /\ clock < MaxTime /\ UNCHANGED <<schedule, run, slots, tick>>
    BY <1>16 DEF Advance
  <2>2. clock' \in 0 .. MaxTime /\ clock <= clock' /\ clock' \in Nat
    BY <1>0, <2>1
  <2> QED
    BY <1>1, <1>2, <2>1, <2>2
<1>17. ASSUME NEW t \in Times, StartRun(t) \/ EndRun(t)
       PROVE  TypeOK'
  <2>1. RunOK
    BY <1>17 DEF StartRun, EndRun, RunOK, TypeOK
  <2> QED
    BY <1>0, <1>1, <1>2, <1>17, <2>1 DEF StartRun, EndRun
<1>18. CASE Switch
  <2>1. ScheduleOK
    BY <1>18 DEF Switch, ScheduleOK, TypeOK
  <2> QED
    BY <1>0, <1>1, <1>2, <1>18, <2>1 DEF Switch
<1>19. CASE Redeploy
  BY <1>0, <1>1, <1>2, <1>8, <1>19 DEF Redeploy
<1> QED
  BY <1>9, <1>10, <1>11, <1>12, <1>13, <1>14, <1>15, <1>16, <1>17, <1>18, <1>19
     DEF Next, Tick

\* nothing has happened yet.
LEMMA InitType ==
  ASSUME Init
  PROVE  TypeOK
<1>1. setup \in Setups /\ Period \in Nat \ {0} /\ MaxTime \in Nat
  BY SetupType, SchedulesAssumption DEF Init
<1>2. <<>> \in Seq(Times)
  BY EmptySeq
<1> QED
  BY <1>1, <1>2 DEF Init, TypeOK, NoTick

\* Whatever the setup, what a replica has planned and not yet started is a sequence of
\* fire times, planned no later than now; only a tick past its transaction has any.
THEOREM ScheduleTypes == Spec => []TypeOK
<1>1. Init => TypeOK
  BY InitType
<1>2. TypeOK /\ [Next]_vars => TypeOK'
  BY NextType
<1> QED
  BY <1>1, <1>2, PTL DEF Spec

\* What a due schedule starts and counts as dropped is what its policy promises, for
\* every period, catch-up bound, grace and jitter.
THEOREM PolicyHolds == Spec => []PolicyIsKept
<1>1. TypeOK => PolicyIsKept
  <2> SUFFICES ASSUME TypeOK, schedule.next <= clock
               PROVE  LET due == DueSlots(clock)
                          d == DueFires(schedule.next, clock)
                      IN  /\ d.fire = Promised(due, clock)
                          /\ d.dropped = Cardinality(due) - Cardinality(d.fire)
    BY DEF PolicyIsKept
  <2>1. setup \in Setups /\ schedule.next \in Nat /\ clock \in Nat
    BY SchedulesAssumption DEF TypeOK
  <2>2. DueSlots(clock) = {schedule.next} \cup CronIn(schedule.next, clock)
    BY DEF DueSlots
  <2> QED
    BY <2>1, <2>2, FiresPromised
<1> QED
  BY <1>1, ScheduleTypes, PTL

-----------------------------------------------------------------------------
(***************************************************************************)
(* One run per slot.  OnePerSlot is not inductive: a fire that is planned  *)
(* has no run yet, and a tick may plan from a clock it read long ago.      *)
(* What is kept is that every fire that was planned or started lies in a   *)
(* slot before next_run_at's, so no pass can find its slot due again.      *)
(***************************************************************************)
\* The fires that have a run or that a replica is about to start.
Named ==
  {t \in Times : run[t] # "none" \/ \E r \in Replicas : t \in Members(tick[r].todo)}

SlotsKept ==
  /\ \A t \in Named : t <= clock /\ SlotOf(t) < SlotOf(schedule.next)
  /\ \A t, u \in Named : t # u => SlotOf(t) # SlotOf(u)

\* A step that plans nothing, after which the schedule is due no earlier than it was or
\* only after now.
Stays ==
  /\ Named' \subseteq Named
  /\ schedule'.next \in {schedule.next, NextRun(clock)}

\* A step that plans some of the due fires and moves the schedule past now.
Plans(r, S, j) ==
  /\ DueAt(r) /\ S \subseteq DueFires(schedule.next, tick[r].now).fire
  /\ Named' \subseteq Named \cup S
  /\ schedule'.next = NextRun(tick[r].now) + j

\* what a replica has left to start shrinks, or it plans.
LEMMA NamedAfter ==
  ASSUME TypeOK, Times' = Times, NEW r \in Replicas, NEW S, NEW todo, NEW rec,
         tick' = [tick EXCEPT ![r] = rec], rec.todo = todo,
         Members(todo) \subseteq S \cup Members(tick[r].todo),
         run' = run
  PROVE  Named' \subseteq Named \cup S
<1> SUFFICES ASSUME NEW t \in Times,
                    run[t] # "none" \/ \E q \in Replicas : t \in Members(tick'[q].todo)
             PROVE  t \in Named \cup S
  BY DEF Named
<1>1. ASSUME NEW q \in Replicas, t \in Members(tick'[q].todo)
      PROVE  t \in Named \cup S
  <2>1. CASE q = r
    <3>1. tick'[q].todo = todo
      BY <2>1 DEF TypeOK
    <3> QED
      BY <1>1, <3>1 DEF Named
  <2>2. CASE q # r
    <3>1. tick'[q] = tick[q]
      BY <2>2 DEF TypeOK
    <3> QED
      BY <1>1, <3>1 DEF Named
  <2> QED
    BY <2>1, <2>2
<1> QED
  BY <1>1 DEF Named

\* every step plans, or starts only what is planned.
LEMMA NextNamed ==
  ASSUME TypeOK, [Next]_vars
  PROVE  /\ clock <= clock' /\ clock' \in Nat
         /\ Stays \/ \E r \in Replicas, j \in 0 .. Jitter : \E S : Plans(r, S, j)
<1>0. /\ Times' = Times /\ clock \in Nat /\ MaxTime \in Nat /\ Members(<<>>) = {}
      /\ 0 \in 0 .. Jitter
  BY SetupStays, SchedulesAssumption, NoMembers DEF TypeOK
<1>1. clock <= clock' /\ clock' \in Nat
  <2>1. clock' = clock \/ clock' = clock + 1
    BY DEF Next, vars, Tick, Poll, PlanNothing, PlanSkip, Plan, PlanFails, Create, Enqueue,
           StartFails, EndTick, Crash, Advance, StartRun, EndRun, Switch, Redeploy
  <2> QED
    BY <1>0, <2>1
<1>2. ASSUME run' = run, tick' = tick, schedule'.next \in {schedule.next, NextRun(clock)}
      PROVE  Stays
  BY <1>0, <1>2 DEF Stays, Named
<1>3. ASSUME NEW r \in Replicas, Poll(r) \/ PlanNothing(r) \/ EndTick(r) \/ Crash(r) \/ StartFails(r)
      PROVE  Stays
  <2>1. PICK rec : /\ tick' = [tick EXCEPT ![r] = rec]
                   /\ Members(rec.todo) \subseteq Members(tick[r].todo)
    <3>1. CASE StartFails(r)
      <4>1. tick[r].todo \in Seq(Times) /\ tick[r].todo # <<>>
        BY <3>1 DEF StartFails, TypeOK
      <4>2. Members(Tail(tick[r].todo)) \subseteq Members(tick[r].todo)
        BY <4>1, MembersOf
      <4>3. [tick[r] EXCEPT !.pc = "create", !.todo = Tail(tick[r].todo)].todo
              = Tail(tick[r].todo)
        BY DEF TypeOK
      <4> QED
        BY <3>1, <4>2, <4>3 DEF StartFails
    <3>2. CASE Poll(r)
      <4>1. [pc |-> "plan", now |-> clock, todo |-> <<>>].todo = <<>>
        OBVIOUS
      <4> QED
        BY <1>0, <3>2, <4>1 DEF Poll
    <3>3. CASE PlanNothing(r) \/ EndTick(r) \/ Crash(r)
      BY <1>0, <3>3 DEF PlanNothing, EndTick, Crash, NoTick
    <3> QED
      BY <1>3, <3>1, <3>2, <3>3
  <2>2. run' = run /\ schedule' = schedule
    BY <1>3 DEF Poll, PlanNothing, EndTick, Crash, StartFails
  <2>3. Named' \subseteq Named \cup {}
    BY <1>0, <2>1, <2>2, NamedAfter
  <2> QED
    BY <2>2, <2>3 DEF Stays
<1>4. ASSUME NEW r \in Replicas, PlanSkip(r)
      PROVE  Plans(r, {}, 0)
  <2>1. Named' \subseteq Named \cup {}
    <3>1. tick' = [tick EXCEPT ![r] = NoTick] /\ run' = run
      BY <1>4 DEF PlanSkip
    <3>2. NoTick.todo = <<>> /\ Members(<<>>) \subseteq {} \cup Members(tick[r].todo)
      BY <1>0 DEF NoTick
    <3> QED
      BY <1>0, <3>1, <3>2, NamedAfter
  <2>2. schedule'.next = NextRun(tick[r].now) /\ NextRun(tick[r].now) \in Nat
    BY <1>4, NextRunType DEF PlanSkip, TypeOK
  <2> QED
    BY <1>4, <2>1, <2>2 DEF PlanSkip, Plans
<1>5. ASSUME NEW r \in Replicas, NEW j \in 0 .. Jitter, Plan(r, j)
      PROVE  \E S : Plans(r, S, j)
  <2> DEFINE now == tick[r].now
             fires == DueFires(schedule.next, now).fire
             S == {f \in fires : run[f] = "none"}
             todo == Ordered(S)
  <2>1. DueAt(r) /\ S \subseteq fires /\ run' = run
    BY <1>5 DEF Plan
  <2>2. Members(todo) \subseteq S
    <3>1. Cardinality(S) \in Nat /\ 0 <= Cardinality(S)
      BY <2>1, FiresAreDue
    <3> QED
      BY <2>1, <3>1, PlanType
  <2>3. todo = Planned(fires)
    BY DEF Planned
  <2> HIDE DEF todo, fires, S
  <2>4. /\ tick' = [tick EXCEPT ![r] = [pc |-> "create", now |-> now, todo |-> todo]]
        /\ schedule'.next = NextRun(now) + j
    BY <1>5, <2>3 DEF Plan, fires, TypeOK
  <2>5. Named' \subseteq Named \cup S
    <3>0. [pc |-> "create", now |-> now, todo |-> todo].todo = todo
      OBVIOUS
    <3>1. PICK rec : tick' = [tick EXCEPT ![r] = rec] /\ rec.todo = todo
      BY <2>4, <3>0
    <3> QED
      BY <1>0, <2>1, <2>2, <3>1, NamedAfter
  <2> QED
    BY <2>1, <2>4, <2>5 DEF Plans, fires
<1>6. ASSUME NEW r \in Replicas, NEW k \in 0 .. MaxCatchUp, PlanFails(r, k)
      PROVE  \E S : Plans(r, S, 0)
  <2> DEFINE now == tick[r].now
             fires == DueFires(schedule.next, now).fire
             todo == SubSeq(Ordered(fires), 1, k)
  <2>1. DueAt(r) /\ k < Cardinality(fires) /\ k \in Nat /\ run' = run
    BY <1>6 DEF PlanFails
  <2>2. Members(todo) \subseteq fires
    <3>1. Cardinality(fires) \in Nat
      BY <2>1, FiresAreDue
    <3>2. k <= Cardinality(fires)
      BY <2>1, <3>1
    <3> QED
      BY <2>1, <3>2, PlanType
  <2>3. /\ tick' = [tick EXCEPT ![r] = [pc |-> "create", now |-> now, todo |-> todo]]
        /\ schedule'.next = NextRun(now)
    BY <1>6 DEF PlanFails, TypeOK
  <2> HIDE DEF todo, fires
  <2>4. Named' \subseteq Named \cup fires
    <3>0. [pc |-> "create", now |-> now, todo |-> todo].todo = todo
      OBVIOUS
    <3>1. PICK rec : tick' = [tick EXCEPT ![r] = rec] /\ rec.todo = todo
      BY <2>3, <3>0
    <3> QED
      BY <1>0, <2>1, <2>2, <3>1, NamedAfter
  <2>5. NextRun(now) = NextRun(now) + 0
    <3>1. NextRun(now) \in Nat
      BY NextRunType DEF TypeOK
    <3> QED
      BY <3>1
  <2> QED
    BY <2>1, <2>3, <2>4, <2>5 DEF Plans, fires
<1>7. ASSUME NEW r \in Replicas, Create(r) \/ Enqueue(r)
      PROVE  Stays
  <2> DEFINE todo == tick[r].todo
  <2>1. todo \in Seq(Times) /\ todo # <<>> /\ schedule' = schedule
    BY <1>7 DEF Create, Enqueue, TypeOK
  <2>2. Head(todo) \in Members(todo) /\ Members(Tail(todo)) \subseteq Members(todo)
    BY <2>1, MembersOf
  <2>3. \A q \in Replicas : Members(tick'[q].todo) \subseteq Members(tick[q].todo)
    <3>1. ASSUME NEW q \in Replicas
          PROVE  tick'[q].todo = tick[q].todo \/ (q = r /\ tick'[q].todo = Tail(todo))
      <4>1. PICK rec : tick' = [tick EXCEPT ![r] = rec] /\ rec.todo \in {todo, Tail(todo)}
        <5>1. tick[r] \in [pc : {"idle", "plan", "create", "enqueue"}, now : Nat,
                           todo : Seq(Times)]
          BY DEF TypeOK
        <5>2. CASE tick' = [tick EXCEPT ![r].pc = "enqueue"]
          <6>1. [tick[r] EXCEPT !.pc = "enqueue"].todo = todo
            BY <5>1
          <6> QED
            BY <5>2, <6>1
        <5>3. CASE tick' = [tick EXCEPT ![r].todo = Tail(@)]
          <6>1. [tick[r] EXCEPT !.todo = Tail(todo)].todo = Tail(todo)
            BY <5>1
          <6> QED
            BY <5>3, <6>1
        <5>4. CASE tick' = [tick EXCEPT ![r].pc = "create", ![r].todo = Tail(@)]
          <6>1. /\ tick'[r].todo = Tail(todo)
                /\ tick' = [tick EXCEPT ![r] = tick'[r]]
            BY <5>1, <5>4 DEF TypeOK
          <6> QED
            BY <6>1
        <5> QED
          BY <1>7, <5>2, <5>3, <5>4 DEF Create, Enqueue
      <4> QED
        BY <4>1 DEF TypeOK
    <3> QED
      BY <2>2, <3>1
  <2>4. \A t \in Times : run'[t] # "none" => run[t] # "none" \/ t = Head(todo)
    BY <1>7 DEF Create, Enqueue, TypeOK
  <2>5. \A t \in Times : run'[t] # "none" => t \in Named
    BY <2>2, <2>4 DEF Named
  <2>6. Named' \subseteq Named
    BY <1>0, <2>3, <2>5 DEF Named
  <2> QED
    BY <2>1, <2>6 DEF Stays
<1>8. ASSUME NEW t \in Times, StartRun(t) \/ EndRun(t)
      PROVE  Stays
  <2>1. /\ tick' = tick /\ schedule' = schedule
        /\ \A u \in Times : run'[u] # "none" => run[u] # "none"
    BY <1>8 DEF StartRun, EndRun, TypeOK
  <2> QED
    BY <1>0, <2>1 DEF Stays, Named
<1>9. CASE Advance \/ Switch \/ Redeploy \/ UNCHANGED vars
  BY <1>2, <1>9 DEF Advance, Switch, Redeploy, vars, TypeOK
<1> HIDE DEF Stays, Plans
<1>10. Stays \/ \E r \in Replicas, j \in 0 .. Jitter : \E S : Plans(r, S, j)
  <2>1. ASSUME NEW r \in Replicas, Tick(r)
        PROVE  Stays \/ \E j \in 0 .. Jitter : \E S : Plans(r, S, j)
    BY <1>0, <1>3, <1>4, <1>5, <1>7, <2>1 DEF Tick
  <2>2. ASSUME NEW r \in Replicas, StartFails(r) \/ Crash(r)
        PROVE  Stays
    BY <1>3, <2>2
  <2>3. ASSUME NEW r \in Replicas, NEW k \in 0 .. MaxCatchUp, PlanFails(r, k)
        PROVE  \E j \in 0 .. Jitter : \E S : Plans(r, S, j)
    BY <1>0, <1>6, <2>3
  <2> QED
    BY <2>1, <2>2, <2>3, <1>8, <1>9 DEF Next
<1> QED
  BY <1>1, <1>10

\* the slots of two times, and of a time after the next run.
LEMMA SlotsGrow ==
  ASSUME TypeOK, NEW a \in Nat, NEW b \in Nat
  PROVE  /\ SlotOf(a) \in Nat /\ SlotOf(a) <= a
         /\ a <= b => SlotOf(a) <= SlotOf(b)
         /\ SlotOf(a) < SlotOf(NextRun(a) + b)
<1>1. Period \in Nat \ {0}
  BY SetupType DEF TypeOK
<1>2. SlotOf(a) = Floor(a, Period) /\ SlotOf(b) = Floor(b, Period)
  BY SlotIsFloor
<1>3. /\ NextRun(a) \in Nat /\ NextRun(a) % Period = 0
      /\ NextRun(a) = SlotOf(a) + Period /\ SlotOf(a) \in Nat /\ SlotOf(a) <= a
  BY NextRunType
<1>4. SlotOf(NextRun(a) + b) = Floor(NextRun(a) + b, Period)
  BY SlotIsFloor
<1>5. NextRun(a) + b \in Nat /\ NextRun(a) <= NextRun(a) + b
  BY <1>3
<1>6. NextRun(a) <= Floor(NextRun(a) + b, Period) /\ Floor(NextRun(a) + b, Period) \in Nat
  BY <1>1, <1>3, <1>5, FloorGrows, FloorOf
<1>7. a <= b => SlotOf(a) <= SlotOf(b)
  BY <1>1, <1>2, FloorGrows
<1>8. SlotOf(a) < SlotOf(NextRun(a) + b)
  BY <1>1, <1>3, <1>4, <1>6
<1> QED
  BY <1>3, <1>7, <1>8

\* every action keeps the planned fires in slots of their own, before the next run.
LEMMA NextSlots ==
  ASSUME TypeOK, TypeOK', SlotsKept, [Next]_vars
  PROVE  SlotsKept'
<1> DEFINE next == schedule.next
           new == schedule'.next
<1>0. /\ next \in Nat /\ new \in Nat /\ clock \in Nat /\ clock' \in Nat /\ clock <= clock'
      /\ Times \subseteq Nat /\ Times' = Times
      /\ \A t : SlotOf(t)' = SlotOf(t)
  BY NextNamed, SetupStays, SetupType, SchedulesAssumption DEF TypeOK
<1>1. ASSUME NEW T, Named' \subseteq T,
             \A t \in T : t \in Nat /\ t <= clock /\ SlotOf(t) < SlotOf(new),
             \A t, u \in T : t # u => SlotOf(t) # SlotOf(u)
      PROVE  SlotsKept'
  <2>1. ASSUME NEW t \in Named'
        PROVE  t <= clock' /\ SlotOf(t)' < SlotOf(new)
    <3>1. t \in Nat /\ t <= clock /\ SlotOf(t) < SlotOf(new)
      BY <1>1
    <3> QED
      BY <1>0, <3>1
  <2>2. \A t, u \in Named' : t # u => SlotOf(t)' # SlotOf(u)'
    BY <1>0, <1>1
  <2>3. SlotOf(schedule.next)' = SlotOf(new)
    BY <1>0 DEF SlotOf, Period
  <2> QED
    BY <1>0, <2>1, <2>2, <2>3 DEF SlotsKept
<1>2. \A t \in Named : /\ t \in Nat /\ t <= clock /\ SlotOf(t) < SlotOf(next)
                       /\ SlotOf(t) \in Nat
  BY <1>0, SlotsGrow DEF SlotsKept, Named
<1>3. CASE Stays
  <2>1. ASSUME NEW t \in Named
        PROVE  SlotOf(t) < SlotOf(new)
    <3>1. CASE new = next
      BY <1>2, <3>1
    <3>2. CASE new = NextRun(clock)
      <4>1. t \in Nat /\ t <= clock
        BY <1>2
      <4>2. /\ SlotOf(t) \in Nat /\ SlotOf(clock) \in Nat
            /\ SlotOf(t) <= SlotOf(clock)
            /\ SlotOf(clock) < SlotOf(NextRun(clock) + 0)
        BY <1>0, <4>1, SlotsGrow
      <4>3. NextRun(clock) + 0 = NextRun(clock) /\ SlotOf(new) \in Nat
        BY <1>0, <3>2, SlotsGrow
      <4> QED
        BY <3>2, <4>2, <4>3
    <3> QED
      BY <1>3, <3>1, <3>2 DEF Stays
  <2> QED
    BY <1>1, <1>2, <1>3, <2>1 DEF Stays, SlotsKept
<1>4. ASSUME NEW r \in Replicas, NEW S, NEW j \in 0 .. Jitter, Plans(r, S, j)
      PROVE  SlotsKept'
  <2> DEFINE now == tick[r].now
  <2>1. /\ now \in Nat /\ now <= clock /\ next <= now /\ j \in Nat
    BY <1>4 DEF Plans, DueAt, TypeOK
  <2>2. \A t \in S : /\ t \in Nat /\ t <= now
                     /\ t = next \/ (t \in Cron /\ next < t)
    BY <1>0, <1>4, FiresAreDue DEF Plans
  <2>3. /\ SlotOf(now) \in Nat /\ SlotOf(next) \in Nat /\ SlotOf(new) \in Nat
        /\ SlotOf(next) <= SlotOf(now) /\ SlotOf(now) < SlotOf(new)
        /\ SlotOf(next) <= next
    BY <1>0, <1>4, <2>1, SlotsGrow DEF Plans
  <2>4. \A t \in S : /\ SlotOf(t) \in Nat /\ SlotOf(t) <= SlotOf(now)
                     /\ SlotOf(next) <= SlotOf(t)
                     /\ t # next => SlotOf(t) = t
    <3> SUFFICES ASSUME NEW t \in S
                 PROVE  /\ SlotOf(t) \in Nat /\ SlotOf(t) <= SlotOf(now)
                        /\ SlotOf(next) <= SlotOf(t)
                        /\ t # next => SlotOf(t) = t
      OBVIOUS
    <3>1. t \in Nat /\ t <= now /\ next <= t
      BY <1>0, <2>2
    <3>2. SlotOf(t) \in Nat /\ SlotOf(t) <= SlotOf(now) /\ SlotOf(next) <= SlotOf(t)
      BY <1>0, <2>1, <3>1, SlotsGrow
    <3>3. t # next => SlotOf(t) = t
      BY <2>2, SlotIsFloor
    <3> QED
      BY <3>2, <3>3
  <2>5. ASSUME NEW t \in Named \cup S
        PROVE  t \in Nat /\ t <= clock /\ SlotOf(t) < SlotOf(new)
    <3>1. CASE t \in Named
      BY <1>2, <2>3, <3>1
    <3>2. CASE t \in S
      BY <1>0, <2>1, <2>2, <2>3, <2>4, <3>2
    <3> QED
      BY <3>1, <3>2
  <2>6. ASSUME NEW t \in Named \cup S, NEW u \in Named \cup S, t # u
        PROVE  SlotOf(t) # SlotOf(u)
    <3>1. CASE t \in Named /\ u \in Named
      BY <2>6, <3>1 DEF SlotsKept
    <3>2. ASSUME NEW x \in Named, NEW y \in S
          PROVE  SlotOf(x) # SlotOf(y)
      BY <1>2, <2>3, <2>4
    <3>3. CASE t \in S /\ u \in S
      <4>1. ASSUME NEW y \in S, y # next
            PROVE  SlotOf(y) # SlotOf(next)
        BY <1>0, <2>2, <2>3, <2>4, <4>1
      <4> QED
        BY <2>4, <2>6, <3>3, <4>1
    <3> QED
      BY <3>1, <3>2, <3>3
  <2> QED
    BY <1>1, <1>4, <2>5, <2>6 DEF Plans
<1> QED
  BY <1>3, <1>4, NextNamed

\* No cron time is given two runs, however many replicas poll, whenever they read their
\* clocks, whichever of them die between planning and starting, and although a
\* deployment moves the schedule back.
THEOREM OneRunPerSlot == Spec => []OnePerSlot
<1>1. Init => SlotsKept
  <2>1. Init => Named = {}
    <3>1. NoTick.todo = <<>>
      BY DEF NoTick
    <3> QED
      BY <3>1, NoMembers DEF Init, Named
  <2> QED
    BY <2>1 DEF SlotsKept
<1>2. TypeOK /\ TypeOK' /\ SlotsKept /\ [Next]_vars => SlotsKept'
  BY NextSlots
<1>3. SlotsKept => OnePerSlot
  BY DEF SlotsKept, OnePerSlot, Named
<1> QED
  BY <1>1, <1>2, <1>3, ScheduleTypes, PTL DEF Spec

-----------------------------------------------------------------------------
(***************************************************************************)
(* No slot is passed over.                                                 *)
(***************************************************************************)
\* the slots a pass leaves behind are those of its due fires, if the jitter is shorter
\* than the period.
LEMMA SlotsPassed ==
  ASSUME TypeOK, Jitter < Period, NEW now \in Nat, schedule.next <= now,
         NEW j \in 0 .. Jitter, NEW t \in Cron, t < SlotOf(NextRun(now) + j)
  PROVE  t < SlotOf(schedule.next) \/ t \in {SlotOf(d) : d \in DueSlots(now)}
<1> DEFINE next == schedule.next
           new == NextRun(now) + j
<1>1. /\ Period \in Nat \ {0} /\ next \in Nat /\ j \in Nat /\ Jitter \in Nat
      /\ t \in Nat /\ t % Period = 0 /\ SlotOf(t) = t
  BY SetupType, SlotIsFloor, SchedulesAssumption DEF TypeOK, Cron
<1>2. /\ NextRun(now) \in Nat /\ NextRun(now) % Period = 0
      /\ NextRun(now) = SlotOf(now) + Period
      /\ SlotOf(now) \in Nat /\ SlotOf(now) <= now
  BY NextRunType
<1>3. SlotOf(now) = Floor(now, Period) /\ SlotOf(next) = Floor(next, Period)
      /\ SlotOf(new) = Floor(new, Period)
  BY SlotIsFloor
<1>4. SlotOf(now) % Period = 0
  BY <1>1, <1>3, FloorOf
<1>5. SlotOf(new) = NextRun(now)
  <2>1. new \in Nat /\ NextRun(now) <= new /\ new < NextRun(now) + Period
    BY <1>1, <1>2
  <2>2. /\ Floor(new, Period) \in Nat /\ Floor(new, Period) % Period = 0
        /\ Floor(new, Period) <= new /\ NextRun(now) <= Floor(new, Period)
    BY <1>1, <1>2, <2>1, FloorOf, FloorGrows
  <2> HIDE DEF new
  <2>3. ~(NextRun(now) < Floor(new, Period))
    <3>1. NextRun(now) < Floor(new, Period) => NextRun(now) + Period <= Floor(new, Period)
      BY <1>1, <1>2, <2>2, MultiplesApart
    <3> QED
      BY <1>1, <1>2, <2>1, <2>2, <3>1
  <2> QED
    BY <1>2, <1>3, <2>2, <2>3
<1>6. t <= now
  <2>1. SlotOf(now) < t => SlotOf(now) + Period <= t
    BY <1>1, <1>2, <1>4, MultiplesApart
  <2> QED
    BY <1>1, <1>2, <1>5, <2>1
<1>7. CASE next < t
  <2>1. t \in CronIn(next, now)
    BY <1>6, <1>7 DEF CronIn
  <2> QED
    BY <1>1, <2>1 DEF DueSlots
<1>8. CASE ~(next < t)
  <2>1. t <= next
    BY <1>1, <1>8
  <2>2. t <= SlotOf(next) /\ SlotOf(next) \in Nat
    <3>1. t <= Floor(next, Period)
      BY <1>1, <2>1, FloorGrows
    <3>2. Floor(next, Period) \in Nat
      BY <1>1, FloorOf
    <3> QED
      BY <1>3, <3>1, <3>2
  <2>3. next \in DueSlots(now)
    BY DEF DueSlots
  <2> QED
    BY <1>1, <2>2, <2>3
<1> QED
  BY <1>7, <1>8

\* every action accounts for the slots it passes.
LEMMA NextAccounted ==
  ASSUME TypeOK, EverySlotAccounted, [Next]_vars
  PROVE  EverySlotAccounted'
<1>0. /\ setup' = setup /\ Period' = Period /\ Cron' = Cron /\ \A t : SlotOf(t)' = SlotOf(t)
  BY SetupStays
<1> SUFFICES ASSUME "deploy" \notin setup.kinds, Jitter < Period,
                    NEW t \in Cron, t < SlotOf(schedule'.next)
             PROVE  slots'[t] # "open"
  <2>1. SlotOf(schedule.next)' = SlotOf(schedule'.next)
    BY <1>0 DEF SlotOf, Period
  <2> QED
    BY <1>0, <2>1 DEF EverySlotAccounted, SlotsAccounted
<1>1. t < SlotOf(schedule.next) => slots[t] # "open"
  BY DEF EverySlotAccounted, SlotsAccounted
<1>2. CASE slots' = slots /\ schedule'.next = schedule.next
  BY <1>1, <1>2
<1>3. ASSUME NEW now \in Nat, schedule.next <= now, NEW j \in 0 .. Jitter,
             schedule'.next = NextRun(now) + j,
             NEW how \in [Cron -> {"fired", "dropped", "skipped", "failed"}],
             slots' = [u \in Cron |-> IF u \in {SlotOf(d) : d \in DueSlots(now)}
                                      THEN how[u] ELSE slots[u]]
      PROVE  slots'[t] # "open"
  <2>1. t < SlotOf(schedule.next) \/ t \in {SlotOf(d) : d \in DueSlots(now)}
    BY <1>3, SlotsPassed
  <2>2. how[t] # "open"
    OBVIOUS
  <2> QED
    BY <1>1, <1>3, <2>1, <2>2
<1>4. ASSUME NEW now \in Nat, schedule.next <= now, schedule'.next = NextRun(now),
             NEW how \in {"skipped", "failed"}, slots' = Mark(DueSlots(now), how)
      PROVE  slots'[t] # "open"
  <2>1. NextRun(now) + 0 = NextRun(now) /\ 0 \in 0 .. Jitter
    BY NextRunType, SchedulesAssumption
  <2>2. slots' = [u \in Cron |-> IF u \in {SlotOf(d) : d \in DueSlots(now)}
                                 THEN [v \in Cron |-> how][u] ELSE slots[u]]
    BY <1>4 DEF Mark
  <2>3. [v \in Cron |-> how] \in [Cron -> {"fired", "dropped", "skipped", "failed"}]
    OBVIOUS
  <2> QED
    BY <1>3, <1>4, <2>1, <2>2, <2>3
<1>5. \A r \in Replicas : tick[r].now \in Nat
  BY DEF TypeOK
<1>6. ASSUME NEW r \in Replicas, PlanSkip(r)
      PROVE  slots'[t] # "open"
  BY <1>4, <1>5, <1>6 DEF PlanSkip, DueAt, TypeOK
<1>7. ASSUME NEW r \in Replicas, NEW k, PlanFails(r, k)
      PROVE  slots'[t] # "open"
  BY <1>4, <1>5, <1>7 DEF PlanFails, DueAt, TypeOK
<1>8. ASSUME NEW r \in Replicas, NEW j \in 0 .. Jitter, Plan(r, j)
      PROVE  slots'[t] # "open"
  <2> DEFINE now == tick[r].now
             fires == DueFires(schedule.next, now).fire
             due == DueSlots(now)
             how == [u \in Cron |-> IF u \in {SlotOf(d) : d \in fires} THEN "fired" ELSE "dropped"]
  <2>1. DueAt(r) /\ now \in Nat /\ schedule'.next = NextRun(now) + j
    BY <1>5, <1>8 DEF Plan, TypeOK
  <2>2. fires \subseteq due
    BY <2>1, FiresAreDue DEF DueSlots, CronIn
  <2>3. slots' = [u \in Cron |-> IF u \in {SlotOf(d) : d \in fires} THEN "fired"
                                 ELSE IF u \in {SlotOf(d) : d \in due \ fires} THEN "dropped"
                                 ELSE slots[u]]
    BY <1>8 DEF Plan
  <2> HIDE DEF fires, due
  <2>4. slots' = [u \in Cron |-> IF u \in {SlotOf(d) : d \in due} THEN how[u] ELSE slots[u]]
    BY <2>2, <2>3
  <2>5. how \in [Cron -> {"fired", "dropped", "skipped", "failed"}]
    OBVIOUS
  <2> HIDE DEF how
  <2>6. schedule.next <= now
    BY <2>1 DEF DueAt
  <2> QED
    BY <1>3, <2>1, <2>4, <2>5, <2>6 DEF due
<1>9. ASSUME NEW r \in Replicas,
             \/ Poll(r) \/ PlanNothing(r) \/ Create(r) \/ Enqueue(r) \/ EndTick(r)
             \/ StartFails(r) \/ Crash(r)
      PROVE  slots' = slots /\ schedule' = schedule
  BY <1>9 DEF Poll, PlanNothing, Create, Enqueue, EndTick, StartFails, Crash
<1>10. ASSUME NEW u, StartRun(u) \/ EndRun(u)
       PROVE  slots' = slots /\ schedule' = schedule
  BY <1>10 DEF StartRun, EndRun
<1>11. CASE Advance \/ Switch \/ UNCHANGED vars
  BY <1>2, <1>11 DEF Advance, Switch, vars, TypeOK
<1>12. ~Redeploy
  BY DEF Redeploy, Fault
<1> QED
  BY <1>2, <1>6, <1>7, <1>8, <1>9, <1>10, <1>11, <1>12 DEF Next, Tick

\* A cron time the schedule has gone past is fired, dropped, skipped or failed, and never
\* just jumped over, whatever the catch-up policy, the overlaps and the failures.
THEOREM NoSlotIsLost == Spec => []EverySlotAccounted
<1>1. Init => EverySlotAccounted
  <2> SUFFICES ASSUME Init, NEW t \in Cron, t < SlotOf(Period), t % Period = 0
               PROVE  FALSE
    BY DEF Init, EverySlotAccounted, SlotsAccounted, Cron
  <2>1. Period \in Nat \ {0} /\ t \in Nat \ {0} /\ SlotOf(Period) = Floor(Period, Period)
    BY SetupType, SlotIsFloor DEF Init, Cron
  <2>2. 0 % Period = 0 /\ 0 < t => 0 + Period <= t
    BY <2>1, MultiplesApart
  <2>3. 0 % Period = 0
    BY <2>1
  <2>4. Floor(Period, Period) <= Period /\ Floor(Period, Period) \in Nat
    BY <2>1, FloorOf
  <2> QED
    BY <2>1, <2>2, <2>3, <2>4
<1>2. TypeOK /\ EverySlotAccounted /\ [Next]_vars => EverySlotAccounted'
  BY NextAccounted
<1> QED
  BY <1>1, <1>2, ScheduleTypes, PTL DEF Spec

-----------------------------------------------------------------------------
(***************************************************************************)
(* One run at a time.  NoOverlap is not inductive: the overlap check looks *)
(* at the schedule's last run, so every run that is active, and every fire *)
(* that a prompt replica is still to start, has to be that one.            *)
(***************************************************************************)
SkipsOverlap == Overlap = "skip" /\ setup.prompt /\ CatchUp # "all"

LastKept ==
  SkipsOverlap =>
    /\ \A r \in Replicas : tick[r].pc # "idle" => tick[r].now = clock
    /\ \A r \in Replicas : Members(tick[r].todo) # {} => clock < schedule.next
    /\ \A t \in Times :
         Active(t) \/ (\E r \in Replicas : t \in Members(tick[r].todo)) => t = schedule.last

\* policies other than "all" plan at most one fire.
LEMMA OneFire ==
  ASSUME TypeOK, NEW r \in Replicas, DueAt(r), CatchUp # "all"
  PROVE  \E x : DueFires(schedule.next, tick[r].now).fire \subseteq {x}
<1> DEFINE next == schedule.next
           now == tick[r].now
           due == {next} \cup CronIn(next, now)
<1>1. setup \in Setups /\ next \in Nat /\ now \in Nat
  BY DEF TypeOK, DueAt
<1>2. due \in SUBSET Nat /\ IsFiniteSet(due) /\ due # {}
  BY <1>1, CronInType, FS_AddElement
<1>3. DueFires(next, now).fire = Promised(due, now)
  BY <1>1, FiresPromised
<1>4. Promised(due, now) \subseteq Newest(1, due)
  BY <1>1, SetupType DEF Promised
<1>5. Newest(1, due) = {Max(due)}
  BY <1>2, NewestIsMax
<1> QED
  BY <1>3, <1>4, <1>5

\* every action keeps the last run the only one.
LEMMA NextLast ==
  ASSUME TypeOK, LastKept, [Next]_vars
  PROVE  LastKept'
<1>0. /\ setup' = setup /\ Overlap' = Overlap /\ CatchUp' = CatchUp /\ Times' = Times
      /\ clock \in Nat /\ Members(<<>>) = {} /\ Times \subseteq Nat
  BY SetupStays, SetupType, NoMembers, SchedulesAssumption DEF TypeOK
<1> SUFFICES ASSUME SkipsOverlap
             PROVE  /\ \A r \in Replicas : tick'[r].pc # "idle" => tick'[r].now = clock'
                    /\ \A r \in Replicas :
                         Members(tick'[r].todo) # {} => clock' < schedule'.next
                    /\ \A t \in Times :
                         \/ run'[t] \in {"created", "queued", "running"}
                         \/ \E r \in Replicas : t \in Members(tick'[r].todo)
                         => t = schedule'.last
  BY <1>0 DEF LastKept, SkipsOverlap, Active
<1> DEFINE Goal == /\ \A r \in Replicas : tick'[r].pc # "idle" => tick'[r].now = clock'
                   /\ \A r \in Replicas :
                        Members(tick'[r].todo) # {} => clock' < schedule'.next
                   /\ \A t \in Times :
                        \/ run'[t] \in {"created", "queued", "running"}
                        \/ \E r \in Replicas : t \in Members(tick'[r].todo)
                        => t = schedule'.last
<1>1. /\ \A r \in Replicas : tick[r].pc # "idle" => tick[r].now = clock
      /\ \A r \in Replicas : Members(tick[r].todo) # {} => clock < schedule.next
      /\ \A t \in Times :
           \/ run[t] \in {"created", "queued", "running"}
           \/ \E r \in Replicas : t \in Members(tick[r].todo)
           => t = schedule.last
  BY DEF LastKept, Active
<1>2. ASSUME \A r \in Replicas : /\ tick'[r].pc # "idle" => tick'[r].now = clock
                                 /\ Members(tick'[r].todo) \subseteq Members(tick[r].todo),
             \A t \in Times : run'[t] \in {"created", "queued", "running"} =>
                \/ run[t] \in {"created", "queued", "running"}
                \/ \E r \in Replicas : t \in Members(tick[r].todo),
             clock' = clock, schedule'.last = schedule.last,
             schedule'.next = schedule.next \/ clock < schedule'.next
      PROVE  Goal
  BY <1>1, <1>2
<1>3. ASSUME NEW r \in Replicas, NEW rec, tick' = [tick EXCEPT ![r] = rec],
             rec.pc # "idle" => rec.now = clock,
             Members(rec.todo) \subseteq Members(tick[r].todo)
      PROVE  \A q \in Replicas : /\ tick'[q].pc # "idle" => tick'[q].now = clock
                                 /\ Members(tick'[q].todo) \subseteq Members(tick[q].todo)
  <2> SUFFICES ASSUME NEW q \in Replicas
               PROVE  /\ tick'[q].pc # "idle" => tick'[q].now = clock
                      /\ Members(tick'[q].todo) \subseteq Members(tick[q].todo)
    OBVIOUS
  <2>1. CASE q = r
    BY <1>3, <2>1 DEF TypeOK
  <2>2. CASE q # r
    BY <1>1, <1>3, <2>2 DEF TypeOK
  <2> QED
    BY <2>1, <2>2
<1> HIDE DEF Goal
<1>4. ASSUME NEW now \in Nat
      PROVE  NextRun(now) \in Nat /\ now < NextRun(now)
  BY NextRunType
<1>5. ASSUME NEW r \in Replicas,
             Poll(r) \/ PlanNothing(r) \/ PlanSkip(r) \/ EndTick(r) \/ Crash(r)
      PROVE  Goal
  <2>1. PICK rec : /\ tick' = [tick EXCEPT ![r] = rec]
                   /\ rec.pc # "idle" => rec.now = clock
                   /\ Members(rec.todo) = {}
    <3>1. [pc |-> "plan", now |-> clock, todo |-> <<>>].todo = <<>>
          /\ [pc |-> "plan", now |-> clock, todo |-> <<>>].now = clock
          /\ NoTick.pc = "idle" /\ NoTick.todo = <<>>
      BY DEF NoTick
    <3> QED
      BY <1>0, <1>5, <3>1 DEF Poll, PlanNothing, PlanSkip, EndTick, Crash
  <2>2. /\ clock' = clock /\ run' = run /\ schedule'.last = schedule.last
        /\ schedule'.next = schedule.next \/ (PlanSkip(r) /\ schedule'.next = NextRun(tick[r].now))
    BY <1>5 DEF Poll, PlanNothing, PlanSkip, EndTick, Crash, TypeOK
  <2>3. PlanSkip(r) => tick[r].now = clock
    BY <1>1 DEF PlanSkip
  <2>4. schedule'.next = schedule.next \/ clock < schedule'.next
    BY <1>0, <1>4, <2>2, <2>3
  <2> QED
    BY <1>2, <1>3, <2>1, <2>2, <2>4
<1>6. ASSUME NEW r \in Replicas, Create(r) \/ Enqueue(r) \/ StartFails(r)
      PROVE  Goal
  <2> DEFINE todo == tick[r].todo
  <2>1. /\ todo \in Seq(Times) /\ todo # <<>> /\ schedule' = schedule /\ clock' = clock
        /\ tick[r] \in [pc : {"idle", "plan", "create", "enqueue"}, now : Nat, todo : Seq(Times)]
        /\ tick[r].pc # "idle" /\ tick[r].now = clock
    BY <1>1, <1>6 DEF Create, Enqueue, StartFails, TypeOK
  <2>2. Head(todo) \in Members(todo) /\ Members(Tail(todo)) \subseteq Members(todo)
    BY <2>1, MembersOf
  <2>3. PICK rec : /\ tick' = [tick EXCEPT ![r] = rec] /\ rec.todo \in {todo, Tail(todo)}
                   /\ rec.now = clock
    <3>1. CASE tick' = [tick EXCEPT ![r].pc = "enqueue"]
      <4>1. [tick[r] EXCEPT !.pc = "enqueue"].todo = todo
            /\ [tick[r] EXCEPT !.pc = "enqueue"].now = clock
        BY <2>1
      <4> QED
        BY <3>1, <4>1
    <3>2. CASE tick' = [tick EXCEPT ![r].todo = Tail(@)]
      <4>1. [tick[r] EXCEPT !.todo = Tail(todo)].todo = Tail(todo)
            /\ [tick[r] EXCEPT !.todo = Tail(todo)].now = clock
        BY <2>1
      <4> QED
        BY <3>2, <4>1
    <3>3. CASE tick' = [tick EXCEPT ![r].pc = "create", ![r].todo = Tail(@)]
      <4>1. /\ tick'[r].todo = Tail(todo) /\ tick'[r].now = clock
            /\ tick' = [tick EXCEPT ![r] = tick'[r]]
        BY <2>1, <3>3 DEF TypeOK
      <4> QED
        BY <4>1
    <3> QED
      BY <1>6, <3>1, <3>2, <3>3 DEF Create, Enqueue, StartFails
  <2>4. \A t \in Times : run'[t] \in {"created", "queued", "running"} =>
           \/ run[t] \in {"created", "queued", "running"}
           \/ t = Head(todo)
    BY <1>6 DEF Create, Enqueue, StartFails, TypeOK
  <2>5. \A t \in Times : run'[t] \in {"created", "queued", "running"} =>
           \/ run[t] \in {"created", "queued", "running"}
           \/ \E q \in Replicas : t \in Members(tick[q].todo)
    BY <2>2, <2>4
  <2>6. Members(rec.todo) \subseteq Members(todo)
    BY <2>2, <2>3
  <2> QED
    BY <1>2, <1>3, <2>1, <2>3, <2>5, <2>6
<1>7. ASSUME NEW r \in Replicas, NEW todo, NEW j \in Nat, NEW x,
             tick[r].pc = "plan", DueAt(r), ~Overlaps,
             tick' = [tick EXCEPT ![r] = [pc |-> "create", now |-> tick[r].now, todo |-> todo]],
             schedule'.next = NextRun(tick[r].now) + j,
             Members(todo) \subseteq {x},
             Members(todo) # {} => schedule'.last = x,
             run' = run, clock' = clock
      PROVE  Goal
  <2>1. tick[r].now = clock /\ schedule.next <= clock /\ schedule.next \in Nat
    BY <1>1, <1>7 DEF DueAt, TypeOK
  <2>2. \A q \in Replicas : Members(tick[q].todo) = {}
    BY <1>0, <1>1, <2>1
  <2>3. ASSUME NEW t \in Times
        PROVE  run[t] \notin {"created", "queued", "running"}
    <3>1. SUFFICES ASSUME run[t] \in {"created", "queued", "running"} PROVE FALSE
      OBVIOUS
    <3>2. t = schedule.last /\ t \in Nat
      BY <1>0, <1>1, <3>1
    <3>3. schedule.last # None
      BY <3>2, SchedulesAssumption
    <3> QED
      BY <1>7, <3>1, <3>2, <3>3 DEF Overlaps, SkipsOverlap, Active
  <2>4. clock < schedule'.next
    BY <1>0, <1>4, <1>7, <2>1
  <2>5. /\ tick'[r].todo = todo /\ tick'[r].now = clock
        /\ \A q \in Replicas \ {r} : tick'[q] = tick[q]
    BY <1>7, <2>1 DEF TypeOK
  <2>6. \A q \in Replicas : tick'[q].pc # "idle" => tick'[q].now = clock
    BY <1>1, <2>5
  <2>7. \A q \in Replicas : Members(tick'[q].todo) \subseteq Members(todo)
    BY <2>2, <2>5
  <2>8. \A t \in Times : (\E q \in Replicas : t \in Members(tick'[q].todo)) => t = schedule'.last
    BY <1>7, <2>7
  <2> QED
    BY <1>7, <2>3, <2>4, <2>6, <2>8 DEF Goal
<1>8. ASSUME NEW r \in Replicas, NEW j \in 0 .. Jitter, Plan(r, j)
      PROVE  Goal
  <2> DEFINE now == tick[r].now
             fires == DueFires(schedule.next, now).fire
             S == {f \in fires : run[f] = "none"}
             todo == Ordered(S)
  <2>1. /\ tick[r].pc = "plan" /\ DueAt(r) /\ ~Overlaps /\ S \subseteq fires /\ run' = run
        /\ clock' = clock /\ j \in Nat
    BY <1>8, SchedulesAssumption DEF Plan
  <2>2. PICK x : fires \subseteq {x}
    BY <2>1, OneFire DEF SkipsOverlap
  <2>3. Members(todo) \subseteq S /\ todo \in Seq(Times)
    <3>1. Cardinality(S) \in Nat /\ 0 <= Cardinality(S)
      BY <2>1, FiresAreDue
    <3> QED
      BY <2>1, <3>1, PlanType
  <2>4. todo = Planned(fires)
    BY DEF Planned
  <2> HIDE DEF todo, fires
  <2>5. /\ tick' = [tick EXCEPT ![r] = [pc |-> "create", now |-> now, todo |-> todo]]
        /\ schedule'.next = NextRun(now) + j /\ schedule'.last = Last(todo)
    BY <1>8, <2>4 DEF Plan, fires, TypeOK
  <2>6. Members(todo) # {} => schedule'.last = x
    <3>1. Members(todo) # {} => todo # <<>>
      BY NoMembers
    <3>2. todo # <<>> => todo[Len(todo)] \in Members(todo)
      BY <2>3, MembersOf
    <3> QED
      BY <2>1, <2>2, <2>3, <2>5, <3>1, <3>2 DEF Last
  <2>7. Members(todo) \subseteq {x}
    BY <2>1, <2>2, <2>3
  <2> QED
    BY <1>7, <2>1, <2>5, <2>6, <2>7
<1>9. ASSUME NEW r \in Replicas, NEW k \in 0 .. MaxCatchUp, PlanFails(r, k)
      PROVE  Goal
  <2> DEFINE now == tick[r].now
             fires == DueFires(schedule.next, now).fire
             todo == SubSeq(Ordered(fires), 1, k)
  <2>1. /\ tick[r].pc = "plan" /\ DueAt(r) /\ ~Overlaps /\ run' = run /\ clock' = clock
        /\ k < Cardinality(fires) /\ k \in Nat
    BY <1>9 DEF PlanFails
  <2>2. PICK x : fires \subseteq {x}
    BY <2>1, OneFire DEF SkipsOverlap
  <2>3. Cardinality(fires) \in Nat
    BY <2>1, FiresAreDue
  <2>4. Cardinality(fires) <= 1
    <3>1. IsFiniteSet({x}) /\ Cardinality({x}) = 1
      BY FS_Singleton
    <3> QED
      BY <2>2, <3>1, FS_Subset
  <2>5. Members(todo) = {}
    <3>1. k <= Cardinality(fires) /\ k = 0
      BY <2>1, <2>3, <2>4
    <3>2. todo \in Seq(Times) /\ Len(todo) = 0
      BY <2>1, <3>1, PlanType
    <3>3. todo = <<>>
      BY <3>2, EmptySeq
    <3> QED
      BY <3>3, NoMembers
  <2>6. /\ tick' = [tick EXCEPT ![r] = [pc |-> "create", now |-> now, todo |-> todo]]
        /\ schedule'.next = NextRun(now)
    BY <1>9 DEF PlanFails, TypeOK
  <2> HIDE DEF todo, fires
  <2>7. schedule'.next = NextRun(now) + 0
    <3>1. NextRun(now) \in Nat
      BY <1>4 DEF TypeOK
    <3> QED
      BY <2>6, <3>1
  <2> QED
    BY <1>7, <2>1, <2>5, <2>6, <2>7
<1>10. ASSUME NEW t \in Times, StartRun(t) \/ EndRun(t)
       PROVE  Goal
  <2>1. /\ tick' = tick /\ schedule' = schedule /\ clock' = clock
        /\ \A u \in Times : run'[u] \in {"created", "queued", "running"} =>
             run[u] \in {"created", "queued", "running"}
    BY <1>10 DEF StartRun, EndRun, TypeOK
  <2> QED
    BY <1>1, <1>2, <2>1
<1>11. ASSUME Advance
       PROVE  Goal
  <2>1. \A r \in Replicas : tick'[r].pc = "idle" /\ Members(tick'[r].todo) = {}
    BY <1>0, <1>11 DEF Advance, Ready, NoTick, SkipsOverlap
  <2> QED
    BY <1>1, <1>11, <2>1 DEF Advance, Goal
<1>12. ASSUME Switch \/ Redeploy \/ vars' = vars
       PROVE  Goal
  <2>1. /\ tick' = tick /\ run' = run /\ clock' = clock /\ schedule'.last = schedule.last
        /\ schedule'.next = schedule.next \/ schedule'.next = NextRun(clock)
    BY <1>12 DEF Switch, Redeploy, vars, TypeOK
  <2>2. schedule'.next = schedule.next \/ clock < schedule'.next
    BY <1>0, <1>4, <2>1
  <2> QED
    BY <1>1, <1>2, <2>1, <2>2
<1>13. Goal
  <2>1. ASSUME NEW r \in Replicas, Tick(r)
        PROVE  Goal
    BY <1>5, <1>6, <1>8, <2>1 DEF Tick
  <2>2. ASSUME NEW r \in Replicas, StartFails(r) \/ Crash(r)
        PROVE  Goal
    BY <1>5, <1>6, <2>2
  <2>3. ASSUME Next
        PROVE  \/ \E r \in Replicas : Tick(r) \/ StartFails(r) \/ Crash(r)
               \/ \E r \in Replicas, k \in 0 .. MaxCatchUp : PlanFails(r, k)
               \/ \E t \in Times : StartRun(t) \/ EndRun(t)
               \/ Advance \/ Switch \/ Redeploy
    BY <2>3 DEF Next
  <2>4. ASSUME NEW r \in Replicas, NEW k \in 0 .. MaxCatchUp, PlanFails(r, k)
        PROVE  Goal
    BY <1>9, <2>4
  <2>5. (\E r \in Replicas : Tick(r) \/ StartFails(r) \/ Crash(r)) => Goal
    BY <2>1, <2>2, Zenon
  <2>6. (\E r \in Replicas, k \in 0 .. MaxCatchUp : PlanFails(r, k)) => Goal
    BY <2>4, Zenon
  <2>7. (\E t \in Times : StartRun(t) \/ EndRun(t)) => Goal
    BY <1>10, Zenon
  <2>8. (Advance \/ Switch \/ Redeploy \/ vars' = vars) => Goal
    BY <1>11, <1>12, Zenon
  <2>9. Next => Goal
    BY <2>3, <2>5, <2>6, <2>7, <2>8, Zenon
  <2> QED
    BY <1>12, <2>9
<1> QED
  BY <1>13 DEF Goal

\* Overlap "skip" never has two runs of the schedule at once, for every period, jitter,
\* grace and every fault, if replicas end their ticks promptly and a pass starts one run.
THEOREM OneAtOnce == Spec => []NoOverlap
<1>1. Init => LastKept
  <2> SUFFICES ASSUME Init PROVE LastKept
    OBVIOUS
  <2>1. NoTick.pc = "idle" /\ NoTick.todo = <<>>
    BY DEF NoTick
  <2> QED
    BY <2>1, NoMembers DEF Init, LastKept, Active
<1>2. TypeOK /\ LastKept /\ [Next]_vars => LastKept'
  BY NextLast
<1>3. LastKept => NoOverlap
  BY DEF LastKept, NoOverlap, OneActive, SkipsOverlap
<1> QED
  BY <1>1, <1>2, <1>3, ScheduleTypes, PTL DEF Spec

=============================================================================
