-------------------------- MODULE S3Extraction_proofs --------------------------
(***************************************************************************)
(* Proofs about S3Extraction.                                              *)
(***************************************************************************)
EXTENDS S3Extraction, Recursion_proofs, FiniteSetTheorems, TLAPS

-----------------------------------------------------------------------------
(* Ascending() enumerates a finite set of numbers: each member is at the    *)
(* position that its number of smaller members gives.                       *)
Below(S, o) == {p \in S : p < o}

LEMMA RankIncreases ==
    ASSUME NEW n \in Nat, NEW S \in SUBSET (1..n), NEW a \in S, NEW b, S \subseteq Nat,
           b \in Nat, a < b
    PROVE  /\ Cardinality(Below(S, a)) \in Nat
           /\ Cardinality(Below(S, b)) \in Nat
           /\ Cardinality(Below(S, a)) < Cardinality(Below(S, b))
<1>1. IsFiniteSet(1..n)
  BY FS_Interval
<1>2. IsFiniteSet(S)
  BY <1>1, FS_Subset
<1>3. IsFiniteSet(Below(S, a)) /\ IsFiniteSet(Below(S, b))
  BY <1>2, FS_Subset DEF Below
<1>4. Cardinality(Below(S, a)) \in Nat /\ Cardinality(Below(S, b)) \in Nat
  BY <1>3, FS_CardinalityType
<1>5. a \notin Below(S, a) /\ Below(S, a) \cup {a} \in SUBSET Below(S, b)
  <2>1. \A p \in S : p < a => p < b
    OBVIOUS
  <2>2. ~(a < a)
    OBVIOUS
  <2> QED
    BY <2>1, <2>2 DEF Below
<1>6. Cardinality(Below(S, a) \cup {a}) = Cardinality(Below(S, a)) + 1
  BY <1>3, <1>5, FS_AddElement
<1>7. Cardinality(Below(S, a) \cup {a}) <= Cardinality(Below(S, b))
  BY <1>3, <1>5, FS_Subset
<1> QED
  BY <1>4, <1>6, <1>7

LEMMA Enumeration ==
    ASSUME NEW n \in Nat, NEW S \in SUBSET (1..n)
    PROVE  /\ Cardinality(S) \in Nat
           /\ DOMAIN Ascending(S) = 1..Cardinality(S)
           /\ \A i \in 1..Cardinality(S) : Ascending(S)[i] \in S
           /\ \A i, j \in 1..Cardinality(S) : i < j => Ascending(S)[i] < Ascending(S)[j]
           /\ \A o \in S : \E i \in 1..Cardinality(S) : Ascending(S)[i] = o
<1> DEFINE N == Cardinality(S)
           key == Ascending(S)
           rank == [o \in S |-> Cardinality(Below(S, o))]
<1>1. IsFiniteSet(1..n)
  BY FS_Interval
<1>2. IsFiniteSet(S) /\ N \in Nat /\ S \subseteq Nat
  <2>1. IsFiniteSet(S)
    BY <1>1, FS_Subset
  <2> QED
    BY <2>1, FS_CardinalityType
<1>3. \A a, b \in S : a < b => rank[a] < rank[b]
  BY <1>2, RankIncreases
<1>4. \A o \in S : rank[o] \in 0..(N - 1)
  <2> SUFFICES ASSUME NEW o \in S PROVE Cardinality(Below(S, o)) \in 0..(N - 1)
    OBVIOUS
  <2>1. o \in Nat /\ o < n + 1 /\ n + 1 \in Nat /\ \A p \in S : p < n + 1
    OBVIOUS
  <2>2. Below(S, n + 1) = S
    BY <2>1 DEF Below
  <2>3. Cardinality(Below(S, o)) \in Nat /\ Cardinality(Below(S, o)) < Cardinality(Below(S, n + 1))
    BY <1>2, <2>1, RankIncreases
  <2> QED
    BY <1>2, <2>2, <2>3
<1>5. \A a, b \in S : rank[a] = rank[b] => a = b
  <2> SUFFICES ASSUME NEW a \in S, NEW b \in S, rank[a] = rank[b], a # b PROVE FALSE
    OBVIOUS
  <2>1. a < b \/ b < a
    BY <1>2
  <2>2. rank[a] \in Int /\ rank[b] \in Int
    BY <1>4
  <2> HIDE DEF rank
  <2> QED
    BY <1>3, <2>1, <2>2
<1>6. \A i \in 0..(N - 1) : \E o \in S : rank[o] = i
  <2> HIDE DEF rank
  <2>0. rank \in [S -> 0..(N - 1)]
    BY <1>4 DEF rank
  <2>1. rank \in Injection(S, 0..(N - 1))
    BY <2>0, <1>5 DEF Injection, IsInjective
  <2>2. IsFiniteSet(0..(N - 1)) /\ Cardinality(0..(N - 1)) = N
    <3>1. /\ IsFiniteSet(0..(N - 1))
          /\ Cardinality(0..(N - 1)) = IF 0 > N - 1 THEN 0 ELSE (N - 1) - 0 + 1
      <4>1. 0 \in Int /\ N - 1 \in Int
        BY <1>2
      <4> HIDE DEF N
      <4> QED
        BY <4>1, FS_Interval
    <3> QED
      BY <1>2, <3>1
  <2>3. rank \in Surjection(S, 0..(N - 1))
    BY <2>1, <2>2, FS_Injection
  <2> QED
    BY <2>3 DEF Surjection
<1>7. ASSUME NEW i \in 1..N
      PROVE  key[i] \in S /\ rank[key[i]] = i - 1
  <2>1. key[i] = CHOOSE o \in S : Cardinality(Below(S, o)) = i - 1
    BY DEF Below, Ascending
  <2>2. \E o \in S : Cardinality(Below(S, o)) = i - 1
    BY <1>2, <1>6
  <2> QED
    BY <2>1, <2>2
<1>8. \A i, j \in 1..N : i < j => key[i] < key[j]
  <2> SUFFICES ASSUME NEW i \in 1..N, NEW j \in 1..N, i < j PROVE key[i] < key[j]
    OBVIOUS
  <2>1. rank[key[i]] < rank[key[j]] /\ rank[key[j]] \in Int /\ rank[key[i]] \in Int
    BY <1>2, <1>7
  <2>2. key[i] \in Nat /\ key[j] \in Nat
    BY <1>2, <1>7
  <2> HIDE DEF rank
  <2>3. key[j] < key[i] => rank[key[j]] < rank[key[i]]
    BY <1>3, <1>7
  <2>4. ~(key[j] < key[i]) /\ key[i] # key[j]
    BY <2>1, <2>3
  <2> QED
    BY <2>2, <2>4
<1>9. ASSUME NEW o \in S
      PROVE  \E i \in 1..N : key[i] = o
  <2>1. rank[o] \in 0..(N - 1)
    BY <1>4
  <2> HIDE DEF rank
  <2>2. rank[o] + 1 \in 1..N /\ (rank[o] + 1) - 1 = rank[o]
    BY <1>2, <2>1
  <2>3. key[rank[o] + 1] \in S /\ rank[key[rank[o] + 1]] = rank[o]
    BY <1>7, <2>2
  <2> QED
    BY <1>5, <2>2, <2>3
<1>10. DOMAIN key = 1..Cardinality(S)
  BY DEF Ascending
<1> QED
  BY <1>2, <1>7, <1>8, <1>9, <1>10

-----------------------------------------------------------------------------
(* Full hours. *)
WholeHour(m) == \E q \in Int : m = Hour * q

LEMMA HourType == Hour \in Nat /\ Hour > 1
  BY ExtractionConstants DEF ExtractionConstants

LEMMA Division ==
    ASSUME NEW t \in Int
    PROVE  /\ t = Hour * (t \div Hour) + (t % Hour)
           /\ t \div Hour \in Int
           /\ t % Hour \in 0..(Hour - 1)
  BY HourType

LEMMA WholeApart ==
    ASSUME NEW m \in Int, NEW n \in Int, WholeHour(m), WholeHour(n), m < n
    PROVE  m + Hour <= n
<1>1. PICK p \in Int : m = Hour * p
  BY DEF WholeHour
<1>2. PICK q \in Int : n = Hour * q
  BY DEF WholeHour
<1>3. p < q
  <2>1. q <= p => Hour * q <= Hour * p
    <3> SUFFICES ASSUME NEW k \in Nat, p = q + k PROVE Hour * q <= Hour * p
      <4>1. q <= p => p - q \in Nat /\ p = q + (p - q)
        OBVIOUS
      <4> QED BY <4>1
    <3>1. Hour * p = Hour * q + Hour * k /\ Hour * k >= 0 /\ Hour * q \in Int
      BY HourType
    <3> QED BY <3>1, HourType
  <2> QED
    BY <1>1, <1>2, <2>1
<1>4. PICK k \in Nat : q = p + 1 + k
  <2>1. q - p - 1 \in Nat /\ q = p + 1 + (q - p - 1)
    BY <1>3
  <2> QED BY <2>1
<1>5. Hour * q = Hour * p + Hour + Hour * k
  BY <1>4, HourType
<1>6. Hour * k >= 0 /\ Hour * k \in Int
  BY HourType
<1> QED
  BY <1>1, <1>2, <1>5, <1>6, HourType

LEMMA WholeSum ==
    ASSUME NEW m \in Int, NEW n \in Int, WholeHour(m), WholeHour(n)
    PROVE  /\ WholeHour(m + n)
           /\ WholeHour(m - n)
           /\ WholeHour(m + Hour)
           /\ WholeHour(m - Hour)
<1>1. PICK p \in Int : m = Hour * p
  BY DEF WholeHour
<1>2. PICK q \in Int : n = Hour * q
  BY DEF WholeHour
<1>3. m + n = Hour * (p + q) /\ m - n = Hour * (p - q)
  BY <1>1, <1>2, HourType
<1>4. m + Hour = Hour * (p + 1) /\ m - Hour = Hour * (p - 1)
  BY <1>1, HourType
<1>5. p + q \in Int /\ p - q \in Int /\ p + 1 \in Int /\ p - 1 \in Int
  OBVIOUS
<1> QED
  BY <1>3, <1>4, <1>5 DEF WholeHour

LEMMA HourOfFacts ==
    ASSUME NEW t \in Int
    PROVE  /\ HourOf(t) \in Int
           /\ WholeHour(HourOf(t))
           /\ HourOf(t) <= t
           /\ t < HourOf(t) + Hour
<1> DEFINE q == t \div Hour
           r == t % Hour
<1>1. t = Hour * q + r /\ q \in Int /\ r \in 0..(Hour - 1)
  BY Division
<1>2. Hour * q \in Int
  BY <1>1, HourType
<1>3. HourOf(t) = t - r
  BY DEF HourOf
<1> HIDE DEF q, r
<1>4. HourOf(t) = Hour * q
  BY <1>1, <1>2, <1>3, HourType
<1>5. HourOf(t) \in Int /\ WholeHour(HourOf(t))
  BY <1>1, <1>2, <1>4 DEF WholeHour
<1> QED
  BY <1>1, <1>2, <1>4, <1>5, HourType

LEMMA HourOfIs ==
    ASSUME NEW t \in Int, NEW m \in Int, WholeHour(m), m <= t, t < m + Hour
    PROVE  HourOf(t) = m
<1>1. ~(HourOf(t) < m) /\ ~(m < HourOf(t))
  BY HourOfFacts, WholeApart, HourType
<1> QED
  BY <1>1, HourOfFacts

LEMMA WholeRemainder ==
    ASSUME NEW t \in Int, t % Hour = 0
    PROVE  WholeHour(t)
<1>1. HourOf(t) = t
  BY DEF HourOf
<1> QED
  BY <1>1, HourOfFacts

LEMMA HourOfMonotone ==
    ASSUME NEW t \in Int, NEW u \in Int, t <= u
    PROVE  HourOf(t) <= HourOf(u)
<1>1. ~(HourOf(u) < HourOf(t))
  BY HourOfFacts, WholeApart, HourType
<1> QED
  BY <1>1, HourOfFacts

-----------------------------------------------------------------------------
(* Timezones. *)
LEMMA FeedFacts ==
    ASSUME feed \in Feeds
    PROVE  /\ feed.zone \in [Instants -> Int]
           /\ feed.walkFrom \in Int /\ feed.low \in Int /\ feed.high \in Int
           /\ 2 * Hour <= feed.walkFrom /\ feed.walkFrom <= LastInstant
           /\ Horizon \in Int /\ Horizon + Hour \in Instants
           /\ LastInstant \in Nat /\ Lookahead \in Nat
  BY FeedsAssumption, ExtractionConstants, HourType
     DEF FeedsAssumption, ExtractionConstants, Horizon

LEMMA OffsetsBounded ==
    ASSUME feed \in Feeds
    PROVE  /\ \A t, u \in Instants : feed.zone[t] - feed.zone[u] <= feed.walkFrom - Hour
           /\ Horizon \in Instants
  BY FeedsAssumption DEF FeedsAssumption, Horizon

LEMMA LocalTimes ==
    ASSUME feed \in Feeds, NEW t \in Instants
    PROVE  /\ t \in Int
           /\ LocalTime(t) \in Int
           /\ Path(t) \in Int
           /\ WholeHour(Path(t))
           /\ Path(t) <= LocalTime(t)
           /\ LocalTime(t) < Path(t) + Hour
<1>1. t \in Int /\ feed.zone[t] \in Int
  BY FeedFacts DEF Instants
<1>2. LocalTime(t) \in Int
  BY <1>1 DEF LocalTime
<1> QED
  BY <1>1, <1>2, HourOfFacts DEF Path

(* Without a shift between two instants the offset is the same at both. *)
LEMMA NoShift ==
    ASSUME feed \in Feeds, NEW a \in Instants, NEW b \in Instants, a <= b,
           \A u \in ShiftsOf(feed.zone) : ~(a < u /\ u <= b)
    PROVE  feed.zone[a] = feed.zone[b]
<1> DEFINE T == {u \in a..b : feed.zone[u] # feed.zone[a]}
<1> SUFFICES ASSUME feed.zone[a] # feed.zone[b] PROVE FALSE
  OBVIOUS
<1>1. T \in SUBSET Nat /\ b \in T
  BY FeedFacts DEF Instants
<1>2. PICK x \in T : \A y \in T : x <= y
  <2> HIDE DEF T
  <2> QED
    BY <1>1, LeastNatural
<1>3. /\ x \in Int /\ a < x /\ x <= b /\ feed.zone[x] # feed.zone[a]
      /\ x - 1 \in a..b /\ x - 1 \notin T
  BY <1>2, FeedFacts DEF Instants
<1>4. feed.zone[x - 1] = feed.zone[a]
  BY <1>3
<1>5. x \in 1..LastInstant
  BY <1>3, FeedFacts DEF Instants
<1> QED
  BY <1>3, <1>4, <1>5 DEF ShiftsOf

LEMMA ShiftFacts ==
    ASSUME feed \in Feeds, OrdinaryZone(feed.zone), NEW u \in ShiftsOf(feed.zone)
    PROVE  /\ u \in Instants /\ u - 1 \in Instants
           /\ WholeHour(LocalTime(u - 1) + 1)
           /\ LocalTime(u) = LocalTime(u - 1) + 1 + Change(feed.zone, u)
           /\ Change(feed.zone, u) \in (-Hour)..Hour
           /\ Path(u - 1) = LocalTime(u - 1) + 1 - Hour
<1>1. u \in Instants /\ u - 1 \in Instants /\ u \in Int
  BY FeedFacts DEF ShiftsOf, Instants
<1>2. feed.zone[u] \in Int /\ feed.zone[u - 1] \in Int
  BY <1>1, FeedFacts
<1>3. WholeHour(u + feed.zone[u - 1])
  BY <1>1, <1>2, WholeRemainder DEF OrdinaryZone
<1>4. LocalTime(u - 1) + 1 = u + feed.zone[u - 1]
  BY <1>1, <1>2 DEF LocalTime
<1>5. LocalTime(u) = LocalTime(u - 1) + 1 + Change(feed.zone, u)
  BY <1>1, <1>2 DEF LocalTime, Change
<1>6. Path(u - 1) = LocalTime(u - 1) + 1 - Hour
  BY <1>1, <1>2, <1>3, <1>4, WholeSum, HourOfIs, LocalTimes, HourType DEF Path
<1> QED
  BY <1>1, <1>3, <1>4, <1>5, <1>6 DEF OrdinaryZone

(* The wall clock never goes back to an earlier hour. *)
LEMMA PathStep ==
    ASSUME feed \in Feeds, OrdinaryZone(feed.zone), NEW t \in Instants, t + 1 \in Instants
    PROVE  Path(t) <= Path(t + 1)
<1>1. CASE t + 1 \in ShiftsOf(feed.zone)
  <2>1. (t + 1) - 1 = t
    BY DEF Instants
  <2>2. WholeHour(Path(t)) /\ Path(t) <= LocalTime(t + 1)
    BY <1>1, <2>1, ShiftFacts, LocalTimes, HourType
  <2>3. HourOf(Path(t)) = Path(t)
    BY <2>2, HourOfIs, LocalTimes, HourType
  <2> QED
    BY <2>2, <2>3, HourOfMonotone, LocalTimes DEF Path
<1>2. CASE t + 1 \notin ShiftsOf(feed.zone)
  <2>1. t \in Int /\ (t + 1) - 1 = t /\ t + 1 \in 1..LastInstant
    BY FeedFacts DEF Instants
  <2>2. feed.zone[t + 1] = feed.zone[t]
    BY <1>2, <2>1 DEF ShiftsOf
  <2>3. LocalTime(t) <= LocalTime(t + 1)
    BY <2>1, <2>2, FeedFacts DEF LocalTime
  <2> QED
    BY <2>3, HourOfMonotone, LocalTimes DEF Path
<1> QED
  BY <1>1, <1>2

LEMMA PathMonotone ==
    ASSUME feed \in Feeds, OrdinaryZone(feed.zone), NEW t \in Instants, NEW u \in Instants, t <= u
    PROVE  Path(t) <= Path(u)
<1> DEFINE n == u - t
           P == {k \in 0..n : Path(t) <= Path(t + k)}
<1>1. t \in Int /\ u \in Int /\ n \in Nat /\ \A k \in 0..n : t + k \in Instants
  BY FeedFacts DEF Instants
<1>2. 0 \in P
  BY <1>1, LocalTimes
<1>3. ASSUME NEW k \in 0..(n - 1), k \in P
      PROVE  k + 1 \in P
  <2>1. k \in 0..n /\ k + 1 \in 0..n /\ t + (k + 1) = (t + k) + 1
    BY <1>1
  <2>2. Path(t + k) <= Path(t + (k + 1))
    BY <1>1, <2>1, PathStep
  <2> QED
    BY <1>1, <1>3, <2>1, <2>2, LocalTimes
<1>4. n \in P
  <2> HIDE DEF P, n
  <2> QED
    BY <1>1, <1>2, <1>3, Induction
<1> QED
  BY <1>1, <1>4
-----------------------------------------------------------------------------
(* The walk steps from a full hour of the wall clock, or meets no further   *)
(* shift: in both cases no hour is between it and its next instant.         *)
InStep(t) == WholeHour(LocalTime(t)) \/ \A u \in ShiftsOf(feed.zone) : u <= t

LEMMA StepCovers ==
    ASSUME feed \in Feeds, OrdinaryZone(feed.zone),
           NEW c \in Instants, c + Hour \in Instants, InStep(c)
    PROVE  /\ InStep(c + Hour)
           /\ \A t \in c..(c + Hour) : Path(t) \in {Path(c), Path(c + Hour)}
<1>1. c \in Int /\ Hour \in Int /\ \A t \in c..(c + Hour) : t \in Instants /\ t \in Int
  BY FeedFacts, HourType DEF Instants
<1>2. \A t \in Instants : t \in Int /\ LocalTime(t) = t + feed.zone[t] /\ feed.zone[t] \in Int
  BY FeedFacts DEF LocalTime, Instants
<1>3. CASE \A u \in ShiftsOf(feed.zone) : ~(c < u /\ u <= c + Hour)
  <2>1. \A t \in c..(c + Hour) : feed.zone[t] = feed.zone[c]
    <3> TAKE t \in c..(c + Hour)
    <3>1. \A u \in ShiftsOf(feed.zone) : ~(c < u /\ u <= t)
      BY <1>1, <1>3, ShiftFacts DEF Instants
    <3> QED
      BY <1>1, <3>1, NoShift
  <2>2. \A t \in c..(c + Hour) : LocalTime(t) = LocalTime(c) + (t - c)
    BY <1>1, <1>2, <2>1
  <2>3. LocalTime(c + Hour) = LocalTime(c) + Hour
    <3>1. c + Hour \in c..(c + Hour) /\ (c + Hour) - c = Hour
      BY <1>1, HourType
    <3> QED
      BY <2>2, <3>1
  <2>4. Path(c + Hour) = Path(c) + Hour
    BY <1>1, <2>3, LocalTimes, HourOfIs, WholeSum DEF Path
  <2>5. ASSUME NEW t \in c..(c + Hour)
        PROVE  Path(t) \in {Path(c), Path(c + Hour)}
    <3>1. CASE LocalTime(t) < Path(c) + Hour
      <4>1. Path(t) = Path(c)
        BY <1>1, <2>2, <3>1, LocalTimes, HourOfIs DEF Path
      <4> QED
        BY <4>1
    <3>2. CASE ~(LocalTime(t) < Path(c) + Hour)
      <4>1. Path(t) = Path(c) + Hour
        BY <1>1, <2>2, <3>2, LocalTimes, HourOfIs, WholeSum DEF Path
      <4> QED
        BY <2>4, <4>1
    <3> QED
      BY <3>1, <3>2
  <2>6. InStep(c + Hour)
    <3>1. CASE WholeHour(LocalTime(c))
      BY <1>1, <2>3, <3>1, LocalTimes, WholeSum DEF InStep
    <3>2. CASE \A u \in ShiftsOf(feed.zone) : u <= c
      BY <1>1, <3>2, ShiftFacts DEF InStep, Instants
    <3> QED
      BY <3>1, <3>2 DEF InStep
  <2> QED
    BY <2>5, <2>6
<1>4. ASSUME NEW u \in ShiftsOf(feed.zone), c < u, u <= c + Hour
      PROVE  /\ InStep(c + Hour)
             /\ \A t \in c..(c + Hour) : Path(t) \in {Path(c), Path(c + Hour)}
  <2>1. u \in Int /\ u - 1 \in Instants /\ u \in Instants /\ u - 1 \in c..(c + Hour)
    BY <1>1, <1>4, ShiftFacts DEF Instants
  <2>2. WholeHour(LocalTime(c))
    BY <1>1, <1>4, <2>1 DEF InStep
  <2>3. \A v \in ShiftsOf(feed.zone) : v \in Int /\ (v < u => u - v > 2 * Hour) /\ (u < v => v - u > 2 * Hour)
    BY <1>1, ShiftFacts DEF OrdinaryZone, Instants
  <2>4. \A t \in c..(u - 1) : feed.zone[t] = feed.zone[c]
    <3> TAKE t \in c..(u - 1)
    <3>1. \A v \in ShiftsOf(feed.zone) : ~(c < v /\ v <= t)
      BY <1>1, <1>4, <2>1, <2>3, HourType
    <3> QED
      BY <1>1, <1>4, <2>1, <3>1, NoShift
  <2>5. \A t \in c..(u - 1) : LocalTime(t) = LocalTime(c) + (t - c)
    BY <1>1, <1>2, <1>4, <2>1, <2>4
  <2>6. LocalTime(u - 1) + 1 = LocalTime(c) + (u - c)
    BY <1>1, <1>2, <1>4, <2>1, <2>5
  <2>7. u = c + Hour
    <3>1. WholeHour(LocalTime(c) + (u - c)) /\ LocalTime(c) + (u - c) \in Int
      BY <1>2, <2>1, <2>6, ShiftFacts, LocalTimes
    <3>2. LocalTime(c) < LocalTime(c) + (u - c)
      BY <1>1, <1>2, <1>4, <2>1
    <3>3. LocalTime(c) + Hour <= LocalTime(c) + (u - c)
      BY <1>2, <2>2, <3>1, <3>2, WholeApart
    <3> QED
      BY <1>1, <1>2, <1>4, <2>1, <3>3
  <2>8. \A t \in c..(u - 1) : Path(t) = Path(c)
    <3> TAKE t \in c..(u - 1)
    <3>1. t \in Instants /\ LocalTime(t) = LocalTime(c) + (t - c) /\ t < c + Hour /\ c <= t /\ t \in Int
      BY <1>1, <1>4, <2>1, <2>5, <2>7
    <3>2. Path(t) = LocalTime(c)
      BY <1>1, <1>2, <2>2, <3>1, HourOfIs DEF Path
    <3>3. Path(c) = LocalTime(c)
      BY <1>1, <1>2, <2>2, HourOfIs, HourType DEF Path
    <3> QED
      BY <3>2, <3>3
  <2>9. InStep(c + Hour)
    <3>1. CASE \A v \in ShiftsOf(feed.zone) : Change(feed.zone, v) \in {-Hour, Hour}
      <4>1. WholeHour(LocalTime(u - 1) + 1) /\ LocalTime(u - 1) + 1 \in Int
        BY <2>1, ShiftFacts, LocalTimes
      <4>2. \/ LocalTime(u) = (LocalTime(u - 1) + 1) - Hour
            \/ LocalTime(u) = (LocalTime(u - 1) + 1) + Hour
        BY <1>1, <2>1, <3>1, <4>1, ShiftFacts
      <4> QED
        BY <2>7, <4>1, <4>2, WholeSum DEF InStep
    <3>2. CASE \A v, w \in ShiftsOf(feed.zone) : v = w
      BY <1>1, <2>1, <2>7, <3>2 DEF InStep
    <3> QED
      BY <3>1, <3>2 DEF OrdinaryZone
  <2> QED
    BY <1>1, <2>1, <2>7, <2>8, <2>9
<1> QED
  BY <1>3, <1>4
-----------------------------------------------------------------------------
(* Where the walk begins. *)
LEMMA EarliestLatest ==
    ASSUME NEW S \in SUBSET Instants, S # {}
    PROVE  /\ Earliest(S) \in S
           /\ Latest(S) \in S
           /\ \A u \in S : u <= Latest(S)
<1>1. LastInstant \in Nat /\ S \in SUBSET Nat
  BY ExtractionConstants DEF ExtractionConstants, Instants
<1>2. \E t \in S : \A u \in S : t <= u
  BY <1>1, LeastNatural
<1>3. \E t \in S : \A u \in S : u <= t
  BY <1>1, GreatestNatural DEF Instants
<1> QED
  BY <1>2, <1>3 DEF Earliest, Latest

(* The instants whose local time is the full hour before t's. *)
AtHourOf(t) == {u \in Instants : LocalTime(u) = Path(t)}

LEMMA FirstCursorCases ==
    ASSUME feed \in Feeds, NEW t \in Instants
    PROVE  \/ FirstCursor(t) \in AtHourOf(t)
           \/ AtHourOf(t) = {} /\ FirstCursor(t) = Path(t) - OffsetBeforeShift(t)
<1>1. CASE AtHourOf(t) = {}
  BY <1>1 DEF FirstCursor, AtHourOf, Path
<1>2. CASE AtHourOf(t) # {}
  <2>1. AtHourOf(t) \in SUBSET Instants
    BY DEF AtHourOf
  <2>2. Earliest(AtHourOf(t)) \in AtHourOf(t) /\ Latest(AtHourOf(t)) \in AtHourOf(t)
    BY <1>2, <2>1, EarliestLatest
  <2>3. FirstCursor(t) \in {Earliest(AtHourOf(t)), Latest(AtHourOf(t))}
    BY <1>2 DEF FirstCursor, AtHourOf, Path
  <2> QED
    BY <2>2, <2>3
<1> QED
  BY <1>1, <1>2

(* A local hour that no instant begins: a shift passed over it, before t    *)
(* and after the instant at which it would have begun.                      *)
LEMMA SkippedHour ==
    ASSUME feed \in Feeds, NEW t \in Instants, 2 * Hour <= t, AtHourOf(t) = {}
    PROVE  /\ Path(t) - feed.zone[t] \in Instants
           /\ Path(t) - feed.zone[t] < t
           /\ t < Path(t) - feed.zone[t] + Hour
           /\ feed.zone[Path(t) - feed.zone[t]] # feed.zone[t]
           /\ \E u \in Instants : /\ u < t
                                  /\ Path(t) - feed.zone[t] <= u
                                  /\ feed.zone[u] # feed.zone[t]
                                  /\ OffsetBeforeShift(t) = feed.zone[u]
                                  /\ \A v \in (u + 1)..t : feed.zone[v] = feed.zone[t]
<1> DEFINE a == Path(t) - feed.zone[t]
           S == {u \in Instants : u < t /\ feed.zone[u] # feed.zone[t]}
<1>1. t \in Int /\ feed.zone[t] \in Int /\ LocalTime(t) = t + feed.zone[t] /\ Path(t) \in Int
  BY FeedFacts, LocalTimes DEF LocalTime
<1>2. a \in Int /\ a <= t /\ t < a + Hour
  BY <1>1, LocalTimes, HourType
<1>3. a \in Instants
  <2>0. t <= LastInstant
    BY FeedFacts DEF Instants
  <2>1. 0 <= a
    <3> HIDE DEF a
    <3> QED
      BY <1>1, <1>2, HourType
  <2> QED
    BY <1>1, <1>2, <2>0, <2>1, FeedFacts DEF Instants
<1>4. feed.zone[a] # feed.zone[t]
  <2>1. a \notin AtHourOf(t) /\ LocalTime(a) = a + feed.zone[a] /\ feed.zone[a] \in Int
    BY <1>3, FeedFacts DEF LocalTime
  <2>2. a + feed.zone[t] = Path(t)
    BY <1>1
  <2> QED
    BY <1>3, <2>1, <2>2 DEF AtHourOf
<1>5. a \in S /\ a # t
  BY <1>1, <1>2, <1>3, <1>4
<1>6. S \in SUBSET Instants /\ S # {}
  BY <1>5
<1>7. Latest(S) \in S /\ \A u \in S : u <= Latest(S)
  <2> HIDE DEF S
  <2> QED
    BY <1>6, EarliestLatest
<1>8. OffsetBeforeShift(t) = feed.zone[Latest(S)]
  BY DEF OffsetBeforeShift
<1>9. \A v \in (Latest(S) + 1)..t : feed.zone[v] = feed.zone[t]
  <2> TAKE v \in (Latest(S) + 1)..t
  <2>1. Latest(S) \in Nat /\ v \in Instants /\ v > Latest(S)
    <3>1. Latest(S) \in Nat /\ t \in Instants
      BY <1>7, FeedFacts DEF Instants
    <3> HIDE DEF S
    <3> QED
      BY <3>1, FeedFacts DEF Instants
  <2>2. v \notin S
    BY <1>7, <2>1
  <2> QED
    BY <1>1, <2>1, <2>2
<1>10. a <= Latest(S)
  BY <1>5, <1>7
<1> QED
  BY <1>2, <1>3, <1>4, <1>5, <1>7, <1>8, <1>9, <1>10

LEMMA FirstCursorType ==
    ASSUME feed \in Feeds
    PROVE  FirstCursor(feed.walkFrom) \in Nat
<1>1. feed.walkFrom \in Instants
  BY FeedFacts, HourType DEF Instants
<1>2. CASE FirstCursor(feed.walkFrom) \in AtHourOf(feed.walkFrom)
  BY <1>2, FeedFacts DEF AtHourOf, Instants
<1>3. CASE /\ AtHourOf(feed.walkFrom) = {}
           /\ FirstCursor(feed.walkFrom) = Path(feed.walkFrom) - OffsetBeforeShift(feed.walkFrom)
  <2> DEFINE t == feed.walkFrom
             a == Path(t) - feed.zone[t]
  <2>1. a \in Instants /\ t < a + Hour /\ t \in Int /\ a \in Int
    BY <1>1, <1>3, SkippedHour, FeedFacts DEF Instants
  <2>2. PICK u \in Instants : OffsetBeforeShift(t) = feed.zone[u]
    BY <1>1, <1>3, SkippedHour, FeedFacts
  <2>3. feed.zone[u] \in Int /\ feed.zone[t] \in Int /\ feed.zone[u] - feed.zone[t] <= t - Hour
    BY <1>1, FeedFacts, OffsetsBounded
  <2>4. FirstCursor(t) = a - (feed.zone[u] - feed.zone[t])
    BY <1>1, <1>3, <2>2, <2>3, LocalTimes
  <2> HIDE DEF t, a
  <2>5. FirstCursor(t) \in Nat
    BY <2>1, <2>3, <2>4, HourType
  <2> QED
    BY <2>5 DEF t
<1> QED
  BY <1>1, <1>2, <1>3, FirstCursorCases

LEMMA FirstCursorCovers ==
    ASSUME feed \in Feeds, OrdinaryZone(feed.zone)
    PROVE  /\ FirstCursor(feed.walkFrom) \in Instants
           /\ Path(FirstCursor(feed.walkFrom)) = Path(feed.walkFrom)
           /\ InStep(FirstCursor(feed.walkFrom))
<1> DEFINE t == feed.walkFrom
           c == FirstCursor(t)
<1>1. t \in Instants /\ t \in Int /\ 2 * Hour <= t /\ Path(t) \in Int /\ WholeHour(Path(t))
  <2>1. t \in Instants /\ t \in Int /\ 2 * Hour <= t
    BY FeedFacts, HourType DEF Instants
  <2> QED
    BY <2>1, LocalTimes
<1>2. CASE c \in AtHourOf(t)
  <2>1. c \in Instants /\ LocalTime(c) = Path(t)
    BY <1>2 DEF AtHourOf
  <2>2. Path(c) = Path(t)
    BY <1>1, <2>1, HourOfIs, HourType DEF Path
  <2> QED
    BY <1>1, <2>1, <2>2 DEF InStep
<1>3. CASE AtHourOf(t) = {} /\ c = Path(t) - OffsetBeforeShift(t)
  <2> DEFINE a == Path(t) - feed.zone[t]
  <2>1. a \in Instants /\ a < t /\ t < a + Hour /\ feed.zone[a] # feed.zone[t]
    BY <1>1, <1>3, SkippedHour
  <2>2. PICK u \in Instants : /\ u < t /\ a <= u /\ feed.zone[u] # feed.zone[t]
                              /\ OffsetBeforeShift(t) = feed.zone[u]
                              /\ \A v \in (u + 1)..t : feed.zone[v] = feed.zone[t]
    BY <1>1, <1>3, SkippedHour
  <2> DEFINE s == u + 1
  <2>3. a \in Int /\ u \in Int /\ s \in Instants /\ s \in Int /\ s - 1 = u /\ s <= t /\ a < s
    <3>1. a \in Int /\ u \in Nat /\ t <= LastInstant /\ a <= u /\ u < t
      BY <1>1, <2>1, <2>2, FeedFacts DEF Instants
    <3>2. LastInstant \in Nat /\ t \in Int
      BY <1>1, FeedFacts
    <3> HIDE DEF a, t
    <3> QED
      BY <3>1, <3>2 DEF Instants
  <2>4. feed.zone[s] = feed.zone[t] /\ s \in ShiftsOf(feed.zone)
    <3>1. feed.zone[s] = feed.zone[t]
      BY <1>1, <2>2, <2>3
    <3>2. s \in 1..LastInstant
      <4>1. u \in Nat /\ u + 1 <= LastInstant
        BY <2>2, <2>3, FeedFacts DEF Instants
      <4> QED
        BY <4>1, FeedFacts
    <3> QED
      BY <2>2, <2>3, <3>1, <3>2 DEF ShiftsOf
  <2>5. \A v \in ShiftsOf(feed.zone) : v \in Int /\ (v < s => s - v > 2 * Hour) /\ (s < v => v - s > 2 * Hour)
    BY <2>3, <2>4, ShiftFacts, HourType DEF OrdinaryZone, Instants
  <2>6. feed.zone[a] = feed.zone[u]
    <3>1. \A v \in ShiftsOf(feed.zone) : ~(a < v /\ v <= u)
      BY <1>1, <2>1, <2>2, <2>3, <2>5, HourType
    <3> QED
      BY <2>1, <2>2, <3>1, NoShift
  <2>7. /\ feed.zone[t] \in Int /\ feed.zone[u] \in Int
        /\ Change(feed.zone, s) = feed.zone[t] - feed.zone[u]
        /\ c = a + Change(feed.zone, s)
        /\ c \in Int /\ Change(feed.zone, s) \in (-Hour)..Hour
    <3>1. feed.zone[t] \in Int /\ feed.zone[u] \in Int
      BY <1>1, <2>2, FeedFacts
    <3>2. Change(feed.zone, s) = feed.zone[t] - feed.zone[u]
      BY <2>3, <2>4 DEF Change
    <3>3. c = Path(t) - feed.zone[u]
      BY <1>3, <2>2
    <3>4. Change(feed.zone, s) \in (-Hour)..Hour
      BY <2>4, ShiftFacts
    <3> QED
      BY <1>1, <3>1, <3>2, <3>3, <3>4
  <2>8. c \in Instants => feed.zone[c] # feed.zone[u]
    <3>1. c + feed.zone[u] = Path(t)
      BY <1>1, <1>3, <2>2, <2>7
    <3> QED
      BY <1>3, <3>1 DEF AtHourOf, LocalTime
  <2>9. ~(c < a)
    <3> SUFFICES ASSUME c < a PROVE FALSE
      OBVIOUS
    <3>1. c \in Instants
      <4>1. 0 <= c /\ c <= LastInstant
        <5> HIDE DEF c
        <5>1. t <= LastInstant
          BY FeedFacts
        <5> QED
          BY <1>1, <2>1, <2>3, <2>7, <5>1, HourType, FeedFacts
      <4> QED
        BY <2>7, <4>1, FeedFacts DEF Instants
    <3>2. \E v \in ShiftsOf(feed.zone) : c < v /\ v <= a
      <4>1. c <= a /\ feed.zone[c] # feed.zone[a]
        BY <2>3, <2>6, <2>7, <2>8, <3>1
      <4> HIDE DEF c, a
      <4> QED
        BY <2>1, <3>1, <4>1, NoShift
    <3>3. /\ a \in Int /\ c \in Int /\ s \in Int /\ a < s /\ s - a <= Hour
          /\ a - c <= Hour
      BY <1>1, <2>1, <2>3, <2>7, HourType
    <3> HIDE DEF c, a, s
    <3>4. PICK v \in ShiftsOf(feed.zone) : c < v /\ v <= a
      BY <3>2
    <3>5. v \in Int /\ (v < s => s - v > 2 * Hour)
      BY <2>5
    <3> QED
      BY <3>3, <3>4, <3>5, HourType
  <2>10. ~(c < s)
    <3> SUFFICES ASSUME c < s PROVE FALSE
      OBVIOUS
    <3>1. a <= c /\ c <= u
      <4> HIDE DEF c, a
      <4> QED
        BY <2>3, <2>7, <2>9
    <3>0. c \in Instants
      <4> HIDE DEF c, a
      <4>1. a \in Int /\ c \in Int /\ u \in Int /\ LastInstant \in Nat
        BY <2>3, <2>7, FeedFacts
      <4>2. 0 <= a /\ u <= LastInstant
        BY <2>1, <4>1 DEF Instants
      <4> QED
        BY <3>1, <4>1, <4>2 DEF Instants
    <3>2. \A v \in ShiftsOf(feed.zone) : ~(a < v /\ v <= c)
      <4>1. a \in Int /\ c \in Int /\ s \in Int /\ c < s /\ s - a <= Hour
        BY <1>1, <2>1, <2>3, <2>7, HourType
      <4> HIDE DEF c, a, s
      <4> SUFFICES ASSUME NEW v \in ShiftsOf(feed.zone), a < v, v <= c PROVE FALSE
        OBVIOUS
      <4>2. v \in Int /\ (v < s => s - v > 2 * Hour)
        BY <2>5
      <4> QED
        BY <4>1, <4>2, HourType
    <3> QED
      BY <2>1, <2>6, <2>8, <3>0, <3>1, <3>2, NoShift
  <2>11. c = s
    <3>1. LocalTime(u) + 1 = s + feed.zone[u] /\ WholeHour(s + feed.zone[u])
      <4>1. LocalTime(u) = u + feed.zone[u]
        BY DEF LocalTime
      <4>2. WholeHour(LocalTime(s - 1) + 1)
        BY <2>4, ShiftFacts
      <4>3. s - 1 = u
        BY <2>3
      <4>4. LocalTime(u) + 1 = s + feed.zone[u]
        BY <2>3, <2>7, <4>1
      <4> QED
        BY <4>2, <4>3, <4>4
    <3>2. Path(t) = c + feed.zone[u]
      BY <1>1, <1>3, <2>2, <2>7
    <3>3. c < s + Hour
      BY <2>1, <2>3, <2>7, HourType
    <3>4. ~(s + feed.zone[u] < c + feed.zone[u])
      <4>1. s + feed.zone[u] < c + feed.zone[u] => s + feed.zone[u] + Hour <= c + feed.zone[u]
        BY <1>1, <2>3, <2>7, <3>1, <3>2, WholeApart
      <4> QED
        BY <2>3, <2>7, <3>3, <4>1, HourType
    <3> QED
      BY <2>3, <2>7, <2>10, <3>4
  <2>12. LocalTime(c) = Path(t) + Change(feed.zone, s)
    BY <1>1, <1>3, <2>2, <2>3, <2>4, <2>7, <2>11 DEF LocalTime
  <2>13. LocalTime(c) <= LocalTime(t) /\ LocalTime(t) < Path(t) + Hour /\ LocalTime(c) \in Int /\ LocalTime(t) \in Int
    BY <1>1, <2>3, <2>4, <2>7, <2>11, LocalTimes DEF LocalTime
  <2>14. 0 < Change(feed.zone, s) /\ Change(feed.zone, s) < Hour
    BY <1>1, <2>3, <2>7, <2>11, <2>12, <2>13, HourType
  <2>15. Path(c) = Path(t)
    <3>1. Path(t) <= LocalTime(c) /\ LocalTime(c) < Path(t) + Hour
      <4> HIDE DEF c, a
      <4> QED
        BY <1>1, <2>7, <2>12, <2>14, HourType
    <3> HIDE DEF c
    <3> QED
      BY <1>1, <2>13, <3>1, HourOfIs DEF Path
  <2>16. \A v \in ShiftsOf(feed.zone) : v <= c
    <3>1. \A v, w \in ShiftsOf(feed.zone) : v = w
      BY <2>4, <2>7, <2>14, HourType DEF OrdinaryZone
    <3> QED
      BY <2>3, <2>4, <2>11, <3>1
  <2> QED
    BY <2>3, <2>11, <2>15, <2>16 DEF InStep
<1> QED
  BY <1>1, <1>2, <1>3, FirstCursorCases
-----------------------------------------------------------------------------
(* Listings and decoding. *)
ETags == 1..(MaxOverwrites + 1)

(* What was listed; once read, the content it was listed with. *)
Items == {x \in [key : Keys, etag : ETags, content : {Refused, Waiting} \cup ETags] :
            x.content \in {Refused, Waiting, x.etag}}

LEMMA KeysFacts ==
    ASSUME feed \in Feeds
    PROVE  /\ Len(feed.objects) \in Nat
           /\ Keys = 1..Len(feed.objects)
           /\ MaxOverwrites \in Nat
  BY FeedsAssumption, ExtractionConstants
     DEF FeedsAssumption, ExtractionConstants, Sequential, Keys

Found(folder) == {o \in Keys : InFolder(o, folder) /\ InWindow(o)}

LEMMA NewItem ==
    ASSUME NEW k \in Keys, NEW e \in ETags, NEW x,
           x = [key |-> k, etag |-> e, content |-> Waiting]
    PROVE  /\ x \in Items
           /\ x.key = k /\ x.etag = e /\ x.content = Waiting
<1>1. x \in [key : Keys, etag : ETags, content : {Refused, Waiting} \cup ETags]
  OBVIOUS
<1>2. x.key = k /\ x.etag = e /\ x.content = Waiting
  OBVIOUS
<1> QED
  BY <1>1, <1>2 DEF Items

LEMMA ListingFacts ==
    ASSUME feed \in Feeds, version \in [Keys -> ETags], NEW folder
    PROVE  /\ Listing(folder) \in Seq(Items)
           /\ \A i \in 1..Len(Listing(folder)) :
                 /\ Listing(folder)[i].key \in Found(folder)
                 /\ Listing(folder)[i].etag = version[Listing(folder)[i].key]
                 /\ Listing(folder)[i].content = Waiting
           /\ \A i, j \in 1..Len(Listing(folder)) :
                 i < j => Listing(folder)[i].key < Listing(folder)[j].key
           /\ \A o \in Found(folder) : \E i \in 1..Len(Listing(folder)) : Listing(folder)[i].key = o
<1> DEFINE S == Found(folder)
           n == Cardinality(S)
           asc == Ascending(S)
           L == Listing(folder)
<1>1. L = [i \in DOMAIN asc |-> [key |-> asc[i], etag |-> version[asc[i]], content |-> Waiting]]
  BY DEF Listing, Found
<1>2. S \in SUBSET (1..Len(feed.objects)) /\ S \subseteq Keys
  BY KeysFacts DEF Found
<1> HIDE DEF S, L, asc
<1>3. /\ n \in Nat
      /\ DOMAIN asc = 1..n
      /\ \A i \in 1..n : asc[i] \in S
      /\ \A i, j \in 1..n : i < j => asc[i] < asc[j]
      /\ \A o \in S : \E i \in 1..n : asc[i] = o
  <2>1. asc = Ascending(S)
    BY DEF asc
  <2>2. Len(feed.objects) \in Nat
    BY KeysFacts
  <2>3. /\ Cardinality(S) \in Nat
        /\ DOMAIN Ascending(S) = 1..Cardinality(S)
        /\ \A i \in 1..Cardinality(S) : Ascending(S)[i] \in S
        /\ \A i, j \in 1..Cardinality(S) : i < j => Ascending(S)[i] < Ascending(S)[j]
        /\ \A o \in S : \E i \in 1..Cardinality(S) : Ascending(S)[i] = o
    BY <1>2, <2>2, Enumeration
  <2> QED
    BY <2>1, <2>3
<1> HIDE DEF n
<1>4. \A i \in 1..n : L[i] = [key |-> asc[i], etag |-> version[asc[i]], content |-> Waiting]
  BY <1>1, <1>3
<1>5. ASSUME NEW i \in 1..n
      PROVE  /\ L[i] \in Items
             /\ L[i].key = asc[i] /\ L[i].etag = version[asc[i]] /\ L[i].content = Waiting
  <2>1. asc[i] \in Keys /\ version[asc[i]] \in ETags
    BY <1>2, <1>3
  <2> DEFINE k == asc[i]
             e == version[asc[i]]
             x == L[i]
  <2>2. x = [key |-> k, etag |-> e, content |-> Waiting]
    BY <1>4
  <2>3. k \in Keys /\ e \in ETags
    BY <2>1
  <2> HIDE DEF k, e, x
  <2>4. x \in Items /\ x.key = k /\ x.etag = e /\ x.content = Waiting
    BY <2>2, <2>3, NewItem
  <2> QED
    BY <2>4 DEF k, e, x
<1>6. L \in Seq(Items) /\ Len(L) = n
  <2>1. L = [i \in 1..n |-> L[i]]
    BY <1>1, <1>3
  <2>2. \A i \in 1..n : L[i] \in Items
    BY <1>5
  <2>3. n \in Nat
    BY <1>3
  <2> QED
    BY <2>1, <2>2, <2>3
<1> QED
  BY <1>3, <1>5, <1>6 DEF L, S

LEMMA DecodeFacts ==
    ASSUME NEW body, NEW document, Sequential(body.records)
    PROVE  /\ Len(body.records) \in Nat
           /\ Decode(body, document).raises \in BOOLEAN
           /\ Decode(body, document).rows \in Seq(Nat)
           /\ Len(Decode(body, document).rows) <= Len(body.records)
           /\ \A i \in 1..Len(Decode(body, document).rows) : Decode(body, document).rows[i] = i
           /\ ~Decode(body, document).raises =>
                 /\ Len(Decode(body, document).rows) = Len(body.records)
                 /\ \A i \in DOMAIN body.records : Accepts(body.records[i], document)
<1> DEFINE refused == {i \in DOMAIN body.records : ~Accepts(body.records[i], document)}
           ordinals == [i \in DOMAIN body.records |-> i]
           first == CHOOSE i \in refused : \A j \in refused : i <= j
           n == Len(body.records)
           d == Decode(body, document)
<1>1. n \in Nat /\ DOMAIN body.records = 1..n
  BY DEF Sequential
<1>2. ordinals \in Seq(Nat) /\ Len(ordinals) = n /\ \A i \in 1..n : ordinals[i] = i
  <2> HIDE DEF n
  <2> QED
    BY <1>1
<1>3. d = IF ~Opens(body, document) THEN [rows |-> <<>>, raises |-> TRUE]
          ELSE IF refused = {} THEN [rows |-> ordinals, raises |-> FALSE]
          ELSE [rows |-> SubSeq(ordinals, 1, first - 1), raises |-> TRUE]
  BY DEF Decode
<1>4. refused # {} => first \in 1..n
  <2> SUFFICES ASSUME refused # {} PROVE first \in 1..n
    OBVIOUS
  <2>1. refused \in SUBSET Nat /\ refused \subseteq 1..n
    BY <1>1
  <2> HIDE DEF refused
  <2>2. \E i \in refused : \A j \in refused : i <= j
    BY <2>1, LeastNatural
  <2> QED
    BY <2>1, <2>2
<1>5. refused = {} => \A i \in DOMAIN body.records : Accepts(body.records[i], document)
  OBVIOUS
<1> HIDE DEF refused, ordinals, first, n, d
<1> DEFINE Goal == /\ d.rows \in Seq(Nat)
                   /\ Len(d.rows) <= n
                   /\ \A i \in 1..Len(d.rows) : d.rows[i] = i
<1>6. CASE ~Opens(body, document)
  <2>1. d = [rows |-> <<>>, raises |-> TRUE]
    BY <1>3, <1>6
  <2>2. d.rows = <<>> /\ d.raises = TRUE
    BY <2>1
  <2>3. Goal
    BY <1>1, <2>2
  <2> QED
    BY <1>1, <2>2, <2>3 DEF d, n
<1>7. CASE Opens(body, document) /\ refused = {}
  <2>1. d = [rows |-> ordinals, raises |-> FALSE]
    BY <1>3, <1>7
  <2>2. d.rows = ordinals /\ d.raises = FALSE
    BY <2>1
  <2>3. Goal
    BY <1>1, <1>2, <2>2
  <2> QED
    BY <1>1, <1>2, <1>5, <1>7, <2>2, <2>3 DEF d, n
<1>8. CASE Opens(body, document) /\ refused # {}
  <2>1. d = [rows |-> SubSeq(ordinals, 1, first - 1), raises |-> TRUE]
    BY <1>3, <1>8
  <2>2. d.rows = SubSeq(ordinals, 1, first - 1) /\ d.raises = TRUE
    BY <2>1
  <2>3. first - 1 \in 0..n
    BY <1>1, <1>4, <1>8
  <2>4. d.rows \in Seq(Nat) /\ Len(d.rows) = first - 1 /\ \A i \in 1..(first - 1) : d.rows[i] = i
    BY <1>1, <1>2, <2>2, <2>3
  <2>5. Goal
    BY <1>1, <2>2, <2>3, <2>4
  <2> QED
    BY <1>1, <1>8, <2>2, <2>5 DEF d, n
<1> QED
  BY <1>6, <1>7, <1>8

-----------------------------------------------------------------------------
(* The bytes of a batch. *)
LEMMA BytesInSums ==
    ASSUME NEW b, Len(b) \in Nat, \A i \in 1..Len(b) : b[i].bytes \in Nat
    PROVE  \E f : /\ Sums(f, [i \in 1..Len(b) |-> b[i].bytes], Len(b))
                  /\ BytesIn(b) = f[Len(b)]
<1> DEFINE n == Len(b)
           a == [i \in 1..n |-> b[i].bytes]
           sum[i \in 0..n] == IF i = 0 THEN 0 ELSE sum[i - 1] + b[i].bytes
<1>1. PICK f : Sums(f, a, n)
  BY SumsExist
<1>2. f = [i \in 0..n |-> IF i = 0 THEN 0 ELSE f[i - 1] + b[i].bytes]
  <2>1. f = [i \in 0..n |-> f[i]]
    BY <1>1 DEF Sums
  <2>2. \A i \in 0..n : f[i] = IF i = 0 THEN 0 ELSE f[i - 1] + b[i].bytes
    BY <1>1 DEF Sums
  <2> QED
    BY <2>1, <2>2
<1>3. sum = [i \in 0..n |-> IF i = 0 THEN 0 ELSE sum[i - 1] + b[i].bytes]
  BY <1>2
<1>4. BytesIn(b) = sum[n]
  BY DEF BytesIn
<1> HIDE DEF sum
<1>5. sum = [i \in 0..n |-> IF i = 0 THEN 0 ELSE sum[i - 1] + a[i]]
  BY <1>3
<1>6. Sums(sum, a, n)
  BY <1>5, FunctionAsSums
<1> QED
  BY <1>4, <1>6

LEMMA BytesAppend ==
    ASSUME NEW S, NEW b \in Seq(S), \A x \in S : x.bytes \in Nat, NEW r \in S
    PROVE  /\ BytesIn(b) \in Nat
           /\ BytesIn(Append(b, r)) = BytesIn(b) + r.bytes
<1> DEFINE n == Len(b)
           c == Append(b, r)
           a == [i \in 1..n |-> b[i].bytes]
           d == [i \in 1..(n + 1) |-> c[i].bytes]
<1>1. n \in Nat /\ c \in Seq(S) /\ Len(c) = n + 1 /\ c[n + 1] = r /\ \A i \in 1..n : c[i] = b[i]
  OBVIOUS
<1>2. (\A i \in 1..n : b[i].bytes \in Nat) /\ (\A i \in 1..(n + 1) : c[i].bytes \in Nat)
  BY <1>1
<1>3. PICK f : Sums(f, a, n) /\ BytesIn(b) = f[n]
  BY <1>1, <1>2, BytesInSums
<1>4. PICK g : Sums(g, d, n + 1) /\ BytesIn(c) = g[n + 1]
  <2> HIDE DEF c
  <2>1. Len(c) \in Nat /\ \A i \in 1..Len(c) : c[i].bytes \in Nat
    BY <1>1, <1>2
  <2>2. \E g : Sums(g, [i \in 1..Len(c) |-> c[i].bytes], Len(c)) /\ BytesIn(c) = g[Len(c)]
    BY <2>1, BytesInSums
  <2> QED
    BY <1>1, <2>2
<1>5. (\A i \in 1..n : a[i] = d[i]) /\ d[n + 1] = r.bytes
  BY <1>1
<1> HIDE DEF a, d, c
<1>6. g[n + 1] = f[n] + d[n + 1]
  BY <1>1, <1>3, <1>4, <1>5, SumsAppend
<1>7. f[n] \in Nat
  BY <1>1, <1>3 DEF Sums
<1> QED
  BY <1>3, <1>4, <1>5, <1>6, <1>7 DEF c
=============================================================================
