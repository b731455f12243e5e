-------------------------- MODULE InstrumentProofs --------------------------
(***************************************************************************)
(* Theorems about what a metric goes through: the cardinality guard        *)
(* (Cardinality), for every set of threads, keys and values, every limit,  *)
(* and any bound on how long a thread waits for the lock; then the meters  *)
(* and instruments (Metering), for any finite set of threads and any       *)
(* number of setups, instruments and uses.                                 *)
(***************************************************************************)
EXTENDS Cardinality, Metering, FiniteSetTheorems, SequenceTheorems, TLAPS

(***************************************************************************)
(* Cardinality: the inductive invariant.  The bounds need to know how the  *)
(* times of the table relate to the true ones: a reading of the clock is   *)
(* at most Delay old, so a recorded time is at most Delay before the true  *)
(* one; and what is still held was let through after the last sweep, or    *)
(* survived it.                                                            *)
(***************************************************************************)
\* A limit in force is one of those the history has seen.
LimitsKnown ==
  \A k \in Keys :
    limits[k] # NoLimit =>
      /\ limits[k].max <= loosest[k].max
      /\ limits[k].ttl <= loosest[k].ttl
      /\ limits[k].ttl >= loosest[k].shortest

\* A thread that waits for the lock has a reading that is at most Delay old.
ReadingsFresh ==
  \A t \in Threads :
    pc[t] = "waiting" => now[t] <= clock /\ clock <= now[t] + Delay

\* The times of the table against the true ones, and against the last sweep.
TimesAgree ==
  \A k \in Keys :
    /\ lastPrune[k] <= clock
    /\ \A v \in Values :
         seen[k][v] # Never =>
           /\ used[k][v] # Never
           /\ used[k][v] <= clock
           /\ seen[k][v] <= used[k][v]
           /\ used[k][v] <= seen[k][v] + Delay
           /\ lastPrune[k] <= used[k][v] + loosest[k].ttl

IInv ==
  /\ TypeOK
  /\ LimitsKnown
  /\ ReadingsFresh
  /\ TimesAgree
  /\ SeenBounded
  /\ RecentSurvives
-----------------------------------------------------------------------------
LEMMA HeldFinite ==
  ASSUME NEW s PROVE IsFiniteSet(Held(s)) /\ Cardinality(Held(s)) \in Nat
<1>1. Held(s) \subseteq Values
  BY DEF Held
<1> QED
  BY <1>1, ValuesAssumption, FS_Subset, FS_CardinalityType

LEMMA HeldMonotonic ==
  ASSUME NEW r, NEW s, Held(r) \subseteq Held(s)
  PROVE  Cardinality(Held(r)) <= Cardinality(Held(s))
BY HeldFinite, FS_Subset

LEMMA ClampedIsLimit == \A r \in Requests : Clamped(r) \in Limit
BY RequestAssumption DEF Clamped, AtLeast, Limit

LEMMA InitInv == Init => IInv
<1> SUFFICES ASSUME Init PROVE IInv
  OBVIOUS
<1>1. Unused \in [Values -> Time] /\ NoLoosest \in Loosest
  BY TimeAssumption DEF Unused, Time, NoLoosest, Loosest
<1>2. <<>> \in Attributes
  <2>1. <<>> \in [{} -> Values]
    OBVIOUS
  <2>2. [{} -> Values] \in {[S -> Values] : S \in SUBSET Keys}
    OBVIOUS
  <2> QED
    BY <2>1, <2>2 DEF Attributes
<1>3. Held(Unused) = {}
  BY DEF Held, Unused
<1>4. TypeOK
  BY <1>1, <1>2 DEF Init, TypeOK
<1>5. LimitsKnown /\ ReadingsFresh
  BY DEF Init, LimitsKnown, ReadingsFresh
<1>6. TimesAgree /\ RecentSurvives
  BY DEF Init, TimesAgree, RecentSurvives, Unused
<1>7. SeenBounded
  <2>1. Cardinality(Held(Unused)) = 0
    BY <1>3, FS_EmptySet
  <2>2. \A k \in Keys : seen[k] = Unused /\ loosest[k].max = 0
    BY DEF Init, NoLoosest
  <2> QED
    BY <2>1, <2>2 DEF SeenBounded
<1> QED
  BY <1>4, <1>5, <1>6, <1>7 DEF IInv
-----------------------------------------------------------------------------
LEMMA RegisterInv ==
  ASSUME IInv, NEW k \in Keys, NEW r \in Requests, Register(k, r) PROVE IInv'
<1> DEFINE L == [max      |-> AtLeast(loosest[k].max, Clamped(r).max),
                 ttl      |-> AtLeast(loosest[k].ttl, Clamped(r).ttl),
                 shortest |-> AtMost(loosest[k].shortest, Clamped(r).ttl)]
<1>1. Clamped(r) \in Limit
  BY ClampedIsLimit
<1>2. loosest[k] \in Loosest
  BY DEF IInv, TypeOK
<1>3. L \in Loosest
  BY <1>1, <1>2 DEF Loosest, Limit, AtLeast, AtMost
<1>4. /\ L.max >= loosest[k].max /\ L.ttl >= loosest[k].ttl
      /\ L.shortest <= loosest[k].shortest
      /\ Clamped(r).max <= L.max /\ Clamped(r).ttl <= L.ttl
      /\ Clamped(r).ttl >= L.shortest
  BY <1>1, <1>2 DEF Loosest, Limit, AtLeast, AtMost
<1>5. loosest' = [loosest EXCEPT ![k] = L] /\ limits' = [limits EXCEPT ![k] = Clamped(r)]
  BY DEF Register
<1> HIDE DEF L
<1>6. TypeOK'
  BY <1>1, <1>3, <1>5 DEF IInv, TypeOK, Register, calls
<1>7. LimitsKnown'
  BY <1>4, <1>5 DEF IInv, TypeOK, LimitsKnown
<1>8. ReadingsFresh'
  BY DEF IInv, ReadingsFresh, Register, calls
<1>9. TimesAgree'
  BY <1>2, <1>3, <1>4, <1>5 DEF IInv, TypeOK, TimesAgree, Register, Time, Loosest
<1>10. SeenBounded'
  <2> SUFFICES ASSUME NEW j \in Keys
               PROVE  Cardinality(Held(seen'[j])) <= loosest'[j].max
    BY DEF SeenBounded
  <2>1. Cardinality(Held(seen[j])) <= loosest[j].max /\ loosest[j] \in Loosest
    BY DEF IInv, SeenBounded, TypeOK
  <2>2. loosest'[j].max >= loosest[j].max /\ loosest'[j].max \in Nat
    BY <1>3, <1>4, <1>5, <2>1 DEF IInv, TypeOK, Loosest
  <2>3. seen' = seen
    BY DEF Register
  <2> QED
    BY <2>1, <2>2, <2>3, HeldFinite DEF Loosest
<1>11. RecentSurvives'
  BY <1>2, <1>3, <1>4, <1>5, TimeAssumption
     DEF IInv, TypeOK, RecentSurvives, Register, Time, Loosest
<1> QED
  BY <1>6, <1>7, <1>8, <1>9, <1>10, <1>11 DEF IInv

LEMMA ClearInv == ASSUME IInv, Clear PROVE IInv'
<1>1. Unused \in [Values -> Time] /\ NoLoosest \in Loosest
  BY TimeAssumption DEF Unused, Time, NoLoosest, Loosest
<1>2. Held(Unused) = {}
  BY DEF Held, Unused
<1>3. TypeOK'
  BY <1>1 DEF IInv, TypeOK, Clear, calls
<1>4. LimitsKnown' /\ ReadingsFresh'
  BY DEF IInv, LimitsKnown, ReadingsFresh, Clear, calls
<1>5. TimesAgree' /\ RecentSurvives'
  BY DEF IInv, TypeOK, TimesAgree, RecentSurvives, Unused, Clear
<1>6. SeenBounded'
  BY <1>2, FS_EmptySet DEF SeenBounded, NoLoosest, Clear
<1> QED
  BY <1>3, <1>4, <1>5, <1>6 DEF IInv

LEMMA ReadClockInv ==
  ASSUME IInv, NEW t \in Threads, NEW a \in Attributes, ReadClock(t, a) PROVE IInv'
<1>1. TypeOK'
  BY DEF IInv, TypeOK, ReadClock
<1>2. ReadingsFresh'
  BY TimeAssumption DEF IInv, TypeOK, ReadingsFresh, ReadClock
<1>3. LimitsKnown' /\ TimesAgree' /\ SeenBounded' /\ RecentSurvives'
  BY DEF IInv, LimitsKnown, TimesAgree, SeenBounded, RecentSurvives, ReadClock
<1> QED
  BY <1>1, <1>2, <1>3 DEF IInv

LEMMA TickInv == ASSUME IInv, Tick PROVE IInv'
<1>1. TypeOK'
  BY DEF IInv, TypeOK, Tick, calls
<1>2. ReadingsFresh'
  BY TimeAssumption DEF IInv, TypeOK, ReadingsFresh, Tick, calls
<1>3. LimitsKnown' /\ SeenBounded'
  BY DEF IInv, LimitsKnown, SeenBounded, Tick
<1>4. TimesAgree'
  BY DEF IInv, TypeOK, TimesAgree, Tick, Time
<1>5. RecentSurvives'
  BY TimeAssumption DEF IInv, TypeOK, RecentSurvives, Tick, Time, Loosest
<1> QED
  BY <1>1, <1>2, <1>3, <1>4, <1>5 DEF IInv
-----------------------------------------------------------------------------
\* What a guarded value does to the table of its key.
LEMMA SweptType ==
  ASSUME TypeOK, NEW k \in Keys, NEW n \in Nat
  PROVE  /\ Swept(k, n) \in [Values -> Time]
         /\ Held(Swept(k, n)) \subseteq Held(seen[k])
         /\ \A v \in Held(Swept(k, n)) : Swept(k, n)[v] = seen[k][v]
BY DEF TypeOK, Swept, Held, Time

LEMMA AfterType ==
  ASSUME TypeOK, NEW k \in Keys, NEW v \in Values, NEW n \in Nat
  PROVE  After(k, v, n) \in [Values -> Time]
BY SweptType DEF After, Time

LEMMA AfterBounded ==
  ASSUME IInv, NEW k \in Keys, limits[k] # NoLimit, NEW v \in Values, NEW n \in Nat
  PROVE  Cardinality(Held(After(k, v, n))) <= loosest[k].max
<1> DEFINE S == Swept(k, n)
<1>1. /\ S \in [Values -> Time] /\ Held(S) \subseteq Held(seen[k])
  BY SweptType DEF IInv
<1>2. Cardinality(Held(S)) <= loosest[k].max
  <2>1. Cardinality(Held(S)) <= Cardinality(Held(seen[k]))
    BY <1>1, HeldMonotonic
  <2>2. Cardinality(Held(seen[k])) <= loosest[k].max /\ loosest[k].max \in Nat
    BY DEF IInv, SeenBounded, TypeOK, Loosest
  <2> QED
    BY <2>1, <2>2, HeldFinite
<1>3. CASE Overflows(k, v, n)
  BY <1>2, <1>3 DEF After
<1>4. CASE ~Overflows(k, v, n)
  <2>1. After(k, v, n) = [S EXCEPT ![v] = n]
    BY <1>4 DEF After
  <2> HIDE DEF S
  <2>2. Held(After(k, v, n)) = Held(S) \cup {v}
    BY <1>1, <2>1, NoneAssumption DEF Held
  <2>3. CASE v \in Held(S)
    BY <1>2, <2>2, <2>3
  <2>4. CASE v \notin Held(S)
    <3>1. ~(Cardinality(Held(S)) >= limits[k].max)
      BY <1>4, <2>4 DEF Overflows, Full, S
    <3>2. Cardinality(Held(S) \cup {v}) = Cardinality(Held(S)) + 1
      BY <2>4, HeldFinite, FS_AddElement
    <3>3. limits[k].max <= loosest[k].max /\ limits[k].max \in Nat /\ loosest[k].max \in Nat
      BY DEF IInv, LimitsKnown, TypeOK, Limit, Loosest
    <3> QED
      BY <2>2, <3>1, <3>2, <3>3, HeldFinite
  <2> QED
    BY <2>3, <2>4
<1> QED
  BY <1>3, <1>4

LEMMA GuardInv == ASSUME IInv, NEW t \in Threads, Guard(t) PROVE IInv'
<1> DEFINE a == attrs[t]
           n == now[t]
<1> USE DEF IInv
<1>1. /\ n \in Nat /\ clock \in Nat /\ n <= clock /\ clock <= n + Delay
      /\ Delay \in Nat /\ PruneInterval \in Nat
  BY TimeAssumption DEF TypeOK, ReadingsFresh, Guard
<1>2. /\ DOMAIN a \subseteq Keys
      /\ \A k \in DOMAIN a : a[k] \in Values
  BY DEF TypeOK, Attributes
<1>3. Limited(a) \subseteq Keys /\ \A k \in Limited(a) : limits[k] # NoLimit /\ a[k] \in Values
  BY <1>2 DEF Limited
<1>4. ASSUME NEW k \in Keys
      PROVE /\ seen'[k] = IF k \in Limited(a) THEN After(k, a[k], n) ELSE seen[k]
            /\ lastPrune'[k] = IF k \in Limited(a) /\ Due(k, n) THEN n ELSE lastPrune[k]
            /\ used'[k] = IF k \in Limited(a) /\ ~Overflows(k, a[k], n)
                          THEN [used[k] EXCEPT ![a[k]] = clock] ELSE used[k]
  <2>1. k \in Limited(a) => (Guarded(a, n)[k] # Overflow <=> ~Overflows(k, a[k], n))
    BY <1>3, ValuesAssumption DEF Guarded, Limited
  <2> QED
    BY <2>1 DEF Guard
<1>5. UNCHANGED <<clock, limits, loosest>>
  BY DEF Guard
<1>6. TypeOK'
  <2>1. seen' \in [Keys -> [Values -> Time]]
    <3>1. ASSUME NEW k \in Keys PROVE seen'[k] \in [Values -> Time]
      <4>1. CASE k \in Limited(a)
        <5>1. After(k, a[k], n) \in [Values -> Time]
          BY <1>1, <1>3, <4>1, AfterType
        <5> QED
          BY <1>4, <4>1, <5>1
      <4>2. CASE k \notin Limited(a)
        BY <1>4, <4>2 DEF TypeOK
      <4> QED
        BY <4>1, <4>2
    <3> QED
      BY <3>1 DEF Guard
  <2>2. used' \in [Keys -> [Values -> Time]]
    <3>1. ASSUME NEW k \in Keys PROVE used'[k] \in [Values -> Time]
      <4>1. used[k] \in [Values -> Time] /\ clock \in Time
        BY <1>1 DEF TypeOK, Time
      <4>2. [used[k] EXCEPT ![a[k]] = clock] \in [Values -> Time]
        BY <4>1
      <4> HIDE DEF a, n
      <4> QED
        BY <1>4, <4>1, <4>2
    <3> QED
      BY <3>1 DEF Guard
  <2>3. lastPrune' \in [Keys -> Nat]
    BY <1>1 DEF TypeOK, Guard
  <2>4. <<>> \in Attributes
    <3>1. <<>> \in [{} -> Values] /\ [{} -> Values] \in {[S -> Values] : S \in SUBSET Keys}
      OBVIOUS
    <3> QED
      BY <3>1 DEF Attributes
  <2>5. pc' \in [Threads -> {"idle", "waiting"}] /\ attrs' \in [Threads -> Attributes] /\ now' \in [Threads -> Nat]
    BY <2>4 DEF TypeOK, Guard
  <2> QED
    BY <1>5, <2>1, <2>2, <2>3, <2>5 DEF TypeOK
<1>7. LimitsKnown'
  BY <1>5 DEF LimitsKnown
<1>8. ReadingsFresh'
  BY <1>5 DEF TypeOK, ReadingsFresh, Guard
<1>9. SeenBounded'
  BY <1>1, <1>3, <1>4, <1>5, AfterBounded DEF SeenBounded
<1>10. ASSUME NEW k \in Limited(a), NEW v \in Values
       PROVE  /\ seen'[k][v] = IF v = a[k] /\ ~Overflows(k, a[k], n) THEN n ELSE Swept(k, n)[v]
              /\ used'[k][v] = IF v = a[k] /\ ~Overflows(k, a[k], n) THEN clock ELSE used[k][v]
  <2>1. k \in Keys /\ a[k] \in Values /\ used[k] \in [Values -> Time]
    BY <1>3 DEF TypeOK
  <2>2. Swept(k, n) \in [Values -> Time]
    BY <1>1, <2>1, SweptType
  <2>3. /\ seen'[k] = After(k, a[k], n)
        /\ used'[k] = IF ~Overflows(k, a[k], n) THEN [used[k] EXCEPT ![a[k]] = clock] ELSE used[k]
    BY <1>4, <2>1
  <2> HIDE DEF a, n
  <2> QED
    BY <2>1, <2>2, <2>3 DEF After
<1>11. ASSUME NEW k \in Limited(a)
       PROVE  /\ limits[k] \in Limit /\ loosest[k] \in Loosest
              /\ limits[k].ttl <= loosest[k].ttl /\ limits[k].ttl >= loosest[k].shortest
              /\ limits[k].ttl \in Nat /\ loosest[k].ttl \in Nat /\ loosest[k].shortest \in Nat
  BY <1>3 DEF TypeOK, LimitsKnown, Limit, Loosest
<1>12. TimesAgree'
  <2> SUFFICES ASSUME NEW k \in Keys
               PROVE /\ lastPrune'[k] <= clock
                     /\ \A v \in Values :
                          seen'[k][v] # Never =>
                            /\ used'[k][v] # Never
                            /\ used'[k][v] <= clock
                            /\ seen'[k][v] <= used'[k][v]
                            /\ used'[k][v] <= seen'[k][v] + Delay
                            /\ lastPrune'[k] <= used'[k][v] + loosest[k].ttl
    BY <1>5 DEF TimesAgree
  <2>1. CASE k \notin Limited(a)
    BY <1>4, <2>1 DEF TimesAgree
  <2>2. CASE k \in Limited(a)
    <3>1. lastPrune'[k] <= clock /\ lastPrune'[k] \in Nat /\ lastPrune[k] \in Nat
      BY <1>1, <1>4 DEF TimesAgree, TypeOK
    <3>2. ASSUME NEW v \in Values, seen'[k][v] # Never
          PROVE  /\ used'[k][v] # Never
                 /\ used'[k][v] <= clock
                 /\ seen'[k][v] <= used'[k][v]
                 /\ used'[k][v] <= seen'[k][v] + Delay
                 /\ lastPrune'[k] <= used'[k][v] + loosest[k].ttl
      <4>1. CASE v = a[k] /\ ~Overflows(k, a[k], n)
        BY <1>1, <1>10, <1>11, <2>2, <3>1, <4>1, NoneAssumption
      <4>2. CASE ~(v = a[k] /\ ~Overflows(k, a[k], n))
        <5>1. seen'[k][v] = Swept(k, n)[v] /\ used'[k][v] = used[k][v]
          BY <1>10, <2>2, <4>2
        <5>2. seen'[k][v] = seen[k][v] /\ (Due(k, n) => ~(seen[k][v] < n - limits[k].ttl))
          BY <3>2, <5>1 DEF Swept
        <5>3. /\ used[k][v] # Never /\ used[k][v] <= clock /\ seen[k][v] <= used[k][v]
              /\ used[k][v] <= seen[k][v] + Delay
              /\ lastPrune[k] <= used[k][v] + loosest[k].ttl
              /\ seen[k][v] \in Nat /\ used[k][v] \in Nat
          BY <3>2, <5>2 DEF TimesAgree, TypeOK, Time
        <5>4. lastPrune'[k] <= used[k][v] + loosest[k].ttl
          <6>1. CASE Due(k, n)
            <7>1. lastPrune'[k] = n
              BY <1>4, <2>2, <6>1
            <7>2. ~(seen[k][v] < n - limits[k].ttl)
              BY <5>2, <6>1
            <7>3. limits[k].ttl <= loosest[k].ttl /\ limits[k].ttl \in Nat /\ loosest[k].ttl \in Nat
              BY <1>11, <2>2
            <7> HIDE DEF a, n
            <7> QED
              BY <1>1, <5>3, <7>1, <7>2, <7>3
          <6>2. CASE ~Due(k, n)
            BY <1>4, <5>3, <6>2
          <6> QED
            BY <6>1, <6>2
        <5> QED
          BY <5>1, <5>2, <5>3, <5>4
      <4> QED
        BY <4>1, <4>2
    <3> QED
      BY <3>1, <3>2
  <2> QED
    BY <2>1, <2>2
<1>13. RecentSurvives'
  <2> SUFFICES ASSUME NEW k \in Keys, NEW v \in Values, used'[k][v] # Never,
                      clock - used'[k][v] <= loosest[k].shortest - Delay
               PROVE  seen'[k][v] # Never
    BY <1>5 DEF RecentSurvives
  <2>1. CASE k \notin Limited(a)
    BY <1>4, <2>1 DEF RecentSurvives
  <2>2. CASE k \in Limited(a) /\ v = a[k] /\ ~Overflows(k, a[k], n)
    BY <1>1, <1>10, <2>2, NoneAssumption
  <2>3. CASE k \in Limited(a) /\ ~(v = a[k] /\ ~Overflows(k, a[k], n))
    <3>1. seen'[k][v] = Swept(k, n)[v] /\ used'[k][v] = used[k][v]
      BY <1>10, <2>3
    <3>2. seen[k][v] # Never
      BY <3>1 DEF RecentSurvives
    <3>3. used[k][v] <= seen[k][v] + Delay /\ seen[k][v] \in Nat /\ used[k][v] \in Nat
      BY <3>1, <3>2 DEF TimesAgree, TypeOK, Time
    <3>4. ~(seen[k][v] < n - limits[k].ttl)
      BY <1>1, <1>11, <2>3, <3>1, <3>3
    <3> QED
      BY <3>1, <3>2, <3>4 DEF Swept
  <2> QED
    BY <2>1, <2>2, <2>3
<1> QED
  BY <1>6, <1>7, <1>8, <1>9, <1>12, <1>13
-----------------------------------------------------------------------------
LEMMA NextInv == IInv /\ [Next]_vars => IInv'
<1> SUFFICES ASSUME IInv, [Next]_vars PROVE IInv'
  OBVIOUS
<1>1. CASE UNCHANGED vars
  BY <1>1 DEF vars, IInv, TypeOK, LimitsKnown, ReadingsFresh, TimesAgree, SeenBounded, RecentSurvives
<1>2. ASSUME NEW k \in Keys, NEW r \in Requests, Register(k, r) PROVE IInv'
  BY <1>2, RegisterInv
<1>3. CASE Clear
  BY <1>3, ClearInv
<1>4. ASSUME NEW t \in Threads, NEW a \in Attributes, ReadClock(t, a) PROVE IInv'
  BY <1>4, ReadClockInv
<1>5. ASSUME NEW t \in Threads, Guard(t) PROVE IInv'
  BY <1>5, GuardInv
<1>6. CASE Tick
  BY <1>6, TickInv
<1> QED
  BY <1>1, <1>2, <1>3, <1>4, <1>5, <1>6 DEF Next

\* The invariant holds in every reachable state.
THEOREM Invariance == Spec => []IInv
BY InitInv, NextInv, PTL DEF Spec

\* Type correctness: a limit is never below one value and one second
\* (register_cardinality_limit clamps both).
THEOREM TypeCorrect == Spec => []TypeOK
<1>1. IInv => TypeOK
  BY DEF IInv
<1> QED
  BY <1>1, Invariance, PTL

\* No key holds more values than the largest limit it had since the last clear
\* (guard_attributes tests the limit, register_cardinality_limit moves it).
THEOREM TablesBounded == Spec => []SeenBounded
<1>1. IInv => SeenBounded
  BY DEF IInv
<1> QED
  BY <1>1, Invariance, PTL

\* A value is not forgotten before its time to live, less the wait for the lock
\* (guard_attributes reads the clock before it locks).
THEOREM RecentKept == Spec => []RecentSurvives
<1>1. IInv => RecentSurvives
  BY DEF IInv
<1> QED
  BY <1>1, Invariance, PTL

\* The values a key lets through within its time to live are at most its limit:
\* what guard_attributes is for.
THEOREM WindowsBounded == Spec => []WindowBound
<1>1. IInv => WindowBound
  <2> SUFFICES ASSUME IInv, NEW k \in Keys
               PROVE  Cardinality(Recent(k)) <= loosest[k].max
    BY DEF WindowBound
  <2>1. Recent(k) \subseteq Held(seen[k])
    BY DEF Recent, Held, IInv, RecentSurvives
  <2>2. Cardinality(Recent(k)) <= Cardinality(Held(seen[k])) /\ Cardinality(Recent(k)) \in Nat
    BY <2>1, HeldFinite, FS_Subset, FS_CardinalityType
  <2>3. Cardinality(Held(seen[k])) <= loosest[k].max /\ loosest[k].max \in Nat
    BY DEF IInv, SeenBounded, TypeOK, Loosest
  <2> QED
    BY <2>2, <2>3, HeldFinite
<1> QED
  BY <1>1, Invariance, PTL

\* A value that overflows does so for as many others as the limit, all let
\* through within the time to live and one interval of sweeps
\* (guard_attributes sweeps a key every _PRUNE_INTERVAL only).
THEOREM OverflowsJustified == Spec => OverflowJustified
<1> DEFINE Blocking(t, k) ==
      {v \in Values : /\ used[k][v] # Never
                      /\ now[t] - used[k][v] < loosest[k].ttl + PruneInterval}
<1>1. ASSUME IInv, [Next]_vars, NEW t \in Threads, pc[t] = "waiting",
             NEW k \in DOMAIN attrs[t], Guarded(attrs[t], now[t])[k] = Overflow
      PROVE  Cardinality(Blocking(t, k)) >= limits[k].max
  <2> DEFINE n == now[t]
             S == Swept(k, n)
  <2>1. k \in Keys /\ attrs[t][k] \in Values
    BY <1>1 DEF IInv, TypeOK, Attributes
  <2>2. k \in Limited(attrs[t]) /\ Overflows(k, attrs[t][k], n)
    BY <1>1, <2>1, ValuesAssumption DEF Guarded
  <2>3. Cardinality(Held(S)) >= limits[k].max
    BY <2>2 DEF Overflows, Full
  <2>4. /\ limits[k] \in Limit /\ loosest[k] \in Loosest
        /\ limits[k].ttl <= loosest[k].ttl /\ n \in Nat /\ lastPrune[k] \in Nat
        /\ limits[k].max \in Nat /\ limits[k].ttl \in Nat /\ loosest[k].ttl \in Nat
    BY <1>1, <2>1, <2>2 DEF IInv, TypeOK, LimitsKnown, Limited, Limit, Loosest
  <2>5. ASSUME NEW v \in Held(S) PROVE v \in Blocking(t, k)
    <3>1. v \in Values /\ S[v] # Never
      BY DEF Held
    <3>2. S[v] = seen[k][v] /\ seen[k][v] # Never /\ (Due(k, n) => ~(seen[k][v] < n - limits[k].ttl))
      BY <3>1 DEF Swept
    <3>3. /\ used[k][v] # Never /\ seen[k][v] <= used[k][v]
          /\ lastPrune[k] <= used[k][v] + loosest[k].ttl
          /\ seen[k][v] \in Nat /\ used[k][v] \in Nat
      BY <1>1, <2>1, <3>1, <3>2 DEF IInv, TimesAgree, TypeOK, Time
    <3>4. n - used[k][v] < loosest[k].ttl + PruneInterval
      <4>1. CASE Due(k, n)
        BY <2>4, <3>2, <3>3, <4>1, TimeAssumption
      <4>2. CASE ~Due(k, n)
        BY <2>4, <3>3, <4>2, TimeAssumption DEF Due
      <4> QED
        BY <4>1, <4>2
    <3> QED
      BY <3>1, <3>3, <3>4
  <2>6. IsFiniteSet(Blocking(t, k))
    BY ValuesAssumption, FS_Subset
  <2>7. Cardinality(Held(S)) <= Cardinality(Blocking(t, k)) /\ Cardinality(Blocking(t, k)) \in Nat
    <3>1. Held(S) \subseteq Blocking(t, k)
      BY <2>5
    <3> HIDE DEF Blocking, S
    <3> QED
      BY <3>1, <2>6, FS_Subset, FS_CardinalityType
  <2> QED
    BY <2>3, <2>4, <2>7, HeldFinite
<1>2. IInv /\ [Next]_vars =>
        (\A t \in Threads :
           pc[t] = "waiting" /\ pc'[t] = "idle" =>
           \A k \in DOMAIN attrs[t] :
             Guarded(attrs[t], now[t])[k] = Overflow =>
             Cardinality(Blocking(t, k)) >= limits[k].max)
  BY <1>1
<1> QED
  BY <1>2, Invariance, PTL DEF Spec, OverflowJustified
-----------------------------------------------------------------------------
(***************************************************************************)
(* Metering.  None of its invariants is inductive as it stands.  That      *)
(* nothing comes from the placeholder needs to know which steps a call can *)
(* only be at once a provider is installed; that reports add up, which     *)
(* instrument a call is at; late binding, what a call that began with a    *)
(* provider cannot have lost since.                                        *)
(***************************************************************************)
\* The instruments and those being made are at most MaxInst.
Making == {t \in Callers : th[t].op # "use"}
RoomLeft == Len(inst) + Cardinality(Making) <= MaxInst

\* OpenTelemetry holds a provider whenever the module does, and keeps the one
\* that the baseline may have found.
HolderKept ==
  /\ admin # "down" => setups >= 1
  /\ admin = "publish" \/ provider # Nil => global # Proxy
  /\ baseline \in {Uncaptured, Proxy, global}

\* The steps of a call that makes an instrument, and of one that uses it.
CallsAtStep ==
  \A t \in Callers :
    /\ th[t].pc \in {"idle", "use", "bind", "export"} => th[t].op = "use"
    /\ th[t].pc = "make" => th[t].op # "use"
    /\ th[t].op = "use" /\ th[t].pc # "idle" =>
         /\ th[t].at \in DOMAIN inst
         /\ inst[th[t].at].kind = "counter" => th[t].by = Nil

\* Past the test for a real provider there is one; a meter fetched is one.
MetersFetched ==
  \A t \in Callers :
    /\ th[t].pc \in {"cache", "fetch", "store", "write"} => global # Proxy
    /\ th[t].pc \in {"store", "write"} => th[t].meter # Nil

\* An instrument is resolved by a handle, or by a refusal.
ResolvedByMeter ==
  \A i \in DOMAIN inst : inst[i].resolved <=> inst[i].handle # Nil \/ inst[i].raised

\* A call that began with a provider goes on with it.
ProviderKept ==
  \A t \in Callers : th[t].sure =>
    /\ provider # Nil /\ admin # "closing"
    /\ th[t].pc # "real"
    /\ th[t].pc = "bind" => th[t].meter # Nil

\* So does the making of a counter of slo.py once the setup is over.
MakerKept ==
  \A t \in Callers : admin = "up" /\ provider # Nil /\ th[t].op = "slo" =>
    /\ th[t].pc # "real"
    /\ th[t].pc = "make" => th[t].meter # Nil

MeterInv ==
  /\ MeterTypeOK
  /\ RoomLeft
  /\ HolderKept
  /\ CallsAtStep
  /\ MetersFetched
  /\ ResolvedByMeter
  /\ ProviderKept
  /\ MakerKept
  /\ NothingFromProxy
  /\ ReportsAddUp
  /\ LateBinding
  /\ SloRebound
-----------------------------------------------------------------------------
LEMMA MeterInitInv == MeterInit => MeterInv
<1> SUFFICES ASSUME MeterInit PROVE MeterInv
  OBVIOUS
<1> USE DEF MeterInit, Idle
<1>1. MeterTypeOK
  <2>1. /\ inst \in Seq(Instrument) /\ Len(inst) <= MaxInst /\ slo \in 0..Len(inst)
        /\ setups \in 0..MaxSetups /\ uses \in 0..MaxUses
    BY BoundsAssumption
  <2>2. th \in [Callers -> Thread]
    BY DEF Thread, Kinds
  <2>3. \A t \in Callers : th[t].op = "use" /\ sloLock # t
    BY NamesAssumption
  <2>4. DOMAIN inst = {}
    OBVIOUS
  <2> QED
    BY <2>1, <2>2, <2>3, <2>4 DEF MeterTypeOK, Packages, Providers
<1>2. Making = {}
  BY DEF Making
<1>3. RoomLeft
  BY <1>2, FS_EmptySet, BoundsAssumption DEF RoomLeft
<1>4. HolderKept /\ CallsAtStep /\ MetersFetched /\ ResolvedByMeter /\ ProviderKept /\ MakerKept
  BY DEF HolderKept, CallsAtStep, MetersFetched, ResolvedByMeter, ProviderKept, MakerKept
<1>5. NothingFromProxy /\ ReportsAddUp /\ LateBinding /\ SloRebound
  BY DEF NothingFromProxy, ReportsAddUp, LateBinding, SloRebound
<1> QED
  BY <1>1, <1>3, <1>4, <1>5 DEF MeterInv

\* What To changes, and what it leaves.
LEMMA ToFacts ==
  ASSUME MeterTypeOK, NEW t \in Callers, NEW step, NEW meter, To(t, step, meter)
  PROVE  /\ \A u \in Callers : u # t => th'[u] = th[u]
         /\ \A u \in Callers : th'[u].op = th[u].op /\ th'[u].by = th[u].by
                               /\ th'[u].at = th[u].at /\ th'[u].sure = th[u].sure
         /\ th'[t].pc = step /\ th'[t].meter = meter
<1>1. th \in [Callers -> Thread]
  BY DEF MeterTypeOK
<1> QED
  BY <1>1 DEF To, Thread

LEMMA ToType ==
  ASSUME MeterTypeOK, NEW t \in Callers,
         NEW step \in {"real", "cache", "fetch", "store", "write", "make", "bind", "export"},
         NEW meter \in Providers \cup {Proxy, Nil}, To(t, step, meter)
  PROVE  th' \in [Callers -> Thread]
<1>1. th \in [Callers -> Thread]
  BY DEF MeterTypeOK
<1> QED
  BY <1>1 DEF To, Thread

\* The steps of setup and shutdown keep the types.
LEMMA AdminType ==
  ASSUME MeterTypeOK, HolderKept,
         \/ \E e \in BOOLEAN : BeginSetup(e)
         \/ Build \/ Install \/ Publish \/ Rebind
         \/ BeginShutdown \/ EndShutdown \/ InstallExternal
  PROVE  MeterTypeOK'
<1>0. /\ MaxSetups \in Nat /\ MaxInst \in Nat
      /\ setups \in 0..MaxSetups /\ global \in Providers \cup {Proxy}
      /\ global # Nil
  BY BoundsAssumption, NamesAssumption DEF MeterTypeOK, Providers, Ours
<1>1. ASSUME NEW e \in BOOLEAN, BeginSetup(e) PROVE MeterTypeOK'
  <2>1. setups' \in 0..MaxSetups
    BY <1>0, <1>1 DEF BeginSetup
  <2>2. admin' \in {"build", "rebind"} /\ admin = "down" /\ meterLock' = meterLock
    BY <1>1 DEF BeginSetup
  <2>3. baseline' \in Providers \cup {Proxy, Uncaptured}
    BY <1>0, <1>1 DEF BeginSetup, MeterTypeOK
  <2> QED
    BY <1>1, <2>1, <2>2, <2>3 DEF MeterTypeOK, BeginSetup
<1>2. CASE Build
  BY <1>2 DEF MeterTypeOK, Build
<1>3. CASE Install
  <2>1. setups \in Ours
    BY <1>0, <1>3 DEF Install, HolderKept, Ours
  <2> QED
    BY <1>3, <2>1 DEF MeterTypeOK, Install, SetGlobal, Providers
<1>4. CASE Publish
  <2>1. setups \in Ours /\ global \in Providers
    BY <1>0, <1>4 DEF Publish, HolderKept, Ours
  <2> QED
    BY <1>4, <2>1 DEF MeterTypeOK, Publish
<1>5. CASE Rebind
  BY <1>5 DEF MeterTypeOK, Rebind, Rebound
<1>6. CASE BeginShutdown
  <2>1. th' \in [Callers -> Thread] /\ \A t \in Callers : th'[t].op = th[t].op
    <3>1. th \in [Callers -> Thread]
      BY DEF MeterTypeOK
    <3>2. CASE th' = th
      BY <3>1, <3>2
    <3>3. CASE th' = [t \in Callers |-> [th[t] EXCEPT !.sure = FALSE]]
      BY <3>1, <3>3 DEF Thread
    <3> QED
      BY <1>6, <3>2, <3>3 DEF BeginShutdown
  <2>2. admin' \in {"down", "closing"} /\ (meterLock' <=> admin' = "closing")
    BY <1>6 DEF BeginShutdown, MeterTypeOK
  <2>4. meterLock' \in BOOLEAN
    BY <1>6 DEF BeginShutdown, MeterTypeOK
  <2>3. UNCHANGED <<packages, global, provider, everSet, baseline, cached, setups, inst, slo, sloLock, uses>>
    BY <1>6 DEF BeginShutdown
  <2> QED
    BY <2>1, <2>2, <2>3, <2>4 DEF MeterTypeOK
<1>7. CASE EndShutdown
  BY <1>7 DEF MeterTypeOK, EndShutdown
<1>8. CASE InstallExternal
  BY <1>8 DEF MeterTypeOK, InstallExternal, Providers
<1> QED
  BY <1>1, <1>2, <1>3, <1>4, <1>5, <1>6, <1>7, <1>8

\* The steps of a call keep the types.
LEMMA LookType ==
  ASSUME MeterInv, NEW t \in Callers,
         Judge(t) \/ Lookup(t) \/ Fetch(t) \/ Store(t) \/ Write(t)
  PROVE  MeterTypeOK'
<1> USE DEF MeterInv
<1>1. MeterTypeOK
  OBVIOUS
<1>2. /\ Answered(t) \in {"bind", "make"}
      /\ th[t].meter \in Providers \cup {Proxy, Nil}
      /\ cached \in Providers \cup {Proxy, Nil}
      /\ global \in Providers \cup {Proxy, Nil}
  BY DEF Answered, MeterTypeOK, Thread
<1>3. ASSUME NEW step \in {"real", "cache", "fetch", "store", "write", "make", "bind", "export"},
             NEW meter \in Providers \cup {Proxy, Nil}, To(t, step, meter),
             UNCHANGED <<packages, global, provider, everSet, baseline, meterLock, admin, setups,
                         inst, slo, sloLock, uses>>,
             cached' \in Providers \cup {Proxy, Nil}
      PROVE  MeterTypeOK'
  <2>1. th' \in [Callers -> Thread]
    BY <1>1, <1>3, ToType
  <2>2. \A u \in Callers : th'[u].op = th[u].op
    BY <1>1, <1>3, ToFacts
  <2> QED
    BY <1>3, <2>1, <2>2 DEF MeterTypeOK
<1>4. CASE Judge(t)
  BY <1>2, <1>3, <1>4 DEF Judge, adminVars
<1>5. CASE Lookup(t)
  BY <1>2, <1>3, <1>5 DEF Lookup, adminVars
<1>6. CASE Fetch(t)
  BY <1>2, <1>3, <1>6 DEF Fetch, adminVars
<1>7. CASE Store(t)
  BY <1>2, <1>3, <1>7 DEF Store, adminVars
<1>8. CASE Write(t)
  BY <1>2, <1>3, <1>8 DEF Write
<1> QED
  BY <1>4, <1>5, <1>6, <1>7, <1>8

\* An instrument replaced, and one appended.
LEMMA InstrumentSet ==
  ASSUME inst \in Seq(Instrument), NEW i \in DOMAIN inst, NEW x \in Instrument
  PROVE  LET s == [inst EXCEPT ![i] = x]
         IN  /\ s \in Seq(Instrument) /\ Len(s) = Len(inst) /\ DOMAIN s = DOMAIN inst
             /\ s[i] = x /\ \A j \in DOMAIN inst : j # i => s[j] = inst[j]
  BY ExceptSeq

LEMMA InstrumentAppended ==
  ASSUME inst \in Seq(Instrument), NEW x \in Instrument
  PROVE  LET s == Append(inst, x)
         IN  /\ s \in Seq(Instrument) /\ Len(s) = Len(inst) + 1
             /\ DOMAIN s = DOMAIN inst \cup {Len(inst) + 1}
             /\ s[Len(inst) + 1] = x /\ \A j \in DOMAIN inst : s[j] = inst[j]
  BY AppendProperties

LEMMA AmountType ==
  ASSUME inst \in Seq(Instrument), NEW i \in DOMAIN inst, NEW by \in {Nil} \cup Levels
  PROVE  Amount(i, by) \in Int
<1>1. inst[i] \in Instrument
  OBVIOUS
<1>2. inst[i].value \in Int
  BY <1>1 DEF Instrument
<1>3. \A l \in Levels : l \in Int
  BY BoundsAssumption
<1> QED
  BY <1>2, <1>3 DEF Amount

\* What the beginning of a use changes.
LEMMA BeginFacts ==
  ASSUME MeterTypeOK, NEW t \in Callers, NEW i \in DOMAIN inst, NEW by \in {Nil} \cup Levels,
         Begin(t, i, by)
  PROVE  /\ inst' \in Seq(Instrument) /\ Len(inst') = Len(inst) /\ DOMAIN inst' = DOMAIN inst
         /\ \A j \in DOMAIN inst :
              /\ inst'[j].kind = inst[j].kind /\ inst'[j].resolved = inst[j].resolved
              /\ inst'[j].handle = inst[j].handle /\ inst'[j].raised = inst[j].raised
              /\ inst'[j].offered = inst[j].offered /\ inst'[j].reported = inst[j].reported
              /\ inst'[j].missed = inst[j].missed
              /\ inst'[j].value = IF j = i /\ inst[i].kind = "counter"
                                  THEN inst[i].value + Amount(i, by) ELSE inst[j].value
         /\ th' \in [Callers -> Thread]
         /\ \A u \in Callers : u # t => th'[u] = th[u]
         /\ th'[t].pc = IF inst[i].resolved THEN "export" ELSE Looked
         /\ th'[t].op = "use" /\ th'[t].by = by /\ th'[t].at = i
         /\ th'[t].meter = IF inst[i].resolved THEN inst[i].handle ELSE Nil
         /\ th'[t].sure <=> provider # Nil /\ ~meterLock
<1>1. inst \in Seq(Instrument) /\ th \in [Callers -> Thread] /\ inst[i] \in Instrument
  BY DEF MeterTypeOK
<1>2. Amount(i, by) \in Int
  BY <1>1, AmountType
<1> DEFINE x == [inst[i] EXCEPT !.value = @ + Amount(i, by)]
<1>6. inst[i].value + Amount(i, by) \in Int
  BY <1>1, <1>2 DEF Instrument
<1>3. x \in Instrument /\ x = [inst[i] EXCEPT !.value = inst[i].value + Amount(i, by)]
  BY <1>1, <1>6 DEF Instrument
<1>7. /\ th' \in [Callers -> Thread]
      /\ \A u \in Callers : u # t => th'[u] = th[u]
      /\ th'[t].pc = IF inst[i].resolved THEN "export" ELSE Looked
      /\ th'[t].op = "use" /\ th'[t].by = by /\ th'[t].at = i
      /\ th'[t].meter = IF inst[i].resolved THEN inst[i].handle ELSE Nil
      /\ th'[t].sure <=> provider # Nil /\ ~meterLock
  <2> DEFINE r == [pc |-> IF inst[i].resolved THEN "export" ELSE Looked, op |-> "use", by |-> by,
                   at |-> i, meter |-> IF inst[i].resolved THEN inst[i].handle ELSE Nil,
                   sure |-> provider # Nil /\ ~meterLock]
  <2>1. th' = [th EXCEPT ![t] = r]
    BY DEF Begin
  <2>2. inst[i].resolved \in BOOLEAN /\ inst[i].handle \in Providers \cup {Proxy, Nil} /\ i \in Nat
    BY <1>1 DEF Instrument
  <2>3. r \in Thread
    BY <2>2 DEF Thread, Looked
  <2> QED
    BY <2>1, <2>3, <1>1
<1>4. CASE inst[i].kind = "counter"
  <2>1. inst' = [inst EXCEPT ![i] = x]
    BY <1>4 DEF Begin
  <2>2. /\ inst' \in Seq(Instrument) /\ Len(inst') = Len(inst) /\ DOMAIN inst' = DOMAIN inst
        /\ inst'[i] = x /\ \A j \in DOMAIN inst : j # i => inst'[j] = inst[j]
    BY <2>1, <1>1, <1>3, InstrumentSet
  <2>3. /\ x.kind = inst[i].kind /\ x.resolved = inst[i].resolved /\ x.handle = inst[i].handle
        /\ x.raised = inst[i].raised /\ x.offered = inst[i].offered
        /\ x.reported = inst[i].reported /\ x.missed = inst[i].missed
        /\ x.value = inst[i].value + Amount(i, by)
    BY <1>1 DEF Instrument
  <2> HIDE DEF x
  <2>4. \A j \in DOMAIN inst :
              /\ inst'[j].kind = inst[j].kind /\ inst'[j].resolved = inst[j].resolved
              /\ inst'[j].handle = inst[j].handle /\ inst'[j].raised = inst[j].raised
              /\ inst'[j].offered = inst[j].offered /\ inst'[j].reported = inst[j].reported
              /\ inst'[j].missed = inst[j].missed
              /\ inst'[j].value = IF j = i /\ inst[i].kind = "counter"
                                  THEN inst[i].value + Amount(i, by) ELSE inst[j].value
    BY <2>2, <2>3, <1>4
  <2> QED
    BY <2>2, <2>4, <1>7
<1>5. CASE inst[i].kind # "counter"
  <2>1. inst' = inst
    BY <1>5 DEF Begin
  <2> QED
    BY <2>1, <1>5, <1>7, <1>1
<1> QED
  BY <1>4, <1>5

\* What the end of a use changes.
LEMMA ExportFacts ==
  ASSUME MeterTypeOK, CallsAtStep, NEW t \in Callers, Export(t)
  PROVE  LET i  == th[t].at
             by == th[t].by
         IN
         /\ i \in DOMAIN inst /\ Amount(i, by) \in Int
         /\ inst' \in Seq(Instrument) /\ Len(inst') = Len(inst) /\ DOMAIN inst' = DOMAIN inst
         /\ \A j \in DOMAIN inst :
              /\ inst'[j].kind = inst[j].kind /\ inst'[j].resolved = inst[j].resolved
              /\ inst'[j].handle = inst[j].handle /\ inst'[j].raised = inst[j].raised
              /\ inst'[j].offered = inst[j].offered
         /\ \A j \in DOMAIN inst : j # i => inst'[j] = inst[j]
         /\ inst'[i].value = IF inst[i].kind = "gauge" THEN inst[i].value + Amount(i, by)
                             ELSE inst[i].value
         /\ inst'[i].reported + inst'[i].missed
              = inst[i].reported + inst[i].missed + Amount(i, by)
         /\ th' \in [Callers -> Thread] /\ th'[t] = Idle
         /\ \A u \in Callers : u # t => th'[u] = th[u]
<1> DEFINE i  == th[t].at
           by == th[t].by
<1>1. inst \in Seq(Instrument) /\ th \in [Callers -> Thread]
  BY DEF MeterTypeOK
<1>2. i \in DOMAIN inst /\ by \in {Nil} \cup Levels
  BY <1>1 DEF CallsAtStep, Export, Thread
<1>3. Amount(i, by) \in Int /\ inst[i] \in Instrument
  BY <1>1, <1>2, AmountType
<1> DEFINE told == th[t].meter # Nil
           x == [inst[i] EXCEPT !.value = IF inst[i].kind = "gauge" THEN @ + Amount(i, by) ELSE @,
                                !.reported = IF told THEN @ + Amount(i, by) ELSE @,
                                !.missed = IF told THEN @ ELSE @ + Amount(i, by)]
<1>4. inst' = [inst EXCEPT ![i] = x]
  BY <1>1, <1>2, <1>3 DEF Export, Reports, Instrument
<1>5. /\ x \in Instrument
      /\ x.kind = inst[i].kind /\ x.resolved = inst[i].resolved /\ x.handle = inst[i].handle
      /\ x.raised = inst[i].raised /\ x.offered = inst[i].offered
      /\ x.value = IF inst[i].kind = "gauge" THEN inst[i].value + Amount(i, by) ELSE inst[i].value
      /\ x.reported + x.missed = inst[i].reported + inst[i].missed + Amount(i, by)
  <2>1. /\ inst[i].value \in Int /\ inst[i].reported \in Int /\ inst[i].missed \in Int
        /\ inst[i].value + Amount(i, by) \in Int
        /\ inst[i].reported + Amount(i, by) \in Int
        /\ inst[i].missed + Amount(i, by) \in Int
    BY <1>3 DEF Instrument
  <2>2. x \in Instrument
    BY <1>3, <2>1 DEF Instrument
  <2>3. /\ x.kind = inst[i].kind /\ x.resolved = inst[i].resolved /\ x.handle = inst[i].handle
        /\ x.raised = inst[i].raised /\ x.offered = inst[i].offered
        /\ x.value = IF inst[i].kind = "gauge" THEN inst[i].value + Amount(i, by) ELSE inst[i].value
        /\ x.reported = IF told THEN inst[i].reported + Amount(i, by) ELSE inst[i].reported
        /\ x.missed = IF told THEN inst[i].missed ELSE inst[i].missed + Amount(i, by)
    BY <1>3 DEF Instrument
  <2>4. x.reported + x.missed = inst[i].reported + inst[i].missed + Amount(i, by)
    <3> HIDE DEF x
    <3> QED
      BY <1>3, <2>1, <2>3
  <2> QED
    BY <2>2, <2>3, <2>4
<1> HIDE DEF x
<1>6. /\ inst' \in Seq(Instrument) /\ Len(inst') = Len(inst) /\ DOMAIN inst' = DOMAIN inst
      /\ inst'[i] = x /\ \A j \in DOMAIN inst : j # i => inst'[j] = inst[j]
  BY <1>4, <1>5, <1>1, <1>2, InstrumentSet
<1>7. /\ th' = [th EXCEPT ![t] = Idle] /\ Idle \in Thread
  BY DEF Export, Idle, Thread
<1>8. \A j \in DOMAIN inst :
              /\ inst'[j].kind = inst[j].kind /\ inst'[j].resolved = inst[j].resolved
              /\ inst'[j].handle = inst[j].handle /\ inst'[j].raised = inst[j].raised
              /\ inst'[j].offered = inst[j].offered
  BY <1>5, <1>6
<1>9. /\ th' \in [Callers -> Thread] /\ th'[t] = Idle
      /\ \A u \in Callers : u # t => th'[u] = th[u]
  BY <1>7, <1>1
<1> QED
  BY <1>2, <1>3, <1>5, <1>6, <1>8, <1>9

\* What binding, the end of the look-up of a use, changes.
LEMMA BindFacts ==
  ASSUME MeterTypeOK, CallsAtStep, NEW t \in Callers, NEW raised \in BOOLEAN, Bind(t, raised)
  PROVE  LET i == th[t].at
         IN
         /\ i \in DOMAIN inst
         /\ inst' \in Seq(Instrument) /\ Len(inst') = Len(inst) /\ DOMAIN inst' = DOMAIN inst
         /\ \A j \in DOMAIN inst :
              /\ inst'[j].kind = inst[j].kind /\ inst'[j].offered = inst[j].offered
              /\ inst'[j].value = inst[j].value /\ inst'[j].reported = inst[j].reported
              /\ inst'[j].missed = inst[j].missed
              /\ inst[j].resolved => inst'[j] = inst[j]
         /\ \A j \in DOMAIN inst : j # i => inst'[j] = inst[j]
         /\ th[t].meter = Nil \/ inst[i].resolved => inst'[i] = inst[i]
         /\ th[t].meter # Nil /\ ~inst[i].resolved =>
              /\ inst'[i].resolved /\ (inst'[i].raised <=> raised)
              /\ inst'[i].handle = IF raised THEN Nil ELSE th[t].meter
         /\ To(t, "export", IF th[t].meter = Nil THEN Nil ELSE inst'[i].handle)
<1> DEFINE i == th[t].at
           x == inst[i]
           y == IF th[t].meter = Nil THEN Unbound(x) ELSE Bound(x, th[t].meter, raised)
<1>1. inst \in Seq(Instrument) /\ th \in [Callers -> Thread]
  BY DEF MeterTypeOK
<1>2. i \in DOMAIN inst
  BY DEF CallsAtStep, Bind
<1>3. x \in Instrument /\ th[t].meter \in Providers \cup {Proxy, Nil}
  BY <1>1, <1>2 DEF Thread
<1>4. /\ y \in Instrument
      /\ y.kind = x.kind /\ y.offered = x.offered
      /\ y.value = x.value /\ y.reported = x.reported /\ y.missed = x.missed
      /\ th[t].meter = Nil \/ x.resolved => y = x
      /\ th[t].meter # Nil /\ ~x.resolved =>
              /\ y.resolved /\ (y.raised <=> raised)
              /\ y.handle = IF raised THEN Nil ELSE th[t].meter
  BY <1>3 DEF Unbound, Bound, Settled, Instrument
<1>5. inst' = [inst EXCEPT ![i] = y]
  BY DEF Bind
<1>6. /\ inst' \in Seq(Instrument) /\ Len(inst') = Len(inst) /\ DOMAIN inst' = DOMAIN inst
      /\ inst'[i] = y /\ \A j \in DOMAIN inst : j # i => inst'[j] = inst[j]
  <2> HIDE DEF y
  <2> QED
    BY <1>1, <1>2, <1>4, <1>5, InstrumentSet
<1>7. To(t, "export", IF th[t].meter = Nil THEN Nil ELSE y.handle)
  BY DEF Bind
<1> HIDE DEF y
<1>8. \A j \in DOMAIN inst :
              /\ inst'[j].kind = inst[j].kind /\ inst'[j].offered = inst[j].offered
              /\ inst'[j].value = inst[j].value /\ inst'[j].reported = inst[j].reported
              /\ inst'[j].missed = inst[j].missed
              /\ inst[j].resolved => inst'[j] = inst[j]
  BY <1>4, <1>6
<1> QED
  BY <1>2, <1>4, <1>6, <1>7, <1>8

\* What a factory adds.
LEMMA MakeFacts ==
  ASSUME MeterTypeOK, CallsAtStep, NEW t \in Callers, NEW raised \in BOOLEAN, Make(t, raised)
  PROVE  LET n == Len(inst) + 1
             m == th[t].meter
             h == IF raised THEN Nil ELSE m
         IN
         /\ th[t].op \in Kinds \cup {"slo"}
         /\ inst' \in Seq(Instrument) /\ Len(inst') = n /\ DOMAIN inst' = DOMAIN inst \cup {n}
         /\ n \notin DOMAIN inst
         /\ \A j \in DOMAIN inst : inst'[j] = inst[j]
         /\ inst'[n].handle = h /\ (inst'[n].resolved <=> h # Nil) /\ ~inst'[n].raised
         /\ (inst'[n].offered <=> m # Nil)
         /\ inst'[n].value = 0 /\ inst'[n].reported = 0 /\ inst'[n].missed = 0
         /\ \A u \in Callers : u # t => th'[u] = th[u]
         /\ th' \in [Callers -> Thread]
         /\ th'[t].op = "use" /\ th'[t].by = Nil /\ th'[t].meter = Nil /\ ~th'[t].sure
         /\ \/ th[t].op = "slo" /\ th'[t].pc = "use" /\ th'[t].at = n /\ slo' = n /\ sloLock' = Nil
            \/ th[t].op # "slo" /\ th'[t].pc = "idle" /\ slo' = slo /\ sloLock' = sloLock
<1> DEFINE n == Len(inst) + 1
           m == th[t].meter
           h == IF raised THEN Nil ELSE m
           k == th[t].op
           x == New(IF k = "slo" THEN "counter" ELSE k, m, raised)
<1>1. inst \in Seq(Instrument) /\ th \in [Callers -> Thread] /\ th[t] \in Thread
  BY DEF MeterTypeOK
<1>2. k \in Kinds \cup {"slo"} /\ m \in Providers \cup {Proxy, Nil}
  BY <1>1 DEF CallsAtStep, Make, Thread
<1>3. /\ x \in Instrument
      /\ x.handle = h /\ (x.resolved <=> h # Nil) /\ ~x.raised /\ (x.offered <=> m # Nil)
      /\ x.value = 0 /\ x.reported = 0 /\ x.missed = 0
  <2>1. h \in Providers \cup {Proxy, Nil} /\ (IF k = "slo" THEN "counter" ELSE k) \in Kinds
    BY <1>2 DEF Kinds
  <2>2. x = [kind |-> IF k = "slo" THEN "counter" ELSE k, resolved |-> h # Nil, handle |-> h,
             raised |-> FALSE, offered |-> m # Nil, value |-> 0, reported |-> 0, missed |-> 0]
    BY DEF New
  <2>3. (h # Nil) \in BOOLEAN /\ (m # Nil) \in BOOLEAN
    OBVIOUS
  <2> HIDE DEF x
  <2>4. x \in Instrument
    BY <2>1, <2>2, <2>3 DEF Instrument
  <2>5. /\ x.handle = h /\ x.resolved = (h # Nil) /\ x.raised = FALSE /\ x.offered = (m # Nil)
        /\ x.value = 0 /\ x.reported = 0 /\ x.missed = 0
    BY <2>2
  <2> QED
    BY <2>4, <2>5
<1>4. inst' = Append(inst, x)
  BY DEF Make
<1> HIDE DEF x
<1>5. /\ inst' \in Seq(Instrument) /\ Len(inst') = n /\ DOMAIN inst' = DOMAIN inst \cup {n}
      /\ inst'[n] = x /\ \A j \in DOMAIN inst : inst'[j] = inst[j]
  BY <1>1, <1>3, <1>4, InstrumentAppended
<1>6. n \notin DOMAIN inst /\ n \in Nat
  BY <1>1
<1>7. CASE k = "slo"
  <2>1. th' = [th EXCEPT ![t] = [Idle EXCEPT !.pc = "use", !.at = n]]
    BY <1>5, <1>7 DEF Make
  <2>2. [Idle EXCEPT !.pc = "use", !.at = n] \in Thread
    BY <1>6 DEF Idle, Thread
  <2>3. /\ th' \in [Callers -> Thread] /\ th'[t] = [Idle EXCEPT !.pc = "use", !.at = n]
        /\ \A u \in Callers : u # t => th'[u] = th[u]
    BY <2>1, <2>2, <1>1
  <2>4. slo' = n /\ sloLock' = Nil
    BY <1>5, <1>7 DEF Make
  <2> QED
    BY <1>2, <1>3, <1>5, <1>6, <1>7, <2>3, <2>4 DEF Idle
<1>8. CASE k # "slo"
  <2>1. th' = [th EXCEPT ![t] = Idle]
    BY <1>8 DEF Make
  <2>2. Idle \in Thread
    BY DEF Idle, Thread
  <2>3. /\ th' \in [Callers -> Thread] /\ th'[t] = Idle
        /\ \A u \in Callers : u # t => th'[u] = th[u]
    BY <2>1, <2>2, <1>1
  <2>4. slo' = slo /\ sloLock' = sloLock
    BY <1>8 DEF Make
  <2> QED
    BY <1>2, <1>3, <1>5, <1>6, <1>8, <2>3, <2>4 DEF Idle
<1> QED
  BY <1>7, <1>8

\* What the call of a factory changes.
LEMMA CreateFacts ==
  ASSUME MeterTypeOK, NEW t \in Callers, NEW k \in Kinds \cup {"slo"}, Create(t, k)
  PROVE  /\ th' \in [Callers -> Thread]
         /\ \A u \in Callers : u # t => th'[u] = th[u]
         /\ th'[t].pc = Looked /\ th'[t].op = k /\ th'[t].meter = Nil /\ ~th'[t].sure
         /\ k # "use"
<1>1. th \in [Callers -> Thread]
  BY DEF MeterTypeOK
<1>2. [Idle EXCEPT !.pc = Looked, !.op = k] \in Thread
  BY DEF Idle, Thread, Looked
<1> QED
  BY <1>1, <1>2 DEF Create, Idle, Kinds

\* A meter is none, or one of the provider that OpenTelemetry holds.
FromHolder(m) == m # Nil => m = global /\ m # Proxy

LEMMA NothingSplit ==
  NothingFromProxy <=> /\ FromHolder(cached)
                       /\ \A t \in Callers : FromHolder(th[t].meter)
                       /\ \A i \in DOMAIN inst : FromHolder(inst[i].handle)
<1> DEFINE M == {cached} \cup {th[t].meter : t \in Callers} \cup {inst[i].handle : i \in DOMAIN inst}
<1>1. NothingFromProxy <=> \A m \in M : FromHolder(m)
  BY DEF NothingFromProxy, FromHolder
<1>2. M = {cached} \cup {th[t].meter : t \in Callers} \cup {inst[i].handle : i \in DOMAIN inst}
  OBVIOUS
<1> HIDE DEF M
<1> QED
  BY <1>1, <1>2

LEMMA MakingFinite ==
  ASSUME MeterTypeOK
  PROVE  /\ IsFiniteSet(Making) /\ Cardinality(Making) \in Nat
         /\ \A i : IsFiniteSet(Pending(i)) /\ Cardinality(Pending(i)) \in Nat
<1>1. Making \subseteq Callers /\ \A i : Pending(i) \subseteq Callers
  BY DEF Making, Pending
<1> QED
  BY <1>1, CallersAssumption, FS_Subset, FS_CardinalityType

\* One step of the look-up of a meter.
Looks(t) == Judge(t) \/ Lookup(t) \/ Fetch(t) \/ Store(t) \/ Write(t)

\* What any step of the look-up does.
LEMMA LookFacts ==
  ASSUME MeterInv, NEW t \in Callers, Looks(t)
  PROVE  /\ UNCHANGED <<packages, global, provider, everSet, baseline, meterLock, admin, setups,
                        inst, slo, sloLock, uses>>
         /\ FromHolder(cached')
         /\ th[t].pc \in {"real", "cache", "fetch", "store", "write"}
         /\ \E step \in {"cache", "fetch", "store", "write", Answered(t)}, m \in Providers \cup {Proxy, Nil} :
              /\ To(t, step, m) /\ FromHolder(m)
              /\ step # Answered(t) => global # Proxy
              /\ step \in {"store", "write"} => m # Nil
              /\ step = Answered(t) /\ provider # Nil /\ th[t].pc # "real" => m # Nil
<1> USE DEF MeterInv
<1>1. /\ MeterTypeOK /\ HolderKept /\ MetersFetched
      /\ FromHolder(cached) /\ FromHolder(th[t].meter)
  BY NothingSplit
<1>2. global # Nil /\ (provider # Nil => global # Proxy)
  BY <1>1, NamesAssumption DEF MeterTypeOK, HolderKept, Providers, Ours
<1>3. /\ th[t].pc \in {"cache", "fetch", "store", "write"} => global # Proxy
      /\ th[t].pc \in {"store", "write"} => th[t].meter # Nil
  BY <1>1 DEF MetersFetched
<1>9. {Nil, cached, global, th[t].meter} \subseteq Providers \cup {Proxy, Nil}
  BY <1>1 DEF MeterTypeOK, Thread
<1>4. CASE Judge(t)
  <2>1. Real => global # Proxy
    BY <1>1 DEF Real, HolderKept
  <2>2. FromHolder(Nil)
    BY DEF FromHolder
  <2>3. To(t, IF Real THEN "cache" ELSE Answered(t), Nil) /\ th[t].pc = "real"
    BY <1>4 DEF Judge
  <2>4. UNCHANGED <<adminVars, inst, slo, sloLock, uses>>
    BY <1>4 DEF Judge
  <2>5. PICK step \in {"cache", Answered(t)} : step = IF Real THEN "cache" ELSE Answered(t)
    OBVIOUS
  <2>6. Answered(t) \notin {"cache", "fetch", "store", "write"}
    BY DEF Answered
  <2> QED
    BY <1>1, <1>9, <2>1, <2>2, <2>3, <2>4, <2>5, <2>6 DEF adminVars
<1>5. CASE Lookup(t)
  <2>1. FromHolder(Nil)
    BY DEF FromHolder
  <2>2. UNCHANGED <<adminVars, inst, slo, sloLock, uses>> /\ th[t].pc = "cache"
    BY <1>5 DEF Lookup
  <2>3. \/ To(t, Answered(t), cached) /\ cached # Nil
        \/ To(t, "fetch", Nil)
    BY <1>5 DEF Lookup
  <2>4. Answered(t) \notin {"cache", "fetch", "store", "write"}
    BY DEF Answered
  <2> QED
    BY <1>1, <1>9, <1>3, <2>1, <2>2, <2>3, <2>4 DEF adminVars
<1>6. CASE Fetch(t)
  <2>1. FromHolder(global)
    BY <1>3, <1>6 DEF FromHolder, Fetch
  <2>2. UNCHANGED <<adminVars, inst, slo, sloLock, uses>> /\ th[t].pc = "fetch"
    BY <1>6 DEF Fetch
  <2>3. To(t, "store", global)
    BY <1>6 DEF Fetch
  <2>4. Answered(t) \notin {"cache", "fetch", "store", "write"}
    BY DEF Answered
  <2> QED
    BY <1>1, <1>9, <1>2, <1>3, <2>1, <2>2, <2>3, <2>4 DEF adminVars
<1>7. CASE Store(t)
  <2>1. UNCHANGED <<adminVars, inst, slo, sloLock, uses>> /\ th[t].pc = "store"
    BY <1>7 DEF Store
  <2>2. \/ To(t, "write", th[t].meter)
        \/ To(t, Answered(t), th[t].meter)
    BY <1>7 DEF Store
  <2>3. Answered(t) \notin {"cache", "fetch", "store", "write"}
    BY DEF Answered
  <2> QED
    BY <1>1, <1>9, <1>3, <2>1, <2>2, <2>3 DEF adminVars
<1>8. CASE Write(t)
  <2>1. /\ th[t].pc = "write" /\ cached' = th[t].meter
        /\ To(t, Answered(t), th[t].meter)
        /\ UNCHANGED <<packages, global, provider, everSet, baseline, meterLock, admin, setups,
                       inst, slo, sloLock, uses>>
    BY <1>8 DEF Write
  <2>3. Answered(t) \notin {"cache", "fetch", "store", "write"}
    BY DEF Answered
  <2> QED
    BY <1>1, <1>9, <1>3, <2>1, <2>3
<1> QED
  BY <1>4, <1>5, <1>6, <1>7, <1>8 DEF Looks

\* A step of the look-up keeps the invariant.
LEMMA LookInv ==
  ASSUME MeterInv, NEW t \in Callers, Looks(t)
  PROVE  MeterInv'
<1>1. MeterTypeOK'
  BY LookType DEF Looks
<1>2. /\ UNCHANGED <<global, provider, baseline, meterLock, admin, setups, inst, slo, sloLock>>
      /\ FromHolder(cached')
      /\ th[t].pc \in {"real", "cache", "fetch", "store", "write"}
  BY LookFacts
<1>3. PICK step \in {"cache", "fetch", "store", "write", Answered(t)}, m \in Providers \cup {Proxy, Nil} :
              /\ To(t, step, m) /\ FromHolder(m)
              /\ step # Answered(t) => global # Proxy
              /\ step \in {"store", "write"} => m # Nil
              /\ step = Answered(t) /\ provider # Nil /\ th[t].pc # "real" => m # Nil
  BY LookFacts
<1>4. /\ \A u \in Callers : u # t => th'[u] = th[u]
      /\ \A u \in Callers : th'[u].op = th[u].op /\ th'[u].by = th[u].by
                            /\ th'[u].at = th[u].at /\ th'[u].sure = th[u].sure
      /\ th'[t].pc = step /\ th'[t].meter = m
  <2>1. MeterTypeOK
    BY DEF MeterInv
  <2>2. To(t, step, m)
    BY <1>3
  <2> QED
    BY <2>1, <2>2, ToFacts
<1>5. /\ th[t].op = "use" => Answered(t) = "bind"
      /\ th[t].op # "use" => Answered(t) = "make"
  BY DEF Answered
<1>6. RoomLeft'
  <2>1. Making' = Making
    BY <1>4 DEF Making
  <2> QED
    BY <1>2, <2>1 DEF RoomLeft, MeterInv
<1>7. HolderKept'
  BY <1>2 DEF HolderKept, MeterInv
<1>8. CallsAtStep'
  BY <1>2, <1>3, <1>4, <1>5 DEF CallsAtStep, MeterInv
<1>9. MetersFetched'
  BY <1>2, <1>3, <1>4, <1>5 DEF MetersFetched, MeterInv
<1>10. ResolvedByMeter'
  BY <1>2 DEF ResolvedByMeter, MeterInv
<1>11. ProviderKept'
  BY <1>2, <1>3, <1>4, <1>5 DEF ProviderKept, MeterInv
<1>12. MakerKept'
  BY <1>2, <1>3, <1>4, <1>5 DEF MakerKept, MeterInv
<1>13. NothingFromProxy'
  <2>1. NothingFromProxy
    BY DEF MeterInv
  <2> QED
    BY <1>2, <1>3, <1>4, <2>1 DEF NothingFromProxy, FromHolder
<1>14. ReportsAddUp'
  <2>1. \A i : Pending(i)' = Pending(i)
    BY <1>2, <1>3, <1>4, <1>5 DEF Pending
  <2> QED
    BY <1>2, <2>1 DEF ReportsAddUp, MeterInv
<1>15. LateBinding'
  BY <1>2, <1>3, <1>4, <1>5 DEF LateBinding, MeterInv
<1>16. SloRebound'
  BY <1>2 DEF SloRebound, MeterInv
<1> QED
  BY <1>1, <1>6, <1>7, <1>8, <1>9, <1>10, <1>11, <1>12, <1>13, <1>14, <1>15, <1>16 DEF MeterInv

\* The call of a factory keeps the invariant.
LEMMA CreateInv ==
  ASSUME MeterInv, NEW t \in Callers, NEW k \in Kinds \cup {"slo"}, Create(t, k)
  PROVE  MeterInv'
<1>0. MeterTypeOK /\ CallsAtStep /\ HolderKept /\ ProviderKept /\ MakerKept /\ NothingFromProxy
  BY DEF MeterInv
<1>1. /\ th' \in [Callers -> Thread]
      /\ \A u \in Callers : u # t => th'[u] = th[u]
      /\ th'[t].pc = Looked /\ th'[t].op = k /\ th'[t].meter = Nil /\ ~th'[t].sure
      /\ k # "use"
  BY <1>0, CreateFacts
<1>2. /\ UNCHANGED <<adminVars, inst, slo>>
      /\ th[t].pc = "idle" /\ uses < MaxUses /\ uses' = uses + 1
      /\ Len(inst) + Cardinality(Making) < MaxInst
      /\ k = "slo" => sloLock = Nil
      /\ sloLock' = IF k = "slo" THEN t ELSE sloLock
  BY DEF Create, Making
<1>3. UNCHANGED <<packages, global, provider, everSet, baseline, cached, meterLock, admin, setups, inst, slo>>
  BY <1>2 DEF adminVars
<1>4. th[t].op = "use"
  BY <1>0, <1>2 DEF CallsAtStep
<1>5. MeterTypeOK'
  <2>1. uses' \in 0..MaxUses
    <3>1. uses \in 0..MaxUses /\ MaxUses \in Nat
      BY <1>0, BoundsAssumption DEF MeterTypeOK
    <3> QED
      BY <1>2, <3>1
  <2>2. \A u \in Callers : sloLock' = u <=> th'[u].op = "slo"
    BY <1>0, <1>1, <1>2, <1>4, NamesAssumption DEF MeterTypeOK
  <2>3. sloLock' \in Callers \cup {Nil}
    BY <1>0, <1>2 DEF MeterTypeOK
  <2> QED
    BY <1>0, <1>1, <1>3, <2>1, <2>2, <2>3 DEF MeterTypeOK
<1>6. RoomLeft'
  <2>1. Making' = Making \cup {t} /\ t \notin Making
    BY <1>1, <1>4 DEF Making
  <2>2. Cardinality(Making') = Cardinality(Making) + 1 /\ Cardinality(Making) \in Nat
    BY <1>0, <2>1, MakingFinite, FS_AddElement
  <2>3. Len(inst) \in Nat /\ MaxInst \in Nat
    BY <1>0, BoundsAssumption DEF MeterTypeOK
  <2> QED
    BY <1>2, <1>3, <2>2, <2>3 DEF RoomLeft
<1>7. HolderKept' /\ ResolvedByMeter' /\ SloRebound'
  BY <1>3 DEF HolderKept, ResolvedByMeter, SloRebound, MeterInv
<1>8. CallsAtStep'
  BY <1>0, <1>1, <1>3 DEF CallsAtStep, Looked
<1>9. MetersFetched'
  BY <1>0, <1>1, <1>3 DEF MetersFetched, Looked, HolderKept, MeterInv
<1>10. ProviderKept' /\ LateBinding'
  BY <1>0, <1>1, <1>3 DEF ProviderKept, LateBinding, MeterInv
<1>11. MakerKept'
  BY <1>0, <1>1, <1>3 DEF MakerKept, Looked
<1>12. NothingFromProxy'
  BY <1>0, <1>1, <1>3 DEF NothingFromProxy
<1>13. ReportsAddUp'
  <2>1. \A i : Pending(i)' = Pending(i)
    BY <1>1, <1>2, <1>4 DEF Pending
  <2> QED
    BY <1>3, <2>1 DEF ReportsAddUp, MeterInv
<1> QED
  BY <1>5, <1>6, <1>7, <1>8, <1>9, <1>10, <1>11, <1>12, <1>13 DEF MeterInv

\* The beginning of a use keeps the invariant.
LEMMA BeginInv ==
  ASSUME MeterInv, NEW t \in Callers, NEW i \in DOMAIN inst, NEW by \in {Nil} \cup Levels,
         Begin(t, i, by), th[t].pc \in {"idle", "use"},
         inst[i].kind = "counter" => by = Nil, uses' \in 0..MaxUses
  PROVE  MeterInv'
<1>0. MeterTypeOK /\ CallsAtStep /\ HolderKept /\ ProviderKept /\ MakerKept /\ NothingFromProxy
  BY DEF MeterInv
<1>1. /\ inst' \in Seq(Instrument) /\ Len(inst') = Len(inst) /\ DOMAIN inst' = DOMAIN inst
      /\ \A j \in DOMAIN inst :
              /\ inst'[j].kind = inst[j].kind /\ inst'[j].resolved = inst[j].resolved
              /\ inst'[j].handle = inst[j].handle /\ inst'[j].raised = inst[j].raised
              /\ inst'[j].offered = inst[j].offered /\ inst'[j].reported = inst[j].reported
              /\ inst'[j].missed = inst[j].missed
              /\ inst'[j].value = IF j = i /\ inst[i].kind = "counter"
                                  THEN inst[i].value + Amount(i, by) ELSE inst[j].value
  BY <1>0, BeginFacts
<1>2. /\ th' \in [Callers -> Thread]
      /\ \A u \in Callers : u # t => th'[u] = th[u]
      /\ th'[t].pc = IF inst[i].resolved THEN "export" ELSE Looked
      /\ th'[t].op = "use" /\ th'[t].by = by /\ th'[t].at = i
      /\ th'[t].meter = IF inst[i].resolved THEN inst[i].handle ELSE Nil
      /\ th'[t].sure <=> provider # Nil /\ ~meterLock
  BY <1>0, BeginFacts
<1>3. UNCHANGED <<packages, global, provider, everSet, baseline, cached, meterLock, admin, setups, slo, sloLock>>
  BY DEF Begin, adminVars
<1>4. th[t].op = "use"
  BY <1>0 DEF CallsAtStep
<1>5. MeterTypeOK'
  <2>1. \A u \in Callers : sloLock' = u <=> th'[u].op = "slo"
    BY <1>0, <1>2, <1>3, <1>4 DEF MeterTypeOK
  <2>2. \A j \in DOMAIN inst' : inst'[j].handle # Nil => inst'[j].resolved
    BY <1>0, <1>1 DEF MeterTypeOK
  <2>3. Len(inst') <= MaxInst /\ slo' \in 0..Len(inst')
    BY <1>0, <1>1, <1>3 DEF MeterTypeOK
  <2> QED
    BY <1>0, <1>1, <1>2, <1>3, <2>1, <2>2, <2>3 DEF MeterTypeOK
<1>6. RoomLeft'
  <2>1. Making' = Making
    BY <1>2, <1>4 DEF Making
  <2> QED
    BY <1>1, <2>1 DEF RoomLeft, MeterInv
<1>7. HolderKept'
  BY <1>3 DEF HolderKept, MeterInv
<1>8. ResolvedByMeter'
  BY <1>1 DEF ResolvedByMeter, MeterInv
<1>9. SloRebound'
  <2>1. slo \in DOMAIN inst \/ slo = 0
    BY <1>0 DEF MeterTypeOK
  <2> QED
    BY <1>1, <1>3, <2>1 DEF SloRebound, MeterInv
<1>10. CallsAtStep'
  BY <1>0, <1>1, <1>2 DEF CallsAtStep, Looked
<1>11. MetersFetched'
  BY <1>0, <1>2, <1>3 DEF MetersFetched, Looked, HolderKept, MeterInv
<1>12. ProviderKept'
  <2>1. ~meterLock => admin # "closing"
    BY <1>0 DEF MeterTypeOK
  <2> QED
    BY <1>0, <1>2, <1>3, <2>1 DEF ProviderKept, Looked
<1>13. MakerKept'
  BY <1>0, <1>2, <1>3 DEF MakerKept
<1>14. LateBinding'
  <2>1. th'[t].pc = "export" => th'[t].meter # Nil \/ inst'[i].raised
    <3>1. CASE inst[i].resolved
      BY <1>1, <1>2, <3>1 DEF ResolvedByMeter, MeterInv
    <3>2. CASE ~inst[i].resolved
      BY <1>2, <3>2 DEF Looked
    <3> QED
      BY <3>1, <3>2
  <2>2. ASSUME NEW u \in Callers, u # t, th'[u].pc = "export", th'[u].sure
        PROVE  th'[u].meter # Nil \/ inst'[th'[u].at].raised
    <3>1. th'[u] = th[u] /\ th[u].op = "use" /\ th[u].at \in DOMAIN inst
      BY <1>0, <1>2, <2>2 DEF CallsAtStep
    <3> QED
      BY <1>1, <2>2, <3>1 DEF LateBinding, MeterInv
  <2> QED
    BY <1>2, <2>1, <2>2 DEF LateBinding
<1>15. NothingFromProxy'
  <2>1. \A j \in DOMAIN inst : inst'[j].handle = inst[j].handle
    BY <1>1
  <2>2. th'[t].meter = Nil \/ th'[t].meter = inst[i].handle
    BY <1>2
  <2>3. \A m \in {th'[u].meter : u \in Callers} :
          m = Nil \/ m = inst[i].handle \/ m \in {th[u].meter : u \in Callers}
    BY <1>2, <2>2
  <2>4. {inst'[j].handle : j \in DOMAIN inst'} = {inst[j].handle : j \in DOMAIN inst}
    BY <1>1, <2>1
  <2> QED
    BY <1>0, <1>3, <2>3, <2>4 DEF NothingFromProxy
<1>16. ReportsAddUp'
  <2> SUFFICES ASSUME NEW j \in DOMAIN inst
               PROVE  inst'[j].value = inst'[j].reported + inst'[j].missed
                        + (IF inst'[j].kind = "counter" THEN Cardinality(Pending(j)') ELSE 0)
    BY <1>1 DEF ReportsAddUp
  <2>1. inst[j].value = inst[j].reported + inst[j].missed
                        + (IF inst[j].kind = "counter" THEN Cardinality(Pending(j)) ELSE 0)
    BY DEF ReportsAddUp, MeterInv
  <2>2. t \notin Pending(j) /\ IsFiniteSet(Pending(j)) /\ Cardinality(Pending(j)) \in Nat
    BY <1>0, MakingFinite DEF Pending
  <2>3. inst[j] \in Instrument
    BY <1>0 DEF MeterTypeOK
  <2>4. inst[j].reported \in Int /\ inst[j].missed \in Int
    BY <2>3 DEF Instrument
  <2>5. CASE j = i
    <3>1. Pending(j)' = Pending(j) \cup {t}
      BY <1>2, <2>5 DEF Pending, Looked
    <3>2. Cardinality(Pending(j)') = Cardinality(Pending(j)) + 1
      BY <2>2, <3>1, FS_AddElement
    <3>3. inst[j].kind = "counter" => Amount(i, by) = 1
      BY <2>5 DEF Amount
    <3>4. inst[j].value \in Int
      BY <2>3 DEF Instrument
    <3>5. CASE inst[j].kind = "counter"
      <4>1. /\ inst'[j].value = inst[j].value + 1 /\ inst'[j].kind = "counter"
            /\ inst'[j].reported = inst[j].reported /\ inst'[j].missed = inst[j].missed
        BY <1>1, <2>5, <3>3, <3>5
      <4> QED
        BY <2>1, <2>2, <2>4, <3>2, <3>4, <3>5, <4>1
    <3>6. CASE inst[j].kind # "counter"
      BY <1>1, <2>1, <2>4, <2>5, <3>4, <3>6
    <3> QED
      BY <3>5, <3>6
  <2>6. CASE j # i
    <3>1. Pending(j)' = Pending(j)
      BY <1>2, <2>2, <2>6 DEF Pending
    <3> QED
      BY <1>1, <2>1, <2>6, <3>1
  <2> QED
    BY <2>5, <2>6
<1> QED
  BY <1>5, <1>6, <1>7, <1>8, <1>9, <1>10, <1>11, <1>12, <1>13, <1>14, <1>15, <1>16 DEF MeterInv

\* The end of a use keeps the invariant.
LEMMA ExportInv ==
  ASSUME MeterInv, NEW t \in Callers, Export(t)
  PROVE  MeterInv'
<1> DEFINE i  == th[t].at
           by == th[t].by
<1>0. MeterTypeOK /\ CallsAtStep /\ HolderKept /\ ProviderKept /\ MakerKept /\ NothingFromProxy
  BY DEF MeterInv
<1>1. /\ i \in DOMAIN inst /\ Amount(i, by) \in Int
      /\ inst' \in Seq(Instrument) /\ Len(inst') = Len(inst) /\ DOMAIN inst' = DOMAIN inst
      /\ \A j \in DOMAIN inst :
              /\ inst'[j].kind = inst[j].kind /\ inst'[j].resolved = inst[j].resolved
              /\ inst'[j].handle = inst[j].handle /\ inst'[j].raised = inst[j].raised
              /\ inst'[j].offered = inst[j].offered
      /\ \A j \in DOMAIN inst : j # i => inst'[j] = inst[j]
      /\ inst'[i].value = IF inst[i].kind = "gauge" THEN inst[i].value + Amount(i, by)
                          ELSE inst[i].value
      /\ inst'[i].reported + inst'[i].missed
              = inst[i].reported + inst[i].missed + Amount(i, by)
  BY <1>0, ExportFacts
<1>2. /\ th' \in [Callers -> Thread] /\ th'[t] = Idle
      /\ \A u \in Callers : u # t => th'[u] = th[u]
  BY <1>0, ExportFacts
<1>3. /\ UNCHANGED <<packages, global, provider, everSet, baseline, cached, meterLock, admin, setups,
                     slo, sloLock, uses>>
      /\ th[t].pc = "export"
  BY DEF Export, adminVars
<1>4. /\ th[t].op = "use" /\ (inst[i].kind = "counter" => by = Nil)
      /\ th'[t].op = "use" /\ th'[t].pc = "idle" /\ th'[t].meter = Nil /\ ~th'[t].sure
  BY <1>0, <1>2, <1>3 DEF CallsAtStep, Idle
<1> HIDE DEF i, by
<1>5. MeterTypeOK'
  <2>1. \A u \in Callers : sloLock' = u <=> th'[u].op = "slo"
    BY <1>0, <1>2, <1>3, <1>4 DEF MeterTypeOK
  <2>2. \A j \in DOMAIN inst' : inst'[j].handle # Nil => inst'[j].resolved
    BY <1>0, <1>1 DEF MeterTypeOK
  <2>3. Len(inst') <= MaxInst /\ slo' \in 0..Len(inst')
    BY <1>0, <1>1, <1>3 DEF MeterTypeOK
  <2> QED
    BY <1>0, <1>1, <1>2, <1>3, <2>1, <2>2, <2>3 DEF MeterTypeOK
<1>6. RoomLeft'
  <2>1. Making' = Making
    BY <1>2, <1>4 DEF Making
  <2> QED
    BY <1>1, <2>1 DEF RoomLeft, MeterInv
<1>7. HolderKept'
  BY <1>3 DEF HolderKept, MeterInv
<1>8. ResolvedByMeter'
  BY <1>1 DEF ResolvedByMeter, MeterInv
<1>9. SloRebound'
  <2>1. slo \in DOMAIN inst \/ slo = 0
    BY <1>0 DEF MeterTypeOK
  <2> QED
    BY <1>1, <1>3, <2>1 DEF SloRebound, MeterInv
<1>10. CallsAtStep'
  BY <1>0, <1>1, <1>2, <1>4 DEF CallsAtStep
<1>11. MetersFetched'
  BY <1>2, <1>3, <1>4 DEF MetersFetched, MeterInv
<1>12. ProviderKept'
  BY <1>0, <1>2, <1>3, <1>4 DEF ProviderKept
<1>13. MakerKept'
  BY <1>0, <1>2, <1>3, <1>4 DEF MakerKept
<1>14. LateBinding'
  <2> SUFFICES ASSUME NEW u \in Callers, u # t, th'[u].pc = "export", th'[u].sure
               PROVE  th'[u].meter # Nil \/ inst'[th'[u].at].raised
    BY <1>2, <1>4 DEF LateBinding
  <2>1. th'[u] = th[u] /\ th[u].op = "use" /\ th[u].at \in DOMAIN inst
    BY <1>0, <1>2 DEF CallsAtStep
  <2> QED
    BY <1>1, <2>1 DEF LateBinding, MeterInv
<1>15. NothingFromProxy'
  <2>1. \A j \in DOMAIN inst : inst'[j].handle = inst[j].handle
    BY <1>1
  <2> QED
    BY <1>0, <1>1, <1>2, <1>3, <1>4, <2>1 DEF NothingFromProxy
<1>16. ReportsAddUp'
  <2> SUFFICES ASSUME NEW j \in DOMAIN inst
               PROVE  inst'[j].value = inst'[j].reported + inst'[j].missed
                        + (IF inst'[j].kind = "counter" THEN Cardinality(Pending(j)') ELSE 0)
    BY <1>1 DEF ReportsAddUp
  <2>1. inst[j].value = inst[j].reported + inst[j].missed
                        + (IF inst[j].kind = "counter" THEN Cardinality(Pending(j)) ELSE 0)
    BY DEF ReportsAddUp, MeterInv
  <2>2. IsFiniteSet(Pending(j)) /\ Cardinality(Pending(j)) \in Nat
    BY <1>0, MakingFinite
  <2>3. inst[j] \in Instrument /\ inst'[j] \in Instrument
    BY <1>0, <1>1 DEF MeterTypeOK
  <2>4. /\ inst[j].reported \in Int /\ inst[j].missed \in Int /\ inst[j].value \in Int
        /\ inst'[j].reported \in Int /\ inst'[j].missed \in Int /\ inst[j].kind \in Kinds
    BY <2>3 DEF Instrument
  <2>5. CASE j = i
    <3>1. Pending(j)' = Pending(j) \ {t} /\ t \in Pending(j)
      BY <1>2, <1>3, <1>4, <2>5 DEF Pending, i
    <3>2. Cardinality(Pending(j)') = Cardinality(Pending(j)) - 1
      BY <2>2, <3>1, FS_RemoveElement
    <3>3. inst[j].kind = "counter" => Amount(i, by) = 1
      BY <1>4, <2>5 DEF Amount
    <3>4. CASE inst[j].kind = "counter"
      BY <1>1, <2>1, <2>2, <2>4, <2>5, <3>2, <3>3, <3>4
    <3>5. CASE inst[j].kind = "gauge"
      BY <1>1, <2>1, <2>4, <2>5, <3>5
    <3> QED
      BY <2>4, <3>4, <3>5 DEF Kinds
  <2>6. CASE j # i
    <3>1. Pending(j)' = Pending(j)
      BY <1>2, <1>3, <1>4, <2>6 DEF Pending, i
    <3> QED
      BY <1>1, <2>1, <2>6, <3>1
  <2> QED
    BY <2>5, <2>6
<1> QED
  BY <1>5, <1>6, <1>7, <1>8, <1>9, <1>10, <1>11, <1>12, <1>13, <1>14, <1>15, <1>16 DEF MeterInv

\* Binding keeps the invariant.
LEMMA BindInv ==
  ASSUME MeterInv, NEW t \in Callers, NEW raised \in BOOLEAN, Bind(t, raised)
  PROVE  MeterInv'
<1> DEFINE i == th[t].at
<1>0. MeterTypeOK /\ CallsAtStep /\ HolderKept /\ ProviderKept /\ MakerKept /\ ResolvedByMeter
  BY DEF MeterInv
<1>1. /\ i \in DOMAIN inst
      /\ inst' \in Seq(Instrument) /\ Len(inst') = Len(inst) /\ DOMAIN inst' = DOMAIN inst
      /\ \A j \in DOMAIN inst :
              /\ inst'[j].kind = inst[j].kind /\ inst'[j].offered = inst[j].offered
              /\ inst'[j].value = inst[j].value /\ inst'[j].reported = inst[j].reported
              /\ inst'[j].missed = inst[j].missed
              /\ inst[j].resolved => inst'[j] = inst[j]
      /\ \A j \in DOMAIN inst : j # i => inst'[j] = inst[j]
      /\ th[t].meter = Nil \/ inst[i].resolved => inst'[i] = inst[i]
      /\ th[t].meter # Nil /\ ~inst[i].resolved =>
              /\ inst'[i].resolved /\ (inst'[i].raised <=> raised)
              /\ inst'[i].handle = IF raised THEN Nil ELSE th[t].meter
      /\ To(t, "export", IF th[t].meter = Nil THEN Nil ELSE inst'[i].handle)
  BY <1>0, BindFacts
<1> DEFINE m == IF th[t].meter = Nil THEN Nil ELSE inst'[i].handle
<1>2. To(t, "export", m)
  BY <1>1
<1> HIDE DEF i, m
<1>3. /\ \A u \in Callers : u # t => th'[u] = th[u]
      /\ \A u \in Callers : th'[u].op = th[u].op /\ th'[u].by = th[u].by
                            /\ th'[u].at = th[u].at /\ th'[u].sure = th[u].sure
      /\ th'[t].pc = "export" /\ th'[t].meter = m
  BY <1>0, <1>2, ToFacts
<1>4. /\ UNCHANGED <<packages, global, provider, everSet, baseline, cached, meterLock, admin, setups,
                     slo, sloLock, uses>>
      /\ th[t].pc = "bind"
  BY DEF Bind, adminVars
<1>5. th[t].op = "use" /\ th[t].at = i
  BY <1>0, <1>4 DEF CallsAtStep, i
<1>6. /\ \A j \in DOMAIN inst : inst[j].raised => inst'[j].raised
      /\ \A j \in DOMAIN inst : inst'[j].resolved <=> inst'[j].handle # Nil \/ inst'[j].raised
  <2>1. /\ \A j \in DOMAIN inst : inst[j].raised => inst[j].resolved
        /\ \A j \in DOMAIN inst : inst[j].resolved <=> inst[j].handle # Nil \/ inst[j].raised
    BY <1>0 DEF ResolvedByMeter
  <2>2. \A j \in DOMAIN inst :
          inst'[j] = inst[j] \/ (inst'[j].resolved /\ (inst'[j].handle # Nil \/ inst'[j].raised))
    BY <1>1
  <2> QED
    BY <1>1, <2>1, <2>2
<1>7. MeterTypeOK'
  <2>1. \A u \in Callers : sloLock' = u <=> th'[u].op = "slo"
    BY <1>0, <1>3, <1>4 DEF MeterTypeOK
  <2>2. \A j \in DOMAIN inst' : inst'[j].handle # Nil => inst'[j].resolved
    BY <1>1, <1>6
  <2>3. Len(inst') <= MaxInst /\ slo' \in 0..Len(inst')
    BY <1>0, <1>1, <1>4 DEF MeterTypeOK
  <2>4. inst'[i] \in Instrument
    BY <1>1
  <2>5. m \in Providers \cup {Proxy, Nil}
    BY <2>4 DEF m, Instrument
  <2>6. th' \in [Callers -> Thread]
    BY <1>0, <1>2, <2>5, ToType
  <2> QED
    BY <1>0, <1>1, <1>4, <2>1, <2>2, <2>3, <2>6 DEF MeterTypeOK
<1>8. RoomLeft'
  <2>1. Making' = Making
    BY <1>3 DEF Making
  <2> QED
    BY <1>1, <2>1 DEF RoomLeft, MeterInv
<1>9. HolderKept'
  BY <1>4 DEF HolderKept, MeterInv
<1>10. ResolvedByMeter'
  BY <1>1, <1>6 DEF ResolvedByMeter
<1>11. SloRebound'
  <2>1. slo \in DOMAIN inst \/ slo = 0
    BY <1>0 DEF MeterTypeOK
  <2> QED
    BY <1>1, <1>4, <2>1 DEF SloRebound, MeterInv
<1>12. CallsAtStep'
  BY <1>0, <1>1, <1>3, <1>4, <1>5 DEF CallsAtStep
<1>13. MetersFetched'
  BY <1>3, <1>4 DEF MetersFetched, MeterInv
<1>14. ProviderKept'
  BY <1>0, <1>3, <1>4 DEF ProviderKept
<1>15. MakerKept'
  BY <1>0, <1>3, <1>4, <1>5 DEF MakerKept
<1>16. LateBinding'
  <2>1. th[t].sure => m # Nil \/ inst'[i].raised
    <3>1. th[t].sure => th[t].meter # Nil
      BY <1>0, <1>4 DEF ProviderKept
    <3>2. th[t].meter # Nil => inst'[i].resolved
      BY <1>1
    <3> QED
      BY <1>1, <1>6, <3>1, <3>2 DEF m
  <2>2. ASSUME NEW u \in Callers, u # t, th'[u].pc = "export", th'[u].sure
        PROVE  th'[u].meter # Nil \/ inst'[th'[u].at].raised
    <3>1. th'[u] = th[u] /\ th[u].op = "use" /\ th[u].at \in DOMAIN inst
      BY <1>0, <1>3, <2>2 DEF CallsAtStep
    <3> QED
      BY <1>6, <2>2, <3>1 DEF LateBinding, MeterInv
  <2> QED
    BY <1>3, <1>5, <2>1, <2>2 DEF LateBinding
<1>17. NothingFromProxy'
  <2>1. NothingFromProxy
    BY DEF MeterInv
  <2> DEFINE M == {cached} \cup {th[u].meter : u \in Callers} \cup {inst[j].handle : j \in DOMAIN inst}
  <2>2. \A j \in DOMAIN inst : inst'[j].handle = Nil \/ inst'[j].handle \in M
    <3>1. inst'[i].handle \in {Nil, inst[i].handle, th[t].meter}
      BY <1>1
    <3> QED
      BY <1>1, <3>1
  <2>3. m = Nil \/ m \in M
    BY <1>1, <2>2 DEF m
  <2>4. \A u \in Callers : th'[u].meter = Nil \/ th'[u].meter \in M
    BY <1>3, <2>3
  <2>5. \A n \in M : n # Nil => n = global /\ n # Proxy
    BY <2>1 DEF NothingFromProxy
  <2>6. cached' \in M
    BY <1>4
  <2> HIDE DEF M
  <2> QED
    BY <1>1, <1>4, <2>2, <2>4, <2>5, <2>6 DEF NothingFromProxy
<1>18. ReportsAddUp'
  <2>1. \A j : Pending(j)' = Pending(j)
    BY <1>3, <1>4 DEF Pending
  <2> QED
    BY <1>1, <2>1 DEF ReportsAddUp, MeterInv
<1> QED
  BY <1>7, <1>8, <1>9, <1>10, <1>11, <1>12, <1>13, <1>14, <1>15, <1>16, <1>17, <1>18 DEF MeterInv

\* Making an instrument keeps the invariant.
LEMMA MakeInv ==
  ASSUME MeterInv, NEW t \in Callers, NEW raised \in BOOLEAN, Make(t, raised)
  PROVE  MeterInv'
<1>a. PICK n : n = Len(inst) + 1
  OBVIOUS
<1>0. MeterTypeOK /\ CallsAtStep /\ HolderKept /\ ProviderKept /\ MakerKept /\ ResolvedByMeter
  BY DEF MeterInv
<1>1. /\ inst' \in Seq(Instrument) /\ Len(inst') = n /\ DOMAIN inst' = DOMAIN inst \cup {n}
      /\ n \notin DOMAIN inst
      /\ \A j \in DOMAIN inst : inst'[j] = inst[j]
      /\ inst'[n].handle = IF raised THEN Nil ELSE th[t].meter
      /\ inst'[n].resolved <=> inst'[n].handle # Nil
      /\ ~inst'[n].raised /\ (inst'[n].offered <=> th[t].meter # Nil)
      /\ inst'[n].value = 0 /\ inst'[n].reported = 0 /\ inst'[n].missed = 0
  BY <1>0, <1>a, MakeFacts
<1>2. /\ \A u \in Callers : u # t => th'[u] = th[u]
      /\ th' \in [Callers -> Thread]
      /\ th'[t].op = "use" /\ th'[t].by = Nil /\ th'[t].meter = Nil /\ ~th'[t].sure
      /\ \/ th[t].op = "slo" /\ th'[t].pc = "use" /\ th'[t].at = n /\ slo' = n /\ sloLock' = Nil
         \/ th[t].op # "slo" /\ th'[t].pc = "idle" /\ slo' = slo /\ sloLock' = sloLock
  BY <1>0, <1>a, MakeFacts
<1>3. /\ UNCHANGED <<packages, global, provider, everSet, baseline, cached, meterLock, admin, setups, uses>>
      /\ th[t].pc = "make"
  BY DEF Make, adminVars
<1>4. th[t].op # "use" /\ Len(inst) \in Nat
  BY <1>0, <1>3 DEF CallsAtStep, MeterTypeOK
<1>5. RoomLeft'
  <2>1. Making' = Making \ {t} /\ t \in Making
    BY <1>2, <1>4 DEF Making
  <2>2. Cardinality(Making') = Cardinality(Making) - 1 /\ Cardinality(Making) \in Nat
    BY <1>0, <2>1, MakingFinite, FS_RemoveElement
  <2> QED
    BY <1>1, <1>a, <1>4, <2>2 DEF RoomLeft, MeterInv
<1>6. MeterTypeOK'
  <2>1. \A u \in Callers : sloLock' = u <=> th'[u].op = "slo"
    BY <1>0, <1>2, NamesAssumption DEF MeterTypeOK
  <2>2. \A j \in DOMAIN inst' : inst'[j].handle # Nil => inst'[j].resolved
    BY <1>0, <1>1 DEF MeterTypeOK
  <2>3. Len(inst') <= MaxInst
    <3>1. Making' \subseteq Callers
      BY DEF Making
    <3>2. Cardinality(Making') \in Nat
      BY <3>1, CallersAssumption, FS_Subset, FS_CardinalityType
    <3>3. Len(inst') \in Nat /\ MaxInst \in Nat
      BY <1>1, BoundsAssumption
    <3> QED
      BY <1>5, <3>2, <3>3 DEF RoomLeft
  <2>4. slo' \in 0..Len(inst') /\ sloLock' \in Callers \cup {Nil}
    BY <1>0, <1>a, <1>1, <1>2, <1>4 DEF MeterTypeOK
  <2> QED
    BY <1>0, <1>1, <1>2, <1>3, <2>1, <2>2, <2>3, <2>4 DEF MeterTypeOK
<1>7. HolderKept'
  BY <1>3 DEF HolderKept, MeterInv
<1>8. ResolvedByMeter'
  BY <1>0, <1>1 DEF ResolvedByMeter
<1>9. SloRebound'
  <2>1. slo \in DOMAIN inst \/ slo = 0
    BY <1>0 DEF MeterTypeOK
  <2>2. CASE slo' = slo
    BY <1>1, <1>3, <2>1, <2>2 DEF SloRebound, MeterInv
  <2>3. CASE slo' = n /\ th[t].op = "slo"
    BY <1>0, <1>1, <1>3, <2>3 DEF SloRebound, MakerKept
  <2> QED
    BY <1>2, <2>2, <2>3
<1>10. CallsAtStep'
  BY <1>0, <1>1, <1>2 DEF CallsAtStep
<1>11. MetersFetched'
  BY <1>2, <1>3 DEF MetersFetched, MeterInv
<1>12. ProviderKept'
  BY <1>0, <1>2, <1>3 DEF ProviderKept
<1>13. MakerKept'
  BY <1>0, <1>2, <1>3 DEF MakerKept
<1>14. LateBinding'
  <2> SUFFICES ASSUME NEW u \in Callers, u # t, th'[u].pc = "export", th'[u].sure
               PROVE  th'[u].meter # Nil \/ inst'[th'[u].at].raised
    BY <1>2 DEF LateBinding
  <2>1. th'[u] = th[u] /\ th[u].op = "use" /\ th[u].at \in DOMAIN inst
    BY <1>0, <1>2 DEF CallsAtStep
  <2> QED
    BY <1>1, <2>1 DEF LateBinding, MeterInv
<1>15. NothingFromProxy'
  <2>1. NothingFromProxy
    BY DEF MeterInv
  <2> DEFINE M == {cached} \cup {th[u].meter : u \in Callers} \cup {inst[j].handle : j \in DOMAIN inst}
  <2>2. \A j \in DOMAIN inst' : inst'[j].handle = Nil \/ inst'[j].handle \in M
    BY <1>1
  <2>4. \A u \in Callers : th'[u].meter = Nil \/ th'[u].meter \in M
    BY <1>2
  <2>5. \A x \in M : x # Nil => x = global /\ x # Proxy
    BY <2>1 DEF NothingFromProxy
  <2>6. cached' \in M
    BY <1>3
  <2> HIDE DEF M
  <2> QED
    BY <1>3, <2>2, <2>4, <2>5, <2>6 DEF NothingFromProxy
<1>16. ReportsAddUp'
  <2>1. \A j \in DOMAIN inst : Pending(j)' = Pending(j)
    BY <1>1, <1>2, <1>4 DEF Pending
  <2>2. Pending(n)' = {}
    <3> SUFFICES ASSUME NEW u \in Callers, th'[u].op = "use", th'[u].at = n,
                        th'[u].pc \notin {"idle", "use"}
                 PROVE  FALSE
      BY DEF Pending
    <3>1. u # t
      BY <1>2
    <3>2. th[u].at \in DOMAIN inst
      BY <1>0, <1>2, <3>1 DEF CallsAtStep
    <3> QED
      BY <1>1, <1>2, <3>1, <3>2
  <2>3. Cardinality(Pending(n)') = 0
    BY <2>2, FS_EmptySet
  <2>4. \A j \in DOMAIN inst : inst'[j].value = inst'[j].reported + inst'[j].missed
                        + (IF inst'[j].kind = "counter" THEN Cardinality(Pending(j)') ELSE 0)
    BY <1>1, <2>1 DEF ReportsAddUp, MeterInv
  <2>5. inst'[n].value = inst'[n].reported + inst'[n].missed
                        + (IF inst'[n].kind = "counter" THEN Cardinality(Pending(n)') ELSE 0)
    BY <1>1, <2>3
  <2> SUFFICES ASSUME NEW j \in DOMAIN inst'
               PROVE  inst'[j].value = inst'[j].reported + inst'[j].missed
                        + (IF inst'[j].kind = "counter" THEN Cardinality(Pending(j)') ELSE 0)
    BY DEF ReportsAddUp
  <2>6. j \in DOMAIN inst \/ j = n
    BY <1>1
  <2> QED
    BY <2>4, <2>5, <2>6
<1> QED
  BY <1>5, <1>6, <1>7, <1>8, <1>9, <1>10, <1>11, <1>12, <1>13, <1>14, <1>15, <1>16 DEF MeterInv

\* The steps of setup and shutdown keep the invariant.
LEMMA AdminInv ==
  ASSUME MeterInv,
         \/ \E e \in BOOLEAN : BeginSetup(e)
         \/ Build \/ Install \/ Publish \/ Rebind
         \/ BeginShutdown \/ EndShutdown \/ InstallExternal
  PROVE  MeterInv'
<1>0. /\ MeterTypeOK /\ HolderKept /\ CallsAtStep /\ MetersFetched /\ ProviderKept /\ MakerKept
      /\ ResolvedByMeter /\ NothingFromProxy /\ LateBinding /\ SloRebound
  BY DEF MeterInv
<1>1. MeterTypeOK'
  BY <1>0, AdminType
<1>2. /\ inst' = inst
      /\ \A t \in Callers : /\ th'[t].pc = th[t].pc /\ th'[t].op = th[t].op /\ th'[t].by = th[t].by
                            /\ th'[t].at = th[t].at /\ th'[t].meter = th[t].meter
                            /\ th'[t].sure => th[t].sure
  <2>1. CASE BeginShutdown
    <3>1. th \in [Callers -> Thread]
      BY <1>0 DEF MeterTypeOK
    <3>2. CASE th' = th
      BY <2>1, <3>2 DEF BeginShutdown
    <3>3. CASE th' = [t \in Callers |-> [th[t] EXCEPT !.sure = FALSE]]
      BY <2>1, <3>1, <3>3 DEF BeginShutdown, Thread
    <3> QED
      BY <2>1, <3>2, <3>3 DEF BeginShutdown
  <2>2. CASE ~BeginShutdown
    <3>1. inst' = inst /\ th' = th
      BY <2>2 DEF BeginSetup, Build, Install, Publish, Rebind, EndShutdown, InstallExternal
    <3> QED
      BY <3>1
  <2> QED
    BY <2>1, <2>2
<1>3. global' = global \/ (global = Proxy /\ global' # Proxy)
  <2>1. setups # Proxy
    BY <1>0, NamesAssumption DEF MeterTypeOK
  <2>2. CASE Install
    BY <2>1, <2>2 DEF Install, SetGlobal
  <2>3. CASE InstallExternal
    BY <2>3, NamesAssumption DEF InstallExternal
  <2> QED
    BY <2>2, <2>3 DEF BeginSetup, Build, Publish, Rebind, BeginShutdown, EndShutdown
<1>4. RoomLeft'
  <2>1. Making' = Making
    BY <1>2 DEF Making
  <2> QED
    BY <1>2, <2>1 DEF RoomLeft, MeterInv
<1>5. CallsAtStep' /\ ResolvedByMeter'
  BY <1>0, <1>2 DEF CallsAtStep, ResolvedByMeter
<1>6. MetersFetched'
  BY <1>0, <1>2, <1>3 DEF MetersFetched
<1>7. LateBinding'
  BY <1>0, <1>2 DEF LateBinding
<1>8. ReportsAddUp'
  <2>1. \A i : Pending(i)' = Pending(i)
    BY <1>2 DEF Pending
  <2> QED
    BY <1>2, <2>1 DEF ReportsAddUp, MeterInv
<1>9. HolderKept'
  <2>0. setups \in Nat /\ setups # Nil
    BY <1>0, NamesAssumption DEF MeterTypeOK
  <2>1. admin' # "down" => setups' >= 1
    BY <1>0, <2>0 DEF HolderKept, BeginSetup, Build, Install, Publish, Rebind, BeginShutdown,
                      EndShutdown, InstallExternal
  <2>2. admin' = "publish" \/ provider' # Nil => global' # Proxy
    <3>1. CASE Install
      BY <2>0, <3>1, NamesAssumption DEF Install, SetGlobal
    <3>2. CASE ~Install
      BY <1>0, <1>3, <3>2 DEF HolderKept, BeginSetup, Build, Publish, Rebind, BeginShutdown,
                              EndShutdown, InstallExternal
    <3> QED
      BY <3>1, <3>2
  <2>3. baseline' \in {Uncaptured, Proxy, global'}
    <3>1. baseline' = baseline \/ (baseline' = global /\ global' = global)
      <4>1. ASSUME NEW e \in BOOLEAN, BeginSetup(e)
            PROVE  (baseline' = baseline \/ baseline' = global) /\ global' = global
        BY <4>1 DEF BeginSetup
      <4>2. CASE Build \/ Install \/ Publish \/ Rebind \/ BeginShutdown \/ EndShutdown \/ InstallExternal
        BY <4>2 DEF Build, Install, Publish, Rebind, BeginShutdown, EndShutdown, InstallExternal
      <4> QED
        BY <4>1, <4>2
    <3> QED
      BY <1>0, <1>3, <3>1 DEF HolderKept
  <2> QED
    BY <2>1, <2>2, <2>3 DEF HolderKept
<1>10. ProviderKept'
  <2>1. ASSUME NEW t \in Callers, th'[t].sure PROVE provider' # Nil /\ admin' # "closing"
    <3>0. provider # Nil /\ admin # "closing" /\ setups # Nil
      BY <1>0, <1>2, <2>1, NamesAssumption DEF ProviderKept, MeterTypeOK
    <3>1. CASE BeginShutdown
      <4>1. th' = [u \in Callers |-> [th[u] EXCEPT !.sure = FALSE]]
        BY <3>0, <3>1 DEF BeginShutdown
      <4>2. th[t] \in Thread
        BY <1>0 DEF MeterTypeOK
      <4>3. ~th'[t].sure
        BY <4>1, <4>2 DEF Thread
      <4> QED
        BY <2>1, <4>3
    <3>2. CASE ~BeginShutdown
      BY <3>0, <3>2 DEF BeginSetup, Build, Install, Publish, Rebind, EndShutdown, InstallExternal
    <3> QED
      BY <3>1, <3>2
  <2> QED
    BY <1>0, <1>2, <2>1 DEF ProviderKept
<1>11. MakerKept'
  <2>1. CASE Rebind
    <3>1. \A t \in Callers : th[t].op # "slo"
      BY <1>0, <2>1, NamesAssumption DEF MeterTypeOK, Rebind
    <3> QED
      BY <1>2, <3>1 DEF MakerKept
  <2>2. CASE ~Rebind
    <3>1. admin' = "up" => admin = "up" /\ provider' = provider
      BY <2>2 DEF BeginSetup, Build, Install, Publish, BeginShutdown, EndShutdown, InstallExternal
    <3> QED
      BY <1>0, <1>2, <3>1 DEF MakerKept
  <2> QED
    BY <2>1, <2>2
<1>12. SloRebound'
  <2>1. CASE Rebind
    BY <2>1 DEF SloRebound, Rebind, Rebound
  <2>2. CASE ~Rebind
    <3>1. (admin' = "up" => admin = "up" /\ provider' = provider) /\ slo' = slo
      BY <2>2 DEF BeginSetup, Build, Install, Publish, BeginShutdown, EndShutdown, InstallExternal
    <3> QED
      BY <1>0, <1>2, <3>1 DEF SloRebound
  <2> QED
    BY <2>1, <2>2
<1>13. NothingFromProxy'
  <2> DEFINE M == {cached} \cup {th[u].meter : u \in Callers} \cup {inst[j].handle : j \in DOMAIN inst}
  <2>1. \A m \in M : m # Nil => m = global' /\ m # Proxy
    BY <1>0, <1>3 DEF NothingFromProxy
  <2>2. \A u \in Callers : th'[u].meter \in M
    BY <1>2
  <2>3. \A j \in DOMAIN inst' : inst'[j].handle \in M
    BY <1>2
  <2>4. cached' \in M \cup {Nil} \/ (cached' = global' /\ global' # Proxy)
    <3>1. CASE Publish
      BY <1>0, <3>1 DEF HolderKept, Publish
    <3>2. CASE ~Publish
      <4>1. cached' = cached \/ cached' = Nil
        BY <3>2 DEF BeginSetup, Build, Install, Rebind, BeginShutdown, EndShutdown, InstallExternal
      <4>2. cached \in M
        OBVIOUS
      <4> HIDE DEF M
      <4> QED
        BY <4>1, <4>2
    <3> QED
      BY <3>1, <3>2
  <2> HIDE DEF M
  <2> QED
    BY <2>1, <2>2, <2>3, <2>4 DEF NothingFromProxy
<1> QED
  BY <1>1, <1>4, <1>5, <1>6, <1>7, <1>8, <1>9, <1>10, <1>11, <1>12, <1>13 DEF MeterInv

\* Every step keeps the invariant.
LEMMA MeterNextInv ==
  ASSUME MeterInv, [MeterNext]_meterVars
  PROVE  MeterInv'
<1>0. MeterTypeOK /\ CallsAtStep
  BY DEF MeterInv
<1>1. CASE UNCHANGED meterVars
  <2> USE <1>1 DEF meterVars, adminVars
  <2>1. MeterTypeOK' /\ HolderKept'
    BY DEF MeterInv, MeterTypeOK, HolderKept
  <2>2. RoomLeft'
    BY DEF MeterInv, RoomLeft, Making
  <2>3. CallsAtStep' /\ MetersFetched' /\ ResolvedByMeter'
    BY DEF MeterInv, CallsAtStep, MetersFetched, ResolvedByMeter
  <2>4. ProviderKept' /\ MakerKept' /\ LateBinding' /\ SloRebound'
    BY DEF MeterInv, ProviderKept, MakerKept, LateBinding, SloRebound
  <2>5. NothingFromProxy'
    BY DEF MeterInv, NothingFromProxy
  <2>6. ReportsAddUp'
    BY DEF MeterInv, ReportsAddUp, Pending
  <2> QED
    BY <2>1, <2>2, <2>3, <2>4, <2>5, <2>6 DEF MeterInv
<1>2. CASE \/ \E e \in BOOLEAN : BeginSetup(e)
           \/ Build \/ Install \/ Publish \/ Rebind
           \/ BeginShutdown \/ EndShutdown \/ InstallExternal
  BY <1>2, AdminInv
<1>3. ASSUME NEW t \in Callers, NEW k \in Kinds \cup {"slo"}, Create(t, k)
      PROVE  MeterInv'
  BY <1>3, CreateInv
<1>4. ASSUME NEW t \in Callers, NEW i \in DOMAIN inst, NEW by \in {Nil} \cup Levels, Use(t, i, by)
      PROVE  MeterInv'
  <2>1. uses' \in 0..MaxUses
    <3>1. uses \in 0..MaxUses /\ MaxUses \in Nat
      BY <1>0, BoundsAssumption DEF MeterTypeOK
    <3> QED
      BY <1>4, <3>1 DEF Use
  <2>2. /\ Begin(t, i, by) /\ th[t].pc \in {"idle", "use"}
        /\ inst[i].kind = "counter" => by = Nil
    BY <1>4 DEF Use
  <2> QED
    BY <2>1, <2>2, BeginInv
<1>5. ASSUME NEW t \in Callers, UseMade(t) PROVE MeterInv'
  <2>1. uses' \in 0..MaxUses
    BY <1>0, <1>5 DEF UseMade, MeterTypeOK
  <2>2. /\ Begin(t, th[t].at, Nil) /\ th[t].pc \in {"idle", "use"} /\ th[t].at \in DOMAIN inst
    BY <1>0, <1>5 DEF UseMade, CallsAtStep
  <2> QED
    BY <2>1, <2>2, BeginInv
<1>6. ASSUME NEW t \in Callers, Looks(t) PROVE MeterInv'
  BY <1>6, LookInv
<1>7. ASSUME NEW t \in Callers, NEW raised \in BOOLEAN, Make(t, raised) PROVE MeterInv'
  BY <1>7, MakeInv
<1>8. ASSUME NEW t \in Callers, NEW raised \in BOOLEAN, Bind(t, raised) PROVE MeterInv'
  BY <1>8, BindInv
<1>9. ASSUME NEW t \in Callers, Export(t) PROVE MeterInv'
  BY <1>9, ExportInv
<1>10. ASSUME NEW t \in Callers, Step(t) PROVE MeterInv'
  BY <1>5, <1>6, <1>7, <1>8, <1>9, <1>10 DEF Step, Looks
<1> QED
  BY <1>1, <1>2, <1>3, <1>4, <1>10 DEF MeterNext

THEOREM MeterInvariant == MeterSpec => []MeterInv
<1>1. MeterInit => MeterInv
  BY MeterInitInv
<1>2. MeterInv /\ [MeterNext]_meterVars => MeterInv'
  BY MeterNextInv
<1> QED
  BY <1>1, <1>2, PTL DEF MeterSpec

\* Variables have their types; setup holds the meter lock only while it installs
\* or shuts down; an instrument with a handle is resolved, a thread that makes a
\* counter of slo.py holds the lock (metrics/provider.py, metrics/fallback.py, slo.py).
THEOREM MeterTypeCorrect == MeterSpec => []MeterTypeOK
<1>1. MeterInv => MeterTypeOK
  BY DEF MeterInv
<1> QED
  BY <1>1, MeterInvariant, PTL

\* However calls, setups and shutdowns interleave, nothing that get_meter cached or
\* handed out came from OpenTelemetry's placeholder (_has_real_meter_provider).
THEOREM NeverFromProxy == MeterSpec => []NothingFromProxy
<1>1. MeterInv => NothingFromProxy
  BY DEF MeterInv
<1> QED
  BY <1>1, MeterInvariant, PTL

\* However many threads use an instrument, and whenever it gets its handle, what it
\* reported, missed and is about to report adds up to its local value (fallback.py).
THEOREM ReportsComplete == MeterSpec => []ReportsAddUp
<1>1. MeterInv => ReportsAddUp
  BY DEF MeterInv
<1> QED
  BY <1>1, MeterInvariant, PTL

\* An instrument made before a setup finds the provider of the setup, and after it
\* slo.py holds no counter made before (_resolve_otel, _rebind_slo_instruments).
THEOREM BindsLate == MeterSpec => []BoundAfterSetup
<1>1. MeterInv => BoundAfterSetup
  BY DEF MeterInv, BoundAfterSetup
<1> QED
  BY <1>1, MeterInvariant, PTL
=============================================================================
