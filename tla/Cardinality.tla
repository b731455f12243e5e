----------------------------- MODULE Cardinality -----------------------------
(***************************************************************************)
(* The guard against attributes with too many values (cardinality.py).     *)
(* Metric calls pass their attributes through guard_attributes, from any   *)
(* thread: it reads the clock, waits for the lock, and then handles every  *)
(* attribute of the call in one section, in which an attribute touches     *)
(* only its own key.  The other operations are one section each.           *)
(***************************************************************************)
EXTENDS Integers, FiniteSets

CONSTANTS
  Threads,        \* the threads that record metrics
  Keys,           \* attribute keys
  Values,         \* attribute values, other than the overflow value
  Requests,       \* what an application passes to register_cardinality_limit
  PruneInterval,  \* _PRUNE_INTERVAL
  Delay,          \* bound: the age of a clock reading when its thread has the lock
  MaxTime,        \* bound: the clock
  Overflow,       \* OVERFLOW_VALUE
  NoLimit,        \* _limits.get(key) is None
  Never           \* seen.get(value) is None

Limit == [max: Nat \ {0}, ttl: Nat \ {0}]

ASSUME ValuesAssumption == IsFiniteSet(Values) /\ Overflow \notin Values
ASSUME RequestAssumption == Requests \subseteq [max: Int, ttl: Int]
ASSUME TimeAssumption == PruneInterval \in Nat \ {0} /\ Delay \in Nat /\ MaxTime \in Nat
ASSUME NoneAssumption == NoLimit \notin Limit /\ Never \notin Int

VARIABLES
  clock,      \* time.monotonic, in seconds
  limits,     \* _limits
  seen,       \* _seen: by key and value, when the value was last let through
  lastPrune,  \* _last_prune, 0 where it has no entry
  pc, attrs,  \* where a call of guard_attributes is, and its attributes
  now,        \* the clock it read
  used,       \* history: the true time a value was last let through
  loosest     \* history: the loosest limit of a key since the last clear,
              \* and the shortest time to live

vars == <<clock, limits, seen, lastPrune, pc, attrs, now, used, loosest>>

calls == <<pc, attrs, now>>

Time       == Nat \cup {Never}
Attributes == UNION {[S -> Values] : S \in SUBSET Keys}
Loosest    == [max: Nat, ttl: Nat, shortest: Nat]
NoLoosest  == [max |-> 0, ttl |-> 0, shortest |-> MaxTime]

TypeOK ==
  /\ clock     \in Nat
  /\ limits    \in [Keys -> Limit \cup {NoLimit}]
  /\ seen      \in [Keys -> [Values -> Time]]
  /\ lastPrune \in [Keys -> Nat]
  /\ pc        \in [Threads -> {"idle", "waiting"}]
  /\ attrs     \in [Threads -> Attributes]
  /\ now       \in [Threads -> Nat]
  /\ used      \in [Keys -> [Values -> Time]]
  /\ loosest   \in [Keys -> Loosest]
-----------------------------------------------------------------------------
\* Operators named Mut... are mutations of the operator they precede; nothing
\* in the model uses them.

Unused  == [v \in Values |-> Never]
Held(s) == {v \in Values : s[v] # Never}

AtLeast(a, b) == IF a >= b THEN a ELSE b
AtMost(a, b)  == IF a <= b THEN a ELSE b

\* The limit a registration sets.
Clamped(r) == [max |-> AtLeast(1, r.max), ttl |-> AtLeast(1, r.ttl)]

\* A sweep of the key is due.
MutDue(k, n) == n - lastPrune[k] >= PruneInterval + limits[k].ttl
Due(k, n) == n - lastPrune[k] >= PruneInterval

\* _prune_expired at time n, where it is due.
Swept(k, n) ==
  [v \in Values |->
     IF Due(k, n) /\ seen[k][v] # Never /\ seen[k][v] < n - limits[k].ttl
     THEN Never ELSE seen[k][v]]

\* The table s of key k has no room for another value.
MutFull(k, s) == Cardinality(Held(s)) > limits[k].max
Full(k, s) == Cardinality(Held(s)) >= limits[k].max

\* Value v of key k is replaced by the overflow value at time n.
Overflows(k, v, n) == v \notin Held(Swept(k, n)) /\ Full(k, Swept(k, n))

\* The table of the key after value v passed the guard at time n.
MutAfter(k, v, n) ==
  IF Overflows(k, v, n) \/ v \in Held(Swept(k, n)) THEN Swept(k, n)
  ELSE [Swept(k, n) EXCEPT ![v] = n]
After(k, v, n) ==
  IF Overflows(k, v, n) THEN Swept(k, n) ELSE [Swept(k, n) EXCEPT ![v] = n]

\* The keys of the attributes a that have a limit, and what the guard returns
\* for a at time n.
Limited(a) == {k \in DOMAIN a : limits[k] # NoLimit}
Guarded(a, n) ==
  [k \in DOMAIN a |-> IF k \in Limited(a) /\ Overflows(k, a[k], n) THEN Overflow ELSE a[k]]

Init ==
  /\ clock     = 0
  /\ limits    = [k \in Keys |-> NoLimit]
  /\ seen      = [k \in Keys |-> Unused]
  /\ lastPrune = [k \in Keys |-> 0]
  /\ pc        = [t \in Threads |-> "idle"]
  /\ attrs     = [t \in Threads |-> <<>>]
  /\ now       = [t \in Threads |-> 0]
  /\ used      = [k \in Keys |-> Unused]
  /\ loosest   = [k \in Keys |-> NoLoosest]
-----------------------------------------------------------------------------
\* register_cardinality_limit; the values already seen stay.
Register(k, r) ==
  /\ limits'  = [limits EXCEPT ![k] = Clamped(r)]
  /\ loosest' = [loosest EXCEPT ![k] =
                   [max      |-> AtLeast(@.max, Clamped(r).max),
                    ttl      |-> AtLeast(@.ttl, Clamped(r).ttl),
                    shortest |-> AtMost(@.shortest, Clamped(r).ttl)]]
  /\ UNCHANGED <<clock, seen, lastPrune, used, calls>>

\* clear_cardinality_limits
Clear ==
  /\ limits'    = [k \in Keys |-> NoLimit]
  /\ seen'      = [k \in Keys |-> Unused]
  /\ lastPrune' = [k \in Keys |-> 0]
  /\ used'      = [k \in Keys |-> Unused]
  /\ loosest'   = [k \in Keys |-> NoLoosest]
  /\ UNCHANGED <<clock, calls>>

\* guard_attributes reads the clock before it takes the lock.
ReadClock(t, a) ==
  /\ pc[t] = "idle"
  /\ pc'    = [pc EXCEPT ![t] = "waiting"]
  /\ attrs' = [attrs EXCEPT ![t] = a]
  /\ now'   = [now EXCEPT ![t] = clock]
  /\ UNCHANGED <<clock, limits, seen, lastPrune, used, loosest>>

\* Its section under the lock.  Keys without a limit pass untouched.
Guard(t) ==
  LET a       == attrs[t]
      n       == now[t]
      limited == Limited(a)
  IN /\ pc[t] = "waiting"
     /\ pc'        = [pc EXCEPT ![t] = "idle"]
     /\ attrs'     = [attrs EXCEPT ![t] = <<>>]
     /\ now'       = [now EXCEPT ![t] = 0]
     /\ seen'      = [k \in Keys |-> IF k \in limited THEN After(k, a[k], n) ELSE seen[k]]
     /\ lastPrune' = [k \in Keys |-> IF k \in limited /\ Due(k, n) THEN n ELSE lastPrune[k]]
     /\ used'      = [k \in Keys |->
                        IF k \in limited /\ Guarded(a, n)[k] # Overflow
                        THEN [used[k] EXCEPT ![a[k]] = clock] ELSE used[k]]
     /\ UNCHANGED <<clock, limits, loosest>>

\* A second passes; no thread waits for the lock for longer than Delay.
Tick ==
  /\ clock < MaxTime
  /\ \A t \in Threads : pc[t] = "waiting" => clock - now[t] < Delay
  /\ clock' = clock + 1
  /\ UNCHANGED <<limits, seen, lastPrune, calls, used, loosest>>

Next ==
  \/ \E k \in Keys, r \in Requests : Register(k, r)
  \/ Clear
  \/ \E t \in Threads, a \in Attributes : ReadClock(t, a)
  \/ \E t \in Threads : Guard(t)
  \/ Tick

Spec == Init /\ [][Next]_vars
-----------------------------------------------------------------------------
\* No key ever holds more values than the largest limit it had, however the
\* limit moved and whoever registered it under a running call: register,
\* _prune_expired and the test of the limit in guard_attributes.
SeenBounded == \A k \in Keys : Cardinality(Held(seen[k])) <= loosest[k].max

\* A value that was let through is not forgotten before its time to live, less
\* the time its thread waited for the lock: a reading of the clock that is
\* older than the one it overwrites takes away no more than that
\* (guard_attributes reads before it locks).
RecentSurvives ==
  \A k \in Keys, v \in Values :
    used[k][v] # Never /\ clock - used[k][v] <= loosest[k].shortest - Delay
    => seen[k][v] # Never

\* What the guard is for: the values a key lets through within its time to
\* live (less Delay) are never more than its limit.
Recent(k) == {v \in Values : /\ used[k][v] # Never
                             /\ clock - used[k][v] <= loosest[k].shortest - Delay}
WindowBound == \A k \in Keys : Cardinality(Recent(k)) <= loosest[k].max

\* A value is refused only for others that were let through not long ago:
\* expired ones are swept every PruneInterval, so they stand in the way of a
\* new value no longer than that after their time to live.  The allowance is
\* the code's, which waits for the interval to pass before it prunes a key
\* again; docs/INTERNALS.md:150 has expired values pruned on each guard call,
\* and without the allowance the property is violated.
OverflowJustified ==
  [][\A t \in Threads :
       pc[t] = "waiting" /\ pc'[t] = "idle" =>
       \A k \in DOMAIN attrs[t] :
         Guarded(attrs[t], now[t])[k] = Overflow =>
         Cardinality({v \in Values : /\ used[k][v] # Never
                                     /\ now[t] - used[k][v] < loosest[k].ttl + PruneInterval})
           >= limits[k].max]_vars
=============================================================================
