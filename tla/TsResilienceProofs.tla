------------------------- MODULE TsResilienceProofs -------------------------
(***************************************************************************)
(* Theorems about TsResilience, for any calls, signals, policies,          *)
(* threshold and cooldown.                                                 *)
(***************************************************************************)
EXTENDS TsResilience, FiniteSetTheorems, TLAPS

\* An await without a timer ends with its operation, so none is left when the
\* next one starts: what OverlapNeedsTimeout rests on.
UntimedAlone ==
  \A c \in Callers :
    call[c] # Outside /\ ~call[c].timed =>
      /\ running[c] \subseteq {attempt[c]}
      /\ outcome[c] # "pending" => running[c] = {}
      /\ pc[c] = "sleep" => outcome[c] # "pending"

\* A call only sleeps with attempts left.
SleepersRetry == \A c \in Callers : pc[c] = "sleep" => Retries(c, attempt[c])

IInv == TypeOK /\ UntimedAlone /\ SleepersRetry /\ StrikesShowInHealth

-----------------------------------------------------------------------------
\* The call a start makes.
LEMMA StartedCall ==
  ASSUME NEW s \in Signals, NEW p \in Policies
  PROVE  [sig |-> s, timed |-> p.timed, backoff |-> p.backoff, attempts |-> p.retries + 1] \in Call
BY PolicyAssumption DEF Policy, Call

LEMMA CountedType ==
  ASSUME TypeOK, NEW s \in Signals, NEW o \in Outcomes
  PROVE  Counted(s, o) \in 0..Threshold
BY ThresholdAssumption DEF TypeOK, Counted

LEMMA InitInv == Init => IInv
<1> SUFFICES ASSUME Init PROVE IInv
  OBVIOUS
<1>1. TypeOK
  BY ThresholdAssumption DEF Init, TypeOK, Report
<1>2. UntimedAlone /\ SleepersRetry /\ StrikesShowInHealth
  BY ThresholdAssumption DEF Init, UntimedAlone, SleepersRetry, StrikesShowInHealth
<1> QED
  BY <1>1, <1>2 DEF IInv

LEMMA RefuseInv ==
  ASSUME IInv, NEW c \in Callers, NEW s \in Signals, Refuse(c, s) PROVE IInv'
<1>1. TypeOK'
  BY DEF IInv, TypeOK, Refuse, Reported, Report
<1>2. UntimedAlone' /\ SleepersRetry'
  BY DEF IInv, UntimedAlone, SleepersRetry, Retries, Refuse
<1>3. StrikesShowInHealth'
  BY ThresholdAssumption DEF IInv, TypeOK, StrikesShowInHealth, Refuse, Refused, Reported
<1> QED
  BY <1>1, <1>2, <1>3 DEF IInv

LEMMA StartInv ==
  ASSUME IInv, NEW c \in Callers, NEW s \in Signals, NEW p \in Policies, Start(c, s, p)
  PROVE  IInv'
<1> DEFINE f == [sig |-> s, timed |-> p.timed, backoff |-> p.backoff, attempts |-> p.retries + 1]
<1>1. f \in Call /\ f # Outside /\ 0 < f.attempts
  BY StartedCall, OutsideAssumption, PolicyAssumption DEF Policy
<1>2. call' = [call EXCEPT ![c] = f]
  BY DEF Start
<1> HIDE DEF f
<1>3. TypeOK'
  BY <1>1, <1>2 DEF IInv, TypeOK, Start, Begin
<1>4. UntimedAlone' /\ SleepersRetry'
  BY <1>1, <1>2 DEF IInv, TypeOK, UntimedAlone, SleepersRetry, Retries, Start, Begin
<1>5. StrikesShowInHealth'
  BY DEF IInv, StrikesShowInHealth, Start
<1> QED
  BY <1>3, <1>4, <1>5 DEF IInv

LEMMA SettleInv ==
  ASSUME IInv, NEW c \in Callers, NEW n \in running[c], NEW o \in Outcomes, Settle(c, n, o)
  PROVE  IInv'
<1>1. TypeOK'
  BY DEF IInv, TypeOK, Settle
<1>2. UntimedAlone'
  <2> SUFFICES ASSUME NEW d \in Callers, call[d] # Outside, ~call[d].timed
               PROVE /\ running'[d] \subseteq {attempt[d]}
                     /\ outcome'[d] # "pending" => running'[d] = {}
                     /\ pc[d] = "sleep" => outcome'[d] # "pending"
    BY DEF UntimedAlone, Settle
  <2>1. /\ running[d] \subseteq {attempt[d]}
        /\ outcome[d] # "pending" => running[d] = {}
        /\ pc[d] = "sleep" => outcome[d] # "pending"
    BY DEF IInv, UntimedAlone
  <2>2. CASE d # c
    BY <2>1, <2>2 DEF IInv, TypeOK, Settle
  <2>3. CASE d = c
    BY <2>1, <2>3 DEF IInv, TypeOK, Settle, Awaited, Outcomes
  <2> QED
    BY <2>2, <2>3
<1>3. StrikesShowInHealth' /\ SleepersRetry'
  BY DEF IInv, StrikesShowInHealth, SleepersRetry, Retries, Settle
<1> QED
  BY <1>1, <1>2, <1>3 DEF IInv

LEMMA FireInv == ASSUME IInv, NEW c \in Callers, Fire(c) PROVE IInv'
<1>1. TypeOK'
  BY DEF IInv, TypeOK, Fire, Outcomes
<1>2. UntimedAlone'
  BY DEF IInv, TypeOK, UntimedAlone, Fire, Timed
<1>3. StrikesShowInHealth' /\ SleepersRetry'
  BY DEF IInv, StrikesShowInHealth, SleepersRetry, Retries, Fire
<1> QED
  BY <1>1, <1>2, <1>3 DEF IInv

LEMMA SucceedInv == ASSUME IInv, NEW c \in Callers, Succeed(c) PROVE IInv'
<1>1. call[c] # Outside /\ call[c] \in Call /\ call[c].sig \in Signals
  BY DEF IInv, TypeOK, Succeed, Call
<1>2. TypeOK'
  BY <1>1, ThresholdAssumption DEF IInv, TypeOK, Succeed, End, Reported, Report
<1>3. UntimedAlone' /\ SleepersRetry'
  BY DEF IInv, TypeOK, UntimedAlone, SleepersRetry, Retries, Succeed, End
<1>4. StrikesShowInHealth'
  BY <1>1 DEF IInv, TypeOK, StrikesShowInHealth, Succeed, Reported
<1> QED
  BY <1>2, <1>3, <1>4 DEF IInv

\* The catch block on the counts, and on the call.
LEMMA CatchInv == ASSUME IInv, NEW c \in Callers, Catch(c) PROVE IInv'
<1> DEFINE s == call[c].sig
           o == outcome[c]
<1>1. /\ call[c] # Outside /\ call[c] \in Call /\ s \in Signals
      /\ o \in Outcomes /\ o # "value" /\ pc[c] = "attempt"
      /\ call[c].attempts \in Nat /\ attempt[c] \in Nat
  BY DEF IInv, TypeOK, Catch, Call, Outcomes
<1>2. /\ strikes' = [strikes EXCEPT ![s] = Counted(s, o)]
      /\ report' = Reported(s, o)
      /\ age' = IF Trips(s, o) THEN [age EXCEPT ![s] = 0] ELSE age
  BY DEF Catch
<1>3. Counted(s, o) \in 0..Threshold /\ Counted(s, o) \in Nat
  BY <1>1, CountedType, ThresholdAssumption DEF IInv
<1>4. /\ strikes' \in [Signals -> 0..Threshold] /\ age' \in [Signals -> 0..Cooldown]
      /\ report' \in Report
  BY <1>1, <1>2, <1>3, ThresholdAssumption DEF IInv, TypeOK, Reported, Report, Outcomes
<1>5. StrikesShowInHealth'
  <2>1. report'.sig = s /\ report'.error = o /\ strikes'[s] = Counted(s, o)
    BY <1>1, <1>2 DEF Reported, IInv, TypeOK
  <2>2. o = "error" => Counted(s, o) = 0
    BY DEF Counted
  <2> HIDE DEF s, o
  <2> QED
    BY <1>1, <1>3, <2>1, <2>2 DEF StrikesShowInHealth, Outcomes
<1>6. CASE ~Retries(c, attempt[c]) /\ End(c)
  <2>1. TypeOK'
    BY <1>4, <1>6 DEF IInv, TypeOK, End
  <2>2. UntimedAlone' /\ SleepersRetry'
    BY <1>6 DEF IInv, TypeOK, UntimedAlone, SleepersRetry, Retries, End
  <2> QED
    BY <1>5, <2>1, <2>2 DEF IInv
<1>7. CASE Retries(c, attempt[c]) /\ Begin(c, attempt[c] + 1) /\ UNCHANGED call
  <2>1. TypeOK'
    BY <1>1, <1>4, <1>7 DEF IInv, TypeOK, Begin, Retries
  <2>2. UntimedAlone' /\ SleepersRetry'
    BY <1>1, <1>7 DEF IInv, TypeOK, UntimedAlone, SleepersRetry, Retries, Begin, Outcomes, Catch
  <2> QED
    BY <1>5, <2>1, <2>2 DEF IInv
<1>8. CASE Retries(c, attempt[c]) /\ pc' = [pc EXCEPT ![c] = "sleep"] /\ UNCHANGED <<call, attempt, outcome, running>>
  <2>1. TypeOK'
    BY <1>1, <1>4, <1>8 DEF IInv, TypeOK
  <2>2. UntimedAlone' /\ SleepersRetry'
    BY <1>1, <1>8 DEF IInv, TypeOK, UntimedAlone, SleepersRetry, Retries, Catch
  <2> QED
    BY <1>5, <2>1, <2>2 DEF IInv
<1> QED
  BY <1>6, <1>7, <1>8 DEF Catch

LEMMA WakeInv == ASSUME IInv, NEW c \in Callers, Wake(c) PROVE IInv'
<1>1. TypeOK'
  BY DEF IInv, TypeOK, SleepersRetry, Retries, Wake, Begin, Call
<1>2. UntimedAlone' /\ SleepersRetry'
  BY DEF IInv, TypeOK, UntimedAlone, SleepersRetry, Retries, Wake, Begin
<1>3. StrikesShowInHealth'
  BY DEF IInv, StrikesShowInHealth, Wake
<1> QED
  BY <1>1, <1>2, <1>3 DEF IInv

LEMMA TickInv == ASSUME IInv, Tick PROVE IInv'
<1>1. TypeOK'
  BY ThresholdAssumption DEF IInv, TypeOK, Tick
<1>2. UntimedAlone' /\ SleepersRetry' /\ StrikesShowInHealth'
  BY DEF IInv, UntimedAlone, SleepersRetry, Retries, StrikesShowInHealth, Tick
<1> QED
  BY <1>1, <1>2 DEF IInv

LEMMA NextInv == IInv /\ [Next]_vars => IInv'
<1> SUFFICES ASSUME IInv, [Next]_vars PROVE IInv'
  OBVIOUS
<1>1. CASE UNCHANGED vars
  BY <1>1 DEF vars, IInv, TypeOK, UntimedAlone, SleepersRetry, Retries, StrikesShowInHealth
<1> QED
  BY <1>1, RefuseInv, StartInv, SettleInv, FireInv, SucceedInv, CatchInv, WakeInv, TickInv DEF Next

\* The invariant holds in every reachable state.
THEOREM Invariance == Spec => []IInv
BY InitInv, NextInv, PTL DEF Spec

\* Type correctness: a call never runs more attempts than its policy allowed
\* when it started (the loop of runWithResilience).
THEOREM TypeCorrect == Spec => []TypeOK
<1>1. IInv => TypeOK
  BY DEF IInv
<1> QED
  BY <1>1, Invariance, PTL

\* A signal on its way to a tripped breaker does not look sound in health.
THEOREM StrikesShown == Spec => []StrikesShowInHealth
<1>1. IInv => StrikesShowInHealth
  BY DEF IInv
<1> QED
  BY <1>1, Invariance, PTL

\* Without a timeout the operations of a call never run side by side.
THEOREM OverlapOnlyTimed == Spec => []OverlapNeedsTimeout
<1>1. IInv => OverlapNeedsTimeout
  <2> SUFFICES ASSUME IInv, NEW c \in Callers, call[c] # Outside, ~call[c].timed
               PROVE  Cardinality(running[c]) <= 1
    BY DEF OverlapNeedsTimeout
  <2>1. running[c] = {} \/ running[c] = {attempt[c]}
    BY DEF IInv, UntimedAlone
  <2>2. Cardinality({}) = 0
    BY FS_EmptySet
  <2>3. Cardinality({attempt[c]}) = 1
    BY FS_Singleton
  <2> QED
    BY <2>1, <2>2, <2>3
<1> QED
  BY <1>1, Invariance, PTL

\* Only an attempt that is still awaited strikes, and once: a late answer of an
\* abandoned operation moves nothing (_withTimeout).
THEOREM StrikesAreAttempts == Spec => OneStrikePerAttempt
<1>1. ASSUME IInv, [Next]_vars, NEW s \in Signals,
             strikes'[s] # strikes[s] \/ age'[s] < age[s]
      PROVE  \E c \in Callers :
               /\ call[c] # Outside /\ call[c].sig = s
               /\ pc[c] = "attempt" /\ outcome[c] # "pending"
               /\ pc'[c] # "attempt" \/ attempt'[c] = attempt[c] + 1
  <2>1. ASSUME NEW c \in Callers, Succeed(c) \/ Catch(c)
        PROVE  /\ call[c] # Outside /\ call[c].sig = s
               /\ pc[c] = "attempt" /\ outcome[c] # "pending"
               /\ pc'[c] # "attempt" \/ attempt'[c] = attempt[c] + 1
    <3>1. pc[c] = "attempt" /\ outcome[c] # "pending" /\ call[c] # Outside /\ call[c].sig \in Signals
      BY <1>1, <2>1 DEF Succeed, Catch, IInv, TypeOK, Call
    <3>2. call[c].sig = s
      BY <1>1, <2>1, <3>1 DEF Succeed, Catch, IInv, TypeOK
    <3>3. pc'[c] # "attempt" \/ attempt'[c] = attempt[c] + 1
      BY <1>1, <2>1 DEF Succeed, Catch, Begin, End, IInv, TypeOK
    <3> QED
      BY <3>1, <3>2, <3>3
  <2>2. CASE Tick
    BY <1>1, <2>2, ThresholdAssumption DEF Tick, IInv, TypeOK
  <2>3. CASE \E c \in Callers : Succeed(c) \/ Catch(c)
    BY <2>1, <2>3
  <2>4. CASE UNCHANGED <<strikes, age>>
    BY <1>1, <2>4 DEF IInv, TypeOK
  <2> QED
    BY <1>1, <2>2, <2>3, <2>4 DEF Next, vars, Refuse, Start, Settle, Fire, Wake
<1>2. ASSUME IInv, [Next]_vars, NEW c \in Callers, outcome[c] = "pending", outcome'[c] # "pending"
      PROVE  \/ attempt[c] \in running[c] \ running'[c]
             \/ call[c].timed /\ outcome'[c] = "timeout"
  <2>1. ASSUME NEW d \in Callers, NEW n \in running[d], NEW o \in Outcomes, Settle(d, n, o)
        PROVE  attempt[c] \in running[c] \ running'[c]
    BY <1>2, <2>1 DEF Settle, Awaited, IInv, TypeOK
  <2>2. ASSUME NEW d \in Callers, Fire(d)
        PROVE  call[c].timed /\ outcome'[c] = "timeout"
    BY <1>2, <2>2 DEF Fire, Timed, IInv, TypeOK
  <2>3. ASSUME NEW d \in Callers, Begin(d, attempt[d] + 1) \/ Begin(d, 0) \/ End(d) PROVE FALSE
    BY <1>2, <2>3 DEF Begin, End, IInv, TypeOK
  <2>4. ASSUME UNCHANGED outcome PROVE FALSE
    BY <1>2, <2>4
  <2> QED
    BY <1>2, <2>1, <2>2, <2>3, <2>4 DEF Next, vars, Refuse, Start, Succeed, Catch, Wake, Tick
<1> DEFINE A == \A s \in Signals :
                 strikes'[s] # strikes[s] \/ age'[s] < age[s] =>
                 \E c \in Callers :
                   /\ call[c] # Outside /\ call[c].sig = s
                   /\ pc[c] = "attempt" /\ outcome[c] # "pending"
                   /\ pc'[c] # "attempt" \/ attempt'[c] = attempt[c] + 1
           B == \A c \in Callers :
                 outcome[c] = "pending" /\ outcome'[c] # "pending" =>
                 \/ attempt[c] \in running[c] \ running'[c]
                 \/ call[c].timed /\ outcome'[c] = "timeout"
<1>3. IInv /\ [Next]_vars => A /\ B
  BY <1>1, <1>2
<1>4. IInv /\ [Next]_vars => [A /\ B]_vars
  BY <1>3
<1>5. Spec => [][A /\ B]_vars
  <2> HIDE DEF A, B
  <2> QED
    BY <1>4, Invariance, PTL DEF Spec
<1> QED
  BY <1>5, PTL DEF OneStrikePerAttempt

\* TsResilience implements CircuitBreaker: the promise of the Python breaker.
THEOREM BreakerImplemented == Spec => ImplementsBreaker
<1>1. Init => Breaker!Init
  <2> SUFFICES ASSUME Init PROVE Breaker!Init
    OBVIOUS
  <2>1. Inside = [c \in Callers |-> Outside]
    BY DEF Init, Inside
  <2> QED
    BY <2>1 DEF Init, Breaker!Init
<1>2. TypeOK /\ [Next]_vars => [Breaker!Next]_(Breaker!vars)
  <2> SUFFICES ASSUME TypeOK, [Next]_vars PROVE Breaker!Next \/ UNCHANGED <<strikes, age, Inside>>
    BY DEF Breaker!vars
  <2>1. ASSUME UNCHANGED <<strikes, age, call>> PROVE UNCHANGED <<strikes, age, Inside>>
    BY <2>1 DEF Inside
  <2>2. ASSUME NEW c \in Callers, call[c] # Outside
        PROVE  /\ Inside[c] = [sig |-> call[c].sig, timed |-> TRUE]
               /\ Inside[c] # Outside /\ Inside[c].sig = call[c].sig /\ call[c].sig \in Signals
    <3>1. call[c] \in Call /\ call[c].sig \in Signals
      BY <2>2 DEF TypeOK, Call
    <3>2. [sig |-> call[c].sig, timed |-> TRUE] \in [sig: Signals, timed: BOOLEAN]
      BY <3>1
    <3>3. Inside[c] = [sig |-> call[c].sig, timed |-> TRUE]
      BY <2>2 DEF Inside
    <3>4. Inside[c] # Outside
      BY <3>2, <3>3, OutsideAssumption
    <3>5. Inside[c].sig = call[c].sig
      BY <3>3
    <3> QED
      BY <3>1, <3>3, <3>4, <3>5
  <2>3. ASSUME NEW c \in Callers, call' = [call EXCEPT ![c] = Outside] \/ UNCHANGED call
        PROVE  Breaker!EndAttempt(c)
    BY <2>3 DEF Inside, Breaker!EndAttempt, TypeOK
  <2>4. ASSUME NEW c \in Callers, NEW s \in Signals, NEW p \in Policies, Start(c, s, p)
        PROVE  Breaker!Next
    <3> DEFINE f == [sig |-> s, timed |-> TRUE]
    <3>1. call[c] = Outside /\ ~Refused(s) /\ UNCHANGED <<strikes, age>>
      BY <2>4 DEF Start, TypeOK
    <3>2. Inside' = [Inside EXCEPT ![c] = f]
      <4>1. [sig |-> s, timed |-> p.timed, backoff |-> p.backoff, attempts |-> p.retries + 1] # Outside
        BY StartedCall, OutsideAssumption
      <4> QED
        BY <2>4, <4>1 DEF Start, Inside, TypeOK
    <3>3. Inside[c] = Outside /\ f \in Breaker!Flight
      BY <3>1 DEF Inside, Breaker!Flight
    <3>4. Breaker!Enter(c, f)
      BY <3>1, <3>2, <3>3 DEF Breaker!Enter, Breaker!Open, Refused
    <3> QED
      BY <3>3, <3>4 DEF Breaker!Next
  <2>5. ASSUME NEW c \in Callers, Succeed(c) PROVE Breaker!Next
    <3>1. call[c] # Outside /\ call' = [call EXCEPT ![c] = Outside]
      BY <2>5 DEF Succeed, End, TypeOK
    <3>2. Breaker!Answered(c)
      BY <2>2, <2>3, <2>5, <3>1 DEF Succeed, Breaker!Answered
    <3> QED
      BY <3>2 DEF Breaker!Next
  <2>6. ASSUME NEW c \in Callers, Catch(c) PROVE Breaker!Next
    <3>1. call[c] # Outside /\ (call' = [call EXCEPT ![c] = Outside] \/ UNCHANGED call)
      BY <2>6 DEF Catch, End, TypeOK
    <3>2. Breaker!EndAttempt(c)
      BY <2>3, <3>1
    <3>3. strikes[call[c].sig] \in 0..Threshold
      BY <2>2, <3>1 DEF TypeOK
    <3>4. CASE outcome[c] = "error"
      <4>1. strikes' = [strikes EXCEPT ![call[c].sig] = 0] /\ UNCHANGED age
        BY <2>6, <3>4 DEF Catch, Counted, Trips
      <4>2. Breaker!Answered(c)
        BY <2>2, <3>1, <3>2, <4>1 DEF Breaker!Answered
      <4> QED
        BY <4>2 DEF Breaker!Next
    <3>5. CASE outcome[c] = "timeout"
      <4> DEFINE s == call[c].sig
      <4>1. strikes' = [strikes EXCEPT ![s] = IF @ < Threshold THEN @ + 1 ELSE @]
        BY <2>6, <3>5 DEF Catch, Counted
      <4>2. age' = IF strikes[s] + 1 >= Threshold THEN [age EXCEPT ![s] = 0] ELSE age
        BY <2>6, <3>3, <3>5, ThresholdAssumption DEF Catch, Counted, Trips
      <4>3. Breaker!TimedOut(c)
        BY <2>2, <3>1, <3>2, <4>1, <4>2 DEF Breaker!TimedOut
      <4> QED
        BY <4>3 DEF Breaker!Next
    <3> QED
      BY <2>6, <3>4, <3>5 DEF Catch
  <2>7. CASE Tick
    BY <2>7 DEF Tick, Breaker!Next, Breaker!Tick, Inside
  <2> QED
    BY <2>1, <2>4, <2>5, <2>6, <2>7 DEF Next, vars, Refuse, Settle, Fire, Wake
<1>3. IInv => TypeOK
  BY DEF IInv
<1> QED
  BY <1>1, <1>2, <1>3, Invariance, PTL DEF Spec, ImplementsBreaker, Breaker!Spec
=============================================================================
