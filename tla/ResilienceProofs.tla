-------------------------- MODULE ResilienceProofs --------------------------
(***************************************************************************)
(* Theorems about Resilience, for every number of callers, signals and     *)
(* executors, every policy, threshold, cooldown and pool size.             *)
(***************************************************************************)
EXTENDS Resilience, FiniteSetTheorems, TLAPS

-----------------------------------------------------------------------------
(***************************************************************************)
(* Lemmas about the helpers of the model.                                  *)
(***************************************************************************)
\* The locals of a caller outside run_with_resilience are locals.
LEMMA NoCallIsCall == NoCall \in Call
  BY SetAssumption DEF NoCall, Call

\* A policy allows at least one attempt.
LEMMA AttemptsPositive ==
  ASSUME NEW p \in Policies, NEW inLoop \in BOOLEAN
  PROVE  Attempts(p, inLoop) \in Nat \ {0} /\ p.timed \in BOOLEAN
  BY PolicyAssumption DEF Attempts, Policy

\* Forgetting the operations of unreachable executors keeps the rest.
LEMMA HungType ==
  ASSUME NEW h \in [Pools -> Nat], SetHung(h)
  PROVE  hung' \in [Pools -> Nat]
<1> DEFINE U(p) == Unreachable(p)'
<1>1. hung' = [p \in Pools |-> IF U(p) THEN 0 ELSE h[p]]
  BY DEF SetHung
<1> HIDE DEF U
<1> QED
  BY <1>1

\* After an attempt a caller retries, with one attempt less, or returns; the
\* call it makes stays the same until it returns.
LEMMA RetryEffect ==
  ASSUME TypeOK, NEW c \in Callers, Retry(c)
  PROVE  /\ pc' \in [Callers -> Locations] /\ call' \in [Callers -> Call]
         /\ \A d \in Callers : d # c => pc'[d] = pc[d] /\ call'[d] = call[d]
         /\ \/ /\ pc'[c] = "attempt" /\ call[c].left > 1
               /\ call'[c] = [call[c] EXCEPT !.left = @ - 1]
            \/ pc'[c] = "idle" /\ call'[c] = NoCall
<1>1. call[c] \in Call
  BY DEF TypeOK
<1>2. CASE call[c].left > 1 /\ call' = [call EXCEPT ![c].left = @ - 1] /\ Goto(c, "attempt")
  <2>1. [call[c] EXCEPT !.left = @ - 1] \in Call
    BY <1>1, <1>2 DEF Call
  <2> QED
    BY <1>2, <2>1 DEF TypeOK, Goto, Locations
<1>3. CASE Return(c)
  BY <1>3, NoCallIsCall DEF TypeOK, Return, Goto, Locations
<1> QED
  BY <1>2, <1>3 DEF Retry

\* What GetExecutor does, with p the executor obtained: it was the signal's
\* already, or is a new one that nobody could reach.
Obtains(c, p) ==
  /\ Goto(c, "submit")
  /\ call' = [call EXCEPT ![c].pool = p]
  /\ \/ executors[call[c].sig] = p /\ UNCHANGED <<executors, shut>>
     \/ /\ executors[call[c].sig] = NoPool /\ Unreachable(p)
        /\ executors' = [executors EXCEPT ![call[c].sig] = p]
        /\ shut' = shut \ {p}
  /\ UNCHANGED <<breaker, hung, outside, future>>

LEMMA GetExecutorEffect ==
  ASSUME TypeOK, NEW c \in Callers, GetExecutor(c)
  PROVE  \E p \in Pools : Obtains(c, p)
<1> DEFINE s == call[c].sig
           new == CHOOSE p \in Pools : Unreachable(p)
<1>1. CASE executors[s] # NoPool /\ call' = [call EXCEPT ![c].pool = executors[s]]
           /\ UNCHANGED <<executors, shut>>
  <2>1. executors[s] \in Pools
    BY <1>1 DEF TypeOK, Call
  <2>2. Obtains(c, executors[s])
    BY <1>1 DEF GetExecutor, Obtains
  <2> QED
    BY <2>1, <2>2
<1>2. CASE /\ executors[s] = NoPool /\ \E p \in Pools : Unreachable(p)
           /\ call'      = [call EXCEPT ![c].pool = new]
           /\ executors' = [executors EXCEPT ![s] = new]
           /\ shut'      = shut \ {new}
  <2>1. new \in Pools /\ Unreachable(new)
    BY <1>2
  <2>2. Obtains(c, new)
    <3> HIDE DEF new
    <3> QED
      BY <1>2, <2>1 DEF GetExecutor, Obtains
  <2> QED
    BY <2>1, <2>2
<1> QED
  BY <1>1, <1>2 DEF GetExecutor
-----------------------------------------------------------------------------
(***************************************************************************)
(* Type correctness.                                                       *)
(***************************************************************************)
LEMMA TypeInit == Init => TypeOK
  BY NoCallIsCall, SetAssumption, SizeAssumption
  DEF Init, TypeOK, Locations, Futures

LEMMA TypeStep == TypeOK /\ [Next]_vars => TypeOK'
<1> SUFFICES ASSUME TypeOK, [Next]_vars PROVE TypeOK'
  OBVIOUS
<1> USE DEF Locations, Futures, breaker, pools, outside
<1>1. ASSUME NEW c \in Callers, NEW s \in Signals, NEW p \in Policies,
             NEW inLoop \in BOOLEAN, StartCall(c, s, p, inLoop)
      PROVE  TypeOK'
  <2>1. [sig |-> s, timed |-> p.timed, left |-> Attempts(p, inLoop),
         pool |-> NoPool] \in Call
    BY AttemptsPositive DEF Call
  <2> QED
    BY <1>1, <2>1 DEF StartCall, TypeOK, Goto
<1>2. ASSUME NEW c \in Callers, Refuse(c) PROVE TypeOK'
  <2>1. lastError' \in [Signals -> BOOLEAN]
    BY <1>2 DEF Refuse, TypeOK, RecordFailure
  <2>2. pc' \in [Callers -> Locations] /\ call' \in [Callers -> Call]
    BY <1>2, NoCallIsCall DEF Refuse, Return, TypeOK, Goto
  <2> QED
    BY <1>2, <2>1, <2>2 DEF Refuse, TypeOK
<1>3. ASSUME NEW c \in Callers, Admit(c) PROVE TypeOK'
  BY <1>3 DEF Admit, TypeOK, Goto
<1>4. ASSUME NEW c \in Callers, RunInline(c) PROVE TypeOK'
  <2>1. lastError' \in [Signals -> BOOLEAN]
    BY <1>4 DEF RunInline, TypeOK, RecordSuccess, RecordFailure
  <2>2. pc' \in [Callers -> Locations]
    BY <1>4 DEF RunInline, TypeOK, Goto
  <2> QED
    BY <1>4, <2>1, <2>2 DEF RunInline, TypeOK
<1>5. ASSUME NEW c \in Callers, GetExecutor(c) PROVE TypeOK'
  <2>1. PICK p \in Pools : Obtains(c, p)
    BY <1>5, GetExecutorEffect
  <2>2. [call[c] EXCEPT !.pool = p] \in Call
    BY DEF TypeOK, Call
  <2>3. call' \in [Callers -> Call] /\ pc' \in [Callers -> Locations]
    BY <2>1, <2>2 DEF Obtains, TypeOK, Goto
  <2>4. executors' \in [Signals -> Pools \cup {NoPool}] /\ shut' \in SUBSET Pools
    BY <2>1 DEF Obtains, TypeOK
  <2> QED
    BY <2>1, <2>3, <2>4 DEF Obtains, TypeOK
<1>6. ASSUME NEW c \in Callers, Submit(c) PROVE TypeOK'
  <2>1. [call[c] EXCEPT !.pool = NoPool] \in Call
    BY DEF TypeOK, Call
  <2>2. hung' \in [Pools -> Nat]
    BY <1>6, HungType DEF Submit, TypeOK
  <2>3. lastError' \in [Signals -> BOOLEAN]
    BY <1>6 DEF Submit, TypeOK, RecordFailure
  <2> QED
    BY <1>6, <2>1, <2>2, <2>3 DEF Submit, TypeOK, Goto
<1>7. ASSUME NEW c \in Callers, Collect(c) PROVE TypeOK'
  <2>1. [call[c] EXCEPT !.pool = NoPool] \in Call
    BY DEF TypeOK, Call
  <2>2. hung' \in [Pools -> Nat]
    BY <1>7, HungType DEF Collect, TypeOK
  <2>3. lastError' \in [Signals -> BOOLEAN]
    BY <1>7 DEF Collect, TypeOK, RecordFailure, RecordSuccess
  <2>4. pc' \in [Callers -> Locations]
    BY <1>7 DEF Collect, TypeOK, Goto
  <2> QED
    BY <1>7, <2>1, <2>2, <2>3, <2>4 DEF Collect, TypeOK
<1>8. ASSUME NEW c \in Callers, Expire(c) PROVE TypeOK'
  <2>1. [call[c] EXCEPT !.pool = NoPool] \in Call
    BY DEF TypeOK, Call
  <2>2. hung' \in [Pools -> Nat]
    <3> DEFINE h == IF future[c] = "queued" THEN hung
                    ELSE [hung EXCEPT ![call[c].pool] = @ + 1]
    <3>1. h \in [Pools -> Nat]
      <4>1. \A p \in Pools : hung[p] \in Nat
        BY DEF TypeOK
      <4>2. CASE call[c].pool \in Pools
        BY <4>1, <4>2 DEF TypeOK
      <4>3. CASE call[c].pool \notin Pools
        <5>1. [hung EXCEPT ![call[c].pool] = @ + 1] = hung
          BY <4>3 DEF TypeOK
        <5> QED
          BY <5>1 DEF TypeOK
      <4> QED
        BY <4>2, <4>3
    <3>2. SetHung(h)
      BY <1>8 DEF Expire
    <3> QED
      BY <3>1, <3>2, HungType
  <2> QED
    BY <1>8, <2>1, <2>2 DEF Expire, TypeOK, Goto
<1>9. ASSUME NEW c \in Callers, MaybeReplace(c) PROVE TypeOK'
  <2>1. hung' \in [Pools -> Nat]
    BY <1>9, HungType DEF MaybeReplace, TypeOK
  <2>2. executors[call[c].sig] \in Pools \cup {NoPool}
    BY DEF TypeOK, Call
  <2> QED
    BY <1>9, <2>1, <2>2 DEF MaybeReplace, Dropped, TypeOK, Goto
<1>10. ASSUME NEW c \in Callers, RecordTimeout(c) PROVE TypeOK'
  BY <1>10 DEF RecordTimeout, TypeOK, Goto, RecordFailure
<1>11. ASSUME NEW c \in Callers, Strike(c) PROVE TypeOK'
  <2>1. pc' \in [Callers -> Locations] /\ call' \in [Callers -> Call]
    BY <1>11, RetryEffect DEF Strike
  <2>2. \A s \in Signals : (IF strikes[s] < Threshold THEN strikes[s] + 1 ELSE strikes[s])
                            \in 0..Threshold
    BY SizeAssumption DEF TypeOK
  <2>3. strikes' \in [Signals -> 0..Threshold]
    BY <1>11, <2>2 DEF Strike, TypeOK
  <2>4. age' \in [Signals -> 0..Cooldown]
    <3>1. 0 \in 0..Cooldown
      BY SizeAssumption
    <3>2. age' = age \/ \E s \in Signals : age' = [age EXCEPT ![s] = 0]
      BY <1>11 DEF Strike, TypeOK, Call
    <3> QED
      BY <3>1, <3>2 DEF TypeOK
  <2> QED
    BY <1>11, <2>1, <2>3, <2>4 DEF Strike, TypeOK
<1>12. ASSUME NEW c \in Callers, Clear(c) PROVE TypeOK'
  <2>1. pc' \in [Callers -> Locations] /\ call' \in [Callers -> Call]
    BY <1>12, RetryEffect, NoCallIsCall DEF Clear, Return, Goto, TypeOK
  <2>2. strikes' \in [Signals -> 0..Threshold]
    <3>1. 0 \in 0..Threshold
      BY SizeAssumption
    <3> QED
      BY <1>12, <3>1 DEF Clear, TypeOK
  <2> QED
    BY <1>12, <2>1, <2>2 DEF Clear, TypeOK
<1>13. ASSUME NEW c \in Callers, WorkerStart(c) \/ WorkerFinish(c) PROVE TypeOK'
  BY <1>13 DEF WorkerStart, WorkerFinish, TypeOK, Done
<1>14. ASSUME NEW p \in Pools, GhostFinish(p) PROVE TypeOK'
  <2>1. hung[p] - 1 \in Nat
    BY <1>14 DEF GhostFinish, TypeOK
  <2> QED
    BY <1>14, <2>1 DEF GhostFinish, TypeOK
<1>15. CASE BackendChange
  BY <1>15 DEF BackendChange, TypeOK
<1>16. CASE Tick
  <2>1. age' \in [Signals -> 0..Cooldown]
    BY <1>16, SizeAssumption DEF Tick, TypeOK
  <2> QED
    BY <1>16, <2>1 DEF Tick, TypeOK
<1>17. CASE UNCHANGED vars
  BY <1>17 DEF vars, TypeOK
<1> QED
  BY <1>1, <1>2, <1>3, <1>4, <1>5, <1>6, <1>7, <1>8, <1>9, <1>10, <1>11, <1>12,
     <1>13, <1>14, <1>15, <1>16, <1>17 DEF Next, CallerStep

\* Every variable keeps its type.
THEOREM TypeCorrect == Spec => []TypeOK
  BY TypeInit, TypeStep, PTL DEF Spec
-----------------------------------------------------------------------------
(***************************************************************************)
(* Executors are never confused.  With TypeOK the discipline is inductive. *)
(***************************************************************************)
\* Steps that create and drop no executor, and by which callers keep or give up
\* the one they use.
LEMMA DisciplineKept ==
  ASSUME ExecutorDiscipline, UNCHANGED <<executors, shut>>,
         \A c \in Callers : \/ call'[c].pool = NoPool
                            \/ call'[c].pool = call[c].pool /\ call'[c].sig = call[c].sig
  PROVE  ExecutorDiscipline'
  BY DEF ExecutorDiscipline

\* A caller obtains the executor of its signal, old or new.
LEMMA ObtainsDiscipline ==
  ASSUME TypeOK, ExecutorDiscipline, NEW c \in Callers, NEW p \in Pools, Obtains(c, p)
  PROVE  ExecutorDiscipline'
<1> DEFINE s == call[c].sig
<1>1. /\ s \in Signals /\ NoPool \notin Pools /\ p # NoPool
      /\ call'[c].pool = p /\ call'[c].sig = s
      /\ \A d \in Callers : d # c => call'[d] = call[d]
  BY NoValueAssumption DEF Obtains, TypeOK, Call
<1>2. CASE executors[s] = p /\ UNCHANGED <<executors, shut>>
  <2>1. \A d \in Callers : call[d].pool = p => call[d].sig = s
    BY <1>1, <1>2 DEF ExecutorDiscipline
  <2> QED
    BY <1>1, <1>2, <2>1 DEF ExecutorDiscipline
<1>3. CASE /\ executors[s] = NoPool /\ Unreachable(p)
           /\ executors' = [executors EXCEPT ![s] = p]
           /\ shut' = shut \ {p}
  <2>1. /\ executors'[s] = p /\ shut \subseteq Pools
        /\ \A t \in Signals : t # s => executors'[t] = executors[t]
        /\ \A t \in Signals : executors[t] # p
        /\ \A d \in Callers : call[d].pool # p
    BY <1>1, <1>3 DEF TypeOK, Unreachable
  <2>2. \A t \in Signals : executors'[t] \notin shut'
    BY <1>3, <2>1 DEF ExecutorDiscipline
  <2>3. \A q \in Pools : q \notin shut' => \E t \in Signals : executors'[t] = q
    <3> SUFFICES ASSUME NEW q \in Pools, q \notin shut'
                 PROVE  \E t \in Signals : executors'[t] = q
      OBVIOUS
    <3>1. CASE q = p
      BY <1>1, <2>1, <3>1
    <3>2. CASE q # p
      <4>1. PICK t \in Signals : executors[t] = q
        BY <1>3, <3>2 DEF ExecutorDiscipline
      <4> QED
        BY <1>1, <1>3, <2>1, <4>1
    <3> QED
      BY <3>1, <3>2
  <2>4. \A t, u \in Signals : executors'[t] = executors'[u] /\ t # u => executors'[t] = NoPool
    BY <2>1 DEF ExecutorDiscipline
  <2>5. \A d \in Callers, t \in Signals :
          executors'[t] = call'[d].pool /\ call'[d].pool # NoPool => t = call'[d].sig
    BY <1>1, <2>1 DEF ExecutorDiscipline
  <2>6. \A d, e \in Callers :
          call'[d].pool = call'[e].pool /\ call'[d].pool # NoPool => call'[d].sig = call'[e].sig
    BY <1>1, <2>1 DEF ExecutorDiscipline
  <2> QED
    BY <2>2, <2>3, <2>4, <2>5, <2>6 DEF ExecutorDiscipline
<1> QED
  BY <1>2, <1>3 DEF Obtains

\* The executor of a signal is dropped and shut down.
LEMMA ReplaceDiscipline ==
  ASSUME TypeOK, ExecutorDiscipline, NEW c \in Callers, MaybeReplace(c)
  PROVE  ExecutorDiscipline'
<1> DEFINE s == call[c].sig
<1>1. s \in Signals /\ NoPool \notin Pools /\ shut \subseteq Pools /\ UNCHANGED call
  BY NoValueAssumption DEF TypeOK, Call, MaybeReplace
<1>2. CASE executors' = [executors EXCEPT ![s] = NoPool]
           /\ shut' = shut \cup ({executors[s]} \ {NoPool})
  <2>1. /\ executors'[s] = NoPool
        /\ \A t \in Signals : t # s => executors'[t] = executors[t]
    BY <1>1, <1>2 DEF TypeOK
  <2>2. \A t \in Signals : executors'[t] \notin shut'
    BY <1>1, <1>2, <2>1 DEF ExecutorDiscipline
  <2>3. \A q \in Pools : q \notin shut' => \E t \in Signals : executors'[t] = q
    <3> SUFFICES ASSUME NEW q \in Pools, q \notin shut'
                 PROVE  \E t \in Signals : executors'[t] = q
      OBVIOUS
    <3>1. PICK t \in Signals : executors[t] = q
      BY <1>2 DEF ExecutorDiscipline
    <3>2. t # s
      BY <1>1, <1>2, <3>1
    <3> QED
      BY <2>1, <3>1, <3>2
  <2> QED
    BY <1>1, <2>1, <2>2, <2>3 DEF ExecutorDiscipline
<1>3. CASE UNCHANGED <<executors, shut>>
  BY <1>1, <1>3, DisciplineKept
<1> QED
  BY <1>2, <1>3 DEF MaybeReplace, Dropped

\* What a caller's step leaves of its call, unless it obtains an executor.
LEMMA CallKept ==
  ASSUME TypeOK, NEW c \in Callers,
         \/ Refuse(c) \/ Admit(c) \/ RunInline(c) \/ Submit(c) \/ Collect(c) \/ Expire(c)
         \/ RecordTimeout(c) \/ Strike(c) \/ Clear(c)
         \/ WorkerStart(c) \/ WorkerFinish(c)
  PROVE  /\ UNCHANGED <<executors, shut>>
         /\ \A d \in Callers : d # c => call'[d] = call[d]
         /\ \/ call'[c].pool = NoPool
            \/ call'[c].pool = call[c].pool /\ call'[c].sig = call[c].sig
<1> USE DEF pools
<1>1. NoCall.pool = NoPool /\ call[c] \in Call
  BY DEF NoCall, TypeOK
<1>2. CASE Refuse(c)
  BY <1>1, <1>2 DEF Refuse, Return, TypeOK
<1>3. CASE Admit(c)
  BY <1>1, <1>3 DEF Admit, TypeOK, Call
<1>4. CASE RunInline(c) \/ RecordTimeout(c) \/ WorkerStart(c) \/ WorkerFinish(c)
  BY <1>4 DEF RunInline, RecordTimeout, WorkerStart, WorkerFinish
<1>5. CASE Submit(c) \/ Collect(c) \/ Expire(c)
  BY <1>1, <1>5 DEF Submit, Collect, Expire, TypeOK, Call
<1>6. ASSUME Retry(c)
      PROVE  /\ \A d \in Callers : d # c => call'[d] = call[d]
             /\ \/ call'[c].pool = NoPool
                \/ call'[c].pool = call[c].pool /\ call'[c].sig = call[c].sig
  BY <1>1, <1>6, RetryEffect DEF Call
<1>7. CASE Strike(c) \/ Clear(c)
  BY <1>1, <1>6, <1>7 DEF Strike, Clear, Return, TypeOK
<1> QED
  BY <1>2, <1>3, <1>4, <1>5, <1>7

LEMMA DisciplineStep == TypeOK /\ ExecutorDiscipline /\ [Next]_vars => ExecutorDiscipline'
<1> SUFFICES ASSUME TypeOK, ExecutorDiscipline, [Next]_vars PROVE ExecutorDiscipline'
  OBVIOUS
<1>1. ASSUME NEW c \in Callers, NEW s \in Signals, NEW p \in Policies,
             NEW inLoop \in BOOLEAN, StartCall(c, s, p, inLoop)
      PROVE  ExecutorDiscipline'
  <2>1. call'[c].pool = NoPool /\ \A d \in Callers : d # c => call'[d] = call[d]
    BY <1>1 DEF StartCall, TypeOK
  <2> QED
    BY <1>1, <2>1, DisciplineKept DEF StartCall, pools
<1>2. ASSUME NEW c \in Callers, GetExecutor(c) PROVE ExecutorDiscipline'
  BY <1>2, GetExecutorEffect, ObtainsDiscipline
<1>3. ASSUME NEW c \in Callers, MaybeReplace(c) PROVE ExecutorDiscipline'
  BY <1>3, ReplaceDiscipline
<1>4. ASSUME NEW c \in Callers,
             \/ Refuse(c) \/ Admit(c) \/ RunInline(c) \/ Submit(c) \/ Collect(c) \/ Expire(c)
             \/ RecordTimeout(c) \/ Strike(c) \/ Clear(c)
             \/ WorkerStart(c) \/ WorkerFinish(c)
      PROVE  ExecutorDiscipline'
  BY <1>4, CallKept, DisciplineKept
<1>5. CASE (\E p \in Pools : GhostFinish(p)) \/ BackendChange \/ Tick \/ UNCHANGED vars
  <2>1. UNCHANGED <<executors, shut, call>>
    BY <1>5 DEF GhostFinish, BackendChange, Tick, vars, pools
  <2> QED
    BY <2>1, DisciplineKept
<1> QED
  BY <1>1, <1>2, <1>3, <1>4, <1>5 DEF Next, CallerStep

\* No executor is used by two signals, none in use was shut down, and none that
\* was dropped was left running.
THEOREM ExecutorsDisciplined == Spec => []ExecutorDiscipline
<1>1. Init => ExecutorDiscipline
  <2> SUFFICES ASSUME Init PROVE ExecutorDiscipline
    OBVIOUS
  <2>1. \A c \in Callers : call[c].pool = NoPool
    BY DEF Init, NoCall
  <2> QED
    BY <2>1, NoValueAssumption DEF Init, ExecutorDiscipline
<1> QED
  BY <1>1, DisciplineStep, TypeCorrect, PTL DEF Spec
-----------------------------------------------------------------------------
(***************************************************************************)
(* The breaker.                                                            *)
(***************************************************************************)
\* The steps of a caller past the breaker, before an attempt ends: it stays
\* past the breaker, with the call it has.
Working(c) == GetExecutor(c) \/ RunInline(c) \/ Submit(c) \/ Collect(c) \/ Expire(c)
              \/ MaybeReplace(c) \/ RecordTimeout(c)

LEMMA WorkingEffect ==
  ASSUME TypeOK, NEW c \in Callers, Working(c)
  PROVE  /\ \A d \in Callers : d # c => pc'[d] = pc[d] /\ call'[d] = call[d]
         /\ pc[c] \notin {"idle", "check"} /\ pc'[c] \notin {"idle", "check"}
         /\ call'[c].sig = call[c].sig /\ call'[c].timed = call[c].timed
         /\ call'[c].left = call[c].left
         /\ UNCHANGED <<strikes, age>>
<1> USE DEF Goto, breaker
<1>1. call[c] \in Call
  BY DEF TypeOK
<1>2. CASE GetExecutor(c)
  <2>1. PICK p \in Pools : Obtains(c, p)
    BY <1>2, GetExecutorEffect
  <2>2. pc[c] = "attempt"
    BY <1>2 DEF GetExecutor
  <2> QED
    BY <1>1, <2>1, <2>2 DEF Obtains, TypeOK, Call
<1>3. CASE RunInline(c) \/ MaybeReplace(c) \/ RecordTimeout(c)
  BY <1>3 DEF RunInline, MaybeReplace, RecordTimeout, TypeOK
<1>4. CASE Submit(c)
  BY <1>1, <1>4 DEF Submit, TypeOK, Call
<1>5. CASE Collect(c)
  BY <1>1, <1>5 DEF Collect, TypeOK, Call
<1>6. CASE Expire(c)
  BY <1>1, <1>6 DEF Expire, TypeOK, Call
<1> QED
  BY <1>2, <1>3, <1>4, <1>5, <1>6 DEF Working

\* The steps that no caller makes, or that leave it where it is.
Around == \/ \E c \in Callers : WorkerStart(c) \/ WorkerFinish(c)
          \/ \E p \in Pools : GhostFinish(p)
          \/ BackendChange \/ Tick \/ UNCHANGED vars

LEMMA AroundEffect == Around => UNCHANGED <<pc, call, strikes>> /\ (UNCHANGED age \/ Tick)
  BY DEF Around, WorkerStart, WorkerFinish, GhostFinish, BackendChange, Tick, vars, breaker

\* The steps that end an attempt, and a call with them or not.
LEMMA EndEffect ==
  ASSUME TypeOK, NEW c \in Callers, Strike(c) \/ Clear(c)
  PROVE  /\ \A d \in Callers : d # c => pc'[d] = pc[d] /\ call'[d] = call[d]
         /\ pc[c] \notin {"idle", "check"}
         /\ \/ pc'[c] = "idle"
            \/ /\ pc'[c] \notin {"idle", "check"}
               /\ call'[c].sig = call[c].sig /\ call'[c].timed = call[c].timed
               /\ call'[c].left \in Nat /\ call[c].left = call'[c].left + 1
<1>1. call[c] \in Call
  BY DEF TypeOK
<1>2. ASSUME Retry(c)
      PROVE  /\ \A d \in Callers : d # c => pc'[d] = pc[d] /\ call'[d] = call[d]
             /\ \/ pc'[c] = "idle"
                \/ /\ pc'[c] \notin {"idle", "check"}
                   /\ call'[c].sig = call[c].sig /\ call'[c].timed = call[c].timed
                   /\ call'[c].left \in Nat /\ call[c].left = call'[c].left + 1
  <2>1. /\ \A d \in Callers : d # c => pc'[d] = pc[d] /\ call'[d] = call[d]
        /\ \/ /\ pc'[c] = "attempt" /\ call[c].left > 1
              /\ call'[c] = [call[c] EXCEPT !.left = @ - 1]
           \/ pc'[c] = "idle"
    BY <1>2, RetryEffect
  <2>2. call[c].left \in Nat /\ DOMAIN call[c] = {"sig", "timed", "left", "pool"}
    BY <1>1 DEF Call
  <2>3. CASE /\ pc'[c] = "attempt" /\ call[c].left > 1
             /\ call'[c] = [call[c] EXCEPT !.left = @ - 1]
    <3>1. /\ call'[c].left = call[c].left - 1
          /\ call'[c].sig = call[c].sig /\ call'[c].timed = call[c].timed
      BY <2>2, <2>3
    <3> QED
      BY <2>1, <2>2, <2>3, <3>1
  <2> QED
    BY <2>1, <2>3
<1>3. CASE Strike(c)
  BY <1>2, <1>3 DEF Strike
<1>4. CASE Clear(c) /\ Return(c)
  BY <1>4 DEF Clear, Return, Goto, TypeOK
<1>5. CASE Clear(c) /\ Retry(c)
  BY <1>2, <1>5 DEF Clear
<1> QED
  BY <1>3, <1>4, <1>5 DEF Clear

\* Every step is a caller's or one around the callers.
LEMMA StepCases ==
  ASSUME [Next]_vars
  PROVE  \/ \E c \in Callers, s \in Signals, p \in Policies, inLoop \in BOOLEAN :
              StartCall(c, s, p, inLoop)
         \/ \E c \in Callers : Refuse(c) \/ Admit(c) \/ Working(c) \/ Strike(c) \/ Clear(c)
         \/ Around
  BY DEF Next, CallerStep, Working, Around

-----------------------------------------------------------------------------
(***************************************************************************)
(* The refinement.  A caller is inside the abstract breaker exactly when   *)
(* it is past the check; its executor and its retries map to stutters.     *)
(***************************************************************************)
Inside == [c \in Callers |-> IF pc[c] \in {"idle", "check"} THEN Outside
                             ELSE [sig |-> call[c].sig, timed |-> call[c].timed]]

\* A step that moves at most caller c moves at most its entry.
LEMMA InsideMoves ==
  ASSUME NEW c \in Callers, \A d \in Callers : d # c => pc'[d] = pc[d] /\ call'[d] = call[d]
  PROVE  Inside' = [Inside EXCEPT ![c] = IF pc'[c] \in {"idle", "check"} THEN Outside
                                         ELSE [sig |-> call'[c].sig, timed |-> call'[c].timed]]
  BY DEF Inside

\* Executors, futures, retries and locks implement the circuit breaker.
THEOREM BreakerImplemented == Spec => ImplementsBreaker
<1>1. Init => CB!Init
  BY DEF Init, CB!Init
<1>2. TypeOK /\ [Next]_vars => [CB!Next]_(CB!vars)
  <2> SUFFICES ASSUME TypeOK, [Next]_vars PROVE CB!Next \/ UNCHANGED <<strikes, age, Inside>>
    BY DEF CB!vars, Inside
  <2>1. \A f : f = [sig |-> f.sig, timed |-> f.timed] /\ f.sig \in Signals /\ f.timed \in BOOLEAN
                 => f \in CB!Flight /\ f # Outside
    BY NoValueAssumption DEF CB!Flight
  <2>2. \A c \in Callers : call[c].sig \in Signals /\ call[c].timed \in BOOLEAN
    BY DEF TypeOK, Call
  <2>3. ASSUME NEW c \in Callers, NEW s \in Signals, NEW p \in Policies,
               NEW inLoop \in BOOLEAN, StartCall(c, s, p, inLoop)
        PROVE  CB!Next \/ UNCHANGED <<strikes, age, Inside>>
    <3>1. /\ \A d \in Callers : d # c => pc'[d] = pc[d] /\ call'[d] = call[d]
          /\ pc[c] = "idle" /\ pc'[c] = IF p.timed THEN "check" ELSE "attempt"
          /\ call'[c].sig = s /\ call'[c].timed = p.timed
          /\ UNCHANGED <<strikes, age>> /\ p.timed \in BOOLEAN
      BY <2>3, AttemptsPositive DEF StartCall, Goto, TypeOK, breaker
    <3>2. CASE p.timed
      <4>1. Inside' = Inside
        BY <3>1, <3>2 DEF Inside
      <4> QED
        BY <3>1, <4>1
    <3>3. CASE ~p.timed
      <4> DEFINE f == [sig |-> s, timed |-> p.timed]
      <4>1. Inside' = [Inside EXCEPT ![c] = f] /\ Inside[c] = Outside /\ f \in CB!Flight
        BY <2>1, <3>1, <3>3, InsideMoves DEF Inside
      <4>2. CB!Enter(c, f)
        BY <3>1, <3>3, <4>1 DEF CB!Enter, Inside
      <4> QED
        BY <4>1, <4>2 DEF CB!Next
    <3> QED
      BY <3>2, <3>3
  <2>4. ASSUME NEW c \in Callers, Refuse(c) PROVE UNCHANGED <<strikes, age, Inside>>
    BY <2>4 DEF Refuse, Return, Goto, TypeOK, breaker, Inside
  <2>5. ASSUME NEW c \in Callers, Admit(c) PROVE CB!Next
    <3>1. /\ \A d \in Callers : d # c => pc'[d] = pc[d] /\ call'[d] = call[d]
          /\ pc[c] = "check" /\ pc'[c] = "attempt"
          /\ call'[c].sig = call[c].sig /\ call'[c].timed = call[c].timed
          /\ UNCHANGED <<strikes, age>> /\ ~CB!Open(call[c].sig)
      BY <2>5 DEF Admit, Refused, Open, Tripped, CB!Open, Goto, TypeOK, Call, breaker
    <3>2. PICK f \in CB!Flight : f = [sig |-> call[c].sig, timed |-> call[c].timed]
      BY <2>2 DEF CB!Flight
    <3>3. Inside' = [Inside EXCEPT ![c] = f] /\ Inside[c] = Outside
      BY <3>1, <3>2, InsideMoves DEF Inside
    <3>4. ~CB!Open(f.sig)
      BY <3>1, <3>2 DEF CB!Open
    <3>5. CB!Enter(c, f)
      BY <3>1, <3>3, <3>4 DEF CB!Enter, Inside
    <3> QED
      BY <3>5 DEF CB!Next
  <2>6. ASSUME NEW c \in Callers, Working(c) PROVE UNCHANGED <<strikes, age, Inside>>
    BY <2>6, WorkingEffect DEF Inside
  <2>7. ASSUME NEW c \in Callers, Strike(c) \/ Clear(c) PROVE CB!Next
    <3>1. /\ Inside[c] = [sig |-> call[c].sig, timed |-> call[c].timed] /\ Inside[c] # Outside
          /\ Inside[c].sig = call[c].sig
      BY <2>1, <2>2, <2>7, EndEffect DEF Inside
    <3>2. Inside' = Inside \/ Inside' = [Inside EXCEPT ![c] = Outside]
      BY <2>7, EndEffect, InsideMoves DEF Inside
    <3>3. CB!EndAttempt(c)
      BY <3>2 DEF CB!EndAttempt, Inside
    <3>4. CASE Strike(c)
      <4>1. /\ strikes' = [strikes EXCEPT ![call[c].sig] =
                              IF @ < Threshold THEN @ + 1 ELSE @]
            /\ age' = IF strikes[call[c].sig] + 1 >= Threshold
                        THEN [age EXCEPT ![call[c].sig] = 0] ELSE age
        BY <3>4 DEF Strike, Trips
      <4>2. CB!TimedOut(c)
        BY <3>1, <3>3, <4>1 DEF CB!TimedOut, Inside
      <4> QED
        BY <4>2 DEF CB!Next
    <3>5. CASE Clear(c)
      <4>1. CB!Answered(c)
        BY <3>1, <3>3, <3>5 DEF CB!Answered, Clear, Inside
      <4> QED
        BY <4>1 DEF CB!Next
    <3> QED
      BY <2>7, <3>4, <3>5
  <2>8. CASE Around
    <3>1. UNCHANGED <<strikes, Inside>> /\ (UNCHANGED age \/ Tick)
      BY <2>8, AroundEffect DEF Inside
    <3>2. Tick => CB!Tick
      BY <3>1 DEF Tick, CB!Tick, Inside
    <3> QED
      BY <3>1, <3>2 DEF CB!Next
  <2> QED
    BY <2>3, <2>4, <2>5, <2>6, <2>7, <2>8, StepCases
<1> QED
  BY <1>1, <1>2, TypeCorrect, PTL DEF Spec, ImplementsBreaker, CB!Spec
-----------------------------------------------------------------------------
(***************************************************************************)
(* A tripped breaker shows in health.  A timeout goes to health before it  *)
(* is counted, a success before it clears the count.  So when health shows *)
(* no error, and no success has yet to clear the count, what is counted    *)
(* and what has still to be counted are together below the threshold: a    *)
(* success was the last to clear the count, and its own caller is none of  *)
(* those that have still to count.                                         *)
(***************************************************************************)
Strikers(s) == {c \in Callers : pc[c] = "strike" /\ call[c].sig = s}

Sound(s) == /\ ~lastError[s]
            /\ \A c \in Callers : pc[c] = "succeeded" => call[c].sig # s

BelowThreshold(s) ==
  Sound(s) => strikes[s] + Cardinality(Strikers(s)) < Threshold

HealthInv ==
  Cardinality(Callers) <= Threshold => \A s \in Signals : BelowThreshold(s)

LEMMA StrikersFinite ==
  ASSUME NEW s
  PROVE  IsFiniteSet(Strikers(s)) /\ Cardinality(Strikers(s)) \in Nat
<1>1. Strikers(s) \subseteq Callers
  BY DEF Strikers
<1> QED
  BY <1>1, CallersAssumption, FS_Subset, FS_CardinalityType

\* The steps after which signal s is sound only if it was, and no more timeouts
\* are counted or to be counted than before.
LEMMA SoundKept ==
  ASSUME TypeOK, NEW s \in Signals, BelowThreshold(s),
         Sound(s)' => Sound(s) /\ Strikers(s)' \subseteq Strikers(s),
         strikes'[s] \in Nat, strikes'[s] <= strikes[s]
  PROVE  BelowThreshold(s)'
<1> SUFFICES ASSUME Sound(s)'
             PROVE  strikes'[s] + Cardinality(Strikers(s)') < Threshold
  BY DEF BelowThreshold
<1>1. /\ IsFiniteSet(Strikers(s)) /\ Strikers(s)' \in SUBSET Strikers(s)
      /\ Cardinality(Strikers(s)) \in Nat
  BY StrikersFinite
<1>2. /\ Cardinality(Strikers(s)') <= Cardinality(Strikers(s))
      /\ Cardinality(Strikers(s)') \in Nat
  BY <1>1, FS_Subset, FS_CardinalityType
<1>3. strikes[s] + Cardinality(Strikers(s)) < Threshold /\ strikes[s] \in Nat /\ Threshold \in Nat
  BY SizeAssumption DEF BelowThreshold, TypeOK
<1> QED
  BY <1>1, <1>2, <1>3

\* A step of caller c that neither counts a timeout nor ends with success: where
\* it comes to a success or to a count, health was told.
LEMMA CallerTells ==
  ASSUME TypeOK, NEW s \in Signals, NEW c \in Callers, BelowThreshold(s),
         \A d \in Callers : d # c => pc'[d] = pc[d] /\ call'[d] = call[d],
         pc[c] = "succeeded" => call[c].sig # s,
         ~lastError'[s] => \/ ~lastError[s]
                           \/ pc'[c] = "succeeded" /\ call'[c].sig = s,
         pc'[c] = "strike" /\ call'[c].sig = s => lastError'[s],
         strikes'[s] \in Nat, strikes'[s] <= strikes[s]
  PROVE  BelowThreshold(s)'
<1>1. ASSUME Sound(s)' PROVE Sound(s)
  <2>1. ~lastError'[s] /\ \A d \in Callers : pc'[d] = "succeeded" => call'[d].sig # s
    BY <1>1 DEF Sound
  <2>2. ~lastError[s]
    BY <2>1 DEF TypeOK
  <2> QED
    BY <2>1, <2>2 DEF Sound
<1>2. ASSUME Sound(s)' PROVE Strikers(s)' \subseteq Strikers(s)
  BY <1>2 DEF Sound, Strikers
<1> QED
  BY <1>1, <1>2, SoundKept

LEMMA WorkingTells ==
  ASSUME TypeOK, NEW s \in Signals, NEW c \in Callers, Working(c)
  PROVE  /\ pc[c] # "succeeded"
         /\ ~lastError'[s] => \/ ~lastError[s]
                              \/ pc'[c] = "succeeded" /\ call'[c].sig = s
         /\ pc'[c] = "strike" /\ call'[c].sig = s => lastError'[s]
<1> USE DEF Goto, RecordSuccess, RecordFailure, outside
<1>1. call'[c].sig = call[c].sig
  BY WorkingEffect
<1>2. call[c].sig \in Signals
  BY DEF TypeOK, Call
<1>3. CASE GetExecutor(c) \/ Expire(c) \/ MaybeReplace(c)
  BY <1>3 DEF GetExecutor, Expire, MaybeReplace, TypeOK
<1>4. CASE RunInline(c)
  BY <1>1, <1>2, <1>4 DEF RunInline, TypeOK
<1>5. CASE Submit(c)
  BY <1>1, <1>2, <1>5 DEF Submit, TypeOK
<1>6. CASE Collect(c)
  BY <1>1, <1>2, <1>6 DEF Collect, TypeOK
<1>7. CASE RecordTimeout(c)
  BY <1>1, <1>2, <1>7 DEF RecordTimeout, TypeOK
<1> QED
  BY <1>3, <1>4, <1>5, <1>6, <1>7 DEF Working

\* A timeout that is counted was one to be counted.
LEMMA StrikeCounts ==
  ASSUME TypeOK, NEW s \in Signals, NEW c \in Callers, BelowThreshold(s), Strike(c)
  PROVE  BelowThreshold(s)'
<1>1. /\ \A d \in Callers : d # c => pc'[d] = pc[d] /\ call'[d] = call[d]
      /\ pc[c] = "strike" /\ pc'[c] \in {"idle", "attempt"}
      /\ lastError' = lastError
  BY RetryEffect DEF Strike, outside
<1>2. strikes' = [strikes EXCEPT ![call[c].sig] = IF @ < Threshold THEN @ + 1 ELSE @]
  BY DEF Strike
<1>3. strikes[s] \in Nat /\ call[c].sig \in Signals /\ Threshold \in Nat
  BY SizeAssumption DEF TypeOK, Call
<1>4. CASE call[c].sig # s
  <2>1. strikes'[s] = strikes[s]
    BY <1>2, <1>4 DEF TypeOK
  <2> QED
    BY <1>1, <1>3, <1>4, <2>1, CallerTells
<1>5. CASE call[c].sig = s
  <2> SUFFICES ASSUME Sound(s)'
               PROVE  strikes'[s] + Cardinality(Strikers(s)') < Threshold
    BY DEF BelowThreshold
  <2>1. Sound(s)
    BY <1>1 DEF Sound
  <2>2. Strikers(s)' = Strikers(s) \ {c} /\ c \in Strikers(s)
    BY <1>1, <1>5 DEF Strikers
  <2>3. Cardinality(Strikers(s)') = Cardinality(Strikers(s)) - 1
    BY <2>2, StrikersFinite, FS_RemoveElement
  <2>4. strikes'[s] \in Nat /\ strikes'[s] <= strikes[s] + 1
    BY <1>2, <1>3, <1>5 DEF TypeOK
  <2>5. strikes[s] + Cardinality(Strikers(s)) < Threshold
    BY <2>1 DEF BelowThreshold
  <2> QED
    BY <1>3, <2>3, <2>4, <2>5, StrikersFinite
<1> QED
  BY <1>4, <1>5

\* The caller that clears the count is none of those that have still to count.
LEMMA ClearStartsAfresh ==
  ASSUME TypeOK, NEW s \in Signals, NEW c \in Callers, BelowThreshold(s), Clear(c),
         Cardinality(Callers) <= Threshold
  PROVE  BelowThreshold(s)'
<1>1. call[c].sig \in Signals /\ strikes[s] \in Nat /\ Threshold \in Nat
  BY SizeAssumption DEF TypeOK, Call
<1>2. /\ \A d \in Callers : d # c => pc'[d] = pc[d] /\ call'[d] = call[d]
      /\ pc[c] \in {"succeeded", "failed"} /\ pc'[c] \in {"idle", "attempt"}
      /\ lastError' = lastError /\ strikes' = [strikes EXCEPT ![call[c].sig] = 0]
  <2>1. CASE Return(c)
    BY <2>1 DEF Clear, Return, Goto, outside, TypeOK
  <2>2. CASE Retry(c)
    BY <2>2, RetryEffect DEF Clear, outside
  <2> QED
    BY <2>1, <2>2 DEF Clear
<1>3. CASE call[c].sig # s
  <2>1. strikes'[s] = strikes[s]
    BY <1>2, <1>3 DEF TypeOK
  <2> QED
    BY <1>1, <1>2, <1>3, <2>1, CallerTells
<1>4. CASE call[c].sig = s
  <2>1. strikes'[s] = 0
    BY <1>2, <1>4 DEF TypeOK
  <2>2. Strikers(s)' \in SUBSET (Callers \ {c})
    BY <1>2 DEF Strikers
  <2>3. /\ IsFiniteSet(Callers \ {c})
        /\ Cardinality(Callers \ {c}) = Cardinality(Callers) - 1
    BY CallersAssumption, FS_RemoveElement
  <2>4. /\ Cardinality(Strikers(s)') <= Cardinality(Callers) - 1
        /\ Cardinality(Strikers(s)') \in Nat /\ Cardinality(Callers) \in Nat
    BY <2>2, <2>3, CallersAssumption, FS_Subset, FS_CardinalityType
  <2> QED
    BY <1>1, <2>1, <2>4 DEF BelowThreshold
<1> QED
  BY <1>3, <1>4

LEMMA HealthStep == TypeOK /\ HealthInv /\ [Next]_vars => HealthInv'
<1> SUFFICES ASSUME TypeOK, [Next]_vars, Cardinality(Callers) <= Threshold,
                    NEW s \in Signals, BelowThreshold(s)
             PROVE  BelowThreshold(s)'
  BY DEF HealthInv
<1>1. strikes[s] \in Nat
  BY DEF TypeOK
<1>2. ASSUME NEW c \in Callers, NEW t \in Signals, NEW p \in Policies, NEW inLoop \in BOOLEAN,
             StartCall(c, t, p, inLoop)
      PROVE  BelowThreshold(s)'
  <2>1. /\ \A d \in Callers : d # c => pc'[d] = pc[d] /\ call'[d] = call[d]
        /\ pc[c] = "idle" /\ pc'[c] \in {"check", "attempt"}
        /\ UNCHANGED <<lastError, strikes>>
    BY <1>2 DEF StartCall, Goto, TypeOK, breaker, outside
  <2> QED
    BY <1>1, <2>1, CallerTells
<1>3. ASSUME NEW c \in Callers, Refuse(c) \/ Admit(c)
      PROVE  BelowThreshold(s)'
  <2>1. /\ \A d \in Callers : d # c => pc'[d] = pc[d] /\ call'[d] = call[d]
        /\ pc[c] = "check" /\ pc'[c] \in {"idle", "attempt"}
        /\ lastError[s] => lastError'[s]
        /\ UNCHANGED strikes
    BY <1>3 DEF Refuse, Admit, Return, RecordFailure, Goto, TypeOK, breaker, outside
  <2> QED
    BY <1>1, <2>1, CallerTells
<1>4. ASSUME NEW c \in Callers, Working(c)
      PROVE  BelowThreshold(s)'
  <2>1. /\ \A d \in Callers : d # c => pc'[d] = pc[d] /\ call'[d] = call[d]
        /\ UNCHANGED strikes
    BY <1>4, WorkingEffect
  <2> QED
    BY <1>1, <1>4, <2>1, WorkingTells, CallerTells
<1>5. CASE Around
  <2>1. UNCHANGED <<pc, call, strikes, lastError>>
    BY <1>5, AroundEffect
    DEF Around, WorkerStart, WorkerFinish, GhostFinish, BackendChange, Tick, vars, outside
  <2>2. (Sound(s)' <=> Sound(s)) /\ Strikers(s)' = Strikers(s)
    BY <2>1 DEF Sound, Strikers
  <2> QED
    BY <1>1, <2>1, <2>2, SoundKept
<1> QED
  BY <1>2, <1>3, <1>4, <1>5, StrikeCounts, ClearStartsAfresh, StepCases

\* As long as no more callers run at once than the threshold counts, a tripped
\* breaker shows in health but for a success that has yet to clear it.
THEOREM TrippedShown == Spec => []TrippedShowsInHealth
<1>1. Init => HealthInv
  <2> SUFFICES ASSUME Init, NEW s \in Signals PROVE BelowThreshold(s)
    BY DEF HealthInv
  <2>1. Strikers(s) = {} /\ strikes[s] = 0
    BY DEF Init, Strikers
  <2> QED
    BY <2>1, SizeAssumption, FS_EmptySet DEF BelowThreshold
<1>2. TypeOK /\ HealthInv => TrippedShowsInHealth
  <2> SUFFICES ASSUME TypeOK, HealthInv, Cardinality(Callers) <= Threshold,
                      NEW s \in Signals, Tripped(s),
                      \A c \in Callers : pc[c] = "succeeded" => call[c].sig # s,
                      ~lastError[s]
               PROVE  FALSE
    BY DEF TrippedShowsInHealth
  <2>1. strikes[s] + Cardinality(Strikers(s)) < Threshold
    BY DEF HealthInv, BelowThreshold, Sound
  <2>2. strikes[s] >= Threshold /\ strikes[s] \in Nat /\ Threshold \in Nat
    BY SizeAssumption DEF Tripped, TypeOK
  <2> QED
    BY <2>1, <2>2, StrikersFinite
<1> QED
  BY <1>1, <1>2, HealthStep, TypeCorrect, PTL DEF Spec
=============================================================================
