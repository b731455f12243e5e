----------------------------- MODULE Resilience -----------------------------
(***************************************************************************)
(* src/undef/telemetry/resilience.py: run_with_resilience and everything   *)
(* it shares between threads - the exporter policies, the circuit breaker  *)
(* of each signal, and the two-worker timeout executor of each signal.     *)
(*                                                                         *)
(* A caller is a thread inside run_with_resilience.  Every action is one   *)
(* access to shared state: a section under resilience._lock, a section     *)
(* under health._lock, or one operation on an executor or a future.        *)
(* Everything a thread does in between is local to it and is folded into   *)
(* the neighbouring access.                                                *)
(*                                                                         *)
(* Two data abstractions keep the state finite without losing a decision:  *)
(*   - the code compares _consecutive_timeouts only with the threshold,    *)
(*     so `strikes` stops counting there;                                  *)
(*   - it uses _circuit_tripped_at only in `elapsed < cooldown`, so `age`  *)
(*     is that elapsed time, and stops at Cooldown.                        *)
(***************************************************************************)
EXTENDS Integers, FiniteSets

CONSTANTS
  Callers,     \* threads that call run_with_resilience
  Signals,     \* "logs", "traces", "metrics"
  Pools,       \* identities of ThreadPoolExecutor objects, reused once unreachable
  NoPool,      \* no executor: a missing entry of _timeout_executors
  Policies,    \* the exporter policies an application may set
  Backends,    \* states of the telemetry backend: "up", and "down" if it may fail
  Threshold,   \* _CIRCUIT_BREAKER_THRESHOLD
  Cooldown,    \* _CIRCUIT_BREAKER_COOLDOWN, in clock ticks
  MaxWorkers,  \* max_workers of a timeout executor
  Outside      \* not past the breaker, in CircuitBreaker

(***************************************************************************)
(* An ExporterPolicy: `timed` is timeout_seconds > 0, `backoff` is         *)
(* backoff_seconds > 0, `blocking` is allow_blocking_in_event_loop.        *)
(* fail_open only chooses whether a failed call returns None or raises;    *)
(* it changes no state, and either way the call is over.                   *)
(***************************************************************************)
Policy == [retries: Nat, backoff: BOOLEAN, timed: BOOLEAN, blocking: BOOLEAN]

ASSUME CallersAssumption == IsFiniteSet(Callers)
ASSUME PolicyAssumption == Policies \subseteq Policy /\ Policies # {}
ASSUME SizeAssumption ==
  /\ Threshold \in Nat \ {0}
  /\ Cooldown \in Nat \ {0}
  /\ MaxWorkers \in Nat \ {0}
ASSUME NoValueAssumption ==
  NoPool \notin Pools /\ Outside \notin [sig: Signals, timed: BOOLEAN]
ASSUME SetAssumption ==
  Signals # {} /\ "up" \in Backends /\ Backends \subseteq {"up", "down"}

VARIABLES
  strikes,    \* _consecutive_timeouts, up to Threshold
  age,        \* time.monotonic() - _circuit_tripped_at, up to Cooldown
  executors,  \* _timeout_executors
  shut,       \* executors on which shutdown() was called
  hung,       \* workers of an executor busy with an operation nobody waits for
  lastError,  \* health._last_error is not None
  backend,    \* whether operations started now answer at all
  pc,         \* where a caller is in run_with_resilience
  call,       \* a caller's local variables
  future      \* the future a caller waits for

vars == <<strikes, age, executors, shut, hung, lastError, backend,
          pc, call, future>>

breaker == <<strikes, age>>
pools   == <<executors, shut, hung>>
outside == <<lastError, backend>>

\* Locals of run_with_resilience: the signal, what it kept of the policy, the
\* attempts left (this one included), and the executor of this attempt.
Call == [sig: Signals, timed: BOOLEAN, left: Nat, pool: Pools \cup {NoPool}]
NoCall == [sig |-> CHOOSE s \in Signals : TRUE, timed |-> FALSE,
           left |-> 0, pool |-> NoPool]

Locations == {"idle", "check", "attempt", "submit", "waiting", "expired",
              "timedout", "strike", "succeeded", "failed"}

\* A future: none, queued in the executor, on a worker that will answer
\* ("running") or never will ("stuck"), or done with a value, an exception,
\* or a TimeoutError that the operation itself raised.
Futures == {"none", "queued", "running", "stuck", "ok", "error", "timeout"}
Done    == {"ok", "error", "timeout"}

TypeOK ==
  /\ strikes   \in [Signals -> 0..Threshold]
  /\ age       \in [Signals -> 0..Cooldown]
  /\ executors \in [Signals -> Pools \cup {NoPool}]
  /\ shut      \in SUBSET Pools
  /\ hung      \in [Pools -> Nat]
  /\ lastError \in [Signals -> BOOLEAN]
  /\ backend   \in Backends
  /\ pc        \in [Callers -> Locations]
  /\ call      \in [Callers -> Call]
  /\ future    \in [Callers -> Futures]
-----------------------------------------------------------------------------
\* Operators named Mut... are mutations of the operator they precede; nothing
\* in the model uses them.

\* Signal s has had its consecutive timeouts; its breaker refuses timed calls.
Tripped(s) == strikes[s] >= Threshold
Open(s)    == Tripped(s) /\ age[s] < Cooldown

\* What run_with_resilience asks the breaker.
Refused(s) == Open(s)

\* The timeout being counted reaches the threshold, or is beyond it.
MutTripsOnce(s) == strikes[s] + 1 = Threshold
Trips(s) == strikes[s] + 1 >= Threshold

\* What _maybe_replace_executor asks: is this timeout going to trip it?
MutNeverReplaces(s) == FALSE
Replaces(s) == strikes[s] + 1 >= Threshold

\* The executor of signal s that _maybe_replace_executor shuts down: the one
\* the signal has now, which need not be the one that timed out.
MutDropped(s) == {}
Dropped(s) == {executors[s]} \ {NoPool}

\* health.record_export_success and record_export_failure.
RecordSuccess(s) == lastError' = [lastError EXCEPT ![s] = FALSE]
MutForgetFailure(s) == UNCHANGED lastError
RecordFailure(s) == lastError' = [lastError EXCEPT ![s] = TRUE]

\* Futures future.result(timeout) may still be waiting for.
MutPending == {"running", "stuck"}
Pending == {"queued", "running", "stuck"}

\* attempts = max(1, retries + 1), or 1 when the caller runs in an event loop
\* and the policy would block it there.
Attempts(p, inLoop) ==
  IF inLoop /\ (p.retries > 0 \/ p.backoff) /\ ~p.blocking
    THEN 1
    ELSE p.retries + 1

\* Workers of executor p that are executing something.
Busy(p) == hung[p] + Cardinality({c \in Callers :
             call[c].pool = p /\ future[c] \in {"running", "stuck"}})

\* An executor object nobody can reach any more: its identity may be reused.
Unreachable(p) ==
  /\ \A s \in Signals : executors[s] # p
  /\ \A c \in Callers : call[c].pool # p

\* The abandoned operations become h; those in executors that nobody can reach
\* any more are forgotten, as no call can meet them.
SetHung(h) == hung' = [p \in Pools |-> IF Unreachable(p)' THEN 0 ELSE h[p]]

Goto(c, l) == pc' = [pc EXCEPT ![c] = l]

\* run_with_resilience returns or raises, and its locals are gone.
Return(c) ==
  /\ Goto(c, "idle")
  /\ call' = [call EXCEPT ![c] = NoCall]

\* After a failed attempt: the next one (backoff is a delay), or the end.
Retry(c) ==
  \/ /\ call[c].left > 1
     /\ call' = [call EXCEPT ![c].left = @ - 1]
     /\ Goto(c, "attempt")
  \/ /\ call[c].left <= 1
     /\ Return(c)

Init ==
  /\ strikes   = [s \in Signals |-> 0]
  /\ age       = [s \in Signals |-> Cooldown]
  /\ executors = [s \in Signals |-> NoPool]
  /\ shut      = Pools
  /\ hung      = [p \in Pools |-> 0]
  /\ lastError = [s \in Signals |-> FALSE]
  /\ backend   = "up"
  /\ pc        = [c \in Callers |-> "idle"]
  /\ call      = [c \in Callers |-> NoCall]
  /\ future    = [c \in Callers |-> "none"]
-----------------------------------------------------------------------------
\* run_with_resilience starts: it reads the policy, once, under the lock.  An
\* application may set_exporter_policy at any time, so p may be any of them.
StartCall(c, s, p, inLoop) ==
  /\ pc[c] = "idle"
  /\ call' = [call EXCEPT ![c] = [sig |-> s, timed |-> p.timed,
                                  left |-> Attempts(p, inLoop), pool |-> NoPool]]
  /\ Goto(c, IF p.timed THEN "check" ELSE "attempt")
  /\ UNCHANGED <<breaker, pools, outside, future>>

\* The breaker is open: the failure is recorded and the call is over.
Refuse(c) ==
  /\ pc[c] = "check" /\ Refused(call[c].sig)
  /\ RecordFailure(call[c].sig)
  /\ Return(c)
  /\ UNCHANGED <<breaker, pools, backend, future>>

\* The breaker is closed, or its cooldown has expired (half-open).
Admit(c) ==
  /\ pc[c] = "check" /\ ~Refused(call[c].sig)
  /\ Goto(c, "attempt")
  /\ UNCHANGED <<breaker, pools, outside, call, future>>

\* Without a timeout the caller runs the operation itself; it may succeed,
\* fail, or raise TimeoutError, which counts as a timeout here too.
RunInline(c) ==
  LET s == call[c].sig IN
  /\ pc[c] = "attempt" /\ ~call[c].timed
  /\ \/ Goto(c, "succeeded") /\ RecordSuccess(s)
     \/ Goto(c, "failed") /\ RecordFailure(s)
     \/ Goto(c, "strike") /\ RecordFailure(s)
  /\ UNCHANGED <<breaker, pools, backend, call, future>>

\* _get_timeout_executor: the signal's executor, created when it has none.
GetExecutor(c) ==
  LET s == call[c].sig IN
  /\ pc[c] = "attempt" /\ call[c].timed
  /\ Goto(c, "submit")
  /\ \/ /\ executors[s] # NoPool
        /\ call' = [call EXCEPT ![c].pool = executors[s]]
        /\ UNCHANGED <<executors, shut>>
     \/ /\ executors[s] = NoPool
        /\ \E p \in Pools : Unreachable(p)
        /\ LET new == CHOOSE p \in Pools : Unreachable(p) IN
           /\ call'      = [call EXCEPT ![c].pool = new]
           /\ executors' = [executors EXCEPT ![s] = new]
           /\ shut'      = shut \ {new}
  /\ UNCHANGED <<breaker, hung, outside, future>>

\* executor.submit(operation), outside the lock: an executor that was shut
\* down meanwhile raises RuntimeError, which is handled as any other error.
Submit(c) ==
  /\ pc[c] = "submit"
  /\ UNCHANGED <<breaker, executors, shut, backend>>
  /\ \/ /\ call[c].pool \notin shut
        /\ future' = [future EXCEPT ![c] = "queued"]
        /\ Goto(c, "waiting")
        /\ UNCHANGED <<lastError, call, hung>>
     \/ /\ call[c].pool \in shut
        /\ RecordFailure(call[c].sig)
        /\ call' = [call EXCEPT ![c].pool = NoPool]
        /\ Goto(c, "failed")
        /\ UNCHANGED future
        /\ SetHung(hung)

\* future.result() returned or raised within the timeout; the outcome goes to
\* health.  A TimeoutError the operation raised itself is the same exception
\* type as an expired wait (Python 3.11), and takes the same path.
Collect(c) ==
  LET s == call[c].sig IN
  /\ pc[c] = "waiting"
  /\ \/ future[c] = "ok" /\ RecordSuccess(s) /\ Goto(c, "succeeded")
     \/ future[c] = "error" /\ RecordFailure(s) /\ Goto(c, "failed")
     \/ future[c] = "timeout" /\ UNCHANGED lastError /\ Goto(c, "expired")
  /\ future' = [future EXCEPT ![c] = "none"]
  /\ call' = [call EXCEPT ![c].pool = NoPool]
  /\ UNCHANGED <<breaker, executors, shut, backend>>
  /\ SetHung(hung)

\* The wait expired.  cancel() removes a queued operation; one on a worker
\* goes on there, abandoned.
Expire(c) ==
  /\ pc[c] = "waiting" /\ future[c] \in Pending
  /\ future' = [future EXCEPT ![c] = "none"]
  /\ call' = [call EXCEPT ![c].pool = NoPool]
  /\ Goto(c, "expired")
  /\ UNCHANGED <<breaker, executors, shut, outside>>
  /\ SetHung(IF future[c] = "queued" THEN hung
             ELSE [hung EXCEPT ![call[c].pool] = @ + 1])

\* _maybe_replace_executor: drop and shut down the executor the signal has
\* now, if this timeout is about to trip the breaker.
MaybeReplace(c) ==
  LET s == call[c].sig IN
  /\ pc[c] = "expired"
  /\ Goto(c, "timedout")
  /\ \/ /\ Replaces(s)
        /\ executors' = [executors EXCEPT ![s] = NoPool]
        /\ shut' = shut \cup Dropped(s)
     \/ /\ ~Replaces(s)
        /\ UNCHANGED <<executors, shut>>
  /\ UNCHANGED <<breaker, outside, call, future>>
  /\ SetHung(hung)

\* except TimeoutError: first the failure goes to health, under its lock ...
RecordTimeout(c) ==
  /\ pc[c] = "timedout"
  /\ RecordFailure(call[c].sig)
  /\ Goto(c, "strike")
  /\ UNCHANGED <<breaker, pools, backend, call, future>>

\* ... then the breaker counts it; at the threshold, and at every timeout
\* beyond it, the cooldown starts (again).
Strike(c) ==
  LET s == call[c].sig IN
  /\ pc[c] = "strike"
  /\ strikes' = [strikes EXCEPT ![s] = IF @ < Threshold THEN @ + 1 ELSE @]
  /\ age' = IF Trips(s) THEN [age EXCEPT ![s] = 0] ELSE age
  /\ Retry(c)
  /\ UNCHANGED <<pools, outside, future>>

\* A successful attempt, and one that failed other than by a timeout, clear
\* the consecutive timeouts, after health was told.
Clear(c) ==
  /\ strikes' = [strikes EXCEPT ![call[c].sig] = 0]
  /\ \/ pc[c] = "succeeded" /\ Return(c)
     \/ pc[c] = "failed" /\ Retry(c)
  /\ UNCHANGED <<age, pools, outside, future>>
-----------------------------------------------------------------------------
\* The executor (external): a free worker takes a queued operation, also after
\* shutdown(wait=False); it answers, or, while the backend is down, never does.
WorkerStart(c) ==
  /\ future[c] = "queued" /\ Busy(call[c].pool) < MaxWorkers
  /\ future' = [future EXCEPT ![c] = IF backend = "up" THEN "running" ELSE "stuck"]
  /\ UNCHANGED <<breaker, pools, outside, pc, call>>

WorkerFinish(c) ==
  /\ future[c] = "running"
  /\ \E r \in Done : future' = [future EXCEPT ![c] = r]
  /\ UNCHANGED <<breaker, pools, outside, pc, call>>

\* An abandoned operation ends after all and frees its worker.
GhostFinish(p) ==
  /\ hung[p] > 0
  /\ hung' = [hung EXCEPT ![p] = @ - 1]
  /\ UNCHANGED <<breaker, executors, shut, outside, pc, call, future>>

BackendChange ==
  /\ backend' \in Backends \ {backend}
  /\ UNCHANGED <<breaker, pools, lastError, pc, call, future>>

\* The monotonic clock.
Tick ==
  /\ \E s \in Signals : age[s] < Cooldown
  /\ age' = [s \in Signals |-> IF age[s] < Cooldown THEN age[s] + 1 ELSE age[s]]
  /\ UNCHANGED <<strikes, pools, outside, pc, call, future>>

\* What a caller does by itself once it is inside run_with_resilience.
CallerStep(c) ==
  \/ Refuse(c) \/ Admit(c) \/ RunInline(c) \/ GetExecutor(c) \/ Submit(c)
  \/ Collect(c) \/ Expire(c) \/ MaybeReplace(c)
  \/ RecordTimeout(c) \/ Strike(c) \/ Clear(c)

Next ==
  \/ \E c \in Callers, s \in Signals, p \in Policies, inLoop \in BOOLEAN :
       StartCall(c, s, p, inLoop)
  \/ \E c \in Callers : CallerStep(c) \/ WorkerStart(c) \/ WorkerFinish(c)
  \/ \E p \in Pools : GhostFinish(p)
  \/ BackendChange
  \/ Tick

Spec == Init /\ [][Next]_vars
-----------------------------------------------------------------------------
(***************************************************************************)
(* Safety                                                                  *)
(***************************************************************************)
\* Executors are never confused.  The executor a signal has now accepts work
\* (it was not shut down), every executor that is no longer a signal's was
\* shut down, and none is reached from two signals: a timeout storm in one
\* signal cannot occupy the workers of another (resilience.py:58-60).
ExecutorDiscipline ==
  /\ \A s \in Signals : executors[s] \notin shut
  /\ \A p \in Pools : p \notin shut => \E s \in Signals : executors[s] = p
  /\ \A s, t \in Signals : executors[s] = executors[t] /\ s # t => executors[s] = NoPool
  /\ \A c \in Callers, s \in Signals :
       executors[s] = call[c].pool /\ call[c].pool # NoPool => s = call[c].sig
  /\ \A c, d \in Callers :
       call[c].pool = call[d].pool /\ call[c].pool # NoPool => call[c].sig = call[d].sig

\* A breaker that is tripped shows in the health snapshot: last_error is set,
\* except inside the window in which a successful call has reported to health
\* but not yet cleared the count.  With more than Threshold calls at once the
\* two locks admit an exception: a late success may clear the error of timeouts
\* that are recorded in health and not yet counted.
TrippedShowsInHealth ==
  Cardinality(Callers) <= Threshold =>
    \A s \in Signals :
      Tripped(s) /\ (\A c \in Callers : pc[c] = "succeeded" => call[c].sig # s)
        => lastError[s]

\* The executors and the retries implement the breaker.
CB == INSTANCE CircuitBreaker WITH
  inside <- [c \in Callers |->
               IF pc[c] \in {"idle", "check"} THEN Outside
               ELSE [sig |-> call[c].sig, timed |-> call[c].timed]]

\* Refinement: every step is a step of CircuitBreaker or leaves it unchanged.
ImplementsBreaker == CB!Spec
-----------------------------------------------------------------------------
(***************************************************************************)
(* Liveness                                                                *)
(***************************************************************************)
\* Threads run, and future.result(timeout) always wakes up: fairness for what
\* a caller does once inside, and nothing else - workers may hang for ever.
FairCallers == \A c \in Callers : WF_vars(CallerStep(c))

\* A call made under a policy with a timeout ends, with every worker hung.
EveryTimedCallReturns ==
  \A c \in Callers : (pc[c] = "check") ~> (pc[c] = "idle")

\* The application goes on exporting each signal, time passes, free workers
\* start and finish operations.  Abandoned operations may hang for ever.
RecoverySpec ==
  /\ Spec /\ FairCallers
  /\ \A c \in Callers, s \in Signals :
       WF_vars(\E p \in Policies : StartCall(c, s, p, FALSE))
  /\ \A c \in Callers : WF_vars(WorkerStart(c) \/ WorkerFinish(c))
  /\ WF_vars(Tick)

\* An operation started while the backend is up is answered in time: no wait
\* for it expires, and no operation reports a timeout of its own.
Prompt ==
  \A c \in Callers :
    /\ future[c] = "running" => future'[c] # "timeout"
    /\ pc[c] = "attempt" => pc'[c] # "strike"
    /\ Expire(c) =>
         \/ future[c] = "stuck"
         \/ /\ future[c] = "queued"
            /\ hung[call[c].pool] + Cardinality({d \in Callers :
                 call[d].pool = call[c].pool /\ future[d] = "stuck"}) >= MaxWorkers

\* Once the backend stays up and answers in time, no breaker stays tripped: the
\* calls that meet it clear it, whatever still hangs in executors of the past.
BreakerRecovers ==
  \A s \in Signals :
    <>[](backend = "up") /\ <>[][Prompt]_vars => []<>~Tripped(s)
=============================================================================
