---------------------------- MODULE TsResilience ----------------------------
(***************************************************************************)
(* runWithResilience of the TypeScript package (typescript/src/            *)
(* resilience.ts): the same promise as its Python original, kept by other  *)
(* means.  Nothing runs in parallel, but calls interleave wherever they    *)
(* await: an action runs from one await to the next.  An operation whose   *)
(* attempt timed out is not cancelled; it goes on beside its retry, and    *)
(* its answer, when it comes, must change nothing.                         *)
(***************************************************************************)
EXTENDS Integers, FiniteSets

CONSTANTS
  Callers,    \* identities of calls, used again when a call and its operations are over
  Signals,    \* signals of the exporters
  Policies,   \* the exporter policies an application may set
  Outside,    \* the call is over, or was refused
  Threshold,  \* CIRCUIT_BREAKER_THRESHOLD
  Cooldown    \* CIRCUIT_BREAKER_COOLDOWN_MS, in ticks

Policy == [retries: Nat, timed: BOOLEAN, backoff: BOOLEAN]
Call   == [sig: Signals, timed: BOOLEAN, backoff: BOOLEAN, attempts: Nat]

ASSUME PolicyAssumption == Policies \subseteq Policy
ASSUME ThresholdAssumption == Threshold \in Nat \ {0} /\ Cooldown \in Nat
ASSUME OutsideAssumption == Outside \notin Call \cup [sig: Signals, timed: BOOLEAN]

VARIABLES
  strikes,  \* _consecutiveTimeouts, up to Threshold: the code compares, no more
  age,      \* time since _circuitTrippedAt, up to Cooldown
  call,     \* the signal and the policy each call read when it started
  pc,       \* the await a call is at
  attempt,  \* the attempt it is in, or was last in
  outcome,  \* how the promise of that attempt settled
  running,  \* the attempts of a call whose operations still run
  report    \* the lastExportError of health.ts, and (history) the signal it is about

vars == <<strikes, age, call, pc, attempt, outcome, running, report>>

Outcomes == {"value", "error", "timeout"}
Report   == [sig: Signals, error: {"none", "error", "timeout", "open"}]

TypeOK ==
  /\ strikes \in [Signals -> 0..Threshold]
  /\ age     \in [Signals -> 0..Cooldown]
  /\ call    \in [Callers -> Call \cup {Outside}]
  /\ pc      \in [Callers -> {"idle", "attempt", "sleep"}]
  /\ attempt \in [Callers -> Nat]
  /\ outcome \in [Callers -> Outcomes \cup {"pending"}]
  /\ running \in [Callers -> SUBSET Nat]
  /\ report  \in Report
  /\ \A c \in Callers : (pc[c] = "idle") <=> (call[c] = Outside)
  /\ \A c \in Callers : call[c] # Outside => attempt[c] < call[c].attempts
-----------------------------------------------------------------------------
\* Operators named Mut... are mutations of the operator they precede; nothing
\* in the model uses them.

\* The breaker of the signal is open: the call is refused.
MutRefused(s) == strikes[s] > Threshold /\ age[s] < Cooldown
Refused(s) == strikes[s] >= Threshold /\ age[s] < Cooldown

\* The answer of operation n of call c settles the promise the call awaits.
MutAwaited(c, n) == pc[c] # "attempt" \/ outcome[c] = "pending"
Awaited(c, n) == pc[c] = "attempt" /\ n = attempt[c] /\ outcome[c] = "pending"

\* There is a timer.
MutTimedOnce(c) == call[c].timed /\ attempt[c] = 0
Timed(c) == call[c].timed

\* Attempts are left after attempt n of the call.
Retries(c, n) == n + 1 < call[c].attempts

\* The count after an outcome other than a value.
Counted(s, o) ==
  IF o # "timeout" THEN 0 ELSE IF strikes[s] < Threshold THEN strikes[s] + 1 ELSE strikes[s]

\* The timeout reaches the threshold, or finds it reached.
Trips(s, o) == o = "timeout" /\ Counted(s, o) >= Threshold

\* What health says after an outcome.
MutReported(s, o) == [sig |-> s, error |-> IF o = "timeout" THEN "none" ELSE o]
Reported(s, o) == [sig |-> s, error |-> IF o = "value" THEN "none" ELSE o]

Init ==
  /\ report  \in [sig: Signals, error: {"none"}]
  /\ strikes = [s \in Signals |-> 0]
  /\ age     = [s \in Signals |-> Cooldown]
  /\ call    = [c \in Callers |-> Outside]
  /\ pc      = [c \in Callers |-> "idle"]
  /\ attempt = [c \in Callers |-> 0]
  /\ outcome = [c \in Callers |-> "pending"]
  /\ running = [c \in Callers |-> {}]
-----------------------------------------------------------------------------
\* _withTimeout calls the operation at once, for attempt n.
Begin(c, n) ==
  /\ pc'      = [pc EXCEPT ![c] = "attempt"]
  /\ attempt' = [attempt EXCEPT ![c] = n]
  /\ outcome' = [outcome EXCEPT ![c] = "pending"]
  /\ running' = [running EXCEPT ![c] = @ \cup {n}]

\* The call settles, with a value, null or an exception.
End(c) ==
  /\ pc'      = [pc EXCEPT ![c] = "idle"]
  /\ call'    = [call EXCEPT ![c] = Outside]
  /\ attempt' = [attempt EXCEPT ![c] = 0]
  /\ outcome' = [outcome EXCEPT ![c] = "pending"]
  /\ UNCHANGED running

\* runWithResilience finds the breaker open, and settles at once.
Refuse(c, s) ==
  /\ pc[c] = "idle"
  /\ Refused(s)
  /\ report' = Reported(s, "open")
  /\ UNCHANGED <<strikes, age, call, pc, attempt, outcome, running>>

\* runWithResilience up to its first await, under the policy of the moment.
Start(c, s, p) ==
  /\ pc[c] = "idle" /\ running[c] = {}
  /\ ~Refused(s)
  /\ call' = [call EXCEPT ![c] = [sig |-> s, timed |-> p.timed, backoff |-> p.backoff,
                                  attempts |-> p.retries + 1]]
  /\ Begin(c, 0)
  /\ UNCHANGED <<strikes, age, report>>

\* An operation settles.  It may reject with a timeout error of its own.
Settle(c, n, o) ==
  /\ n \in running[c]
  /\ running' = [running EXCEPT ![c] = @ \ {n}]
  /\ outcome' = IF Awaited(c, n) THEN [outcome EXCEPT ![c] = o] ELSE outcome
  /\ UNCHANGED <<strikes, age, call, pc, attempt, report>>

\* The timer of _withTimeout fires before the operation settled.
Fire(c) ==
  /\ pc[c] = "attempt" /\ outcome[c] = "pending"
  /\ Timed(c)
  /\ outcome' = [outcome EXCEPT ![c] = "timeout"]
  /\ UNCHANGED <<strikes, age, call, pc, attempt, running, report>>

\* The await of the attempt returns a value.
Succeed(c) ==
  /\ pc[c] = "attempt" /\ outcome[c] = "value"
  /\ strikes' = [strikes EXCEPT ![call[c].sig] = 0]
  /\ report' = Reported(call[c].sig, "value")
  /\ End(c)
  /\ UNCHANGED age

\* It throws; the catch block counts, then the loop ends, starts the next
\* attempt at once or sleeps first.
Catch(c) ==
  /\ pc[c] = "attempt" /\ outcome[c] \in {"error", "timeout"}
  /\ LET s == call[c].sig IN
     /\ strikes' = [strikes EXCEPT ![s] = Counted(s, outcome[c])]
     /\ report' = Reported(s, outcome[c])
     /\ age' = IF Trips(s, outcome[c]) THEN [age EXCEPT ![s] = 0] ELSE age
  /\ \/ ~Retries(c, attempt[c]) /\ End(c)
     \/ /\ Retries(c, attempt[c]) /\ ~call[c].backoff
        /\ Begin(c, attempt[c] + 1)
        /\ UNCHANGED call
     \/ /\ Retries(c, attempt[c]) /\ call[c].backoff
        /\ pc' = [pc EXCEPT ![c] = "sleep"]
        /\ UNCHANGED <<call, attempt, outcome, running>>

\* The backoff is over.
Wake(c) ==
  /\ pc[c] = "sleep"
  /\ Begin(c, attempt[c] + 1)
  /\ UNCHANGED <<strikes, age, call, report>>

\* Time passes.
Tick ==
  /\ age' = [s \in Signals |-> IF age[s] < Cooldown THEN age[s] + 1 ELSE age[s]]
  /\ UNCHANGED <<strikes, call, pc, attempt, outcome, running, report>>

Next ==
  \/ \E c \in Callers, s \in Signals : Refuse(c, s)
  \/ \E c \in Callers, s \in Signals, p \in Policies : Start(c, s, p)
  \/ \E c \in Callers : \E n \in running[c], o \in Outcomes : Settle(c, n, o)
  \/ \E c \in Callers : Fire(c) \/ Succeed(c) \/ Catch(c) \/ Wake(c)
  \/ Tick

Spec == Init /\ [][Next]_vars

\* Timers fire and continuations run: the event loop's promise.  Operations
\* need not settle.
Fairness ==
  \A c \in Callers :
    /\ WF_vars(Fire(c)) /\ WF_vars(Wake(c))
    /\ WF_vars(Succeed(c)) /\ WF_vars(Catch(c))

FairSpec == Spec /\ Fairness
-----------------------------------------------------------------------------
\* Operations of one call run side by side only under a timeout: a retry
\* without one starts when its predecessor has settled (_withTimeout).
OverlapNeedsTimeout ==
  \A c \in Callers :
    call[c] # Outside /\ ~call[c].timed => Cardinality(running[c]) <= 1

\* Health does not call a signal sound that is on its way to a tripped breaker:
\* as long as no other signal reported since, the last error of a signal with
\* timeouts is shown (one lastExportError serves all signals).
StrikesShowInHealth ==
  /\ strikes[report.sig] > 0 => report.error \in {"timeout", "open"}
  /\ report.error = "open" => strikes[report.sig] >= Threshold

\* An attempt strikes once, and only while its call still waits for it: the
\* await of an attempt returns for its own operation or its own timer, so what
\* an operation answers after its timeout, beside its retry or after the call,
\* moves no count and no cooldown (_withTimeout, the catch block).
OneStrikePerAttempt ==
  [][/\ \A s \in Signals :
          strikes'[s] # strikes[s] \/ age'[s] < age[s] =>
          \E c \in Callers :
            /\ call[c] # Outside /\ call[c].sig = s
            /\ pc[c] = "attempt" /\ outcome[c] # "pending"
            /\ pc'[c] # "attempt" \/ attempt'[c] = attempt[c] + 1
     /\ \A c \in Callers :
          outcome[c] = "pending" /\ outcome'[c] # "pending" =>
          \/ attempt[c] \in running[c] \ running'[c]
          \/ call[c].timed /\ outcome'[c] = "timeout"]_vars

\* The breaker keeps the promise of the Python one: CircuitBreaker, where a call
\* of this package always counts as one with a timeout, since it may be refused.
Inside ==
  [c \in Callers |->
     IF call[c] = Outside THEN Outside ELSE [sig |-> call[c].sig, timed |-> TRUE]]
Breaker == INSTANCE CircuitBreaker WITH inside <- Inside
ImplementsBreaker == Breaker!Spec

\* A call with a timeout settles, whatever its operations do and however its
\* retries and sleeps interleave with other calls.
EveryTimedCallSettles ==
  \A c \in Callers : [](call[c] # Outside /\ call[c].timed => <>(call[c] = Outside))
=============================================================================
