--------------------------- MODULE CircuitBreaker ---------------------------
(***************************************************************************)
(* What the circuit breaker of src/undef/telemetry/resilience.py promises, *)
(* without executors, futures, retries or locks: per signal, a count of    *)
(* consecutive timeouts and the time since it last reached the threshold.  *)
(* A timed call gets past the breaker only while it is not open; a call    *)
(* that got past may report any number of attempts, one at a time, and     *)
(* only such a call moves the count.                                       *)
(***************************************************************************)
EXTENDS Integers

CONSTANTS Callers, Signals, Outside, Threshold, Cooldown

VARIABLES
  strikes,   \* consecutive timeouts, up to Threshold
  age,       \* time since the breaker last tripped, up to Cooldown
  inside     \* the call each caller got past the breaker with

vars == <<strikes, age, inside>>

Flight == [sig: Signals, timed: BOOLEAN]

Open(s) == strikes[s] >= Threshold /\ age[s] < Cooldown

Init ==
  /\ strikes = [s \in Signals |-> 0]
  /\ age     = [s \in Signals |-> Cooldown]
  /\ inside  = [c \in Callers |-> Outside]

\* A call gets past the breaker; a call without a timeout is never refused.
Enter(c, f) ==
  /\ inside[c] = Outside
  /\ f.timed => ~Open(f.sig)
  /\ inside' = [inside EXCEPT ![c] = f]
  /\ UNCHANGED <<strikes, age>>

\* After an attempt the call goes on (a retry) or ends.
EndAttempt(c) ==
  \/ UNCHANGED inside
  \/ inside' = [inside EXCEPT ![c] = Outside]

\* An attempt timed out: the threshold, reached or exceeded, (re)starts the
\* cooldown.
TimedOut(c) ==
  /\ inside[c] # Outside
  /\ LET s == inside[c].sig IN
     /\ strikes' = [strikes EXCEPT ![s] = IF @ < Threshold THEN @ + 1 ELSE @]
     /\ age' = IF strikes[s] + 1 >= Threshold THEN [age EXCEPT ![s] = 0] ELSE age
  /\ EndAttempt(c)

\* An attempt was answered, by a value or by an error other than a timeout.
Answered(c) ==
  /\ inside[c] # Outside
  /\ strikes' = [strikes EXCEPT ![inside[c].sig] = 0]
  /\ EndAttempt(c)
  /\ UNCHANGED age

Tick ==
  /\ age' = [s \in Signals |-> IF age[s] < Cooldown THEN age[s] + 1 ELSE age[s]]
  /\ UNCHANGED <<strikes, inside>>

Next ==
  \/ \E c \in Callers, f \in Flight : Enter(c, f)
  \/ \E c \in Callers : TimedOut(c) \/ Answered(c)
  \/ Tick

Spec == Init /\ [][Next]_vars
=============================================================================
