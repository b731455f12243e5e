------------------------------ MODULE Emission ------------------------------
(***************************************************************************)
(* The gates a telemetry emission passes: sampling (sampling.py), then a   *)
(* ticket of the signal's bounded queue (backpressure.py), with the drops  *)
(* and the queue depth reported to health.py, as its users go through them:*)
(*   "log"     logger/processors.py apply_sampling: sampling only;         *)
(*   "metric"  metrics/fallback.py Counter.add, Gauge.add, Gauge.set and   *)
(*             Histogram.record: both gates, the release in a finally;     *)
(*   "trace"   tracing/decorators.py, around a traced function: both       *)
(*             gates, the release in a finally inside the span;            *)
(*   "direct"  an application that uses the public try_acquire and         *)
(*             release, and may release a ticket more than once.           *)
(*                                                                         *)
(* An action is one section under sampling._lock, backpressure._lock (with *)
(* the section of health._lock nested in it) or health._lock.  A call of a *)
(* traced function inside another one is a call of its own.                *)
(***************************************************************************)
EXTENDS Integers, FiniteSets

CONSTANTS
  Signals,        \* "logs", "traces", "metrics", or some of them
  Calls,          \* identities of calls, used again when a call is over
  Kinds,          \* the kinds of calls above
  QueuePolicies,  \* the queue policies an application may set: signal -> maxsize
  Rates,          \* the effective sampling rates an application may set
  MaxAttempts,    \* bound: calls of one signal in a behavior
  NoTicket        \* the None of try_acquire

AllKinds == {"log", "metric", "trace", "direct"}

ASSUME SignalAssumption == Signals \subseteq {"logs", "traces", "metrics"} /\ Signals # {}
ASSUME CallsAssumption == IsFiniteSet(Calls)
ASSUME KindAssumption == Kinds \subseteq AllKinds /\ Kinds # {}
QueuePolicy == [Signals -> Nat]

ASSUME QueuePolicyAssumption == QueuePolicies \subseteq QueuePolicy
ASSUME RateAssumption == Rates \subseteq {"zero", "fraction", "one"}
ASSUME BoundAssumption == MaxAttempts \in Nat
ASSUME NoTicketAssumption == NoTicket \notin [sig: Signals, token: Nat]

VARIABLES
  rate,      \* sampling._policies: the rate that applies to a signal's calls
  maxsize,   \* backpressure._policy
  epoch,     \* history: flips whenever a queue policy is set
  queue,     \* backpressure._queues, by signal: the tokens in it
  tokens,    \* the next value of backpressure._tokens
  depth,     \* health._queue_depth
  dropped,   \* health._dropped
  pc,        \* where a call is
  call,      \* its kind and its signal
  ticket,    \* the ticket it holds
  attempts,  \* history: calls started
  admitted,  \* history: calls that passed both gates, or the only one they have
  leaked     \* history: tickets that went out of reach unreleased

vars == <<rate, maxsize, epoch, queue, tokens, depth, dropped, pc, call, ticket,
          attempts, admitted, leaked>>

policies == <<rate, maxsize, epoch>>
queues   == <<queue, tokens, depth>>
history  == <<attempts, leaked>>

Ticket == [sig: Signals, token: Nat]

Call == {k \in [kind: AllKinds, sig: Signals] :
           /\ k.kind = "log" => k.sig = "logs"
           /\ k.kind = "metric" => k.sig = "metrics"
           /\ k.kind = "trace" => k.sig = "traces"}

NoCall == CHOOSE k \in Call : TRUE

\* The gates, and what is beyond them.
Gates     == {"sample", "drop", "acquire"}
Locations == Gates \cup {"idle", "span", "body", "release"}

\* What health.py tells an application, of the queues and the drops; module
\* Resilience has the errors of exports.
HealthSnapshot == [queue_depth: [Signals -> Nat], dropped: [Signals -> Nat]]
get_health_snapshot == [queue_depth |-> depth, dropped |-> dropped]

TypeOK ==
  /\ rate     \in [Signals -> {"zero", "fraction", "one"}]
  /\ maxsize  \in QueuePolicy
  /\ epoch    \in {0, 1}
  /\ queue    \in [Signals -> SUBSET Nat]
  /\ tokens   \in Nat \ {0}
  /\ get_health_snapshot \in HealthSnapshot
  /\ pc       \in [Calls -> Locations]
  /\ call     \in [Calls -> Call]
  /\ ticket   \in [Calls -> Ticket \cup {NoTicket}]
  /\ attempts \in [Signals -> 0..MaxAttempts]
  /\ admitted \in [Signals -> Nat]
  /\ leaked   \subseteq Ticket
-----------------------------------------------------------------------------
\* Operators named Mut... are mutations of the operator they precede; nothing
\* in the model uses them.

Goto(c, l) == pc' = [pc EXCEPT ![c] = l]
Count(f, s) == [f EXCEPT ![s] = @ + 1]

\* set_queue_depth and increment_dropped of health.py.
SetDepth(s, n) == depth' = [depth EXCEPT ![s] = n]
CountDropped(s) == dropped' = Count(dropped, s)

\* should_sample: what a rate may answer.  Rates are clamped to 0..1 when set.
Keeps(r) ==
  CASE r = "zero" -> {FALSE} [] r = "one" -> {TRUE} [] r = "fraction" -> BOOLEAN

\* len(queue) >= maxsize, for a bounded queue.
Full(s) == Cardinality(queue[s]) >= maxsize[s]

\* The queues of all signals after set_queue_policy.
MutCleared(q) == queue
Cleared(q) == [s \in Signals |-> {}]

\* The queue after release removed ticket t.
Without(t) == queue[t.sig] \ {t.token}

\* Where the call goes when the work between the gates and the release raises.
MutAfterException == "idle"
AfterException == "release"

Init ==
  /\ rate     = [s \in Signals |-> "one"]
  /\ maxsize  = [s \in Signals |-> 0]
  /\ epoch    = 0
  /\ queue    = [s \in Signals |-> {}]
  /\ tokens   = 1
  /\ depth    = [s \in Signals |-> 0]
  /\ dropped  = [s \in Signals |-> 0]
  /\ pc       = [c \in Calls |-> "idle"]
  /\ call     = [c \in Calls |-> NoCall]
  /\ ticket   = [c \in Calls |-> NoTicket]
  /\ attempts = [s \in Signals |-> 0]
  /\ admitted = [s \in Signals |-> 0]
  /\ leaked   = {}
-----------------------------------------------------------------------------
\* A call starts; direct users have no sampling gate.
Start(c, k) ==
  /\ pc[c] = "idle" /\ attempts[k.sig] < MaxAttempts
  /\ call' = [call EXCEPT ![c] = k]
  /\ ticket' = [ticket EXCEPT ![c] = NoTicket]
  /\ attempts' = Count(attempts, k.sig)
  /\ Goto(c, IF k.kind = "direct" THEN "acquire" ELSE "sample")
  /\ UNCHANGED <<policies, queues, dropped, admitted, leaked>>

\* should_sample reads the policy under its lock and decides; the log processor
\* passes the event on, or raises DropEvent.
Sample(c) ==
  /\ pc[c] = "sample"
  /\ \E keep \in Keeps(rate[call[c].sig]) :
       LET through == keep /\ call[c].kind = "log" IN
       /\ Goto(c, IF ~keep THEN "drop" ELSE IF through THEN "idle" ELSE "acquire")
       /\ admitted' = IF through THEN Count(admitted, call[c].sig) ELSE admitted
  /\ UNCHANGED <<policies, queues, dropped, call, ticket, history>>

\* The drop is counted later, under health._lock.
CountDrop(c) ==
  /\ pc[c] = "drop"
  /\ CountDropped(call[c].sig)
  /\ Goto(c, "idle")
  /\ UNCHANGED <<policies, queues, call, ticket, admitted, history>>

\* try_acquire: an unbounded queue issues token 0 and is left alone; a full one
\* refuses (the traced function then runs without a span); otherwise a new token.
TryAcquire(c) ==
  LET s == call[c].sig IN
  /\ pc[c] = "acquire"
  /\ \/ /\ maxsize[s] > 0 /\ Full(s)
        /\ CountDropped(s)
        /\ Goto(c, "idle")
        /\ UNCHANGED <<queues, ticket, admitted>>
     \/ /\ maxsize[s] > 0 => ~Full(s)
        /\ admitted' = Count(admitted, s)
        /\ Goto(c, IF call[c].kind = "trace" THEN "span" ELSE "body")
        /\ \/ /\ maxsize[s] = 0
              /\ ticket' = [ticket EXCEPT ![c] = [sig |-> s, token |-> 0]]
              /\ UNCHANGED queues
           \/ /\ maxsize[s] > 0
              /\ ticket' = [ticket EXCEPT ![c] = [sig |-> s, token |-> tokens]]
              /\ tokens' = tokens + 1
              /\ queue'  = [queue EXCEPT ![s] = @ \cup {tokens}]
              /\ SetDepth(s, Cardinality(queue'[s]))
        /\ UNCHANGED dropped
  /\ UNCHANGED <<policies, call, history>>

\* The decorator opens the span before its try block: when the tracer, a sampler
\* or a span processor raises there, the ticket is out of reach for ever.
StartSpan(c) ==
  /\ pc[c] = "span"
  /\ \/ Goto(c, "body") /\ UNCHANGED <<ticket, leaked>>
     \/ /\ Goto(c, "idle")
        /\ ticket' = [ticket EXCEPT ![c] = NoTicket]
        /\ leaked' = leaked \cup {ticket[c]}
  /\ UNCHANGED <<policies, queues, dropped, call, attempts, admitted>>

\* The traced function, or the work on the instrument, returns or raises (a
\* cancelled coroutine raises too).
Body(c) ==
  /\ pc[c] = "body"
  /\ Goto(c, "release") \/ Goto(c, AfterException)
  /\ UNCHANGED <<policies, queues, dropped, call, ticket, admitted, history>>

\* release(ticket): tokens of an unbounded queue and tokens that are no longer
\* queued change nothing.  Mutant: slots are counted, so that any release frees
\* one, the oldest.
MutFreeSlot(t) ==
  IF t.token # 0 /\ queue[t.sig] # {}
    THEN /\ queue' = [queue EXCEPT ![t.sig] =
                        @ \ {CHOOSE n \in @ : \A m \in @ : n <= m}]
         /\ SetDepth(t.sig, Cardinality(queue'[t.sig]))
    ELSE UNCHANGED <<queue, depth>>
FreeSlot(t) ==
  IF t.token # 0 /\ t.token \in queue[t.sig]
    THEN /\ queue' = [queue EXCEPT ![t.sig] = Without(t)]
         /\ SetDepth(t.sig, Cardinality(queue'[t.sig]))
    ELSE UNCHANGED <<queue, depth>>

\* A direct user's ticket stays in its hands, an emission's does not.
Release(c) ==
  /\ pc[c] = "release"
  /\ FreeSlot(ticket[c])
  /\ Goto(c, "idle")
  /\ ticket' = IF call[c].kind = "direct" THEN ticket
               ELSE [ticket EXCEPT ![c] = NoTicket]
  /\ UNCHANGED <<policies, tokens, dropped, call, admitted, history>>

ReleaseAgain(c) ==
  /\ pc[c] = "idle" /\ ticket[c] # NoTicket
  /\ FreeSlot(ticket[c])
  /\ UNCHANGED <<policies, tokens, dropped, pc, call, ticket, admitted, history>>

\* set_queue_policy, also when a runtime configuration is applied unchanged.
SetQueuePolicy(p) ==
  /\ maxsize' = p
  /\ queue'   = Cleared(queue)
  /\ depth'   = [s \in Signals |-> 0]
  /\ epoch'   = 1 - epoch
  /\ UNCHANGED <<rate, tokens, dropped, pc, call, ticket, admitted, history>>

SetSamplingPolicy(s, r) ==
  /\ rate' = [rate EXCEPT ![s] = r]
  /\ UNCHANGED <<maxsize, epoch, queues, dropped, pc, call, ticket, admitted, history>>

\* What a call does by itself once started.
CallStep(c) ==
  \/ Sample(c) \/ CountDrop(c) \/ TryAcquire(c)
  \/ StartSpan(c) \/ Body(c) \/ Release(c)

Next ==
  \/ \E c \in Calls :
       \/ \E k \in Call : k.kind \in Kinds /\ Start(c, k)
       \/ CallStep(c)
       \/ ReleaseAgain(c)
  \/ \E p \in QueuePolicies : SetQueuePolicy(p)
  \/ \E s \in Signals, r \in Rates : SetSamplingPolicy(s, r)

Spec == Init /\ [][Next]_vars

\* Threads run, and the functions and instruments they call return or raise.
FairSpec == Spec /\ \A c \in Calls : WF_vars(CallStep(c))
-----------------------------------------------------------------------------
(***************************************************************************)
(* Safety                                                                  *)
(***************************************************************************)
\* A queue never holds more than the policy in force now allows, whatever was
\* acquired under the policies before it; an unbounded one holds nothing.
QueueBound == \A s \in Signals : Cardinality(queue[s]) <= maxsize[s]

\* health reports the occupancy of each queue as it is.
DepthAgrees ==
  \A s \in Signals : get_health_snapshot.queue_depth[s] = Cardinality(queue[s])

\* What health reports of a queue is what is in it, and within its limit.
QueuesAsReported == QueueBound /\ DepthAgrees

\* Call c holds the slot of token n in the queue of signal s.
Holds(c, s, n) == ticket[c] = [sig |-> s, token |-> n]

\* Every slot in use belongs to exactly one call, which has yet to release it,
\* or was leaked by a traced call whose span did not start: capacity is never
\* used twice, and never by nobody.
SlotsAreOwned ==
  \A s \in Signals : \A n \in queue[s] :
    \/ /\ s = "traces" /\ [sig |-> s, token |-> n] \in leaked
       /\ \A c \in Calls : ~Holds(c, s, n)
    \/ \E c \in Calls :
         /\ Holds(c, s, n) /\ pc[c] \in {"span", "body", "release"}
         /\ \A d \in Calls : Holds(d, s, n) => d = c

\* Unless a policy is set, a slot is freed by the one release of the call that
\* acquired it and by nothing else: neither a release of a ticket whose slot an
\* earlier policy took, nor a second release, frees the slot of another call,
\* or one that was leaked (backpressure.py:62, :99).
OnlyOwnerFrees ==
  [][epoch' = epoch =>
       \A s \in Signals : \A n \in queue[s] \ queue'[s] :
         \E c \in Calls : Holds(c, s, n) /\ pc[c] = "release" /\ pc'[c] = "idle"]_vars

\* Calls of signal s still at the gates.
AtGates(s) == {c \in Calls : pc[c] \in Gates /\ call[c].sig = s}

\* Every call is admitted, or counted as dropped, exactly once.
EveryCallAccounted ==
  \A s \in Signals :
    attempts[s] = admitted[s] + get_health_snapshot.dropped[s] + Cardinality(AtGates(s))
-----------------------------------------------------------------------------
(***************************************************************************)
(* Liveness                                                                *)
(***************************************************************************)
\* A slot that was not leaked is given back, even when the work raises.
SlotsReturn ==
  \A s \in Signals, n \in 1..MaxAttempts * Cardinality(Signals) :
    n \in queue[s] ~> (n \notin queue[s] \/ [sig |-> s, token |-> n] \in leaked)
=============================================================================
