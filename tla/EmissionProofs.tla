--------------------------- MODULE EmissionProofs ---------------------------
(***************************************************************************)
(* Theorems about Emission, LogPipeline and Pii: what an emission holds,   *)
(* for every set of calls, policies and bounds; what becomes of a log      *)
(* call, for every set of environments, events and names; and what of its  *)
(* payload stays readable, for every set of payloads, rules and depths.    *)
(***************************************************************************)
EXTENDS Emission, LogPipeline, Pii, FiniteSetTheorems, SequenceTheorems, TLAPS

USE DEF QueuePolicy, HealthSnapshot, get_health_snapshot, SetDepth, CountDropped

(***************************************************************************)
(* Emission: the inductive invariant.  SlotsAreOwned alone is not          *)
(* inductive: it must also be known that tokens are issued in order, so    *)
(* that a new one is new, that past the gates a call does hold a ticket of *)
(* its own signal, and that no two calls hold the same token, a stale one  *)
(* included.                                                               *)
(***************************************************************************)
\* Every token in use was issued.
TokensIssued ==
  /\ \A s \in Signals : \A n \in queue[s] : n > 0 /\ n < tokens
  /\ \A c \in Calls : ticket[c] # NoTicket => ticket[c].token < tokens
  /\ \A t \in leaked : t.token < tokens

\* Past the gates a call holds a ticket of its signal.
TicketInHand ==
  \A c \in Calls :
    pc[c] \in {"span", "body", "release"} =>
      /\ ticket[c] # NoTicket
      /\ ticket[c].sig = call[c].sig
      /\ pc[c] = "span" => call[c].kind = "trace"

\* A token is held by one call only, and a leaked one by none; token 0 stands
\* for an unbounded queue and is not a slot.
TicketsUnique ==
  \A c \in Calls :
    ticket[c] # NoTicket /\ ticket[c].token # 0 =>
      /\ \A d \in Calls : ticket[d] = ticket[c] => d = c
      /\ ticket[c] \notin leaked

\* Queues are finite, so that their sizes mean something.
FiniteQueues == \A s \in Signals : IsFiniteSet(queue[s])

IInv ==
  /\ TypeOK
  /\ TokensIssued
  /\ TicketInHand
  /\ TicketsUnique
  /\ FiniteQueues
  /\ QueueBound
  /\ DepthAgrees
  /\ SlotsAreOwned
-----------------------------------------------------------------------------
\* The initial call of the model is a call.
LEMMA NoCallIsCall == NoCall \in Call
<1>1. PICK s \in Signals : TRUE
  BY SignalAssumption
<1>2. [kind |-> "direct", sig |-> s] \in Call
  BY DEF Call, AllKinds
<1> QED
  BY <1>2 DEF NoCall

\* The invariant holds initially.
LEMMA InitInv == Init => IInv
<1> SUFFICES ASSUME Init PROVE IInv
  OBVIOUS
<1>1. \A s \in Signals : queue[s] = {} /\ IsFiniteSet(queue[s]) /\ Cardinality(queue[s]) = 0
  BY FS_EmptySet DEF Init
<1>2. TypeOK
  BY NoCallIsCall, BoundAssumption DEF Init, TypeOK, Locations, Gates
<1>3. TokensIssued /\ TicketInHand /\ TicketsUnique
  BY <1>1 DEF Init, TokensIssued, TicketInHand, TicketsUnique
<1>4. FiniteQueues /\ QueueBound /\ DepthAgrees /\ SlotsAreOwned
  BY <1>1 DEF Init, FiniteQueues, QueueBound, DepthAgrees, SlotsAreOwned
<1> QED
  BY <1>2, <1>3, <1>4 DEF IInv

\* Steps that touch neither tickets nor queues, and let no call past the gates
\* nor out of them with a ticket in use, preserve the invariant's parts on them.
LEMMA QuietStep ==
  ASSUME IInv, TypeOK',
         UNCHANGED <<queue, tokens, depth, maxsize, ticket, leaked>>,
         \A c \in Calls : pc[c] \in {"span", "body", "release"} =>
           pc'[c] \in {"span", "body", "release"} /\ call'[c] = call[c],
         \A c \in Calls : pc'[c] \in {"span", "body", "release"} =>
           pc[c] \in {"span", "body", "release"} /\ (pc'[c] = "span" => pc[c] = "span")
  PROVE  IInv'
<1>1. TokensIssued' /\ TicketsUnique'
  BY DEF IInv, TokensIssued, TicketsUnique
<1>2. TicketInHand'
  BY DEF IInv, TicketInHand
<1>3. FiniteQueues' /\ QueueBound' /\ DepthAgrees'
  BY DEF IInv, FiniteQueues, QueueBound, DepthAgrees
<1>4. SlotsAreOwned'
  <2> SUFFICES ASSUME NEW s \in Signals, NEW n \in queue[s]
               PROVE  SlotsAreOwned!(s)!(n)'
    BY DEF SlotsAreOwned
  <2>1. SlotsAreOwned!(s)!(n)
    BY DEF IInv, SlotsAreOwned
  <2>2. \A c \in Calls : Holds(c, s, n)' <=> Holds(c, s, n)
    BY DEF Holds
  <2> QED
    BY <2>1, <2>2
<1> QED
  BY <1>1, <1>2, <1>3, <1>4 DEF IInv

\* Sample, CountDrop, Body and SetSamplingPolicy are such steps.
LEMMA SampleInv == ASSUME IInv, NEW c \in Calls, Sample(c) PROVE IInv'
<1>1. TypeOK'
  BY DEF IInv, TypeOK, Sample, Goto, Count, Call, Locations, Gates, policies, queues, history
<1>2. UNCHANGED <<queue, tokens, depth, maxsize, ticket, leaked, call>>
  BY DEF Sample, policies, queues, history
<1>3. \A d \in Calls : (pc'[d] \in {"span", "body", "release"} \/ pc[d] \in {"span", "body", "release"})
        => pc'[d] = pc[d]
  BY DEF IInv, TypeOK, Sample, Goto
<1> QED
  BY <1>1, <1>2, <1>3, QuietStep

LEMMA CountDropInv == ASSUME IInv, NEW c \in Calls, CountDrop(c) PROVE IInv'
<1>1. TypeOK'
  BY DEF IInv, TypeOK, CountDrop, Goto, Count, Call, Locations, Gates, policies, queues, history
<1>2. UNCHANGED <<queue, tokens, depth, maxsize, ticket, leaked, call>>
  BY DEF CountDrop, policies, queues, history
<1>3. \A d \in Calls : (pc'[d] \in {"span", "body", "release"} \/ pc[d] \in {"span", "body", "release"})
        => pc'[d] = pc[d]
  BY DEF IInv, TypeOK, CountDrop, Goto
<1> QED
  BY <1>1, <1>2, <1>3, QuietStep

LEMMA BodyInv == ASSUME IInv, NEW c \in Calls, Body(c) PROVE IInv'
<1>1. TypeOK'
  BY DEF IInv, TypeOK, Body, Goto, AfterException, Locations, policies, queues, history
<1>2. UNCHANGED <<queue, tokens, depth, maxsize, ticket, leaked, call>>
  BY DEF Body, policies, queues, history
<1>3. \A d \in Calls : d # c => pc'[d] = pc[d]
  BY DEF IInv, TypeOK, Body, Goto
<1>4. pc[c] = "body" /\ pc'[c] = "release"
  BY DEF IInv, TypeOK, Body, Goto, AfterException
<1> QED
  BY <1>1, <1>2, <1>3, <1>4, QuietStep

LEMMA SetSamplingInv ==
  ASSUME IInv, NEW s \in Signals, NEW r \in Rates, SetSamplingPolicy(s, r) PROVE IInv'
<1>1. TypeOK'
  BY RateAssumption DEF IInv, TypeOK, SetSamplingPolicy, queues, history
<1>2. UNCHANGED <<queue, tokens, depth, maxsize, ticket, leaked, call, pc>>
  BY DEF SetSamplingPolicy, queues, history
<1> QED
  BY <1>1, <1>2, QuietStep

\* A call starts with no ticket; the slots in use belong to other calls.
LEMMA StartInv ==
  ASSUME IInv, NEW c \in Calls, NEW k \in Call, Start(c, k) PROVE IInv'
<1> USE DEF Start, policies, queues
<1>1. TypeOK'
  <2>1. k.sig \in Signals /\ attempts[k.sig] \in 0..MaxAttempts /\ attempts[k.sig] + 1 \in 0..MaxAttempts
    BY BoundAssumption DEF IInv, TypeOK, Call
  <2>2. pc' \in [Calls -> Locations] /\ ticket' \in [Calls -> Ticket \cup {NoTicket}]
    BY DEF IInv, TypeOK, Goto, Locations, Gates
  <2>3. attempts' \in [Signals -> 0..MaxAttempts]
    BY <2>1 DEF IInv, TypeOK, Count
  <2> QED
    BY <2>2, <2>3 DEF IInv, TypeOK
<1>2. \A d \in Calls : d # c => pc'[d] = pc[d] /\ ticket'[d] = ticket[d] /\ call'[d] = call[d]
  BY DEF IInv, TypeOK, Goto
<1>3. pc[c] = "idle" /\ pc'[c] \in Gates /\ ticket'[c] = NoTicket
  BY DEF IInv, TypeOK, Goto, Gates
<1>4. TokensIssued' /\ TicketsUnique'
  BY <1>2, <1>3 DEF IInv, TokensIssued, TicketsUnique
<1>5. TicketInHand'
  BY <1>2, <1>3 DEF IInv, TicketInHand, Gates
<1>6. FiniteQueues' /\ QueueBound' /\ DepthAgrees'
  BY DEF IInv, FiniteQueues, QueueBound, DepthAgrees
<1>7. SlotsAreOwned'
  <2> SUFFICES ASSUME NEW s \in Signals, NEW n \in queue[s]
               PROVE  SlotsAreOwned!(s)!(n)'
    BY DEF SlotsAreOwned
  <2>1. SlotsAreOwned!(s)!(n)
    BY DEF IInv, SlotsAreOwned
  <2>2. n \in Nat
    BY DEF IInv, TypeOK
  <2>3. ~Holds(c, s, n)'
    BY <1>3, <2>2, NoTicketAssumption DEF Holds
  <2>4. \A d \in Calls : d # c => (Holds(d, s, n)' <=> Holds(d, s, n))
    BY <1>2 DEF Holds
  <2> QED
    BY <1>2, <1>3, <2>1, <2>3, <2>4
<1> QED
  BY <1>1, <1>4, <1>5, <1>6, <1>7 DEF IInv

\* A span that does not start turns the slot of its call into a leaked one.
LEMMA StartSpanInv == ASSUME IInv, NEW c \in Calls, StartSpan(c) PROVE IInv'
<1> USE DEF StartSpan, policies, queues
<1>1. CASE Goto(c, "body") /\ UNCHANGED <<ticket, leaked>>
  <2>1. TypeOK'
    BY <1>1 DEF IInv, TypeOK, Goto, Locations
  <2>2. \A d \in Calls : d # c => pc'[d] = pc[d]
    BY <1>1 DEF IInv, TypeOK, Goto
  <2>3. pc[c] = "span" /\ pc'[c] = "body"
    BY <1>1 DEF IInv, TypeOK, Goto
  <2> QED
    BY <1>1, <2>1, <2>2, <2>3, QuietStep
<1>2. CASE /\ Goto(c, "idle")
           /\ ticket' = [ticket EXCEPT ![c] = NoTicket]
           /\ leaked' = leaked \cup {ticket[c]}
  <2>1. pc[c] = "span" /\ ticket[c] \in Ticket /\ ticket[c].sig = "traces"
    BY DEF IInv, TypeOK, TicketInHand, Call
  <2>2. TypeOK'
    BY <1>2, <2>1 DEF IInv, TypeOK, Goto, Locations
  <2>3. \A d \in Calls : d # c => pc'[d] = pc[d] /\ ticket'[d] = ticket[d]
    BY <1>2 DEF IInv, TypeOK, Goto
  <2>4. pc'[c] = "idle" /\ ticket'[c] = NoTicket
    BY <1>2 DEF IInv, TypeOK, Goto
  <2>5. TokensIssued'
    <3>1. ticket[c] # NoTicket
      BY <2>1 DEF IInv, TicketInHand
    <3>2. \A t \in leaked' : t.token < tokens
      BY <1>2, <3>1 DEF IInv, TokensIssued
    <3>3. \A d \in Calls : ticket'[d] # NoTicket => ticket'[d].token < tokens
      BY <2>3, <2>4 DEF IInv, TokensIssued
    <3> QED
      BY <3>2, <3>3 DEF IInv, TokensIssued
  <2>6. TicketsUnique'
    <3> SUFFICES ASSUME NEW d \in Calls, ticket'[d] # NoTicket, ticket'[d].token # 0
                 PROVE  TicketsUnique!(d)!2'
      BY DEF TicketsUnique
    <3>1. d # c /\ ticket'[d] = ticket[d]
      BY <2>3, <2>4
    <3>2. /\ \A e \in Calls : ticket[e] = ticket[d] => e = d
          /\ ticket[d] \notin leaked
      BY <3>1 DEF IInv, TicketsUnique
    <3>3. \A e \in Calls : ticket'[e] = ticket'[d] => e = d
      BY <2>3, <2>4, <3>1, <3>2
    <3>4. ticket'[d] \notin leaked'
      BY <1>2, <3>1, <3>2
    <3> QED
      BY <3>3, <3>4
  <2>7. TicketInHand'
    BY <2>3, <2>4 DEF IInv, TicketInHand
  <2>8. FiniteQueues' /\ QueueBound' /\ DepthAgrees'
    BY DEF IInv, FiniteQueues, QueueBound, DepthAgrees
  <2>9. SlotsAreOwned'
    <3> SUFFICES ASSUME NEW s \in Signals, NEW n \in queue[s]
                 PROVE  SlotsAreOwned!(s)!(n)'
      BY DEF SlotsAreOwned
    <3>1. SlotsAreOwned!(s)!(n)
      BY DEF IInv, SlotsAreOwned
    <3>2. n \in Nat
      BY DEF IInv, TypeOK
    <3>3. ~Holds(c, s, n)'
      BY <2>4, <3>2, NoTicketAssumption DEF Holds
    <3>4. \A d \in Calls : d # c => (Holds(d, s, n)' <=> Holds(d, s, n))
      BY <2>3 DEF Holds
    <3>5. CASE Holds(c, s, n)
      <4>1. s = "traces" /\ [sig |-> s, token |-> n] \in leaked'
        BY <1>2, <2>1, <3>5 DEF Holds
      <4>2. \A d \in Calls : Holds(d, s, n) => d = c
        BY <3>1, <3>5
      <4> QED
        BY <4>1, <4>2, <3>3, <3>4
    <3>6. CASE ~Holds(c, s, n)
      BY <1>2, <2>3, <3>1, <3>3, <3>4, <3>6
    <3> QED
      BY <3>5, <3>6
  <2> QED
    BY <2>2, <2>5, <2>6, <2>7, <2>8, <2>9 DEF IInv
<1> QED
  BY <1>1, <1>2

\* A ticket that was issued is not the new one.
LEMMA NewTokenIsNew ==
  ASSUME IInv, NEW s \in Signals
  PROVE  /\ [sig |-> s, token |-> tokens] \notin leaked
         /\ \A d \in Calls : ticket[d] # [sig |-> s, token |-> tokens]
         /\ \A r \in Signals : tokens \notin queue[r]
<1>1. tokens \in Nat /\ [sig |-> s, token |-> tokens].token = tokens
  BY DEF IInv, TypeOK
<1>2. [sig |-> s, token |-> tokens] # NoTicket
  BY <1>1, NoTicketAssumption
<1> QED
  BY <1>1, <1>2 DEF IInv, TokensIssued

\* The three outcomes of try_acquire: refused, admitted to an unbounded queue,
\* admitted to a slot of its own.
LEMMA TryAcquireInv == ASSUME IInv, NEW c \in Calls, TryAcquire(c) PROVE IInv'
<1> DEFINE s == call[c].sig
           Crowded == /\ maxsize[s] > 0 /\ Full(s)
                      /\ dropped' = Count(dropped, s)
                      /\ Goto(c, "idle")
                      /\ UNCHANGED <<queues, ticket, admitted>>
           Admitted == /\ admitted' = Count(admitted, s)
                       /\ Goto(c, IF call[c].kind = "trace" THEN "span" ELSE "body")
                       /\ UNCHANGED dropped
           Unbounded == /\ maxsize[s] = 0
                        /\ ticket' = [ticket EXCEPT ![c] = [sig |-> s, token |-> 0]]
                        /\ UNCHANGED queues
           Bounded == /\ maxsize[s] > 0
                      /\ ~Full(s)
                      /\ ticket' = [ticket EXCEPT ![c] = [sig |-> s, token |-> tokens]]
                      /\ tokens' = tokens + 1
                      /\ queue' = [queue EXCEPT ![s] = @ \cup {tokens}]
                      /\ depth' = [depth EXCEPT ![s] = Cardinality(queue'[s])]
<1>1. /\ pc[c] = "acquire" /\ UNCHANGED <<rate, maxsize, epoch, call, attempts, leaked>>
      /\ Crowded \/ (Admitted /\ Unbounded) \/ (Admitted /\ Bounded)
  BY DEF TryAcquire, policies, history
<1>2. s \in Signals /\ maxsize[s] \in Nat /\ call[c] \in Call
  BY DEF IInv, TypeOK, Call
<1>3. CASE Crowded
  <2>1. TypeOK'
    BY <1>1, <1>2, <1>3 DEF IInv, TypeOK, Goto, Locations, Gates, Count, queues
  <2>2. UNCHANGED <<queue, tokens, depth, maxsize, ticket, leaked, call>>
    BY <1>1, <1>3 DEF queues
  <2>3. \A d \in Calls : (pc'[d] \in {"span", "body", "release"} \/ pc[d] \in {"span", "body", "release"})
          => pc'[d] = pc[d]
    BY <1>1, <1>3 DEF IInv, TypeOK, Goto
  <2> QED
    BY <2>1, <2>2, <2>3, QuietStep
<1>4. ASSUME Admitted
      PROVE  /\ \A d \in Calls : d # c => pc'[d] = pc[d]
             /\ pc'[c] \in {"span", "body"}
             /\ pc'[c] = "span" => call[c].kind = "trace"
             /\ pc' \in [Calls -> Locations] /\ admitted' \in [Signals -> Nat]
  BY <1>2, <1>4 DEF IInv, TypeOK, Goto, Locations, Count
<1>5. CASE Admitted /\ Unbounded
  <2>1. /\ \A d \in Calls : d # c => ticket'[d] = ticket[d]
        /\ ticket'[c] = [sig |-> s, token |-> 0] /\ ticket'[c] \in Ticket
        /\ ticket'[c] # NoTicket
    BY <1>2, <1>5, NoTicketAssumption DEF IInv, TypeOK, Ticket
  <2>2. TypeOK'
    BY <1>1, <1>4, <1>5, <2>1 DEF IInv, TypeOK, queues
  <2>3. TokensIssued'
    <3>1. UNCHANGED <<queue, tokens, leaked>> /\ tokens > 0
      BY <1>1, <1>5 DEF IInv, TypeOK, queues
    <3>2. ticket'[c].token < tokens
      BY <2>1, <3>1
    <3>3. \A d \in Calls : ticket'[d] # NoTicket => ticket'[d].token < tokens
      BY <2>1, <3>2 DEF IInv, TokensIssued
    <3> QED
      BY <3>1, <3>3 DEF IInv, TokensIssued
  <2>4. TicketInHand'
    BY <1>1, <1>4, <1>5, <2>1 DEF IInv, TicketInHand
  <2>5. TicketsUnique'
    BY <1>1, <2>1 DEF IInv, TicketsUnique
  <2>6. FiniteQueues' /\ QueueBound' /\ DepthAgrees'
    BY <1>1, <1>5 DEF IInv, FiniteQueues, QueueBound, DepthAgrees, queues
  <2>7. SlotsAreOwned'
    <3> SUFFICES ASSUME NEW r \in Signals, NEW n \in queue[r]
                 PROVE  SlotsAreOwned!(r)!(n)'
      BY <1>5 DEF SlotsAreOwned, queues
    <3>1. SlotsAreOwned!(r)!(n) /\ n > 0
      BY DEF IInv, SlotsAreOwned, TokensIssued
    <3>2. ~Holds(c, r, n)'
      BY <2>1, <3>1 DEF Holds
    <3>3. \A d \in Calls : d # c => (Holds(d, r, n)' <=> Holds(d, r, n))
      BY <2>1 DEF Holds
    <3> QED
      BY <1>1, <1>4, <1>5, <3>1, <3>2, <3>3
  <2> QED
    BY <2>2, <2>3, <2>4, <2>5, <2>6, <2>7 DEF IInv
<1>6. CASE Admitted /\ Bounded
  <2>1. /\ \A d \in Calls : d # c => ticket'[d] = ticket[d]
        /\ ticket'[c] = [sig |-> s, token |-> tokens] /\ ticket'[c] \in Ticket
        /\ ticket'[c] # NoTicket
    BY <1>2, <1>6, NoTicketAssumption DEF IInv, TypeOK, Ticket
  <2>2. /\ tokens \in Nat \ {0} /\ tokens' = tokens + 1
        /\ queue'[s] = queue[s] \cup {tokens}
        /\ \A r \in Signals : r # s => queue'[r] = queue[r]
    BY <1>2, <1>6 DEF IInv, TypeOK
  <2>3. /\ IsFiniteSet(queue'[s])
        /\ Cardinality(queue'[s]) = Cardinality(queue[s]) + 1
        /\ Cardinality(queue[s]) \in Nat /\ Cardinality(queue[s]) < maxsize[s]
    <3>1. IsFiniteSet(queue[s]) /\ tokens \notin queue[s]
      BY <1>2, NewTokenIsNew DEF IInv, FiniteQueues
    <3>2. Cardinality(queue[s]) \in Nat
      BY <3>1, FS_CardinalityType
    <3>3. /\ IsFiniteSet(queue[s] \cup {tokens})
          /\ Cardinality(queue[s] \cup {tokens}) = Cardinality(queue[s]) + 1
      BY <3>1, FS_AddElement
    <3>4. Cardinality(queue[s]) < maxsize[s]
      BY <1>2, <1>6, <3>2 DEF Full
    <3> QED
      BY <2>2, <3>2, <3>3, <3>4
  <2>4. TypeOK'
    <3>1. queue' \in [Signals -> SUBSET Nat] /\ depth' \in [Signals -> Nat]
      BY <1>2, <1>6, <2>2, <2>3 DEF IInv, TypeOK
    <3>2. ticket' \in [Calls -> Ticket \cup {NoTicket}]
      BY <1>2, <1>6, <2>1 DEF IInv, TypeOK
    <3> QED
      BY <1>1, <1>4, <1>6, <2>2, <3>1, <3>2 DEF IInv, TypeOK
  <2>5. TokensIssued'
    <3>1. \A r \in Signals : \A n \in queue'[r] : n > 0 /\ n < tokens'
      BY <2>2 DEF IInv, TypeOK, TokensIssued
    <3>2. \A d \in Calls : ticket'[d] # NoTicket => ticket'[d].token < tokens'
      <4> SUFFICES ASSUME NEW d \in Calls, ticket'[d] # NoTicket
                   PROVE  ticket'[d].token < tokens'
        OBVIOUS
      <4>1. CASE d = c
        BY <2>1, <2>2, <4>1
      <4>2. CASE d # c
        <5>1. ticket[d] \in Ticket /\ ticket[d].token < tokens
          BY <2>1, <4>2 DEF IInv, TypeOK, TokensIssued
        <5> QED
          BY <2>1, <2>2, <4>2, <5>1 DEF Ticket
      <4> QED
        BY <4>1, <4>2
    <3>3. \A t \in leaked' : t.token < tokens'
      <4> SUFFICES ASSUME NEW t \in leaked PROVE t.token < tokens'
        BY <1>1
      <4>1. t.token \in Nat /\ t.token < tokens
        BY DEF IInv, TypeOK, TokensIssued, Ticket
      <4> QED
        BY <2>2, <4>1
    <3> QED
      BY <3>1, <3>2, <3>3 DEF TokensIssued
  <2>6. TicketInHand'
    BY <1>1, <1>4, <1>6, <2>1 DEF IInv, TicketInHand
  <2>7. TicketsUnique'
    <3> SUFFICES ASSUME NEW d \in Calls, ticket'[d] # NoTicket, ticket'[d].token # 0
                 PROVE  TicketsUnique!(d)!2'
      BY DEF TicketsUnique
    <3>1. CASE d = c
      BY <1>1, <1>2, <2>1, <3>1, NewTokenIsNew
    <3>2. CASE d # c
      <4>1. /\ \A e \in Calls : ticket[e] = ticket[d] => e = d
            /\ ticket[d] \notin leaked /\ ticket'[d] = ticket[d]
        BY <2>1, <3>2 DEF IInv, TicketsUnique
      <4>2. ticket'[c] # ticket'[d]
        BY <1>2, <2>1, <4>1, NewTokenIsNew
      <4> QED
        BY <1>1, <2>1, <4>1, <4>2
    <3> QED
      BY <3>1, <3>2
  <2>8. FiniteQueues' /\ QueueBound' /\ DepthAgrees'
    <3> SUFFICES ASSUME NEW r \in Signals
                 PROVE  /\ IsFiniteSet(queue'[r])
                        /\ Cardinality(queue'[r]) <= maxsize[r]
                        /\ depth'[r] = Cardinality(queue'[r])
      BY <1>1 DEF FiniteQueues, QueueBound, DepthAgrees
    <3>1. CASE r = s
      <4>1. depth'[s] = Cardinality(queue'[s])
        BY <1>2, <1>6 DEF IInv, TypeOK
      <4> QED
        BY <1>2, <2>3, <3>1, <4>1
    <3>2. CASE r # s
      <4>1. depth'[r] = depth[r]
        BY <1>6, <3>2 DEF IInv, TypeOK
      <4> QED
        BY <2>2, <3>2, <4>1 DEF IInv, FiniteQueues, QueueBound, DepthAgrees
    <3> QED
      BY <3>1, <3>2
  <2>9. SlotsAreOwned'
    <3> SUFFICES ASSUME NEW r \in Signals, NEW n \in queue'[r]
                 PROVE  SlotsAreOwned!(r)!(n)'
      BY DEF SlotsAreOwned
    <3>1. CASE n \in queue[r]
      <4>1. SlotsAreOwned!(r)!(n) /\ n # tokens
        BY <1>2, <3>1, NewTokenIsNew DEF IInv, SlotsAreOwned
      <4>2. ~Holds(c, r, n)'
        BY <2>1, <4>1 DEF Holds
      <4>3. \A d \in Calls : d # c => (Holds(d, r, n)' <=> Holds(d, r, n))
        BY <2>1 DEF Holds
      <4> QED
        BY <1>1, <1>4, <1>6, <4>1, <4>2, <4>3
    <3>2. CASE n \notin queue[r]
      <4>1. r = s /\ n = tokens
        BY <2>2, <3>2
      <4>2. Holds(c, r, n)'
        BY <2>1, <4>1 DEF Holds
      <4>3. \A d \in Calls : Holds(d, r, n)' => d = c
        BY <1>2, <2>1, <4>1, NewTokenIsNew DEF Holds
      <4> QED
        BY <1>4, <1>6, <4>2, <4>3
    <3> QED
      BY <3>1, <3>2
  <2> QED
    BY <2>4, <2>5, <2>6, <2>7, <2>8, <2>9 DEF IInv
<1> QED
  BY <1>1, <1>3, <1>5, <1>6

\* release removes at most the slot of its ticket, and reports the new depth.
LEMMA FreeSlotEffect ==
  ASSUME IInv, NEW t \in Ticket, FreeSlot(t), UNCHANGED maxsize
  PROVE  /\ \A s \in Signals : \A n : n \in queue'[s] <=>
              n \in queue[s] /\ (t.token # 0 => t # [sig |-> s, token |-> n])
         /\ queue' \in [Signals -> SUBSET Nat] /\ depth' \in [Signals -> Nat]
         /\ FiniteQueues' /\ QueueBound' /\ DepthAgrees'
<1>1. t.sig \in Signals /\ t = [sig |-> t.sig, token |-> t.token]
  BY DEF Ticket
<1>2. \A s \in Signals : 0 \notin queue[s]
  BY DEF IInv, TokensIssued
<1>3. CASE t.token # 0 /\ t.token \in queue[t.sig]
  <2>1. /\ queue' = [queue EXCEPT ![t.sig] = queue[t.sig] \ {t.token}]
        /\ depth' = [depth EXCEPT ![t.sig] = Cardinality(queue'[t.sig])]
    BY <1>3 DEF FreeSlot, Without
  <2>2. /\ queue'[t.sig] = queue[t.sig] \ {t.token}
        /\ \A s \in Signals : s # t.sig => queue'[s] = queue[s]
    BY <1>1, <2>1 DEF IInv, TypeOK
  <2>3. /\ IsFiniteSet(queue'[t.sig])
        /\ Cardinality(queue'[t.sig]) = Cardinality(queue[t.sig]) - 1
        /\ Cardinality(queue'[t.sig]) \in Nat
    <3>1. IsFiniteSet(queue[t.sig])
      BY <1>1 DEF IInv, FiniteQueues
    <3>2. /\ IsFiniteSet(queue[t.sig] \ {t.token})
          /\ Cardinality(queue[t.sig] \ {t.token}) = Cardinality(queue[t.sig]) - 1
      BY <1>3, <3>1, FS_RemoveElement
    <3> QED
      BY <2>2, <3>2, FS_CardinalityType
  <2>4. queue' \in [Signals -> SUBSET Nat] /\ depth' \in [Signals -> Nat]
    BY <1>1, <2>1, <2>3 DEF IInv, TypeOK
  <2>5. ASSUME NEW s \in Signals
        PROVE  /\ IsFiniteSet(queue'[s]) /\ Cardinality(queue'[s]) <= maxsize[s]
               /\ depth'[s] = Cardinality(queue'[s])
    <3>1. CASE s = t.sig
      <4>1. Cardinality(queue[s]) <= maxsize[s] /\ maxsize[s] \in Nat
        BY DEF IInv, TypeOK, QueueBound
      <4>2. Cardinality(queue[s]) \in Nat
        BY FS_CardinalityType DEF IInv, FiniteQueues
      <4>3. depth'[s] = Cardinality(queue'[s])
        BY <2>1, <3>1 DEF IInv, TypeOK
      <4> QED
        BY <2>3, <3>1, <4>1, <4>2, <4>3
    <3>2. CASE s # t.sig
      <4>1. depth'[s] = depth[s] /\ queue'[s] = queue[s]
        BY <2>1, <2>2, <3>2 DEF IInv, TypeOK
      <4> QED
        BY <4>1 DEF IInv, FiniteQueues, QueueBound, DepthAgrees
    <3> QED
      BY <3>1, <3>2
  <2>6. FiniteQueues' /\ QueueBound' /\ DepthAgrees'
    BY <2>5 DEF FiniteQueues, QueueBound, DepthAgrees
  <2> QED
    BY <1>1, <1>3, <2>2, <2>4, <2>6
<1>4. CASE ~(t.token # 0 /\ t.token \in queue[t.sig])
  <2>1. UNCHANGED <<queue, depth>>
    BY <1>4 DEF FreeSlot
  <2>2. FiniteQueues' /\ QueueBound' /\ DepthAgrees'
    BY <2>1 DEF IInv, FiniteQueues, QueueBound, DepthAgrees
  <2> QED
    BY <1>1, <1>2, <1>4, <2>1, <2>2 DEF IInv, TypeOK
<1> QED
  BY <1>3, <1>4

LEMMA ReleaseInv == ASSUME IInv, NEW c \in Calls, Release(c) PROVE IInv'
<1>1. /\ pc[c] = "release" /\ FreeSlot(ticket[c]) /\ Goto(c, "idle")
      /\ UNCHANGED <<rate, maxsize, epoch, tokens, dropped, call, admitted, attempts, leaked>>
      /\ ticket' = ticket \/ ticket' = [ticket EXCEPT ![c] = NoTicket]
  BY DEF Release, policies, history
<1>2. ticket[c] \in Ticket
  BY <1>1 DEF IInv, TypeOK, TicketInHand
<1>3. /\ \A s \in Signals : \A n : n \in queue'[s] <=>
           n \in queue[s] /\ (ticket[c].token # 0 => ticket[c] # [sig |-> s, token |-> n])
      /\ queue' \in [Signals -> SUBSET Nat] /\ depth' \in [Signals -> Nat]
      /\ FiniteQueues' /\ QueueBound' /\ DepthAgrees'
  BY <1>1, <1>2, FreeSlotEffect
<1>4. /\ \A d \in Calls : d # c => pc'[d] = pc[d] /\ ticket'[d] = ticket[d]
      /\ pc'[c] = "idle" /\ ticket'[c] \in {ticket[c], NoTicket}
  BY <1>1 DEF IInv, TypeOK, Goto
<1>5. TypeOK'
  <2>1. pc' \in [Calls -> Locations] /\ ticket' \in [Calls -> Ticket \cup {NoTicket}]
    BY <1>1 DEF IInv, TypeOK, Goto, Locations
  <2> QED
    BY <1>1, <1>3, <2>1 DEF IInv, TypeOK
<1>6. TokensIssued'
  BY <1>1, <1>3, <1>4 DEF IInv, TokensIssued
<1>7. TicketInHand'
  BY <1>1, <1>4 DEF IInv, TicketInHand
<1>8. TicketsUnique'
  <2> SUFFICES ASSUME NEW d \in Calls, ticket'[d] # NoTicket, ticket'[d].token # 0
               PROVE  TicketsUnique!(d)!2'
    BY DEF TicketsUnique
  <2>1. ticket'[d] = ticket[d]
    BY <1>4
  <2>2. (\A e \in Calls : ticket[e] = ticket[d] => e = d) /\ ticket[d] \notin leaked
    BY <2>1 DEF IInv, TicketsUnique
  <2> QED
    BY <1>1, <1>4, <2>1, <2>2
<1>9. SlotsAreOwned'
  <2> SUFFICES ASSUME NEW s \in Signals, NEW n \in queue'[s]
               PROVE  SlotsAreOwned!(s)!(n)'
    BY DEF SlotsAreOwned
  <2>1. n \in queue[s] /\ n > 0
    BY <1>3 DEF IInv, TokensIssued
  <2>2. SlotsAreOwned!(s)!(n)
    BY <2>1 DEF IInv, SlotsAreOwned
  <2>3. ~Holds(c, s, n)
    BY <1>3, <2>1 DEF Holds
  <2>4. ~Holds(c, s, n)'
    <3>1. n \in Nat
      BY <2>1 DEF IInv, TypeOK
    <3> QED
      BY <1>4, <2>3, <3>1, NoTicketAssumption DEF Holds
  <2>5. \A d \in Calls : d # c => (Holds(d, s, n)' <=> Holds(d, s, n))
    BY <1>4 DEF Holds
  <2> QED
    BY <1>1, <1>4, <2>2, <2>3, <2>4, <2>5
<1> QED
  BY <1>3, <1>5, <1>6, <1>7, <1>8, <1>9 DEF IInv

\* A second release meets no slot: the ticket's own was freed or cleared.
LEMMA ReleaseAgainInv == ASSUME IInv, NEW c \in Calls, ReleaseAgain(c) PROVE IInv'
<1>1. pc[c] = "idle" /\ ticket[c] \in Ticket /\ FreeSlot(ticket[c])
  BY DEF ReleaseAgain, IInv, TypeOK
<1>2. ticket[c].sig \in Signals /\ Holds(c, ticket[c].sig, ticket[c].token)
  BY <1>1 DEF Ticket, Holds
<1>3. ticket[c].token \notin queue[ticket[c].sig]
  BY <1>1, <1>2 DEF IInv, SlotsAreOwned
<1>4. UNCHANGED <<queue, depth>>
  BY <1>1, <1>3 DEF FreeSlot
<1>5. UNCHANGED <<rate, maxsize, epoch, tokens, dropped, pc, call, ticket, admitted, attempts, leaked>>
  BY DEF ReleaseAgain, policies, history
<1>6. TypeOK'
  BY <1>4, <1>5 DEF IInv, TypeOK
<1> QED
  BY <1>4, <1>5, <1>6, QuietStep

\* A new policy empties every queue.
LEMMA SetQueuePolicyInv ==
  ASSUME IInv, NEW p \in QueuePolicies, SetQueuePolicy(p) PROVE IInv'
<1>1. /\ maxsize' = p /\ queue' = [s \in Signals |-> {}] /\ depth' = [s \in Signals |-> 0]
      /\ UNCHANGED <<rate, tokens, dropped, pc, call, ticket, admitted, attempts, leaked>>
      /\ epoch' = 1 - epoch
  BY DEF SetQueuePolicy, Cleared, history
<1>2. p \in [Signals -> Nat]
  BY QueuePolicyAssumption
<1>3. TypeOK'
  BY <1>1, <1>2 DEF IInv, TypeOK
<1>4. TokensIssued' /\ TicketInHand' /\ TicketsUnique'
  BY <1>1 DEF IInv, TokensIssued, TicketInHand, TicketsUnique
<1>5. \A s \in Signals : queue'[s] = {} /\ IsFiniteSet(queue'[s]) /\ Cardinality(queue'[s]) = 0
  BY <1>1, FS_EmptySet
<1>6. FiniteQueues' /\ QueueBound' /\ DepthAgrees' /\ SlotsAreOwned'
  BY <1>1, <1>2, <1>5 DEF FiniteQueues, QueueBound, DepthAgrees, SlotsAreOwned
<1> QED
  BY <1>3, <1>4, <1>6 DEF IInv

\* Every step of the model preserves the invariant.
LEMMA StepInv == IInv /\ [Next]_vars => IInv'
<1> SUFFICES ASSUME IInv, [Next]_vars PROVE IInv'
  OBVIOUS
<1>1. CASE \E c \in Calls : \E k \in Call : k.kind \in Kinds /\ Start(c, k)
  BY <1>1, StartInv
<1>2. ASSUME NEW c \in Calls, CallStep(c) PROVE IInv'
  BY <1>2, SampleInv, CountDropInv, TryAcquireInv, StartSpanInv, BodyInv, ReleaseInv
     DEF CallStep
<1>3. CASE \E c \in Calls : ReleaseAgain(c)
  BY <1>3, ReleaseAgainInv
<1>4. CASE \E p \in QueuePolicies : SetQueuePolicy(p)
  BY <1>4, SetQueuePolicyInv
<1>5. CASE \E s \in Signals, r \in Rates : SetSamplingPolicy(s, r)
  BY <1>5, SetSamplingInv
<1>6. CASE UNCHANGED vars
  <2>1. TypeOK'
    BY <1>6 DEF IInv, TypeOK, vars
  <2>2. UNCHANGED <<queue, tokens, depth, maxsize, ticket, leaked, pc, call>>
    BY <1>6 DEF vars
  <2> QED
    BY <2>1, <2>2, QuietStep
<1> QED
  BY <1>1, <1>2, <1>3, <1>4, <1>5, <1>6 DEF Next

LEMMA Invariance == Spec => []IInv
  BY InitInv, StepInv, PTL DEF Spec
-----------------------------------------------------------------------------
(***************************************************************************)
(* Theorems.                                                               *)
(***************************************************************************)
\* Every variable keeps its type.
THEOREM TypeCorrect == Spec => []TypeOK
<1>1. IInv => TypeOK
  BY DEF IInv
<1> QED
  BY <1>1, Invariance, PTL

\* No queue of try_acquire ever exceeds the policy in force, across reloads.
THEOREM QueuesBounded == Spec => []QueueBound
<1>1. IInv => QueueBound
  BY DEF IInv
<1> QED
  BY <1>1, Invariance, PTL

\* The depths in health are the sizes of the queues.
THEOREM DepthsAgree == Spec => []DepthAgrees
<1>1. IInv => DepthAgrees
  BY DEF IInv
<1> QED
  BY <1>1, Invariance, PTL

\* health reports each queue as it is, and no queue is over its limit.
THEOREM QueuesReported == Spec => []QueuesAsReported
  BY QueuesBounded, DepthsAgree, PTL DEF QueuesAsReported

\* Every slot belongs to one call under way, or was leaked by a traced call.
THEOREM SlotsOwned == Spec => []SlotsAreOwned
<1>1. IInv => SlotsAreOwned
  BY DEF IInv
<1> QED
  BY <1>1, Invariance, PTL

\* Between two policies, a token leaves a queue by the release of the call that
\* acquired it: no other release meets a token that is there.
THEOREM OwnersFree == Spec => OnlyOwnerFrees
<1> DEFINE Frees(s, n) ==
             \E c \in Calls : Holds(c, s, n) /\ pc[c] = "release" /\ pc'[c] = "idle"
<1>1. ASSUME IInv, [Next]_vars, epoch' = epoch, NEW s \in Signals, NEW n \in queue[s] \ queue'[s]
      PROVE  Frees(s, n)
  <2>1. queue' # queue
    BY <1>1
  <2>2. n \in Nat /\ n > 0
    BY <1>1 DEF IInv, TypeOK, TokensIssued
  <2>3. ASSUME NEW d \in Calls, ticket[d] \in Ticket, FreeSlot(ticket[d]), UNCHANGED maxsize
        PROVE  Holds(d, s, n)
    BY <1>1, <2>3, FreeSlotEffect DEF Holds
  <2>4. ASSUME NEW d \in Calls, Release(d) PROVE Frees(s, n)
    <3>1. ticket[d] \in Ticket /\ FreeSlot(ticket[d]) /\ UNCHANGED maxsize
      BY <1>1, <2>4 DEF Release, IInv, TypeOK, TicketInHand, policies
    <3>2. Holds(d, s, n)
      BY <2>3, <3>1
    <3>3. pc[d] = "release" /\ pc'[d] = "idle"
      BY <1>1, <2>4 DEF Release, Goto, IInv, TypeOK
    <3> QED
      BY <3>2, <3>3
  <2>5. ASSUME NEW d \in Calls, ReleaseAgain(d) PROVE FALSE
    <3>1. /\ pc[d] = "idle" /\ ticket[d] \in Ticket /\ FreeSlot(ticket[d])
          /\ ticket[d] # NoTicket /\ UNCHANGED maxsize
      BY <1>1, <2>5 DEF ReleaseAgain, IInv, TypeOK, policies
    <3>2. Holds(d, s, n)
      BY <2>3, <3>1
    <3>3. ticket[d] \notin leaked
      <4>1. ticket[d].token # 0
        BY <2>2, <3>2 DEF Holds
      <4> QED
        BY <1>1, <3>1, <4>1 DEF IInv, TicketsUnique
    <3> QED
      BY <1>1, <3>1, <3>2, <3>3 DEF IInv, SlotsAreOwned, Holds
  <2>6. ASSUME NEW d \in Calls, TryAcquire(d) PROVE FALSE
    <3>1. UNCHANGED queue \/ queue' = [queue EXCEPT ![call[d].sig] = @ \cup {tokens}]
      BY <2>6 DEF TryAcquire, queues
    <3> QED
      BY <1>1, <2>1, <3>1 DEF IInv, TypeOK
  <2>7. ASSUME NEW p \in QueuePolicies, SetQueuePolicy(p) PROVE FALSE
    BY <1>1, <2>7 DEF SetQueuePolicy, IInv, TypeOK
  <2>8. ASSUME NEW d \in Calls,
               \/ \E k \in Call : Start(d, k)
               \/ Sample(d) \/ CountDrop(d) \/ StartSpan(d) \/ Body(d)
        PROVE  FALSE
    BY <2>1, <2>8 DEF Start, Sample, CountDrop, StartSpan, Body, queues
  <2>9. CASE (\E r \in Signals, x \in Rates : SetSamplingPolicy(r, x)) \/ UNCHANGED vars
    BY <2>1, <2>9 DEF SetSamplingPolicy, vars, queues
  <2> QED
    BY <1>1, <2>4, <2>5, <2>6, <2>7, <2>8, <2>9 DEF Next, CallStep
<1>2. IInv /\ [Next]_vars =>
        (epoch' = epoch => \A s \in Signals : \A n \in queue[s] \ queue'[s] : Frees(s, n))
  BY <1>1
<1> QED
  BY <1>2, Invariance, PTL DEF Spec, OnlyOwnerFrees

\* How a step of call c moves the number of calls at the gates.
LEMMA GateCount ==
  ASSUME NEW c \in Calls, NEW s \in Signals,
         \A d \in Calls \ {c} : d \in AtGates(s)' <=> d \in AtGates(s)
  PROVE  /\ Cardinality(AtGates(s)) \in Nat
         /\ (c \in AtGates(s) <=> c \in AtGates(s)') =>
              Cardinality(AtGates(s))' = Cardinality(AtGates(s))
         /\ c \notin AtGates(s) /\ c \in AtGates(s)' =>
              Cardinality(AtGates(s))' = Cardinality(AtGates(s)) + 1
         /\ c \in AtGates(s) /\ c \notin AtGates(s)' =>
              Cardinality(AtGates(s))' = Cardinality(AtGates(s)) - 1
<1> DEFINE A == AtGates(s)
           B == AtGates(s)'
<1>1. A \subseteq Calls /\ B \subseteq Calls
  BY DEF AtGates
<1>2. IsFiniteSet(A) /\ Cardinality(A) \in Nat
  BY <1>1, CallsAssumption, FS_Subset, FS_CardinalityType
<1>3. \A d \in Calls \ {c} : d \in B <=> d \in A
  OBVIOUS
<1> HIDE DEF A, B
<1>4. (c \in A <=> c \in B) => B = A
  BY <1>1, <1>3
<1>5. c \notin A /\ c \in B => B = A \cup {c}
  BY <1>1, <1>3
<1>6. c \in A /\ c \notin B => B = A \ {c}
  BY <1>1, <1>3
<1>7. c \notin A => Cardinality(A \cup {c}) = Cardinality(A) + 1
  BY <1>2, FS_AddElement
<1>8. c \in A => Cardinality(A \ {c}) = Cardinality(A) - 1
  BY <1>2, FS_RemoveElement
<1>9. /\ Cardinality(A) \in Nat
      /\ (c \in A <=> c \in B) => Cardinality(B) = Cardinality(A)
      /\ c \notin A /\ c \in B => Cardinality(B) = Cardinality(A) + 1
      /\ c \in A /\ c \notin B => Cardinality(B) = Cardinality(A) - 1
  BY <1>2, <1>4, <1>5, <1>6, <1>7, <1>8
<1> QED
  BY <1>9 DEF A, B

\* Every call is admitted or counted as dropped, once, whatever the policies do.
THEOREM CallsAccounted == Spec => []EveryCallAccounted
<1>1. Init => EveryCallAccounted
  <2> SUFFICES ASSUME Init, NEW s \in Signals
               PROVE  attempts[s] = admitted[s] + dropped[s] + Cardinality(AtGates(s))
    BY DEF EveryCallAccounted
  <2>1. AtGates(s) = {}
    BY DEF Init, AtGates, Gates
  <2> QED
    BY <2>1, FS_EmptySet DEF Init
<1>2. IInv /\ EveryCallAccounted /\ [Next]_vars => EveryCallAccounted'
  <2> SUFFICES ASSUME IInv, EveryCallAccounted, [Next]_vars, NEW s \in Signals
               PROVE  (attempts[s] = admitted[s] + dropped[s] + Cardinality(AtGates(s)))'
    BY DEF EveryCallAccounted
  <2>1. /\ attempts[s] = admitted[s] + dropped[s] + Cardinality(AtGates(s))
        /\ attempts[s] \in Nat /\ admitted[s] \in Nat /\ dropped[s] \in Nat
    BY BoundAssumption DEF EveryCallAccounted, IInv, TypeOK
  <2> DEFINE Here(c) == pc[c] \in Gates /\ call[c].sig = s
  <2>2. ASSUME NEW c \in Calls,
               \A d \in Calls \ {c} : pc'[d] = pc[d] /\ call'[d] = call[d]
        PROVE  /\ Cardinality(AtGates(s)) \in Nat
               /\ (Here(c) <=> Here(c)') =>
                    Cardinality(AtGates(s))' = Cardinality(AtGates(s))
               /\ ~Here(c) /\ Here(c)' =>
                    Cardinality(AtGates(s))' = Cardinality(AtGates(s)) + 1
               /\ Here(c) /\ ~Here(c)' =>
                    Cardinality(AtGates(s))' = Cardinality(AtGates(s)) - 1
    <3>1. \A d \in Calls \ {c} : d \in AtGates(s)' <=> d \in AtGates(s)
      BY <2>2 DEF AtGates
    <3>2. (Here(c) <=> c \in AtGates(s)) /\ (Here(c)' <=> c \in AtGates(s)')
      BY DEF AtGates
    <3> HIDE DEF Here
    <3> QED
      BY <3>1, <3>2, GateCount
  <2>3. ASSUME NEW c \in Calls, NEW k \in Call, Start(c, k)
        PROVE  (attempts[s] = admitted[s] + dropped[s] + Cardinality(AtGates(s)))'
    <3>1. /\ \A d \in Calls \ {c} : pc'[d] = pc[d] /\ call'[d] = call[d]
          /\ pc[c] = "idle" /\ pc'[c] \in Gates /\ call'[c] = k
          /\ UNCHANGED <<admitted, dropped>>
      BY <2>3 DEF Start, Goto, Gates, IInv, TypeOK
    <3>2. ~Here(c) /\ (Here(c)' <=> k.sig = s)
      BY <3>1 DEF Gates
    <3>3. attempts'[s] = IF k.sig = s THEN attempts[s] + 1 ELSE attempts[s]
      BY <2>3 DEF Start, Count, IInv, TypeOK
    <3> HIDE DEF Here
    <3> QED
      BY <2>1, <2>2, <3>1, <3>2, <3>3
  <2>4. ASSUME NEW c \in Calls, Sample(c)
        PROVE  (attempts[s] = admitted[s] + dropped[s] + Cardinality(AtGates(s)))'
    <3>1. /\ \A d \in Calls \ {c} : pc'[d] = pc[d] /\ call'[d] = call[d]
          /\ pc[c] = "sample" /\ call'[c] = call[c]
          /\ UNCHANGED <<attempts, dropped>>
      BY <2>4 DEF Sample, Goto, history, IInv, TypeOK
    <3>2. \/ pc'[c] \in {"drop", "acquire"} /\ UNCHANGED admitted
          \/ pc'[c] = "idle" /\ admitted' = Count(admitted, call[c].sig)
      BY <2>4 DEF Sample, Goto, IInv, TypeOK
    <3>3. CASE pc'[c] \in {"drop", "acquire"} /\ UNCHANGED admitted
      <4>1. Here(c) <=> Here(c)'
        BY <3>1, <3>3 DEF Gates
      <4> HIDE DEF Here
      <4> QED
        BY <2>1, <2>2, <3>1, <3>3, <4>1
    <3>4. CASE pc'[c] = "idle" /\ admitted' = Count(admitted, call[c].sig)
      <4>1. ~Here(c)' /\ (Here(c) <=> call[c].sig = s)
        BY <3>1, <3>4 DEF Gates
      <4>2. admitted'[s] = IF call[c].sig = s THEN admitted[s] + 1 ELSE admitted[s]
        BY <3>4 DEF Count, IInv, TypeOK
      <4> HIDE DEF Here
      <4> QED
        BY <2>1, <2>2, <3>1, <4>1, <4>2
    <3> QED
      BY <3>2, <3>3, <3>4
  <2>5. ASSUME NEW c \in Calls, CountDrop(c) \/ TryAcquire(c)
        PROVE  (attempts[s] = admitted[s] + dropped[s] + Cardinality(AtGates(s)))'
    <3>1. /\ \A d \in Calls \ {c} : pc'[d] = pc[d] /\ call'[d] = call[d]
          /\ pc[c] \in Gates /\ pc'[c] \notin Gates /\ call'[c] = call[c]
          /\ UNCHANGED attempts
      BY <2>5 DEF CountDrop, TryAcquire, Gates, Goto, history, IInv, TypeOK
    <3>2. \/ dropped' = Count(dropped, call[c].sig) /\ UNCHANGED admitted
          \/ admitted' = Count(admitted, call[c].sig) /\ UNCHANGED dropped
      BY <2>5 DEF CountDrop, TryAcquire, Count
    <3>3. admitted'[s] + dropped'[s] = IF call[c].sig = s THEN admitted[s] + dropped[s] + 1
                                       ELSE admitted[s] + dropped[s]
      BY <2>1, <3>2 DEF Count, IInv, TypeOK
    <3>4. admitted'[s] \in Nat /\ dropped'[s] \in Nat
      BY StepInv DEF IInv, TypeOK
    <3>5. ~Here(c)' /\ (Here(c) <=> call[c].sig = s)
      BY <3>1
    <3> HIDE DEF Here
    <3> QED
      BY <2>1, <2>2, <3>1, <3>3, <3>4, <3>5
  <2>6. ASSUME NEW c \in Calls, StartSpan(c) \/ Body(c) \/ Release(c)
        PROVE  (attempts[s] = admitted[s] + dropped[s] + Cardinality(AtGates(s)))'
    <3>1. /\ \A d \in Calls \ {c} : pc'[d] = pc[d] /\ call'[d] = call[d]
          /\ pc[c] \notin Gates /\ pc'[c] \notin Gates
          /\ UNCHANGED <<attempts, dropped, admitted>>
      BY <2>6 DEF StartSpan, Body, Release, AfterException, Gates, Goto, history, IInv, TypeOK
    <3>2. Here(c) <=> Here(c)'
      BY <3>1
    <3> HIDE DEF Here
    <3> QED
      BY <2>1, <2>2, <3>1, <3>2
  <2>7. CASE \/ \E c \in Calls : ReleaseAgain(c)
             \/ \E p \in QueuePolicies : SetQueuePolicy(p)
             \/ \E r \in Signals, x \in Rates : SetSamplingPolicy(r, x)
             \/ UNCHANGED vars
    <3>1. UNCHANGED <<pc, call, attempts, dropped, admitted>>
      BY <2>7 DEF ReleaseAgain, SetQueuePolicy, SetSamplingPolicy, vars, history
    <3>2. AtGates(s)' = AtGates(s)
      BY <3>1 DEF AtGates
    <3> QED
      BY <2>1, <3>1, <3>2
  <2> QED
    BY <2>3, <2>4, <2>5, <2>6, <2>7 DEF Next, CallStep
<1> QED
  BY <1>1, <1>2, Invariance, PTL DEF Spec
-----------------------------------------------------------------------------
(***************************************************************************)
(* What becomes of a log call (LogPipeline).  That event_name agrees with  *)
(* the processors is not inductive: what matters is that the cold parts of *)
(* the runtime configuration and of the processors' are the same.          *)
(***************************************************************************)
\* Between a setup and the next shutdown logging is configured, and the active
\* configuration has the cold part that the processors were built from.
ConfiguredAlike ==
  done =>
    /\ configured /\ runtime \in Config /\ chain \in Config
    /\ ~drifted => Cold(runtime) = Cold(chain)

\* A call came out as its processors decide, for one answer of sampling.
CallExplained ==
  last # None =>
    \E keep \in BOOLEAN : last.out = Outcome(last.chain, last.root, last.event, last.keys, keep)

LogInv ==
  /\ LogTypeOK
  /\ ConfiguredAlike
  /\ CallExplained

\* from_env yields a configuration, or refuses (config.py).
LEMMA FromEnvType ==
  ASSUME NEW e \in Env
  PROVE  FromEnv(e) \in Config \cup {Refused}
<1> SUFFICES ASSUME FromEnv(e) # Refused PROVE FromEnv(e) \in Config
  OBVIOUS
<1>1. /\ ~BadLevel(Or(e.level, Info))
      /\ \A m \in DOMAIN e.modules : ~BadLevel(e.modules[m])
      /\ ~BadRate(Or(e.rate, Always))
      /\ ~BadCount(Or(e.count, 64))
  BY DEF FromEnv
<1>2. Or(e.service, "undef-service") \in {"undef-service", "name", "other"}
  BY DEF Env, Or
<1>3. Or(e.level, Info) \in Levels
  BY <1>1 DEF BadLevel
<1>4. e.modules \in UNION {[M -> Levels] : M \in SUBSET Modules}
  <2>1. PICK M \in SUBSET Modules : e.modules \in [M -> {Junk} \cup Levels]
    BY DEF Env
  <2>2. e.modules \in [M -> Levels]
    BY <1>1, <2>1 DEF BadLevel
  <2> QED
    BY <2>2
<1>5. /\ Flag(e.strict, FALSE) \in BOOLEAN /\ Flag(e.names, FALSE) \in BOOLEAN
      /\ Flag(e.taxonomy, TRUE) \in BOOLEAN
  BY DEF Flag
<1>6. Or(e.rate, Always) \in 0..Always
  BY <1>1 DEF BadRate
<1>7. Or(e.count, 64) \in 0..64
  <2>1. CASE e.count = Absent
    BY <2>1 DEF Or
  <2>2. CASE e.count # Absent
    <3>1. e.count \in {Junk} \cup -1..8 /\ Or(e.count, 64) = e.count
      BY <2>2 DEF Env, Or
    <3>2. e.count # Junk /\ ~(e.count < 0)
      BY <1>1, <3>1 DEF BadCount, NotANumber
    <3> QED
      BY <3>1, <3>2
  <2> QED
    BY <2>1, <2>2
<1>8. e.required \in SUBSET Keys
  BY DEF Env
<1> QED
  BY <1>1, <1>2, <1>3, <1>4, <1>5, <1>6, <1>7, <1>8 DEF FromEnv, Config

\* The configurations that the actions apply.
LEMMA ConfigsType ==
  ASSUME LogTypeOK, NEW c \in Configs \cup {FromEnv(env)}, c # Refused
  PROVE  c \in Config
<1>1. \A e \in Envs : FromEnv(e) \in Config \cup {Refused}
  BY EnvsAssumption, FromEnvType
<1> QED
  BY <1>1 DEF Configs, LogTypeOK

LEMMA UniformType ==
  ASSUME NEW r \in 0..Always
  PROVE  Uniform(r) \in Policies
<1>1. [n \in {} |-> Always] \in [{} -> 0..Always] /\ {} \in SUBSET Names
  OBVIOUS
<1> QED
  BY <1>1 DEF Uniform, Policies

LEMMA LogInitInv == LogInit => LogInv
<1> SUFFICES ASSUME LogInit PROVE LogInv
  OBVIOUS
<1>1. sampling \in Policies
  BY UniformType DEF LogInit, KeepAll, Always
<1>2. LogTypeOK
  BY <1>1 DEF LogInit, LogTypeOK
<1> QED
  BY <1>2 DEF LogInit, LogInv, ConfiguredAlike, CallExplained

\* What an event comes out as is one of four.
LEMMA OutcomeType ==
  ASSUME NEW c, NEW root, NEW e, NEW keys, NEW keep
  PROVE  Outcome(c, root, e, keys, keep) \in {"emitted", "filtered", "sampled out", "invalid"}
  BY DEF Outcome

LEMMA LogNextInv ==
  ASSUME LogInv, [LogNext]_logVars
  PROVE  LogInv'
<1>0. LogTypeOK /\ ConfiguredAlike /\ CallExplained
  BY DEF LogInv
<1>1. CASE UNCHANGED logVars
  BY <1>0, <1>1 DEF logVars, policy, LogInv, LogTypeOK, ConfiguredAlike, CallExplained
<1>2. ASSUME NEW e \in Envs, ChangeEnv(e) PROVE LogInv'
  BY <1>0, <1>2 DEF ChangeEnv, Quiet, LogInv, LogTypeOK, ConfiguredAlike, CallExplained
<1>3. ASSUME NEW c \in Configs \cup {FromEnv(env)}, Setup(c) \/ Update(c) \/ Reconfigure(c)
      PROVE  LogInv'
  <2>1. c \in Config
    BY <1>0, <1>3, ConfigsType DEF Setup, Update, Reconfigure
  <2>2. c.rate \in 0..Always
    BY <2>1 DEF Config
  <2>3. Apply(c) /\ last' = None
    BY <1>3 DEF Setup, Update, Reconfigure, Quiet
  <2>4. runtime' = c /\ sampling' \in Policies
    BY <2>2, <2>3, UniformType DEF Apply
  <2>5. /\ env' = env /\ bound' = bound /\ lazy' = lazy /\ (chain' = c \/ chain' = chain)
        /\ done' \in BOOLEAN /\ configured' \in BOOLEAN /\ drifted' \in BOOLEAN
        /\ chain' \in Config \cup {None}
    BY <1>0, <1>3, <2>1 DEF Setup, Update, Reconfigure, Configure, LogTypeOK
  <2>6. LogTypeOK'
    BY <1>0, <2>1, <2>3, <2>4, <2>5, NoneAssumption DEF LogTypeOK
  <2>7. ConfiguredAlike'
    <3>1. CASE Setup(c)
      BY <2>1, <2>4, <3>1 DEF Setup, Configure, ConfiguredAlike
    <3>2. CASE Update(c)
      BY <1>0, <2>1, <2>4, <3>2 DEF Update, ConfiguredAlike
    <3>3. CASE Reconfigure(c)
      <4>1. CASE Cold(c) # Cold(Active)
        BY <2>1, <2>4, <3>3, <4>1 DEF Reconfigure, Configure, ConfiguredAlike
      <4>2. CASE Cold(c) = Cold(Active)
        <5>1. UNCHANGED <<configured, chain, done, drifted>>
          BY <3>3, <4>2 DEF Reconfigure
        <5>2. done => Active = runtime
          BY <1>0, NoneAssumption DEF ConfiguredAlike, Active
        <5> QED
          BY <1>0, <2>1, <2>4, <4>2, <5>1, <5>2 DEF ConfiguredAlike
      <4> QED
        BY <4>1, <4>2
    <3> QED
      BY <1>3, <3>1, <3>2, <3>3
  <2> QED
    BY <2>3, <2>6, <2>7 DEF LogInv, CallExplained
<1>4. ASSUME NEW r \in 0..Always, SetSampling([rate |-> r, of |-> [n \in Valid |-> Always - r]])
      PROVE  LogInv'
  <2>1. Always - r \in 0..Always
    BY DEF Always
  <2>2. [n \in Valid |-> Always - r] \in [Valid -> 0..Always]
    BY <2>1
  <2>3. sampling' \in Policies
    BY <1>4, <2>2, NamesAssumption DEF SetSampling, Policies
  <2> QED
    BY <1>0, <1>4, <2>3 DEF SetSampling, Quiet, LogInv, LogTypeOK, ConfiguredAlike, CallExplained
<1>5. ASSUME NEW c \in {chain, bound}, NEW e \in Events, NEW context, Log(c, e, context)
      PROVE  LogInv'
  <2>1. c \in Config /\ chain \in Config /\ chain.level \in Levels
    <3>1. c \in Config /\ chain \in Config
      BY <1>0, <1>5 DEF Log, LogTypeOK
    <3> QED
      BY <3>1 DEF Config
  <2> DEFINE keys == Completed(c, e, context)
  <2>2. PICK keep \in Kept(Name(e, keys)) :
          last' = [event |-> e, chain |-> c, root |-> chain.level, keys |-> keys,
                   out |-> Outcome(c, chain.level, e, keys, keep)]
    BY <1>5 DEF Log
  <2>3. keep \in BOOLEAN
    BY DEF Kept
  <2> HIDE DEF keys
  <2>4. /\ last'.event = e /\ last'.chain = c /\ last'.keys = keys /\ last'.root = chain.level
        /\ last'.out = Outcome(c, chain.level, e, keys, keep)
    BY <2>2
  <2>5. UNCHANGED <<env, done, configured, chain, lazy, runtime, sampling, bound, drifted>>
    BY <1>5 DEF Log, policy
  <2>6. CallExplained'
    BY <2>3, <2>4 DEF CallExplained
  <2>7. Outcome(c, chain.level, e, keys, keep) \in {"emitted", "filtered", "sampled out", "invalid"}
    BY OutcomeType
  <2>8. LogTypeOK'
    BY <1>0, <2>1, <2>4, <2>5, <2>7 DEF LogTypeOK
  <2> QED
    BY <1>0, <2>5, <2>6, <2>8 DEF LogInv, ConfiguredAlike
<1>6. CASE Shutdown
  BY <1>0, <1>6 DEF Shutdown, Quiet, LogInv, LogTypeOK, ConfiguredAlike, CallExplained
<1>7. CASE LazyConfigure
  <2>1. /\ lazy' \in BOOLEAN /\ last' = None
        /\ UNCHANGED <<env, runtime, sampling, bound, done>>
    BY <1>7 DEF LazyConfigure, Quiet, policy
  <2>2. CASE FromEnv(env) = Refused
    <3>1. UNCHANGED <<configured, chain, drifted>>
      BY <1>7, <2>2 DEF LazyConfigure
    <3> QED
      BY <1>0, <2>1, <3>1 DEF LogInv, LogTypeOK, ConfiguredAlike, CallExplained
  <2>3. CASE FromEnv(env) # Refused
    <3>1. FromEnv(env) \in Config /\ chain' = FromEnv(env) /\ configured' = TRUE
      BY <1>0, <1>7, <2>3, ConfigsType DEF LazyConfigure, Configure
    <3>2. drifted' = (drifted \/ (done /\ Cold(chain') # Cold(chain))) /\ drifted' \in BOOLEAN
      BY <1>0, <1>7, <2>3, <3>1 DEF LazyConfigure, LogTypeOK
    <3>3. LogTypeOK'
      BY <1>0, <2>1, <3>1, <3>2, NoneAssumption DEF LogTypeOK
    <3>4. ConfiguredAlike'
      BY <1>0, <2>1, <3>1, <3>2 DEF ConfiguredAlike
    <3> QED
      BY <2>1, <3>3, <3>4 DEF LogInv, CallExplained
  <2> QED
    BY <2>2, <2>3
<1>8. CASE Bind
  BY <1>0, <1>8 DEF Bind, Quiet, LogInv, LogTypeOK, ConfiguredAlike, CallExplained
<1>9. CASE Forget
  BY <1>0, <1>9 DEF Forget, policy, LogInv, LogTypeOK, ConfiguredAlike, CallExplained
<1>10. CASE FindUnconfigured
  BY <1>0, <1>10 DEF FindUnconfigured, policy, Quiet, LogInv, LogTypeOK, ConfiguredAlike, CallExplained
<1> QED
  BY <1>1, <1>2, <1>3, <1>4, <1>5, <1>6, <1>7, <1>8, <1>9, <1>10 DEF LogNext

THEOREM LogInvariant == LogSpec => []LogInv
  BY LogInitInv, LogNextInv, PTL DEF LogSpec

\* Variables have their types, so that no event leaves the chain but in one of
\* four ways (logger/core.py, logger/processors.py).
THEOREM LogTypeCorrect == LogSpec => []LogTypeOK
<1>1. LogInv => LogTypeOK
  BY DEF LogInv
<1> QED
  BY <1>1, LogInvariant, PTL

\* Between a setup and the next, event_name builds exactly the names that the
\* processors let through, unless an update changed what only a restart may change
\* or a late lazy configuration replaced the processors (schema/events.py, runtime.py,
\* logger/core.py).
THEOREM NamesStayAgreed == LogSpec => []NamesAgree
<1>1. LogInv => NamesAgree
  <2> SUFFICES ASSUME LogInv, done, ~drifted, NEW n \in Names
               PROVE  event_name(n) <=> NamePasses(chain, n)
    BY DEF NamesAgree
  <2>1. runtime \in Config /\ chain \in Config /\ Cold(runtime) = Cold(chain)
    BY DEF LogInv, ConfiguredAlike
  <2>2. runtime.strict = chain.strict /\ runtime.names = chain.names
    BY <2>1 DEF Cold
  <2>3. runtime # None
    BY <2>1, NoneAssumption
  <2> QED
    BY <2>2, <2>3 DEF event_name, StrictEventName, NamePasses, StrictNames
<1> QED
  BY <1>1, LogInvariant, PTL
-----------------------------------------------------------------------------
\* The least of some levels is one of them and at most each.
LEMMA LeastLevel ==
  ASSUME NEW S \in SUBSET Levels, S # {}
  PROVE  Min(S) \in S /\ \A l \in S : Min(S) <= l
<1> USE DEF Levels, Trace, Debug, Info, Warning
<1>1. \E l \in S : \A k \in S : l <= k
  <2>1. CASE 5 \in S
    BY <2>1
  <2>2. CASE 5 \notin S /\ 10 \in S
    BY <2>2
  <2>3. CASE 5 \notin S /\ 10 \notin S /\ 20 \in S
    BY <2>3
  <2>4. CASE 5 \notin S /\ 10 \notin S /\ 20 \notin S /\ 30 \in S
    BY <2>4
  <2> QED
    BY <2>1, <2>2, <2>3, <2>4
<1> QED
  BY <1>1 DEF Min

\* configure_logging lets every level of the configuration reach the processors.
LEMMA EffectiveLeast ==
  ASSUME NEW c \in Config
  PROVE  /\ c.level \in Levels /\ \A m \in DOMAIN c.modules : c.modules[m] \in Levels
         /\ Effective(c) \in Levels
         /\ Effective(c) <= c.level /\ \A m \in DOMAIN c.modules : Effective(c) <= c.modules[m]
         /\ DOMAIN c.modules = {} => Effective(c) = c.level
<1> DEFINE S == {c.level} \cup {c.modules[m] : m \in DOMAIN c.modules}
<1>1. c.level \in Levels /\ \A m \in DOMAIN c.modules : c.modules[m] \in Levels
  BY DEF Config
<1>2. S \in SUBSET Levels /\ S # {}
  BY <1>1
<1>3. Min(S) \in S /\ \A l \in S : Min(S) <= l
  <2> HIDE DEF S
  <2> QED
    BY <1>2, LeastLevel
<1>4. DOMAIN c.modules = {} => S = {c.level}
  OBVIOUS
<1> QED
  BY <1>1, <1>2, <1>3, <1>4 DEF Effective

\* Prefixes of one name are prefixes of each other when they are as long.
LEMMA PrefixesOfOneName ==
  ASSUME NEW m \in Seq(STRING), NEW n \in Seq(STRING), IsPrefix(m, n), Len(m) >= Len(n)
  PROVE  m = n
<1>1. Len(m) = Len(n) /\ SubSeq(m, 1, Len(m)) = SubSeq(n, 1, Len(m))
  BY DEF IsPrefix
<1>2. \A i \in 1..Len(m) : SubSeq(m, 1, Len(m))[i] = m[i] /\ SubSeq(n, 1, Len(m))[i] = n[i]
  BY <1>1
<1>3. \A i \in 1..Len(m) : m[i] = n[i]
  BY <1>1, <1>2
<1> QED
  BY <1>1, <1>3, SeqEqual

\* The sorted prefixes of _LevelFilter find the override that is declared.
LEMMA ThresholdDeclared ==
  ASSUME NEW c \in Config, NEW name \in Seq(STRING), NEW l \in Levels, Overrides(c, name, l)
  PROVE  Threshold(c, name) = l
<1>1. \A m \in DOMAIN c.modules : m \in Seq(STRING) /\ Len(m) \in Nat
  <2>1. DOMAIN c.modules \subseteq Modules
    BY DEF Config
  <2> QED
    BY <2>1, EnvsAssumption
<1>2. CASE \A n \in DOMAIN c.modules : ~IsPrefix(n, name)
  <2>1. OverridesOf(c, name) = {}
    BY <1>2 DEF OverridesOf
  <2> QED
    BY <1>2, <2>1 DEF Threshold, Overrides
<1>3. ASSUME NEW m \in DOMAIN c.modules, IsPrefix(m, name), c.modules[m] = l,
             \A n \in DOMAIN c.modules : IsPrefix(n, name) => IsPrefix(n, m)
      PROVE  Threshold(c, name) = l
  <2> DEFINE longest == CHOOSE k \in OverridesOf(c, name) :
                          \A n \in OverridesOf(c, name) : Len(k) >= Len(n)
  <2>1. m \in OverridesOf(c, name)
    BY <1>3 DEF OverridesOf
  <2>2. \A n \in OverridesOf(c, name) : Len(m) >= Len(n)
    BY <1>1, <1>3 DEF OverridesOf, IsPrefix
  <2>3. longest \in OverridesOf(c, name) /\ Len(longest) >= Len(m)
    BY <2>1, <2>2
  <2> HIDE DEF longest
  <2>4. longest \in DOMAIN c.modules /\ IsPrefix(longest, m)
    BY <1>3, <2>3 DEF OverridesOf
  <2>5. longest = m
    BY <1>1, <2>3, <2>4, PrefixesOfOneName
  <2>6. Threshold(c, name) = c.modules[longest]
    BY <2>1 DEF Threshold, longest
  <2> QED
    BY <1>3, <2>5, <2>6
<1> QED
  BY <1>2, <1>3 DEF Overrides

\* What comes out of the chain is named and has the keys its configuration asks for.
LEMMA EmittedConformsInv ==
  ASSUME LogInv
  PROVE  EmittedConforms
<1> SUFFICES ASSUME last # None, last.out = "emitted"
             PROVE  /\ last.chain.strict \/ last.chain.names =>
                         last.event.name \in Valid /\ "event" \in last.keys
                    /\ last.chain.required \subseteq last.keys
  BY DEF EmittedConforms
<1>1. PICK keep \in BOOLEAN :
        last.out = Outcome(last.chain, last.root, last.event, last.keys, keep)
  BY DEF LogInv, CallExplained
<1>2. Conforms(last.chain, Name(last.event, last.keys), last.keys)
  BY <1>1 DEF Outcome
<1> QED
  BY <1>2, NamesAssumption DEF Conforms, NamePasses, StrictNames, Name

\* The level filter, behind the bound logger, decides by the declared override, and
\* the root logger after it.
LEMMA ThresholdsHeldInv ==
  ASSUME LogInv
  PROVE  ThresholdsHeld
<1> DEFINE c == last.chain
           e == last.event
           name == LoggerName(e, last.keys)
<1> SUFFICES ASSUME last # None, NEW l \in Levels, Overrides(c, name, l)
             PROVE  /\ last.out = "emitted"  => AsDebug(e.level) >= l /\ AsDebug(e.level) >= last.root
                    /\ last.out = "filtered" => e.level < l \/ AsDebug(e.level) < last.root
  BY DEF ThresholdsHeld
<1>1. PICK keep \in BOOLEAN : last.out = Outcome(c, last.root, e, last.keys, keep)
  BY DEF LogInv, CallExplained
<1>2. /\ c \in Config /\ e.level \in Levels /\ last.root \in Levels
      /\ e.logger \in Seq(STRING) /\ e.logger_name \in Seq(STRING)
  <2>1. e \in Events /\ c \in Config /\ last.root \in Levels
    BY DEF LogInv, LogTypeOK
  <2> QED
    BY <2>1, EventsAssumption
<1>3. Threshold(c, name) = l
  <2>1. name \in Seq(STRING)
    <3>1. name = e.logger_name \/ name = e.logger \/ name = <<>>
      BY DEF LoggerName
    <3>2. <<>> \in Seq(STRING)
      OBVIOUS
    <3> HIDE DEF name, e
    <3> QED
      BY <1>2, <3>1, <3>2
  <2> HIDE DEF name, c
  <2> QED
    BY <1>2, <2>1, ThresholdDeclared
<1>4. /\ c.level \in Levels /\ \A m \in DOMAIN c.modules : c.modules[m] \in Levels
      /\ Effective(c) \in Levels
      /\ Effective(c) <= c.level /\ \A m \in DOMAIN c.modules : Effective(c) <= c.modules[m]
      /\ DOMAIN c.modules = {} => Effective(c) = c.level
  BY <1>2, EffectiveLeast
<1>5. Effective(c) <= l /\ (DOMAIN c.modules = {} => l = c.level)
  BY <1>4 DEF Overrides
<1>6. AsDebug(e.level) >= e.level /\ AsDebug(e.level) \in Levels /\ EventLevel(e) = AsDebug(e.level)
  BY <1>2 DEF EventLevel, AsDebug, Levels, Trace, Debug, Info, Warning
<1>7. /\ e.level \in Int /\ l \in Int /\ AsDebug(e.level) \in Int /\ Effective(c) \in Int
      /\ last.root \in Int
  BY <1>2, <1>4, <1>6 DEF Levels, Trace, Debug, Info, Warning
<1>8. Drops(c, e, last.keys) <=> DOMAIN c.modules # {} /\ AsDebug(e.level) < l
  BY <1>3, <1>6 DEF Drops
<1> HIDE DEF c, e, name
<1>9. ASSUME last.out = "emitted" PROVE AsDebug(e.level) >= l /\ AsDebug(e.level) >= last.root
  <2>1. Called(c, e.level) /\ ~Drops(c, e, last.keys) /\ ~(EventLevel(e) < last.root)
    BY <1>1, <1>9 DEF Outcome
  <2>2. CASE DOMAIN c.modules = {}
    BY <1>4, <1>5, <1>6, <1>7, <2>1, <2>2 DEF Called
  <2>3. CASE DOMAIN c.modules # {}
    BY <1>6, <1>7, <1>8, <2>1, <2>3
  <2> QED
    BY <2>2, <2>3
<1>10. ASSUME last.out = "filtered" PROVE e.level < l \/ AsDebug(e.level) < last.root
  <2>1. ~Called(c, e.level) \/ Drops(c, e, last.keys) \/ EventLevel(e) < last.root
    BY <1>1, <1>10 DEF Outcome
  <2>2. CASE ~Called(c, e.level)
    BY <1>5, <1>7, <2>2 DEF Called
  <2>3. CASE Drops(c, e, last.keys)
    BY <1>6, <1>7, <1>8, <2>3
  <2>4. CASE EventLevel(e) < last.root
    BY <1>6, <2>4
  <2> QED
    BY <2>1, <2>2, <2>3, <2>4
<1> QED
  BY <1>9, <1>10 DEF c, e

\* What became of a log call is what the configuration it went by says, and the
\* level of the latest: emitted events conform to the schema, and the longest
\* override of the name that the event carries decides together with the level of
\* the root logger (processors.py, logger/core.py).
THEOREM OutcomesConfigured == LogSpec => []OutcomeAsConfigured
<1>1. LogInv => OutcomeAsConfigured
  BY EmittedConformsInv, ThresholdsHeldInv DEF OutcomeAsConfigured
<1> QED
  BY <1>1, LogInvariant, PTL
-----------------------------------------------------------------------------
(***************************************************************************)
(* Pii: the inductive invariant.  ReadableAsDeclared speaks of the result  *)
(* alone; a step of a call needs what the rules applied so far have done   *)
(* to each place.  No rule gives back what an earlier one took; and where  *)
(* a walk does not go any more, a truncation has made a text of what it    *)
(* would have gone through.                                                *)
(***************************************************************************)
TakenSoFar(place)   == \E i \in 1..next - 1 : Takes(used[i], place)
ChangedSoFar(place) == \E i \in 1..next - 1 : Changes(used[i], place)
HiddenSoFar(place)  == \E i \in 1..next - 1 : Hides(i, place)

\* No text is on the way to a place, so that walks get to it.
Open(place) == \A j \in 1..Len(place) - 1 : cleaned[Upto(place, j)] # Masked
Intact(place) ==
  place \in DOMAIN cleaned /\ cleaned[place] = payload[place] /\ Open(place)

\* What the rules applied so far have made of what is at a place.
LeftSoFar(p) ==
  p \in DOMAIN cleaned =>
    /\ cleaned[p] \in {payload[p], AsText(payload[p]), Masked}
    /\ \A j \in 1..Len(p) - 1 :
         cleaned[Upto(p, j)] = Masked => \E k \in 1..next - 1 : Truncated(k, p, j)
SparedSoFar(p) ==
  payload[p] \in Raw /\ ~TakenSoFar(p) =>
    p \in DOMAIN cleaned /\ cleaned[p] # Masked /\ Open(p)
GoneSoFar(p) ==
  payload[p] \in Raw /\ HiddenSoFar(p) /\ p \in DOMAIN cleaned => cleaned[p] = Masked

RulesSoFar ==
  \A p \in DOMAIN payload :
    /\ LeftSoFar(p)
    /\ Intact(p) <=> ~ChangedSoFar(p)
    /\ SparedSoFar(p)
    /\ GoneSoFar(p)

PiiInv ==
  /\ PiiTypeOK
  /\ phase = "busy" => RulesSoFar
  /\ ReadableAsDeclared
-----------------------------------------------------------------------------
\* A part of the way to a place is a place, and parts of parts are parts.
LEMMA WayTo ==
  ASSUME NEW p \in Place, NEW j \in 0..Len(p)
  PROVE  /\ Upto(p, j) \in Place /\ Len(Upto(p, j)) = j
         /\ \A i \in 1..j : Upto(p, j)[i] = p[i]
         /\ \A i \in 0..j : Upto(Upto(p, j), i) = Upto(p, i)
         /\ j = Len(p) => Upto(p, j) = p
         /\ j = 0 => Upto(p, j) = <<>>
<1>1. Upto(p, j) \in Place /\ Len(Upto(p, j)) = j /\ \A i \in 1..j : Upto(p, j)[i] = p[i]
  BY SMTT(20) DEF Upto, Place
<1>2. ASSUME NEW i \in 0..j PROVE Upto(Upto(p, j), i) = Upto(p, i)
  <2>1. Upto(Upto(p, j), i) \in Place /\ Upto(p, i) \in Place
    BY <1>1, SMTT(20) DEF Upto, Place
  <2>2. Len(Upto(Upto(p, j), i)) = i /\ Len(Upto(p, i)) = i
    BY <1>1, SMTT(20) DEF Upto, Place
  <2>3. ASSUME NEW k \in 1..i PROVE Upto(Upto(p, j), i)[k] = Upto(p, i)[k]
    BY <1>1, SMTT(20) DEF Upto, Place
  <2> QED
    BY <2>1, <2>2, <2>3, SeqEqual DEF Place
<1>3. j = Len(p) => Upto(p, j) = p
  BY <1>1, SeqEqual DEF Place
<1>4. j = 0 => Upto(p, j) = <<>>
  BY <1>1, EmptySeq DEF Place
<1> QED
  BY <1>1, <1>2, <1>3, <1>4

\* A prefix is a part of the way.
LEMMA PrefixWay ==
  ASSUME NEW p \in Place, NEW q \in Place
  PROVE  IsPrefix(q, p) <=> Len(q) <= Len(p) /\ Upto(p, Len(q)) = q
<1>1. Len(q) \in Nat /\ Len(q) \in 0..Len(q)
  BY DEF Place
<1>2. Upto(q, Len(q)) = q
  BY <1>1, WayTo
<1> QED
  BY <1>2 DEF IsPrefix, Upto

\* The parts of the way to a place of a tree are in the tree, and are
\* containers or texts.
LEMMA WayInTree ==
  ASSUME NEW T, IsTree(T), NEW p \in DOMAIN T, NEW j \in 0..Len(p)
  PROVE  /\ Upto(p, j) \in DOMAIN T
         /\ j < Len(p) =>
              /\ T[Upto(p, j)] \in {Masked, IF p[j + 1] \in DictKeys THEN "dict" ELSE "list"}
              /\ T[p] = "secret" => T[Upto(p, j)] # Masked
<1>1. p \in Place
  BY DEF IsTree
<1>2. Len(p) \in Nat
  BY <1>1 DEF Place
<1>3. CASE j = Len(p)
  BY <1>1, <1>3, WayTo
<1>4. CASE j < Len(p)
  <2>1. j + 1 \in 1..Len(p) /\ (j + 1) - 1 = j
    BY <1>2, <1>4
  <2> QED
    BY <2>1 DEF IsTree
<1> QED
  BY <1>2, <1>3, <1>4

LEMMA PayloadTree ==
  ASSUME NEW T \in Payloads \cup {Empty}
  PROVE  IsTree(T) /\ \A p \in DOMAIN T : T[p] \notin {Masked, "digits"}
<1>1. IsTree(Empty) /\ \A p \in DOMAIN Empty : Empty[p] \notin {Masked, "digits"}
  BY DEF IsTree, Empty, Place, Nodes, Masked, Raw, Brief
<1> QED
  BY <1>1, PayloadsAssumption

\* A rule is for values at one level.
LEMMA OneLevel ==
  ASSUME NEW r, NEW p \in Place, NEW i \in 1..Len(p), NEW j \in 1..Len(p),
         For(r, Upto(p, i)), For(r, Upto(p, j))
  PROVE  i = j
<1>1. i \in 0..Len(p) /\ j \in 0..Len(p)
  OBVIOUS
<1>2. Len(Upto(p, i)) = i /\ Len(Upto(p, j)) = j
  BY <1>1, WayTo
<1> QED
  BY <1>2 DEF For, Matches

\* A walk that gets to a part of the way has no text before it.
LEMMA HitsOnTheWay ==
  ASSUME NEW r, NEW T, NEW p \in Place, NEW j \in 1..Len(p)
  PROVE  Hits(r, T, Upto(p, j)) <=>
           For(r, Upto(p, j)) /\ \A l \in 1..j - 1 : T[Upto(p, l)] # Masked
<1>1. j \in 0..Len(p) /\ \A l \in 1..j - 1 : l \in 0..j
  OBVIOUS
<1>2. Len(Upto(p, j)) = j /\ \A l \in 1..j - 1 : Upto(Upto(p, j), l) = Upto(p, l)
  BY <1>1, WayTo
<1> QED
  BY <1>2 DEF Hits

LEMMA HitsSelf ==
  ASSUME NEW r, NEW T, NEW p \in Place
  PROVE  /\ Hits(r, T, p) => Len(p) \in 1..Len(p)
         /\ Upto(p, Len(p)) = p
<1>1. Len(p) \in Nat /\ Len(p) \in 0..Len(p)
  BY DEF Place
<1> QED
  BY <1>1, WayTo DEF Hits, For

\* Told values are leaves that are brief.
LEMMA ToldLeaves ==
  ASSUME NEW r, NEW T, IsTree(T), NEW told \in SUBSET Tellable(r, T),
         NEW p \in DOMAIN T, NEW q \in told, IsPrefix(p, q)
  PROVE  /\ r.mode = "truncate"
         /\ q \in DOMAIN T /\ T[q] \in Brief \cup {"digits"}
         /\ p # q => T[p] \in {Masked, "dict", "list"}
<1>1. r.mode = "truncate" /\ q \in DOMAIN T /\ T[q] \in Brief \cup {"digits"}
  BY DEF Tellable, Tells
<1>2. p \in Place /\ q \in Place /\ Len(p) \in Nat /\ Len(q) \in Nat
  BY <1>1 DEF IsTree, Place
<1>3. Len(p) <= Len(q) /\ Upto(q, Len(p)) = p
  BY <1>2, PrefixWay
<1>4. Len(p) \in 0..Len(q) /\ Len(q) \in 0..Len(q)
  BY <1>2, <1>3
<1>5. Len(p) = Len(q) => p = q
  BY <1>2, <1>3, <1>4, WayTo
<1>6. Len(p) < Len(q) => T[p] \in {Masked, "dict", "list"}
  BY <1>1, <1>3, <1>4, WayInTree
<1> QED
  BY <1>1, <1>2, <1>3, <1>5, <1>6

\* A rule leaves places as they were or masks them, and what it leaves is a
\* tree: what is above a place that stays was not for the rule, or tells it.
LEMMA ApplyRuleEffect ==
  ASSUME NEW r \in Rules, NEW T, IsTree(T), NEW told \in SUBSET Tellable(r, T)
  PROVE  LET N == ApplyRule(r, T, told) IN
         /\ IsTree(N) /\ DOMAIN N \subseteq DOMAIN T
         /\ \A p \in DOMAIN N : N[p] = IF Hits(r, T, p) THEN Mask(r.mode, T[p]) ELSE T[p]
<1> DEFINE N == ApplyRule(r, T, told)
           Stays(p) == \A j \in 1..Len(p) :
                         Hits(r, T, Upto(p, j)) =>
                           r.mode # "drop" /\ (j = Len(p) \/ \E q \in told : IsPrefix(p, q))
<1>1. DOMAIN N = {p \in DOMAIN T : Stays(p)}
  BY DEF ApplyRule
<1>2. \A p \in DOMAIN N : N[p] = IF Hits(r, T, p) THEN Mask(r.mode, T[p]) ELSE T[p]
  BY DEF ApplyRule
<1> HIDE DEF N
<1>3. <<>> \in DOMAIN N /\ N[<<>>] = "dict"
  <2>1. <<>> \in DOMAIN T /\ T[<<>>] = "dict"
    BY DEF IsTree
  <2>2. Stays(<<>>) /\ ~Hits(r, T, <<>>)
    BY DEF Hits, For
  <2> QED
    BY <1>1, <1>2, <2>1, <2>2
<1>4. ASSUME NEW p \in DOMAIN N, NEW j \in 1..Len(p)
      PROVE  /\ Upto(p, j - 1) \in DOMAIN N
             /\ N[Upto(p, j - 1)] \in {Masked, IF p[j] \in DictKeys THEN "dict" ELSE "list"}
             /\ N[p] = "secret" => N[Upto(p, j - 1)] # Masked
  <2> DEFINE q == Upto(p, j - 1)
  <2>1. p \in DOMAIN T /\ p \in Place /\ Stays(p) /\ Len(p) \in Nat
    <3>1. p \in DOMAIN T /\ Stays(p)
      BY <1>1
    <3>2. p \in Place
      BY <3>1 DEF IsTree
    <3> QED
      BY <3>1, <3>2 DEF Place
  <2>2. j - 1 \in 0..Len(p) /\ j - 1 < Len(p) /\ (j - 1) + 1 = j
    BY <2>1
  <2>3. /\ q \in DOMAIN T /\ q \in Place
        /\ T[q] \in {Masked, IF p[j] \in DictKeys THEN "dict" ELSE "list"}
        /\ T[p] = "secret" => T[q] # Masked
    BY <2>1, <2>2, WayInTree DEF IsTree
  <2>4. Len(q) = j - 1 /\ \A i \in 0..j - 1 : Upto(q, i) = Upto(p, i)
    BY <2>1, <2>2, WayTo
  <2>5. ASSUME NEW i \in 1..Len(q), Hits(r, T, Upto(q, i))
        PROVE  \E t \in told : IsPrefix(p, t) /\ IsPrefix(q, t)
    <3>1. i \in 1..Len(p) /\ i # Len(p) /\ Upto(q, i) = Upto(p, i)
      BY <2>1, <2>2, <2>4
    <3>2. PICK t \in told : IsPrefix(p, t)
      BY <2>1, <2>5, <3>1
    <3>3. t \in Place /\ Len(t) \in Nat /\ Len(p) <= Len(t) /\ Upto(t, Len(p)) = p
      <4>1. t \in Place
        BY <3>2 DEF Tellable, IsTree
      <4> QED
        BY <2>1, <3>2, <4>1, PrefixWay DEF Place
    <3>4. Len(p) \in 0..Len(t) /\ j - 1 \in 0..Len(p) /\ Len(q) <= Len(t)
      BY <2>1, <2>2, <2>4, <3>3
    <3>5. Upto(t, j - 1) = q
      BY <3>3, <3>4, WayTo
    <3> QED
      BY <2>3, <2>4, <3>2, <3>3, <3>4, <3>5, PrefixWay
  <2>6. r.mode # "drop" \/ \A i \in 1..Len(q) : ~Hits(r, T, Upto(q, i))
    <3> SUFFICES ASSUME NEW i \in 1..Len(q), Hits(r, T, Upto(q, i)) PROVE r.mode # "drop"
      OBVIOUS
    <3>1. i \in 1..Len(p) /\ Upto(q, i) = Upto(p, i)
      BY <2>1, <2>2, <2>4
    <3> QED
      BY <2>1, <3>1
  <2>7. q \in DOMAIN N
    BY <1>1, <2>3, <2>5, <2>6
  <2>8. T[q] \in {Masked, "dict", "list"} /\ Mask(r.mode, T[q]) = Masked
    BY <2>3 DEF Mask, Masked, Brief
  <2>9. N[q] \in {Masked, IF p[j] \in DictKeys THEN "dict" ELSE "list"}
    BY <1>2, <2>3, <2>7, <2>8
  <2>10. ASSUME N[p] = "secret" PROVE N[q] # Masked
    <3>1. T[p] = "secret" /\ T[q] # Masked
      BY <1>2, <2>3, <2>10 DEF Mask, Masked, Brief, AsText
    <3>2. ~Hits(r, T, q)
      <4> SUFFICES ASSUME Hits(r, T, q) PROVE FALSE
        OBVIOUS
      <4>1. Len(q) \in 1..Len(q) /\ Upto(q, Len(q)) = q
        BY <2>3, HitsSelf
      <4>2. PICK t \in told : IsPrefix(p, t)
        BY <2>5, <4>1
      <4>3. /\ T[t] \in Brief \cup {"digits"}
            /\ p # t => T[p] \in {Masked, "dict", "list"}
        BY <2>1, <4>2, ToldLeaves
      <4> QED
        BY <3>1, <4>3 DEF Brief, Masked
    <3> QED
      BY <1>2, <2>7, <3>1, <3>2
  <2> QED
    BY <2>7, <2>9, <2>10
<1>5. \A p \in DOMAIN N : N[p] \in Nodes
  BY <1>1, <1>2 DEF IsTree, Mask, Nodes, Raw, AsText
<1>6. IsTree(N)
  BY <1>1, <1>3, <1>4, <1>5 DEF IsTree
<1> QED
  BY <1>1, <1>2, <1>6 DEF N

\* What is cut from a tree below places that are masked leaves a tree.
LEMMA PrunedTree ==
  ASSUME NEW T, IsTree(T), NEW N, DOMAIN N \subseteq DOMAIN T,
         <<>> \in DOMAIN N, N[<<>>] = "dict",
         \A p \in DOMAIN N :
           /\ N[p] \in {T[p], Masked}
           /\ \A j \in 0..Len(p) - 1 : Upto(p, j) \in DOMAIN N /\ N[Upto(p, j)] = T[Upto(p, j)]
  PROVE  IsTree(N)
<1>1. ASSUME NEW p \in DOMAIN N, NEW j \in 1..Len(p)
      PROVE  /\ Upto(p, j - 1) \in DOMAIN N
             /\ N[Upto(p, j - 1)] \in {Masked, IF p[j] \in DictKeys THEN "dict" ELSE "list"}
             /\ N[p] = "secret" => N[Upto(p, j - 1)] # Masked
  <2>1. p \in DOMAIN T /\ Len(p) \in Nat
    BY DEF IsTree, Place
  <2>2. j - 1 \in 0..Len(p) - 1
    BY <2>1
  <2>3. N[p] = "secret" => T[p] = "secret"
    BY DEF Masked
  <2> QED
    BY <2>1, <2>2, <2>3 DEF IsTree
<1>2. \A p \in DOMAIN N : N[p] \in Nodes
  BY DEF IsTree, Nodes
<1> QED
  BY <1>1, <1>2 DEF IsTree

\* So does each of the two default redactions.
LEMMA RedactDefaultsTree ==
  ASSUME NEW T, IsTree(T), NEW original, NEW targets
  PROVE  /\ IsTree(RedactDefaults(T, original, targets))
         /\ DOMAIN RedactDefaults(T, original, targets) \subseteq DOMAIN T
<1> DEFINE N == RedactDefaults(T, original, targets)
           Redacted(p) == Redacts(T, original, targets, p)
<1>1. DOMAIN N = {p \in DOMAIN T : \A j \in 1..Len(p) - 1 : ~Redacted(Upto(p, j))}
  BY DEF RedactDefaults
<1>2. \A p \in DOMAIN N : N[p] = IF Redacted(p) THEN Masked ELSE T[p]
  BY DEF RedactDefaults
<1>3. ~Redacted(<<>>)
  BY DEF Redacts
<1>4. <<>> \in DOMAIN N /\ N[<<>>] = "dict"
  <2>1. <<>> \in DOMAIN T /\ T[<<>>] = "dict"
    BY DEF IsTree
  <2>2. 1..Len(<<>>) - 1 = {}
    OBVIOUS
  <2> QED
    BY <1>1, <1>2, <1>3, <2>1, <2>2
<1>5. ASSUME NEW p \in DOMAIN N, NEW j \in 0..Len(p) - 1
      PROVE  Upto(p, j) \in DOMAIN N /\ N[Upto(p, j)] = T[Upto(p, j)]
  <2> DEFINE q == Upto(p, j)
  <2>1. p \in DOMAIN T /\ p \in Place /\ Len(p) \in Nat
    BY <1>1 DEF IsTree, Place
  <2>2. j \in 0..Len(p)
    BY <2>1
  <2>3. q \in DOMAIN T
    BY <2>1, <2>2, WayInTree
  <2>4. Len(q) = j /\ \A i \in 0..j : Upto(q, i) = Upto(p, i)
    BY <2>1, <2>2, WayTo
  <2>5. \A i \in 1..j : ~Redacted(Upto(q, i))
    <3> SUFFICES ASSUME NEW i \in 1..j, Redacted(Upto(q, i)) PROVE FALSE
      OBVIOUS
    <3>1. i \in 1..Len(p) - 1 /\ Upto(q, i) = Upto(p, i)
      BY <2>1, <2>4
    <3> QED
      BY <1>1, <3>1
  <2>6. ~Redacted(q)
    <3>1. CASE j = 0
      <4>1. q = <<>>
        BY <2>1, <2>2, <3>1, WayTo
      <4> QED
        BY <1>3, <4>1
    <3>2. CASE j # 0
      <4>1. Upto(q, j) = q /\ j \in 1..j
        BY <2>4, <3>2
      <4> QED
        BY <2>5, <4>1
    <3> QED
      BY <3>1, <3>2
  <2>7. 1..Len(q) - 1 \subseteq 1..j
    BY <2>4
  <2> QED
    BY <1>1, <1>2, <2>3, <2>5, <2>6, <2>7
<1> HIDE DEF N
<1> QED
  BY <1>1, <1>2, <1>4, <1>5, PrunedTree DEF N

LEMMA RedactTopTree ==
  ASSUME NEW T, IsTree(T), NEW targets
  PROVE  /\ IsTree(RedactTop(T, targets))
         /\ DOMAIN RedactTop(T, targets) \subseteq DOMAIN T
<1> DEFINE N == RedactTop(T, targets)
           Tops == {key \in DictKeys : IsSensitive(key)} \ targets
<1>1. DOMAIN N = {p \in DOMAIN T : Len(p) > 1 => p[1] \notin Tops}
  BY DEF RedactTop
<1>2. \A p \in DOMAIN N : N[p] = IF Len(p) = 1 /\ p[1] \in Tops THEN Masked ELSE T[p]
  BY DEF RedactTop
<1>3. <<>> \in DOMAIN N /\ N[<<>>] = "dict"
  BY <1>1, <1>2 DEF IsTree
<1>4. ASSUME NEW p \in DOMAIN N, NEW j \in 0..Len(p) - 1
      PROVE  Upto(p, j) \in DOMAIN N /\ N[Upto(p, j)] = T[Upto(p, j)]
  <2>1. p \in DOMAIN T /\ p \in Place /\ Len(p) \in Nat
    BY <1>1 DEF IsTree, Place
  <2>2. j \in 0..Len(p) /\ j \in Nat
    BY <2>1
  <2>3. Upto(p, j) \in DOMAIN T
    BY <2>1, <2>2, WayInTree
  <2>4. Len(Upto(p, j)) = j /\ (j > 0 => Upto(p, j)[1] = p[1])
    BY <2>1, <2>2, WayTo
  <2>5. j > 0 => p[1] \notin Tops
    BY <1>1, <2>1
  <2> QED
    BY <1>1, <1>2, <2>2, <2>3, <2>4, <2>5
<1> HIDE DEF N
<1> QED
  BY <1>1, <1>2, <1>3, <1>4, PrunedTree DEF N

LEMMA DefaultedTree ==
  ASSUME PiiTypeOK
  PROVE  IsTree(Defaulted) /\ DOMAIN Defaulted \subseteq DOMAIN payload
<1>1. IsTree(cleaned) /\ DOMAIN cleaned \subseteq DOMAIN payload
  BY DEF PiiTypeOK
<1> QED
  BY <1>1, RedactDefaultsTree, RedactTopTree DEF Defaulted
-----------------------------------------------------------------------------
LEMMA PiiInitInv == PiiInit => PiiInv
<1> SUFFICES ASSUME PiiInit PROVE PiiInv
  OBVIOUS
<1> USE DEF PiiInit
<1>1. IsTree(Empty)
  BY PayloadTree
<1>2. <<>> \in Seq(Rules) /\ 1 \in 1..Len(<<>>) + 1 /\ rules \in Seq(Rules)
  BY RulesAssumption
<1>3. PiiTypeOK
  BY <1>1, <1>2 DEF PiiTypeOK
<1> QED
  BY <1>3 DEF PiiInv, ReadableAsDeclared

\* What is declared is about the call alone, not about the rules of the moment.
LEMMA DeclarationsKept ==
  ASSUME UNCHANGED <<lang, maxDepth, payload, used>>
  PROVE  /\ \A i, p : Takes(used[i], p)' <=> Takes(used[i], p)
         /\ \A i, p : Changes(used[i], p)' <=> Changes(used[i], p)
         /\ \A i, p : Hides(i, p)' <=> Hides(i, p)
         /\ \A i, p, j : Truncated(i, p, j)' <=> Truncated(i, p, j)
         /\ \A p : ByDefault(p)' <=> ByDefault(p)
<1>1. \A i, p : Takes(used[i], p)' <=> Takes(used[i], p)
  BY DEF Takes, Spares
<1>2. \A i, p : Changes(used[i], p)' <=> Changes(used[i], p)
  BY DEF Changes, Spares
<1>3. \A i, p, j : Truncated(i, p, j)' <=> Truncated(i, p, j)
  BY DEF Truncated
<1>4. \A i, p : Hides(i, p)' <=> Hides(i, p)
  BY <1>3 DEF Hides
<1>5. \A p : Untouched(p)' <=> Untouched(p)
  BY <1>2 DEF Untouched, Changed
<1>6. \A p : ByDefault(p)' <=> ByDefault(p)
  BY <1>5 DEF ByDefault, Targeted, Targeting, Steps
<1> QED
  BY <1>1, <1>2, <1>3, <1>4, <1>6

LEMMA DeclarationKept ==
  ASSUME ReadableAsDeclared, UNCHANGED <<lang, maxDepth, payload, used, cleaned, phase>>
  PROVE  ReadableAsDeclared'
<1>1. \A p : (Hidden(p)' <=> Hidden(p)) /\ (Taken(p)' <=> Taken(p))
  BY DeclarationsKept DEF Hidden, Taken
<1>2. \A p : (ByDefault(p)' <=> ByDefault(p)) /\ (Readable(p)' <=> Readable(p))
  BY DeclarationsKept DEF Readable
<1> QED
  BY <1>1, <1>2 DEF ReadableAsDeclared

LEMMA RulesSoFarKept ==
  ASSUME RulesSoFar, UNCHANGED <<lang, maxDepth, payload, used, next, cleaned>>
  PROVE  RulesSoFar'
<1>1. \A p : /\ TakenSoFar(p)' <=> TakenSoFar(p)
             /\ ChangedSoFar(p)' <=> ChangedSoFar(p)
             /\ HiddenSoFar(p)' <=> HiddenSoFar(p)
  BY DeclarationsKept DEF TakenSoFar, ChangedSoFar, HiddenSoFar
<1>2. \A p : (Open(p)' <=> Open(p)) /\ (Intact(p)' <=> Intact(p))
  BY DEF Open, Intact
<1>3. \A p : LeftSoFar(p)' <=> LeftSoFar(p)
  BY DeclarationsKept DEF LeftSoFar
<1>4. \A p : (SparedSoFar(p)' <=> SparedSoFar(p)) /\ (GoneSoFar(p)' <=> GoneSoFar(p))
  BY <1>1, <1>2 DEF SparedSoFar, GoneSoFar
<1> QED
  BY <1>1, <1>2, <1>3, <1>4 DEF RulesSoFar

LEMMA RegisterInv == ASSUME PiiInv, NEW r \in NewRules, Register(r) PROVE PiiInv'
<1> USE DEF Register, PiiInv
<1>1. rules' \in Seq(Rules)
  BY RulesAssumption DEF PiiTypeOK
<1>2. PiiTypeOK'
  BY <1>1 DEF PiiTypeOK
<1> QED
  BY <1>2, DeclarationKept, RulesSoFarKept

LEMMA ReplaceInv == ASSUME PiiInv, NEW rs \in RuleLists, Replace(rs) PROVE PiiInv'
<1> USE DEF Replace, PiiInv
<1>1. PiiTypeOK'
  BY RulesAssumption DEF PiiTypeOK
<1> QED
  BY <1>1, DeclarationKept, RulesSoFarKept

LEMMA BeginInv == ASSUME PiiInv, NEW p \in Payloads, Begin(p) PROVE PiiInv'
<1> USE DEF Begin, PiiInv
<1>1. next' \in 1..Len(used') + 1
  BY DEF PiiTypeOK
<1>2. PiiTypeOK'
  BY <1>1, PayloadTree DEF PiiTypeOK
<1>3. RulesSoFar'
  <2>1. 1..next' - 1 = {} /\ cleaned' = payload' /\ payload' \in Payloads
    OBVIOUS
  <2>2. IsTree(payload') /\ \A q \in DOMAIN payload' : payload'[q] \notin {Masked, "digits"}
    BY <2>1, PayloadTree
  <2>3. \A q \in DOMAIN payload' : \A j \in 1..Len(q) - 1 : cleaned'[Upto(q, j)] # Masked
    <3> SUFFICES ASSUME NEW q \in DOMAIN payload', NEW j \in 1..Len(q) - 1
                 PROVE  cleaned'[Upto(q, j)] # Masked
      OBVIOUS
    <3>1. Len(q) \in Nat
      BY <2>2 DEF IsTree, Place
    <3>2. j \in 0..Len(q)
      BY <3>1
    <3>3. Upto(q, j) \in DOMAIN payload'
      BY <2>2, <3>2, WayInTree
    <3> QED
      BY <2>1, <2>2, <3>3
  <2>4. \A q \in DOMAIN payload' : LeftSoFar(q)'
    BY <2>1, <2>3 DEF LeftSoFar
  <2>5. \A q \in DOMAIN payload' : Intact(q)' /\ Open(q)'
    BY <2>1, <2>3 DEF Intact, Open
  <2>6. \A q \in DOMAIN payload' : ~ChangedSoFar(q)' /\ ~HiddenSoFar(q)'
    BY <2>1 DEF ChangedSoFar, HiddenSoFar
  <2> QED
    BY <2>1, <2>2, <2>4, <2>5, <2>6 DEF RulesSoFar, SparedSoFar, GoneSoFar
<1> QED
  BY <1>2, <1>3 DEF ReadableAsDeclared

\* What the next rule does to the places on the way to a place.
LEMMA RuleEffect ==
  ASSUME PiiInv, ApplyNext, NEW told \in SUBSET Tellable(used[next], cleaned),
         cleaned' = ApplyRule(used[next], cleaned, told), NEW p \in DOMAIN payload
  PROVE  LET r == used[next] IN
         /\ r \in Rules /\ IsTree(cleaned) /\ IsTree(payload) /\ RulesSoFar
         /\ p \in Place /\ Len(p) \in Nat /\ Upto(p, Len(p)) = p
         /\ payload[p] \notin {Masked, "digits"} /\ payload[p] \in Nodes
         /\ p \in DOMAIN cleaned' <=>
              /\ p \in DOMAIN cleaned
              /\ \A j \in 1..Len(p) :
                   Hits(r, cleaned, Upto(p, j)) =>
                     r.mode # "drop" /\ (j = Len(p) \/ \E q \in told : IsPrefix(p, q))
         /\ p \in DOMAIN cleaned' =>
              \A j \in 1..Len(p) :
                /\ Upto(p, j) \in DOMAIN cleaned /\ Upto(p, j) \in DOMAIN cleaned'
                /\ j < Len(p) => cleaned[Upto(p, j)] \in {Masked, "dict", "list"}
                /\ cleaned'[Upto(p, j)] =
                     IF Hits(r, cleaned, Upto(p, j)) THEN Mask(r.mode, cleaned[Upto(p, j)])
                                                    ELSE cleaned[Upto(p, j)]
<1> DEFINE r == used[next]
<1>1. r \in Rules /\ IsTree(cleaned) /\ RulesSoFar
  BY DEF ApplyNext, PiiInv, PiiTypeOK
<1>2. IsTree(payload) /\ payload[p] \notin {Masked, "digits"} /\ payload[p] \in Nodes
  <2>1. payload \in Payloads \cup {Empty}
    BY DEF PiiInv, PiiTypeOK
  <2> QED
    BY <2>1, PayloadTree DEF IsTree
<1>3. p \in Place /\ Len(p) \in Nat
  BY <1>2 DEF IsTree, Place
<1>4. Upto(p, Len(p)) = p
  BY <1>3, HitsSelf
<1> HIDE DEF r
<1>5. cleaned' = ApplyRule(r, cleaned, told)
  BY DEF r
<1>6. p \in DOMAIN cleaned' <=>
        /\ p \in DOMAIN cleaned
        /\ \A j \in 1..Len(p) :
             Hits(r, cleaned, Upto(p, j)) =>
               r.mode # "drop" /\ (j = Len(p) \/ \E q \in told : IsPrefix(p, q))
  BY <1>5 DEF ApplyRule
<1>7. /\ IsTree(cleaned') /\ DOMAIN cleaned' \subseteq DOMAIN cleaned
      /\ \A q \in DOMAIN cleaned' :
           cleaned'[q] = IF Hits(r, cleaned, q) THEN Mask(r.mode, cleaned[q]) ELSE cleaned[q]
  BY <1>1, <1>5, ApplyRuleEffect DEF r
<1>8. ASSUME p \in DOMAIN cleaned', NEW j \in 1..Len(p)
      PROVE  /\ Upto(p, j) \in DOMAIN cleaned /\ Upto(p, j) \in DOMAIN cleaned'
             /\ j < Len(p) => cleaned[Upto(p, j)] \in {Masked, "dict", "list"}
  <2>1. j \in 0..Len(p) /\ p \in DOMAIN cleaned
    BY <1>3, <1>7, <1>8
  <2>2. Upto(p, j) \in DOMAIN cleaned'
    BY <1>7, <1>8, <2>1, WayInTree
  <2>3. j < Len(p) => cleaned[Upto(p, j)] \in {Masked, "dict", "list"}
    BY <1>1, <2>1, WayInTree
  <2> QED
    BY <1>7, <2>2, <2>3
<1> QED
  BY <1>1, <1>2, <1>3, <1>4, <1>6, <1>7, <1>8 DEF r

\* Each part of what the rules applied so far have made of a place survives
\* the next rule.
LEMMA LeftStep ==
  ASSUME PiiInv, ApplyNext, NEW told \in SUBSET Tellable(used[next], cleaned),
         cleaned' = ApplyRule(used[next], cleaned, told), NEW p \in DOMAIN payload
  PROVE  p \in DOMAIN cleaned' =>
           /\ cleaned'[p] \in {payload[p], AsText(payload[p]), Masked}
           /\ \A j \in 1..Len(p) - 1 :
                cleaned'[Upto(p, j)] = Masked => \E k \in 1..next : Truncated(k, p, j)
<1> SUFFICES ASSUME p \in DOMAIN cleaned'
             PROVE  /\ cleaned'[p] \in {payload[p], AsText(payload[p]), Masked}
                    /\ \A j \in 1..Len(p) - 1 :
                         cleaned'[Upto(p, j)] = Masked => \E k \in 1..next : Truncated(k, p, j)
  OBVIOUS
<1> DEFINE r == used[next]
<1>1. /\ RulesSoFar /\ p \in DOMAIN cleaned /\ next \in Nat /\ next >= 1
      /\ cleaned[p] \in {payload[p], AsText(payload[p]), Masked}
  BY RuleEffect DEF RulesSoFar, LeftSoFar, PiiInv, PiiTypeOK
<1>2. cleaned'[p] = IF Hits(r, cleaned, p) THEN Mask(r.mode, cleaned[p]) ELSE cleaned[p]
  <2>1. p \in Place /\ Upto(p, Len(p)) = p /\ Len(p) \in Nat
    BY RuleEffect
  <2>2. CASE Len(p) \in 1..Len(p)
    BY <2>1, <2>2, RuleEffect
  <2>3. CASE Len(p) \notin 1..Len(p)
    <3>1. ~Hits(r, cleaned, p) /\ p = <<>>
      BY <2>1, <2>3, HitsSelf, EmptySeq DEF Place
    <3>2. cleaned'[<<>>] = "dict" /\ cleaned[<<>>] = "dict"
      <4>1. IsTree(cleaned) /\ IsTree(cleaned')
        BY RuleEffect, ApplyRuleEffect
      <4> QED
        BY <4>1 DEF IsTree
    <3> QED
      BY <3>1, <3>2
  <2> QED
    BY <2>2, <2>3
<1>3. cleaned'[p] \in {payload[p], AsText(payload[p]), Masked}
  <2>1. Mask(r.mode, cleaned[p]) \in {AsText(cleaned[p]), Masked}
    BY DEF Mask
  <2>2. AsText(AsText(payload[p])) = AsText(payload[p]) /\ AsText(Masked) = Masked
    BY DEF AsText, Masked
  <2> QED
    BY <1>1, <1>2, <2>1, <2>2
<1>4. ASSUME NEW j \in 1..Len(p) - 1, cleaned'[Upto(p, j)] = Masked
      PROVE  \E k \in 1..next : Truncated(k, p, j)
  <2>1. j \in 1..Len(p) /\ j # Len(p) /\ j < Len(p)
    BY RuleEffect
  <2>2. CASE cleaned[Upto(p, j)] = Masked
    <3>1. PICK k \in 1..next - 1 : Truncated(k, p, j)
      BY <1>1, <1>4, <2>2 DEF RulesSoFar, LeftSoFar
    <3> QED
      BY <1>1, <3>1
  <2>3. CASE cleaned[Upto(p, j)] # Masked
    <3>1. Hits(r, cleaned, Upto(p, j))
      BY <1>4, <2>1, <2>3, RuleEffect
    <3>2. PICK q \in told : IsPrefix(p, q)
      BY <2>1, <3>1, RuleEffect
    <3>3. r.mode = "truncate"
      BY <3>2 DEF Tellable
    <3>4. Truncated(next, p, j)
      BY <3>1, <3>3 DEF Truncated, Hits
    <3> QED
      BY <1>1, <3>4
  <2> QED
    BY <2>2, <2>3
<1> QED
  BY <1>3, <1>4

\* Without a rule that is for a value on the way, nothing on the way changes.
LEMMA NotForIt ==
  ASSUME PiiInv, ApplyNext, NEW told \in SUBSET Tellable(used[next], cleaned),
         cleaned' = ApplyRule(used[next], cleaned, told), NEW p \in DOMAIN payload,
         p \in DOMAIN cleaned, Open(p),
         \A j \in 1..Len(p) - 1 : ~For(used[next], Upto(p, j)),
         For(used[next], p) => used[next].mode # "drop"
  PROVE  /\ p \in DOMAIN cleaned' /\ Open(p)'
         /\ cleaned'[p] = IF For(used[next], p) THEN Mask(used[next].mode, cleaned[p]) ELSE cleaned[p]
<1> DEFINE r == used[next]
<1>1. p \in Place /\ Len(p) \in Nat /\ Upto(p, Len(p)) = p
  BY RuleEffect
<1>2. \A j \in 1..Len(p) - 1 : ~Hits(r, cleaned, Upto(p, j))
  BY DEF Hits
<1>3. Hits(r, cleaned, p) <=> For(r, p)
  BY DEF Hits, Open
<1>4. \A j \in 1..Len(p) : j = Len(p) \/ j \in 1..Len(p) - 1
  BY <1>1
<1>5. p \in DOMAIN cleaned'
  BY <1>1, <1>2, <1>3, <1>4, RuleEffect
<1>6. Open(p)'
  <2> SUFFICES ASSUME NEW j \in 1..Len(p) - 1 PROVE cleaned'[Upto(p, j)] # Masked
    BY DEF Open
  <2>1. j \in 1..Len(p)
    BY <1>1
  <2>2. cleaned'[Upto(p, j)] = cleaned[Upto(p, j)]
    BY <1>2, <1>5, <2>1, RuleEffect
  <2> QED
    BY <2>2 DEF Open
<1>7. p \in DOMAIN cleaned' =>
        cleaned'[p] = IF Hits(r, cleaned, p) THEN Mask(r.mode, cleaned[p]) ELSE cleaned[p]
  <2>1. IsTree(cleaned)
    BY RuleEffect
  <2>2. used[next] \in Rules
    BY RuleEffect
  <2> QED
    BY <2>1, <2>2, ApplyRuleEffect
<1> QED
  BY <1>3, <1>5, <1>6, <1>7

LEMMA IntactStep ==
  ASSUME PiiInv, ApplyNext, NEW told \in SUBSET Tellable(used[next], cleaned),
         cleaned' = ApplyRule(used[next], cleaned, told), NEW p \in DOMAIN payload
  PROVE  Intact(p)' <=> Intact(p) /\ ~Changes(used[next], p)
<1> DEFINE r == used[next]
<1>1. /\ RulesSoFar /\ p \in Place /\ Len(p) \in Nat /\ Upto(p, Len(p)) = p
      /\ payload[p] \notin {Masked, "digits"} /\ UNCHANGED payload
  BY RuleEffect DEF ApplyNext
<1>2. Len(p) \in 1..Len(p) \/ ~For(r, p)
  BY <1>1 DEF For
<1>3. ASSUME Intact(p)' PROVE Intact(p) /\ ~Changes(r, p)
  <2>1. p \in DOMAIN cleaned' /\ cleaned'[p] = payload[p]
    BY <1>1, <1>3 DEF Intact
  <2>2. \A j \in 1..Len(p) - 1 : j \in 1..Len(p) /\ j < Len(p)
    BY <1>1
  <2>3. ASSUME NEW j \in 1..Len(p) - 1
        PROVE  cleaned[Upto(p, j)] # Masked /\ ~Hits(r, cleaned, Upto(p, j))
    <3>1. cleaned'[Upto(p, j)] # Masked
      BY <1>3 DEF Intact, Open
    <3>2. /\ cleaned[Upto(p, j)] \in {Masked, "dict", "list"}
          /\ cleaned'[Upto(p, j)] = IF Hits(r, cleaned, Upto(p, j))
                                    THEN Mask(r.mode, cleaned[Upto(p, j)])
                                    ELSE cleaned[Upto(p, j)]
      BY <2>1, <2>2, RuleEffect
    <3> QED
      BY <3>1, <3>2 DEF Mask, Brief, Masked
  <2>4. Open(p)
    BY <2>3 DEF Open
  <2>5. \A j \in 1..Len(p) - 1 : ~For(r, Upto(p, j))
    <3> SUFFICES ASSUME NEW j \in 1..Len(p) - 1, For(r, Upto(p, j)) PROVE FALSE
      OBVIOUS
    <3>1. j \in 1..Len(p) /\ \A l \in 1..j - 1 : l \in 1..Len(p) - 1
      BY <1>1
    <3>2. Hits(r, cleaned, Upto(p, j))
      BY <1>1, <2>4, <3>1, HitsOnTheWay DEF Open
    <3> QED
      BY <2>3, <3>2
  <2>6. p \in DOMAIN cleaned
    BY <2>1, RuleEffect
  <2>7. Hits(r, cleaned, p) <=> For(r, p)
    BY <2>4 DEF Hits, Open
  <2>8. For(r, p) => cleaned'[p] = Mask(r.mode, cleaned[p])
    BY <1>1, <1>2, <2>1, <2>7, RuleEffect
  <2>9. ~For(r, p) => cleaned[p] = payload[p]
    <3>1. IsTree(cleaned) /\ r \in Rules
      BY RuleEffect
    <3> QED
      BY <2>1, <2>7, <3>1, ApplyRuleEffect
  <2>10. cleaned[p] \in {payload[p], AsText(payload[p]), Masked}
    BY <1>1, <2>6 DEF RulesSoFar, LeftSoFar
  <2>11. For(r, p) => r.mode = "truncate" /\ payload[p] = "short" /\ cleaned[p] = payload[p]
    BY <1>1, <2>1, <2>8, <2>10 DEF Mask, Brief, AsText, Masked
  <2>12. ~Changes(r, p)
    <3> SUFFICES ASSUME NEW j \in 1..Len(p), For(r, Upto(p, j)),
                        ~(Spares(r, p, j) /\ payload[p] = "short")
                 PROVE  FALSE
      BY DEF Changes
    <3>1. j = Len(p)
      BY <1>1, <2>5
    <3> QED
      BY <1>1, <2>11, <3>1 DEF Spares, Brief
  <2> QED
    BY <2>4, <2>6, <2>9, <2>11, <2>12 DEF Intact
<1>4. ASSUME Intact(p), ~Changes(r, p) PROVE Intact(p)'
  <2>1. p \in DOMAIN cleaned /\ cleaned[p] = payload[p] /\ Open(p)
    BY <1>4 DEF Intact
  <2>2. \A j \in 1..Len(p) : For(r, Upto(p, j)) => Spares(r, p, j) /\ payload[p] = "short"
    BY <1>4 DEF Changes
  <2>3. \A j \in 1..Len(p) - 1 : ~For(r, Upto(p, j))
    BY <1>1, <2>2 DEF Spares
  <2>4. For(r, p) => r.mode = "truncate" /\ payload[p] = "short"
    BY <1>1, <1>2, <2>2 DEF Spares
  <2>5. p \in DOMAIN cleaned' /\ Open(p)'
    BY <2>1, <2>3, <2>4, NotForIt
  <2>6. cleaned'[p] = IF For(r, p) THEN Mask(r.mode, cleaned[p]) ELSE cleaned[p]
    BY <2>1, <2>3, <2>4, NotForIt
  <2>7. cleaned'[p] = payload[p]
    BY <2>1, <2>4, <2>6 DEF Mask, AsText, Brief
  <2> QED
    BY <1>1, <2>5, <2>7 DEF Intact
<1> QED
  BY <1>3, <1>4

LEMMA SparedStep ==
  ASSUME PiiInv, ApplyNext, NEW told \in SUBSET Tellable(used[next], cleaned),
         cleaned' = ApplyRule(used[next], cleaned, told), NEW p \in DOMAIN payload,
         payload[p] \in Raw, ~TakenSoFar(p), ~Takes(used[next], p)
  PROVE  p \in DOMAIN cleaned' /\ cleaned'[p] # Masked /\ Open(p)'
<1> DEFINE r == used[next]
<1>1. RulesSoFar /\ p \in Place /\ Len(p) \in Nat /\ Upto(p, Len(p)) = p
  BY RuleEffect
<1>2. /\ p \in DOMAIN cleaned /\ cleaned[p] # Masked /\ Open(p)
      /\ cleaned[p] \in {payload[p], AsText(payload[p]), Masked}
  BY <1>1 DEF RulesSoFar, SparedSoFar, LeftSoFar
<1>3. \A j \in 1..Len(p) : For(r, Upto(p, j)) => Spares(r, p, j)
  BY DEF Takes
<1>4. \A j \in 1..Len(p) - 1 : ~For(r, Upto(p, j))
  BY <1>1, <1>3 DEF Spares
<1>5. For(r, p) => r.mode = "truncate" /\ payload[p] \in Brief
  <2>1. For(r, p) => Len(p) \in 1..Len(p)
    BY <1>1 DEF For
  <2> QED
    BY <1>1, <1>3, <2>1 DEF Spares
<1>6. /\ p \in DOMAIN cleaned' /\ Open(p)'
      /\ cleaned'[p] = IF For(r, p) THEN Mask(r.mode, cleaned[p]) ELSE cleaned[p]
  BY <1>2, <1>4, <1>5, NotForIt
<1>7. For(r, p) => Mask(r.mode, cleaned[p]) # Masked
  BY <1>2, <1>5 DEF Mask, AsText, Brief, Masked
<1> QED
  BY <1>2, <1>6, <1>7

LEMMA GoneStep ==
  ASSUME PiiInv, ApplyNext, NEW told \in SUBSET Tellable(used[next], cleaned),
         cleaned' = ApplyRule(used[next], cleaned, told), NEW p \in DOMAIN payload,
         payload[p] \in Raw, HiddenSoFar(p) \/ Hides(next, p), p \in DOMAIN cleaned'
  PROVE  cleaned'[p] = Masked
<1> DEFINE r == used[next]
<1>1. /\ RulesSoFar /\ p \in Place /\ Len(p) \in Nat /\ Upto(p, Len(p)) = p
      /\ IsTree(cleaned) /\ p \in DOMAIN cleaned /\ r \in Rules
  BY RuleEffect
<1>2. cleaned'[p] = IF Hits(r, cleaned, p) THEN Mask(r.mode, cleaned[p]) ELSE cleaned[p]
  BY <1>1, ApplyRuleEffect
<1>3. Mask(r.mode, Masked) = Masked
  BY DEF Mask, Masked, Brief
<1>4. CASE cleaned[p] = Masked
  BY <1>2, <1>3, <1>4
<1>5. CASE cleaned[p] # Masked
  <2>1. cleaned[p] \in {payload[p], AsText(payload[p])}
    BY <1>1, <1>5 DEF RulesSoFar, LeftSoFar
  <2>2. cleaned[p] \in Raw \cup {"digits"} /\ (payload[p] = "secret" => cleaned[p] = "secret")
    BY <2>1 DEF AsText, Raw
  <2>3. Hides(next, p)
    BY <1>1, <1>5 DEF RulesSoFar, GoneSoFar
  <2>4. PICK j \in 1..Len(p) :
          /\ For(r, Upto(p, j))
          /\ \/ r.mode # "truncate"
             \/ payload[p] = "secret"
             \/ lang = "typescript" /\ \E l \in j + 1..Len(p) : p[l] \in DictKeys
          /\ \A k \in 1..next - 1, l \in 1..j - 1 : ~Truncated(k, p, l)
    BY <2>3 DEF Hides
  <2>5. \A l \in 1..j - 1 : l \in 1..Len(p) - 1
    BY <1>1
  <2>6. \A l \in 1..j - 1 : cleaned[Upto(p, l)] # Masked
    BY <1>1, <2>4, <2>5 DEF RulesSoFar, LeftSoFar
  <2>7. Hits(r, cleaned, Upto(p, j))
    BY <1>1, <2>4, <2>6, HitsOnTheWay
  <2>8. CASE j = Len(p)
    <3>1. cleaned'[p] = Mask(r.mode, cleaned[p])
      BY <1>1, <1>2, <2>7, <2>8
    <3>2. r.mode # "truncate" \/ payload[p] = "secret"
      BY <1>1, <2>4, <2>8
    <3> QED
      BY <2>2, <3>1, <3>2 DEF Mask, Brief
  <2>9. CASE j # Len(p)
    <3>1. PICK q \in told : IsPrefix(p, q)
      BY <2>7, <2>9, RuleEffect
    <3>2. /\ r.mode = "truncate" /\ q \in DOMAIN cleaned
          /\ p # q => cleaned[p] \in {Masked, "dict", "list"}
      BY <1>1, <3>1, ToldLeaves
    <3>3. p = q
      BY <2>2, <3>2 DEF Raw, Brief, Masked
    <3>4. PICK i \in 1..Len(p) - 1 : Hits(r, cleaned, Upto(p, i)) /\ Tells(cleaned, p, i)
      BY <3>1, <3>3 DEF Tellable
    <3>5. i \in 1..Len(p)
      BY <1>1
    <3>6. i = j
      BY <1>1, <2>4, <3>4, <3>5, OneLevel DEF Hits
    <3> QED
      BY <2>2, <2>4, <3>2, <3>4, <3>6 DEF Tells, Brief
  <2> QED
    BY <2>8, <2>9
<1> QED
  BY <1>4, <1>5

LEMMA ApplyNextInv == ASSUME PiiInv, ApplyNext PROVE PiiInv'
<1>0. PICK told \in SUBSET Tellable(used[next], cleaned) :
        cleaned' = ApplyRule(used[next], cleaned, told)
  BY DEF ApplyNext
<1>1. PiiTypeOK'
  <2>1. used[next] \in Rules /\ next' \in 1..Len(used) + 1
    BY DEF PiiInv, PiiTypeOK, ApplyNext
  <2>2. IsTree(cleaned') /\ DOMAIN cleaned' \subseteq DOMAIN payload
    BY <1>0, <2>1, ApplyRuleEffect DEF PiiInv, PiiTypeOK
  <2> QED
    BY <2>1, <2>2 DEF PiiInv, PiiTypeOK, ApplyNext
<1>2. RulesSoFar'
  <2>1. UNCHANGED <<lang, maxDepth, payload, used>> /\ next' - 1 = next /\ next \in 1..Len(used)
    BY DEF PiiInv, PiiTypeOK, ApplyNext
  <2>2. 1..next' - 1 = (1..next - 1) \cup {next}
    BY <2>1
  <2>3. \A p : /\ TakenSoFar(p)' <=> TakenSoFar(p) \/ Takes(used[next], p)
               /\ ChangedSoFar(p)' <=> ChangedSoFar(p) \/ Changes(used[next], p)
               /\ HiddenSoFar(p)' <=> HiddenSoFar(p) \/ Hides(next, p)
    BY <2>1, <2>2, DeclarationsKept DEF TakenSoFar, ChangedSoFar, HiddenSoFar
  <2>4. RulesSoFar
    BY DEF PiiInv, ApplyNext
  <2>5. ASSUME NEW p \in DOMAIN payload
        PROVE  LeftSoFar(p)' /\ (Intact(p)' <=> ~ChangedSoFar(p)') /\ SparedSoFar(p)' /\ GoneSoFar(p)'
    <3>1. LeftSoFar(p)'
      <4>1. \A k, j : Truncated(k, p, j)' <=> Truncated(k, p, j)
        BY <2>1, DeclarationsKept
      <4> QED
        BY <1>0, <2>1, <4>1, LeftStep DEF LeftSoFar
    <3>2. Intact(p)' <=> ~ChangedSoFar(p)'
      BY <1>0, <2>3, <2>4, IntactStep DEF RulesSoFar
    <3>3. SparedSoFar(p)'
      BY <1>0, <2>1, <2>3, SparedStep DEF SparedSoFar
    <3>4. GoneSoFar(p)'
      BY <1>0, <2>1, <2>3, GoneStep DEF GoneSoFar
    <3> QED
      BY <3>1, <3>2, <3>3, <3>4
  <2> QED
    BY <2>1, <2>5 DEF RulesSoFar
<1>3. phase' = "busy"
  BY DEF ApplyNext
<1> QED
  BY <1>1, <1>2, <1>3 DEF PiiInv, ReadableAsDeclared

LEMMA ReturnInv == ASSUME PiiInv, Return PROVE PiiInv'
<1> USE DEF Return, PiiInv
<1>1. <<>> \in Seq(Rules) /\ next' \in 1..Len(used') + 1
  OBVIOUS
<1>2. PiiTypeOK'
  BY <1>1, PayloadTree DEF PiiTypeOK
<1> QED
  BY <1>2 DEF ReadableAsDeclared
-----------------------------------------------------------------------------
(***************************************************************************)
(* The default redaction, when all rules have been applied.                *)
(***************************************************************************)
RulesDone == PiiTypeOK /\ RulesSoFar /\ next = Len(used) + 1

\* What the rules have made of what is at a place.
LEMMA LeftByRules ==
  ASSUME RulesDone, NEW p \in DOMAIN payload
  PROVE  /\ IsTree(payload) /\ IsTree(cleaned) /\ p \in Place /\ Len(p) \in Nat
         /\ payload[p] \notin {Masked, "digits"}
         /\ payload[p] \in Raw => Len(p) # 0
         /\ p \in DOMAIN cleaned => cleaned[p] \in {payload[p], AsText(payload[p]), Masked}
         /\ Intact(p) <=> ~Changed(p)
         /\ payload[p] \in Raw /\ ~Taken(p) =>
              p \in DOMAIN cleaned /\ cleaned[p] # Masked /\ Open(p)
         /\ payload[p] \in Raw /\ Hidden(p) /\ p \in DOMAIN cleaned => cleaned[p] = Masked
<1>1. 1..next - 1 = DOMAIN used
  BY DEF RulesDone, PiiTypeOK
<1>2. /\ TakenSoFar(p) <=> Taken(p)
      /\ ChangedSoFar(p) <=> Changed(p)
      /\ HiddenSoFar(p) <=> Hidden(p)
  BY <1>1 DEF TakenSoFar, Taken, ChangedSoFar, Changed, HiddenSoFar, Hidden
<1>3. IsTree(payload) /\ IsTree(cleaned) /\ payload[p] \notin {Masked, "digits"}
  BY PayloadTree DEF RulesDone, PiiTypeOK
<1>4. p \in Place /\ Len(p) \in Nat
  BY <1>3 DEF IsTree, Place
<1>5. payload[p] \in Raw => Len(p) # 0
  <2>1. payload[p] \in Raw => p # <<>>
    BY <1>3 DEF IsTree, Raw, Brief
  <2> QED
    BY <1>4, <2>1, EmptySeq DEF Place
<1>6. LeftSoFar(p) /\ (Intact(p) <=> ~ChangedSoFar(p)) /\ SparedSoFar(p) /\ GoneSoFar(p)
  BY DEF RulesDone, RulesSoFar
<1> QED
  BY <1>2, <1>3, <1>4, <1>5, <1>6 DEF LeftSoFar, SparedSoFar, GoneSoFar

\* A value that a walk gets to compares equal to the payload's where rules
\* changed nothing in it.
LEMMA SameIsUntouched ==
  ASSUME RulesDone, NEW q \in DOMAIN payload, Open(q)
  PROVE  Same(cleaned, payload, q) <=> Untouched(q)
<1>1. /\ DOMAIN cleaned \subseteq DOMAIN payload /\ IsTree(payload) /\ q \in Place /\ Len(q) \in Nat
      /\ \A p \in DOMAIN payload : payload[p] # Masked
  BY LeftByRules DEF RulesDone, PiiTypeOK
<1>2. ASSUME Same(cleaned, payload, q), NEW p \in DOMAIN payload, IsPrefix(q, p)
      PROVE  ~Changed(p)
  <2>1. p \in Place /\ Len(p) \in Nat
    BY LeftByRules
  <2>2. Len(q) <= Len(p) /\ Upto(p, Len(q)) = q
    BY <1>1, <1>2, <2>1, PrefixWay
  <2>3. Len(q) \in 0..Len(p)
    BY <1>1, <2>1, <2>2
  <2>4. ASSUME NEW j \in 1..Len(p) - 1 PROVE cleaned[Upto(p, j)] # Masked
    <3>1. j \in 0..Len(p) /\ j \in Nat
      BY <2>1
    <3>2. CASE j < Len(q)
      <4>1. j \in 1..Len(q) - 1 /\ j \in 0..Len(q)
        BY <1>1, <3>1, <3>2
      <4>2. Upto(q, j) = Upto(p, j)
        BY <2>1, <2>2, <2>3, <4>1, WayTo
      <4> QED
        BY <4>1, <4>2 DEF Open
    <3>3. CASE ~(j < Len(q))
      <4>1. Upto(p, j) \in DOMAIN payload /\ Upto(p, j) \in Place /\ Len(Upto(p, j)) = j
        BY <1>1, <2>1, <3>1, WayInTree, WayTo
      <4>2. Len(q) \in 0..j
        BY <1>1, <3>1, <3>3
      <4>3. Upto(Upto(p, j), Len(q)) = q
        BY <2>1, <2>2, <3>1, <4>2, WayTo
      <4>4. IsPrefix(q, Upto(p, j))
        BY <1>1, <4>1, <4>2, <4>3, PrefixWay
      <4> QED
        BY <1>1, <1>2, <4>1, <4>4 DEF Same
    <3> QED
      BY <3>2, <3>3
  <2>5. Intact(p)
    BY <1>2, <2>4 DEF Intact, Open, Same
  <2> QED
    BY <2>5, LeftByRules
<1>3. ASSUME Untouched(q) PROVE Same(cleaned, payload, q)
  <2>1. \A p \in DOMAIN payload : IsPrefix(q, p) => Intact(p)
    BY <1>3, LeftByRules DEF Untouched
  <2> QED
    BY <1>1, <2>1 DEF Same, Intact
<1> QED
  BY <1>2, <1>3 DEF Untouched

LEMMA TargetsOfRules ==
  ASSUME NEW key \in DictKeys PROVE key \in Targets(used) <=> Targeted(key)
BY DEF Targets, Targeted, ToSet

\* The redaction of a value on the way to a place, in terms of the rules.
LEMMA RedactsOnTheWay ==
  ASSUME RulesDone, NEW p \in DOMAIN payload, NEW j \in 1..Len(p)
  PROVE  Redacts(cleaned, payload, Targets(used), Upto(p, j)) <=>
           /\ j <= maxDepth /\ p[j] \in DictKeys
           /\ \A i \in 1..j - 1 : ~IsSensitive(p[i]) /\ cleaned[Upto(p, i)] # Masked
           /\ IF IsSensitive(p[j]) THEN ~Targeted(p[j]) /\ Untouched(Upto(p, j))
                                   ELSE cleaned[Upto(p, j)] = "secret"
<1> DEFINE q == Upto(p, j)
           Reaches == \A i \in 1..j - 1 : cleaned[Upto(p, i)] # Masked
<1>1. IsTree(payload) /\ p \in Place /\ Len(p) \in Nat /\ maxDepth \in Nat
  BY LeftByRules, DepthsAssumption DEF RulesDone, PiiTypeOK
<1>2. j \in 0..Len(p) /\ \A i \in 1..j - 1 : i \in 0..j
  BY <1>1
<1>3. /\ Len(q) = j /\ \A i \in 1..j : q[i] = p[i]
      /\ \A i \in 1..j - 1 : Upto(q, i) = Upto(p, i)
  BY <1>1, <1>2, WayTo
<1>4. q \in DOMAIN payload
  BY <1>1, <1>2, WayInTree
<1>5. Reaches => (Same(cleaned, payload, q) <=> Untouched(q))
  <2>1. Reaches => Open(q)
    BY <1>3 DEF Open
  <2> QED
    BY <1>4, <2>1, SameIsUntouched
<1>6. p[j] \in DictKeys => (p[j] \in Targets(used) <=> Targeted(p[j]))
  BY TargetsOfRules
<1>7. q[j] = p[j] /\ \A i \in 1..j - 1 : q[i] = p[i] /\ Upto(q, i) = Upto(p, i)
  BY <1>3
<1>8. j \in 1..maxDepth <=> j <= maxDepth
  BY <1>1
<1> HIDE DEF q
<1>9. (\A i \in 1..j - 1 : ~IsSensitive(q[i]) /\ cleaned[Upto(q, i)] # Masked)
        <=> (\A i \in 1..j - 1 : ~IsSensitive(p[i]) /\ cleaned[Upto(p, i)] # Masked)
  BY <1>7
<1>10. Redacts(cleaned, payload, Targets(used), q) <=>
         /\ j \in 1..maxDepth /\ p[j] \in DictKeys
         /\ \A i \in 1..j - 1 : ~IsSensitive(q[i]) /\ cleaned[Upto(q, i)] # Masked
         /\ IF IsSensitive(p[j]) THEN p[j] \notin Targets(used) /\ Same(cleaned, payload, q)
                                 ELSE cleaned[q] = "secret"
  BY <1>3, <1>7 DEF Redacts
<1> QED
  BY <1>5, <1>6, <1>8, <1>9, <1>10 DEF q

\* Python: the walk of the defaults hides a place that the rules left readable
\* only if it is declared to,
LEMMA RedactedByDefault ==
  ASSUME RulesDone, NEW p \in DOMAIN payload, payload[p] \in Raw, lang = "python",
         p \in DOMAIN cleaned, cleaned[p] # Masked,
         NEW j \in 1..Len(p), Redacts(cleaned, payload, Targets(used), Upto(p, j))
  PROVE  ByDefault(p)
<1>1. IsTree(cleaned) /\ p \in Place /\ Len(p) \in Nat
  BY LeftByRules
<1>2. /\ j <= maxDepth /\ p[j] \in DictKeys
      /\ \A i \in 1..j - 1 : ~IsSensitive(p[i])
      /\ IF IsSensitive(p[j]) THEN ~Targeted(p[j]) /\ Untouched(Upto(p, j))
                              ELSE cleaned[Upto(p, j)] = "secret"
  BY RedactsOnTheWay
<1>3. CASE IsSensitive(p[j])
  <2>1. j \in Steps(p) /\ \A i \in Steps(p) : j <= i
    BY <1>1, <1>2, <1>3 DEF Steps
  <2> QED
    BY <1>2, <1>3, <2>1 DEF ByDefault
<1>4. CASE ~IsSensitive(p[j])
  <2>1. j = Len(p)
    <3> SUFFICES ASSUME j < Len(p) PROVE FALSE
      BY <1>1
    <3>1. j \in 0..Len(p)
      BY <1>1
    <3>2. cleaned[Upto(p, j)] \in {Masked, "dict", "list"}
      BY <1>1, <3>1, WayInTree
    <3> QED
      BY <1>2, <1>4, <3>2 DEF Masked
  <2>2. Upto(p, Len(p)) = p
    BY <1>1, HitsSelf
  <2>3. payload[p] = "secret"
    BY <1>2, <1>4, <2>1, <2>2, LeftByRules DEF AsText, Raw, Brief, Masked
  <2>4. Steps(p) = {}
    BY <1>1, <1>2, <1>4, <2>1 DEF Steps
  <2> QED
    BY <1>2, <2>1, <2>3, <2>4 DEF ByDefault
<1> QED
  BY <1>3, <1>4

\* and then it does.
LEMMA DeclaredIsRedacted ==
  ASSUME RulesDone, NEW p \in DOMAIN payload, payload[p] \in Raw, lang = "python",
         p \in DOMAIN cleaned, cleaned[p] # Masked, ByDefault(p)
  PROVE  \E j \in 1..Len(p) : Redacts(cleaned, payload, Targets(used), Upto(p, j))
<1>1. IsTree(cleaned) /\ p \in Place /\ Len(p) \in Nat /\ Len(p) # 0
  BY LeftByRules
<1>2. Intact(p)
  <2>1. ByDefault(p) =>
          \/ \E j \in Steps(p) : Untouched(Upto(p, j))
          \/ payload[p] = "secret"
    BY DEF ByDefault
  <2>2. CASE \E j \in Steps(p) : Untouched(Upto(p, j))
    <3>1. PICK j \in 1..Len(p) : Untouched(Upto(p, j))
      BY <2>2 DEF Steps
    <3>2. j \in 0..Len(p)
      BY <1>1
    <3>3. Upto(p, j) \in Place /\ Len(Upto(p, j)) = j /\ j <= Len(p)
      BY <1>1, <3>2, WayTo
    <3>4. IsPrefix(Upto(p, j), p)
      BY <1>1, <3>3, PrefixWay
    <3> QED
      BY <3>1, <3>4, LeftByRules DEF Untouched
  <2>3. CASE payload[p] = "secret"
    <3>1. cleaned[p] = "secret"
      BY <2>3, LeftByRules DEF AsText
    <3>2. \A j \in 1..Len(p) - 1 : j \in 0..Len(p) /\ j < Len(p)
      BY <1>1
    <3>3. Open(p)
      BY <1>1, <3>1, <3>2, WayInTree DEF Open
    <3> QED
      BY <2>3, <3>1, <3>3 DEF Intact
  <2> QED
    BY <2>1, <2>2, <2>3
<1>3. CASE \E j \in Steps(p) :
             /\ j <= maxDepth /\ \A i \in Steps(p) : j <= i
             /\ ~Targeted(p[j]) /\ Untouched(Upto(p, j))
  <2>1. PICK j \in Steps(p) :
          /\ j <= maxDepth /\ \A i \in Steps(p) : j <= i
          /\ ~Targeted(p[j]) /\ Untouched(Upto(p, j))
    BY <1>3
  <2>2. j \in 1..Len(p) /\ IsSensitive(p[j]) /\ p[j] \in DictKeys
    BY DEF Steps, IsSensitive
  <2>3. \A i \in 1..j - 1 : ~IsSensitive(p[i])
    BY <1>1, <2>1, <2>2 DEF Steps
  <2>4. \A i \in 1..j - 1 : cleaned[Upto(p, i)] # Masked
    <3>1. \A i \in 1..j - 1 : i \in 1..Len(p) - 1
      BY <1>1, <2>2
    <3> QED
      BY <1>2, <3>1 DEF Intact, Open
  <2> QED
    BY <2>1, <2>2, <2>3, <2>4, RedactsOnTheWay
<1>4. CASE /\ Steps(p) = {} /\ Len(p) <= maxDepth
           /\ p[Len(p)] \in DictKeys /\ payload[p] = "secret"
  <2>1. \A i \in 1..Len(p) : ~IsSensitive(p[i])
    BY <1>4 DEF Steps
  <2>2. \A i \in 1..Len(p) - 1 : ~IsSensitive(p[i]) /\ cleaned[Upto(p, i)] # Masked
    BY <1>1, <1>2, <2>1 DEF Intact, Open
  <2>3. Len(p) \in 1..Len(p) /\ Upto(p, Len(p)) = p
    BY <1>1, HitsSelf
  <2>4. cleaned[p] = "secret"
    BY <1>2, <1>4 DEF Intact
  <2>5. Redacts(cleaned, payload, Targets(used), Upto(p, Len(p)))
    BY <1>4, <2>1, <2>2, <2>3, <2>4, RedactsOnTheWay
  <2> QED
    BY <2>3, <2>5
<1> QED
  BY <1>3, <1>4 DEF ByDefault

LEMMA PythonDefaults ==
  ASSUME RulesDone, lang = "python", NEW p \in DOMAIN payload, payload[p] \in Raw
  PROVE  LET Reads == p \in DOMAIN Defaulted /\ Defaulted[p] \in {payload[p], AsText(payload[p])} IN
         /\ Hidden(p) \/ ByDefault(p) => ~Reads
         /\ ~Taken(p) /\ ~ByDefault(p) => Reads
<1> DEFINE D == RedactDefaults(cleaned, payload, Targets(used))
           Redacted(j) == Redacts(cleaned, payload, Targets(used), Upto(p, j))
<1>1. Defaulted = D
  BY DEF Defaulted
<1>2. Len(p) \in Nat /\ Len(p) # 0 /\ Upto(p, Len(p)) = p /\ payload[p] # Masked
  BY LeftByRules, HitsSelf
<1>3. p \in DOMAIN D <=> p \in DOMAIN cleaned /\ \A j \in 1..Len(p) - 1 : ~Redacted(j)
  BY DEF RedactDefaults
<1>4. p \in DOMAIN D => D[p] = IF Redacted(Len(p)) THEN Masked ELSE cleaned[p]
  BY <1>2 DEF RedactDefaults
<1>5. 1..Len(p) = (1..Len(p) - 1) \cup {Len(p)}
  BY <1>2
<1> HIDE DEF D, Redacted
<1>6. Masked \notin {payload[p], AsText(payload[p])}
  BY <1>2 DEF AsText, Masked
<1>7. p \in DOMAIN cleaned =>
        (cleaned[p] # Masked <=> cleaned[p] \in {payload[p], AsText(payload[p])})
  BY <1>6, LeftByRules
<1>8. (p \in DOMAIN D /\ D[p] \in {payload[p], AsText(payload[p])})
        <=> /\ p \in DOMAIN cleaned /\ cleaned[p] # Masked
            /\ \A j \in 1..Len(p) : ~Redacted(j)
  BY <1>3, <1>4, <1>5, <1>6, <1>7
<1>9. p \in DOMAIN cleaned /\ cleaned[p] # Masked =>
        (ByDefault(p) <=> \E j \in 1..Len(p) : Redacted(j))
  BY RedactedByDefault, DeclaredIsRedacted DEF Redacted
<1>10. Hidden(p) => ~(p \in DOMAIN cleaned /\ cleaned[p] # Masked)
  BY LeftByRules
<1>11. ~Taken(p) => p \in DOMAIN cleaned /\ cleaned[p] # Masked
  BY LeftByRules
<1> QED
  BY <1>1, <1>8, <1>9, <1>10, <1>11

LEMMA TypeScriptDefaults ==
  ASSUME RulesDone, lang = "typescript", NEW p \in DOMAIN payload, payload[p] \in Raw
  PROVE  LET Reads == p \in DOMAIN Defaulted /\ Defaulted[p] \in {payload[p], AsText(payload[p])} IN
         /\ Hidden(p) \/ ByDefault(p) => ~Reads
         /\ ~Taken(p) /\ ~ByDefault(p) => Reads
<1> DEFINE D == RedactTop(cleaned, Targets(used))
           Tops == {key \in DictKeys : IsSensitive(key)} \ Targets(used)
<1>1. Defaulted = D
  BY DEF Defaulted
<1>2. p \in DOMAIN D <=> p \in DOMAIN cleaned /\ (Len(p) > 1 => p[1] \notin Tops)
  BY DEF RedactTop
<1>3. p \in DOMAIN D => D[p] = IF Len(p) = 1 /\ p[1] \in Tops THEN Masked ELSE cleaned[p]
  BY DEF RedactTop
<1>4. Len(p) \in Nat /\ Len(p) # 0 /\ payload[p] # Masked
  BY LeftByRules
<1>5. p[1] \in Tops <=> ByDefault(p)
  BY TargetsOfRules DEF ByDefault, IsSensitive
<1> HIDE DEF D, Tops
<1>6. Masked \notin {payload[p], AsText(payload[p])}
  BY <1>4 DEF AsText, Masked
<1>7. p \in DOMAIN cleaned =>
        (cleaned[p] # Masked <=> cleaned[p] \in {payload[p], AsText(payload[p])})
  BY <1>6, LeftByRules
<1>8. Len(p) = 1 \/ Len(p) > 1
  <2>1. \A n \in Nat : n # 0 => n = 1 \/ n > 1
    OBVIOUS
  <2> QED
    BY <1>4, <2>1
<1>9. (p \in DOMAIN D /\ D[p] \in {payload[p], AsText(payload[p])})
        <=> p \in DOMAIN cleaned /\ cleaned[p] # Masked /\ p[1] \notin Tops
  <2>1. CASE Len(p) = 1
    BY <1>2, <1>3, <1>6, <1>7, <2>1
  <2>2. CASE Len(p) > 1
    BY <1>2, <1>3, <1>6, <1>7, <2>2
  <2> QED
    BY <1>8, <2>1, <2>2
<1>10. Hidden(p) => ~(p \in DOMAIN cleaned /\ cleaned[p] # Masked)
  BY LeftByRules
<1>11. ~Taken(p) => p \in DOMAIN cleaned /\ cleaned[p] # Masked
  BY LeftByRules
<1> QED
  BY <1>1, <1>5, <1>9, <1>10, <1>11

LEMMA FinishInv == ASSUME PiiInv, Finish PROVE PiiInv'
<1>1. RulesDone
  BY DEF PiiInv, PiiTypeOK, Finish, RulesDone
<1>2. cleaned' = Defaulted /\ phase' = "done" /\ UNCHANGED <<lang, maxDepth, rules, payload, used, next>>
  BY DEF Finish
<1>3. PiiTypeOK'
  BY <1>1, <1>2, DefaultedTree DEF RulesDone, PiiTypeOK
<1>4. ReadableAsDeclared'
  <2>1. \A p : /\ Hidden(p)' <=> Hidden(p)
               /\ Taken(p)' <=> Taken(p)
               /\ ByDefault(p)' <=> ByDefault(p)
    BY <1>2, DeclarationsKept DEF Hidden, Taken
  <2>2. ASSUME NEW p \in DOMAIN payload, payload[p] \in Raw
        PROVE  /\ Hidden(p) \/ ByDefault(p) => ~Readable(p)'
               /\ ~Taken(p) /\ ~ByDefault(p) => Readable(p)'
    <3>1. Readable(p)' <=> p \in DOMAIN Defaulted /\ Defaulted[p] \in {payload[p], AsText(payload[p])}
      BY <1>2 DEF Readable
    <3>2. lang = "python" \/ lang = "typescript"
      BY <1>1 DEF RulesDone, PiiTypeOK
    <3>3. CASE lang = "python"
      BY <1>1, <2>2, <3>1, <3>3, PythonDefaults
    <3>4. CASE lang = "typescript"
      BY <1>1, <2>2, <3>1, <3>4, TypeScriptDefaults
    <3> QED
      BY <3>2, <3>3, <3>4
  <2> QED
    BY <1>2, <2>1, <2>2 DEF ReadableAsDeclared
<1> QED
  BY <1>2, <1>3, <1>4 DEF PiiInv

LEMMA PiiNextInv == PiiInv /\ [PiiNext]_piiVars => PiiInv'
<1> SUFFICES ASSUME PiiInv, [PiiNext]_piiVars PROVE PiiInv'
  OBVIOUS
<1>1. CASE UNCHANGED piiVars
  <2>1. PiiTypeOK'
    BY <1>1 DEF piiVars, PiiInv, PiiTypeOK
  <2> QED
    BY <1>1, <2>1, DeclarationKept, RulesSoFarKept DEF piiVars, PiiInv
<1> QED
  BY <1>1, RegisterInv, ReplaceInv, BeginInv, ApplyNextInv, FinishInv, ReturnInv DEF PiiNext

\* At every moment of a call, and whatever other threads do to the rules, what
\* the rules applied so far hide is gone, what they take nothing of is readable,
\* and nothing is below a text that a truncation did not put there.
THEOREM PiiInvariant == PiiSpec => []PiiInv
<1> QED
  BY PiiInitInv, PiiNextInv, PTL DEF PiiSpec

\* The result of a call is a tree with no key and no item that its payload has
\* not, and no text made of a container tells a secret, for every set of
\* payloads, rules and depths.
THEOREM PiiTypeCorrect == PiiSpec => []PiiTypeOK
<1>1. PiiInv => PiiTypeOK
  BY DEF PiiInv
<1> QED
  BY <1>1, PiiInvariant, PTL

\* sanitize_payload and sanitizePayload leave readable what the rules and the
\* default redaction, read as declarations about places, leave readable: as it
\* was, as the text of a number, or in the text of a container.
THEOREM ReadableDeclared == PiiSpec => []ReadableAsDeclared
<1>1. PiiInv => ReadableAsDeclared
  BY DEF PiiInv
<1> QED
  BY <1>1, PiiInvariant, PTL
=============================================================================
