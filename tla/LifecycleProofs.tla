-------------------------- MODULE LifecycleProofs --------------------------
(***************************************************************************)
(* Theorems about Lifecycle, for every set of threads and configurations   *)
(* and any number of calls.                                                *)
(***************************************************************************)
EXTENDS Lifecycle, FiniteSetTheorems, TLAPS

-----------------------------------------------------------------------------
(***************************************************************************)
(* The scripts of the threads.                                             *)
(***************************************************************************)
\* Script l starts with h, goes on with r, and holds the steps in S.
Is(l, h, r, S) == Head(l) = h /\ Tail(l) = r /\ ToSet(l) = S

\* Every script a thread can have, taken apart.
LEMMA ScriptFacts ==
  ASSUME NEW l
  PROVE  /\ l = <<"logs", "traces", "metrics">> => Is(l, "logs", <<"traces", "metrics">>, {"logs", "traces", "metrics"})
         /\ l = <<"traces", "metrics">> => Is(l, "traces", <<"metrics">>, {"traces", "metrics"})
         /\ l = <<"metrics">> => Is(l, "metrics", <<>>, {"metrics"})
         /\ l = <<"traces">> => Is(l, "traces", <<>>, {"traces"})
         /\ l = <<"traces", "metrics", "logs">> => Is(l, "traces", <<"metrics", "logs">>, {"traces", "metrics", "logs"})
         /\ l = <<"metrics", "logs">> => Is(l, "metrics", <<"logs">>, {"metrics", "logs"})
         /\ l = <<"traces", "logs">> => Is(l, "traces", <<"logs">>, {"traces", "logs"})
         /\ l = <<"logs">> => Is(l, "logs", <<>>, {"logs"})
         /\ l = <<"sampling", "queue", "exporter">> => Is(l, "sampling", <<"queue", "exporter">>, {"sampling", "queue", "exporter"})
         /\ l = <<"queue", "exporter">> => Is(l, "queue", <<"exporter">>, {"queue", "exporter"})
         /\ l = <<"exporter">> => Is(l, "exporter", <<>>, {"exporter"})
<1>1. ASSUME l = <<"logs", "traces", "metrics">> PROVE Is(l, "logs", <<"traces", "metrics">>, {"logs", "traces", "metrics"})
  BY <1>1 DEF Is, ToSet
<1>2. ASSUME l = <<"traces", "metrics">> PROVE Is(l, "traces", <<"metrics">>, {"traces", "metrics"})
  BY <1>2 DEF Is, ToSet
<1>3. ASSUME l = <<"metrics">> PROVE Is(l, "metrics", <<>>, {"metrics"})
  BY <1>3 DEF Is, ToSet
<1>4. ASSUME l = <<"traces">> PROVE Is(l, "traces", <<>>, {"traces"})
  BY <1>4 DEF Is, ToSet
<1>5. ASSUME l = <<"traces", "metrics", "logs">> PROVE Is(l, "traces", <<"metrics", "logs">>, {"traces", "metrics", "logs"})
  BY <1>5 DEF Is, ToSet
<1>6. ASSUME l = <<"metrics", "logs">> PROVE Is(l, "metrics", <<"logs">>, {"metrics", "logs"})
  BY <1>6 DEF Is, ToSet
<1>7. ASSUME l = <<"traces", "logs">> PROVE Is(l, "traces", <<"logs">>, {"traces", "logs"})
  BY <1>7 DEF Is, ToSet
<1>8. ASSUME l = <<"logs">> PROVE Is(l, "logs", <<>>, {"logs"})
  BY <1>8 DEF Is, ToSet
<1>9. ASSUME l = <<"sampling", "queue", "exporter">> PROVE Is(l, "sampling", <<"queue", "exporter">>, {"sampling", "queue", "exporter"})
  BY <1>9 DEF Is, ToSet
<1>10. ASSUME l = <<"queue", "exporter">> PROVE Is(l, "queue", <<"exporter">>, {"queue", "exporter"})
  BY <1>10 DEF Is, ToSet
<1>11. ASSUME l = <<"exporter">> PROVE Is(l, "exporter", <<>>, {"exporter"})
  BY <1>11 DEF Is, ToSet
<1> QED
  BY <1>1, <1>2, <1>3, <1>4, <1>5, <1>6, <1>7, <1>8, <1>9, <1>10, <1>11

LEMMA ScriptSets ==
  /\ Remainders(Order) = {<<"logs", "traces", "metrics">>, <<"traces", "metrics">>, <<"metrics">>}
  /\ Remainders(Teardown) = {<<"traces", "metrics", "logs">>, <<"metrics", "logs">>, <<"logs">>}
  /\ Remainders(Policies) = {<<"sampling", "queue", "exporter">>, <<"queue", "exporter">>, <<"exporter">>}
  /\ Signals = {"logs", "traces", "metrics"}
  /\ ToSet(Policies) = {"sampling", "queue", "exporter"}
  BY DEF Remainders, Order, Teardown, Policies, Signals, ToSet

\* What a setup has completed, by what it has left.
LEMMA RollbackScripts ==
  ASSUME NEW t
  PROVE  /\ th[t].todo = Order => ToRollBack(t) = <<>>
         /\ th[t].todo = <<"traces", "metrics">> => ToRollBack(t) = <<"logs">>
         /\ th[t].todo = <<"metrics">> => ToRollBack(t) = <<"traces", "logs">>
<1>1. ASSUME th[t].todo = Order PROVE ToRollBack(t) = <<>>
  BY <1>1 DEF ToRollBack, Order, Reverse
<1>2. ASSUME th[t].todo = <<"traces", "metrics">> PROVE ToRollBack(t) = <<"logs">>
  BY <1>2 DEF ToRollBack, Order, Reverse
<1>3. ASSUME th[t].todo = <<"metrics">> PROVE ToRollBack(t) = <<"traces", "logs">>
  BY <1>3 DEF ToRollBack, Order, Reverse
<1> QED
  BY <1>1, <1>2, <1>3
-----------------------------------------------------------------------------
(***************************************************************************)
(* Where threads are, what they hold and what they have left to do.        *)
(***************************************************************************)
SetupScripts == {<<"logs", "traces", "metrics">>, <<"traces", "metrics">>, <<"metrics">>}
DirectScripts == {<<"traces">>, <<"metrics">>}
TeardownScripts == {<<"traces", "metrics", "logs">>, <<"metrics", "logs">>, <<"logs">>}
RollbackLists == {<<"traces", "logs">>, <<"logs">>}
PolicyScripts == {<<"sampling", "queue", "exporter">>, <<"queue", "exporter">>, <<"exporter">>}

Building == {"build", "install"}
InsideOnly == {"rollback", "teardown", "reset"}
InsideToo == {"apply", "policies", "signal"} \cup Building

\* A thread that was given a configuration has it.
HasConfig(r) ==
  r.pc \in {"setup", "probe", "lazy", "rollback"} \cup InsideToo \/ r.again
    => r.cfg \in Configs

\* The script of a thread fits where it is, and whether it is inside setup._lock.
FitsPlace(r, inside) ==
  /\ r.pc = "policies" => r.todo \in PolicyScripts
  /\ r.pc = "signal" => r.todo \in IF inside THEN SetupScripts ELSE DirectScripts
  /\ r.pc \in Building => r.todo \in IF inside THEN SetupScripts \ {Order} ELSE DirectScripts
  /\ r.pc = "rollback" => r.todo \in RollbackLists
  /\ r.pc = "teardown" => r.todo \in TeardownScripts
  /\ r.pc = "probe" => r.todo \in SetupScripts

\* Where a thread is tells which locks it holds.
HoldsLocks(r, inside, applying) ==
  /\ inside => r.pc \in InsideOnly \cup InsideToo
  /\ r.pc \in InsideOnly => inside
  /\ applying <=> r.pc = "policies"

\* A thread that builds a provider knows a generation that was, and one whose
\* signal was shut down meanwhile a generation that is over.
KnowsGeneration(r, g) ==
  r.pc \in Building =>
    /\ r.gen <= g[Head(r.todo)]
    /\ r.stale => r.gen < g[Head(r.todo)]

ThreadOK(r, inside, applying, g) ==
  /\ HasConfig(r)
  /\ FitsPlace(r, inside)
  /\ HoldsLocks(r, inside, applying)
  /\ KnowsGeneration(r, g)

ThreadInv ==
  \A t \in Threads : ThreadOK(th[t], setupLock = t, runtimeLock = t, gen)

\* No setup is done while one runs.
NotDoneInside == setupLock # NoThread => ~setupDone

\* TypeOK, but for the fact that no count of providers is negative.
Types ==
  /\ setupLock \in Threads \cup {NoThread}
  /\ runtimeLock \in Threads \cup {NoThread}
  /\ setupDone \in BOOLEAN
  /\ active \in Configs \cup {NoConfig}
  /\ policy \in [ToSet(Policies) -> Configs \cup {NoConfig}]
  /\ logConfig \in Configs \cup {NoConfig}
  /\ ref \in [Signals -> Provider \cup {NoProvider}]
  /\ everSet \in [Signals -> BOOLEAN]
  /\ gen \in [Built -> Nat]
  /\ live \in [Signals -> Int]
  /\ lost \in [Built -> Nat]
  /\ calls \in 0..MaxCalls
  /\ cut \in BOOLEAN
  /\ th \in [Threads -> Thread]

Base == Types /\ ThreadInv /\ NotDoneInside
-----------------------------------------------------------------------------
\* The scripts, place by place: their heads, and what follows.
LEMMA PolicyTodo ==
  ASSUME NEW l \in PolicyScripts
  PROVE  /\ Head(l) \in ToSet(Policies)
         /\ ToSet(l) \subseteq ToSet(Policies)
         /\ ToSet(l) = {Head(l)} \cup ToSet(Tail(l))
         /\ Len(l) = 1 => ToSet(Tail(l)) = {}
         /\ Len(l) # 1 => Tail(l) \in PolicyScripts
<1>1. ToSet(<<>>) = {}
  BY DEF ToSet
<1>2. Len(<<"exporter">>) = 1
  OBVIOUS
<1>3. CASE l = <<"sampling", "queue", "exporter">>
  BY <1>3, ScriptFacts, ScriptSets DEF Is, PolicyScripts
<1>4. CASE l = <<"queue", "exporter">>
  BY <1>4, ScriptFacts, ScriptSets DEF Is, PolicyScripts
<1>5. CASE l = <<"exporter">>
  BY <1>1, <1>2, <1>5, ScriptFacts, ScriptSets DEF Is
<1> QED
  BY <1>3, <1>4, <1>5 DEF PolicyScripts

\* l starts with a step of S and goes on with a script of R, or ends.
Continues(l, S, R) ==
  /\ Head(l) \in S
  /\ Tail(l) = <<>> \/ Tail(l) \in R
  /\ ToSet(l) = {Head(l)} \cup ToSet(Tail(l))
  /\ Head(l) \notin ToSet(Tail(l))

LEMMA EmptyScript == ToSet(<<>>) = {} /\ <<>> \in Scripts
  BY DEF ToSet, Scripts

LEMMA SetupTodo ==
  ASSUME NEW l \in SetupScripts
  PROVE  /\ Continues(l, Signals, SetupScripts \ {Order})
         /\ Head(l) \in Built => l \in SetupScripts \ {Order}
         /\ Head(l) = "logs" => l = Order
         /\ l \in SetupScripts \ {Order} => Head(l) \in Built
<1>1. Order = <<"logs", "traces", "metrics">>
  BY DEF Order
<1>2. Is(Order, "logs", <<"traces", "metrics">>, {"logs", "traces", "metrics"})
  BY <1>1, ScriptFacts
<1>3. Is(<<"traces", "metrics">>, "traces", <<"metrics">>, {"traces", "metrics"})
  BY ScriptFacts
<1>4. Is(<<"metrics">>, "metrics", <<>>, {"metrics"})
  BY ScriptFacts
<1>5. SetupScripts \ {Order} = {<<"traces", "metrics">>, <<"metrics">>}
  BY <1>1, <1>2, <1>3, <1>4 DEF SetupScripts, Is
<1>6. CASE l = Order
  BY <1>2, <1>3, <1>5, <1>6, ScriptSets DEF Is, Continues, Built
<1>7. CASE l = <<"traces", "metrics">>
  BY <1>2, <1>3, <1>4, <1>5, <1>7, ScriptSets DEF Is, Continues, Built
<1>8. CASE l = <<"metrics">>
  BY <1>2, <1>4, <1>5, <1>8, ScriptSets, EmptyScript DEF Is, Continues, Built
<1> QED
  BY <1>1, <1>6, <1>7, <1>8 DEF SetupScripts

LEMMA DirectTodo ==
  ASSUME NEW l \in DirectScripts
  PROVE  Head(l) \in Built /\ Tail(l) = <<>> /\ ToSet(l) = {Head(l)}
  BY ScriptFacts DEF DirectScripts, Is, Built

LEMMA TeardownTodo ==
  ASSUME NEW l \in TeardownScripts
  PROVE  Continues(l, Signals, TeardownScripts)
<1>1. CASE l = Teardown
  BY <1>1, ScriptFacts, ScriptSets DEF Is, Continues, TeardownScripts, Teardown
<1>2. CASE l = <<"metrics", "logs">>
  BY <1>2, ScriptFacts, ScriptSets DEF Is, Continues, TeardownScripts
<1>3. CASE l = <<"logs">>
  BY <1>3, ScriptFacts, ScriptSets, EmptyScript DEF Is, Continues
<1> QED
  BY <1>1, <1>2, <1>3 DEF TeardownScripts, Teardown

LEMMA RollbackTodo ==
  ASSUME NEW l \in RollbackLists
  PROVE  Continues(l, Signals, RollbackLists)
<1>1. CASE l = <<"traces", "logs">>
  BY <1>1, ScriptFacts, ScriptSets DEF Is, Continues, RollbackLists
<1>2. CASE l = <<"logs">>
  BY <1>2, ScriptFacts, ScriptSets, EmptyScript DEF Is, Continues
<1> QED
  BY <1>1, <1>2 DEF RollbackLists

\* All of them are scripts.
LEMMA AllScripts ==
  /\ PolicyScripts \subseteq Scripts /\ Policies \in PolicyScripts
  /\ SetupScripts \subseteq Scripts /\ Order \in SetupScripts
  /\ TeardownScripts \subseteq Scripts /\ Teardown \in TeardownScripts
  /\ RollbackLists \subseteq Scripts
  /\ DirectScripts \subseteq Scripts
<1>1. PolicyScripts \subseteq Scripts /\ Policies \in PolicyScripts
  BY ScriptSets DEF PolicyScripts, Scripts, Policies
<1>2. SetupScripts \subseteq Scripts /\ Order \in SetupScripts
  BY ScriptSets DEF SetupScripts, Scripts, Order
<1>3. TeardownScripts \subseteq Scripts /\ Teardown \in TeardownScripts
  BY ScriptSets DEF TeardownScripts, Scripts, Teardown
<1>4. RollbackLists \subseteq Scripts
  BY ScriptSets DEF RollbackLists, Scripts
<1>5. DirectScripts \subseteq Scripts
  BY ScriptSets DEF DirectScripts, Scripts
<1> QED
  BY <1>1, <1>2, <1>3, <1>4, <1>5
-----------------------------------------------------------------------------
LEMMA IdleThread == Idle \in Thread /\ \A g : ThreadOK(Idle, FALSE, FALSE, g)
<1>1. Idle \in Thread
  BY DEF Idle, Doing, Thread, Places, Scripts
<1>2. \A g : ThreadOK(Idle, FALSE, FALSE, g)
  BY DEF Idle, Doing, ThreadOK, HasConfig, FitsPlace, HoldsLocks, KnowsGeneration, Building,
       InsideOnly, InsideToo
<1> QED
  BY <1>1, <1>2

LEMMA BaseInit == Init => Base
<1> SUFFICES ASSUME Init PROVE Base
  OBVIOUS
<1>1. th \in [Threads -> Thread] /\ \A t \in Threads : th[t] = Idle
  BY IdleThread DEF Init
<1>2. calls \in 0..MaxCalls
  BY LifecycleAssumption DEF Init
<1>3. Types
  <2>1. policy \in [ToSet(Policies) -> Configs \cup {NoConfig}]
    BY DEF Init
  <2>2. ref \in [Signals -> Provider \cup {NoProvider}] /\ everSet \in [Signals -> BOOLEAN]
    BY DEF Init
  <2>3. gen \in [Built -> Nat] /\ live \in [Signals -> Int] /\ lost \in [Built -> Nat]
    BY DEF Init
  <2> QED
    BY <1>1, <1>2, <2>1, <2>2, <2>3 DEF Init, Types
<1>4. ThreadInv
  BY <1>1, IdleThread, LifecycleAssumption DEF Init, ThreadInv
<1> QED
  BY <1>3, <1>4 DEF Init, Base, NotDoneInside
-----------------------------------------------------------------------------
(***************************************************************************)
(* What a step does to the threads.                                        *)
(***************************************************************************)
\* Thread t goes on as r, and the others stay as they are.
Becomes(t, r) ==
  /\ th' \in [Threads -> Thread]
  /\ th'[t] = r
  /\ \A u \in Threads \ {t} : th'[u] = th[u]

LEMMA Put ==
  ASSUME Types, NEW t \in Threads, NEW r \in Thread, th' = [th EXCEPT ![t] = r]
  PROVE  Becomes(t, r)
  BY DEF Types, Becomes

LEMMA DoingThread ==
  ASSUME NEW w \in Places, NEW c \in Configs \cup {NoConfig}, NEW l \in Scripts,
         NEW a \in BOOLEAN
  PROVE  /\ Doing(w, c, l, a) \in Thread
         /\ Doing(w, c, l, a).pc = w /\ Doing(w, c, l, a).cfg = c
         /\ Doing(w, c, l, a).todo = l /\ Doing(w, c, l, a).again = a
  BY DEF Doing, Thread

LEMMA GoBecomes ==
  ASSUME Types, NEW t \in Threads, NEW w \in Places, NEW l \in Scripts, Go(t, w, l)
  PROVE  Becomes(t, Doing(w, th[t].cfg, l, th[t].again))
<1>1. th[t].cfg \in Configs \cup {NoConfig} /\ th[t].again \in BOOLEAN
  BY DEF Types, Thread
<1> QED
  BY <1>1, DoingThread, Put DEF Go

LEMMA ReturnBecomes ==
  ASSUME Types, NEW t \in Threads, Return(t)
  PROVE  Becomes(t, Idle)
  BY Put, IdleThread DEF Return

\* Thread t goes on as r; those that build a provider of s get stale.
Leaves(t, s, r) ==
  /\ th' \in [Threads -> Thread]
  /\ th'[t] = r
  /\ \A u \in Threads \ {t} :
       th'[u] = IF th[u].pc \in Building /\ Head(th[u].todo) = s
                THEN [th[u] EXCEPT !.stale = TRUE] ELSE th[u]

LEMMA LeaveLeaves ==
  ASSUME Types, NEW t \in Threads, NEW s, NEW r \in Thread, Leave(t, s, r)
  PROVE  Leaves(t, s, r)
<1>1. \A u \in Threads : th[u] \in Thread /\ [th[u] EXCEPT !.stale = TRUE] \in Thread
  BY DEF Types, Thread
<1>2. Staled(s, th) \in [Threads -> Thread]
  BY <1>1 DEF Staled
<1> QED
  BY <1>1, <1>2 DEF Leave, Leaves, Staled, Building

\* A step of t that is not about generations keeps what is known of threads,
\* when t is well where it goes and nobody else's locks move.
LEMMA BecomesOK ==
  ASSUME Base, NEW t \in Threads, NEW r, Becomes(t, r), UNCHANGED gen,
         ThreadOK(r, setupLock' = t, runtimeLock' = t, gen),
         \A u \in Threads \ {t} : (setupLock' = u <=> setupLock = u)
                                  /\ (runtimeLock' = u <=> runtimeLock = u)
  PROVE  ThreadInv'
<1> SUFFICES ASSUME NEW u \in Threads
             PROVE  ThreadOK(th'[u], setupLock' = u, runtimeLock' = u, gen')
  BY DEF ThreadInv, ThreadOK, HasConfig, FitsPlace, HoldsLocks, KnowsGeneration
<1>1. ThreadOK(th[u], setupLock = u, runtimeLock = u, gen)
  BY DEF Base, ThreadInv
<1>2. CASE u = t
  BY <1>2 DEF Becomes
<1>3. CASE u # t
  BY <1>1, <1>3 DEF Becomes, ThreadOK, FitsPlace, HoldsLocks
<1> QED
  BY <1>2, <1>3

\* Who builds a provider builds a tracer or a meter provider.
LEMMA BuildingBuilt ==
  ASSUME Base, NEW t \in Threads, th[t].pc \in Building
  PROVE  /\ Head1(t) \in Built
         /\ gen[Head1(t)] \in Nat /\ th[t].gen \in Nat
<1>1. FitsPlace(th[t], setupLock = t)
  BY DEF Base, ThreadInv, ThreadOK
<1>2. Head1(t) \in Built
  BY <1>1, SetupTodo, DirectTodo DEF FitsPlace, Head1
<1> QED
  BY <1>2 DEF Base, Types, Thread

\* A step of t that shuts signal s down.
LEMMA LeavesOK ==
  ASSUME Base, NEW t \in Threads, NEW s \in Signals, NEW r, Leaves(t, s, r),
         gen' = NextGen(s), r.pc \notin Building,
         ThreadOK(r, setupLock' = t, runtimeLock' = t, gen),
         \A u \in Threads \ {t} : (setupLock' = u <=> setupLock = u)
                                  /\ (runtimeLock' = u <=> runtimeLock = u)
  PROVE  ThreadInv'
<1> SUFFICES ASSUME NEW u \in Threads
             PROVE  ThreadOK(th'[u], setupLock' = u, runtimeLock' = u, gen')
  BY DEF ThreadInv, ThreadOK, HasConfig, FitsPlace, HoldsLocks, KnowsGeneration
<1>1. CASE u = t
  BY <1>1 DEF Leaves, ThreadOK, KnowsGeneration
<1>2. CASE u # t /\ th[u].pc \notin Building
  BY <1>2 DEF Base, ThreadInv, Leaves, ThreadOK, FitsPlace, HoldsLocks, KnowsGeneration
<1>3. CASE u # t /\ th[u].pc \in Building
  <2>1. ThreadOK(th[u], setupLock = u, runtimeLock = u, gen) /\ th[u] \in Thread
    BY DEF Base, ThreadInv, Types
  <2>2. Head(th[u].todo) \in Built /\ gen[Head(th[u].todo)] \in Nat /\ th[u].gen \in Nat
    BY <1>3, BuildingBuilt DEF Head1
  <2>3. (gen' = [gen EXCEPT ![s] = @ + 1]) \/ (gen' = gen /\ s \notin Built)
    BY DEF NextGen
  <2>4. CASE Head(th[u].todo) = s
    <3>1. th'[u] = [th[u] EXCEPT !.stale = TRUE]
      BY <1>3, <2>4 DEF Leaves
    <3>2. gen'[s] = gen[s] + 1
      BY <2>2, <2>3, <2>4 DEF Base, Types
    <3>3. KnowsGeneration(th'[u], gen')
      BY <2>1, <2>2, <2>4, <3>1, <3>2 DEF KnowsGeneration, ThreadOK, Thread
    <3> QED
      BY <1>3, <2>1, <3>1, <3>3 DEF ThreadOK, HasConfig, FitsPlace, HoldsLocks, Thread
  <2>5. CASE Head(th[u].todo) # s
    <3>1. th'[u] = th[u]
      BY <1>3, <2>5 DEF Leaves
    <3>2. gen'[Head(th[u].todo)] = gen[Head(th[u].todo)]
      BY <2>2, <2>3, <2>5 DEF Base, Types
    <3> QED
      BY <1>3, <2>1, <3>1, <3>2 DEF ThreadOK, HasConfig, FitsPlace, HoldsLocks, KnowsGeneration
  <2> QED
    BY <2>4, <2>5
<1> QED
  BY <1>1, <1>2, <1>3

\* Shutting a signal down keeps the types of what it changes.
LEMMA ShutdownTypes ==
  ASSUME Types, NEW s \in Signals, ShutdownSignal(s)
  PROVE  /\ gen' \in [Built -> Nat]
         /\ ref' \in [Signals -> Provider \cup {NoProvider}]
         /\ live' \in [Signals -> Int]
         /\ logConfig' \in Configs \cup {NoConfig}
         /\ UNCHANGED <<everSet, lost>>
<1>1. gen' \in [Built -> Nat]
  BY DEF Types, ShutdownSignal, NextGen
<1>2. live' \in [Signals -> Int]
  BY DEF Types, ShutdownSignal, ShutDown
<1> QED
  BY <1>1, <1>2 DEF Types, ShutdownSignal
-----------------------------------------------------------------------------
(***************************************************************************)
(* Every action preserves Base.                                            *)
(***************************************************************************)
\* What is known of one thread.
LEMMA Known ==
  ASSUME Base, NEW t \in Threads
  PROVE  /\ th[t] \in Thread
         /\ ThreadOK(th[t], setupLock = t, runtimeLock = t, gen)
  BY DEF Base, Types, ThreadInv

\* A call begins, of a thread that holds no lock.
LEMMA BeginBase ==
  ASSUME Base, NEW t \in Threads, Call(t), NEW w \in Places,
         NEW c \in Configs \cup {NoConfig}, NEW l \in Scripts, Begin(t, w, c, l),
         w \in {"setup", "apply", "lazy", "signal", "probe", "shutdown"},
         w # "shutdown" => c \in Configs,
         w = "signal" => l \in DirectScripts,
         w = "probe" => l \in SetupScripts,
         UNCHANGED <<locks, runtime, providers, cut>>
  PROVE  Base'
<1>1. Becomes(t, Doing(w, c, l, FALSE))
  BY DoingThread, Put DEF Begin, Base
<1>2. setupLock # t /\ runtimeLock # t
  BY Known DEF Call, At, ThreadOK, HoldsLocks, InsideOnly, InsideToo, Building
<1>3. ThreadOK(Doing(w, c, l, FALSE), FALSE, FALSE, gen)
  BY DEF Doing, ThreadOK, HasConfig, FitsPlace, HoldsLocks, KnowsGeneration, InsideOnly,
       InsideToo, Building
<1>4. ThreadInv'
  BY <1>1, <1>2, <1>3, BecomesOK DEF locks, providers
<1>5. Types'
  BY <1>1, LifecycleAssumption DEF Base, Types, Becomes, Call, locks, runtime, providers
<1> QED
  BY <1>4, <1>5 DEF Base, NotDoneInside, locks

LEMMA StartBase ==
  ASSUME Base, NEW t \in Threads, Start(t)
  PROVE  Base'
<1>1. ASSUME NEW c \in Configs, CallSetup(t, c) PROVE Base'
  BY <1>1, BeginBase, EmptyScript DEF CallSetup, Places
<1>2. ASSUME NEW c \in Configs, CallUpdate(t, c) PROVE Base'
  BY <1>2, BeginBase, EmptyScript DEF CallUpdate, Places
<1>3. ASSUME NEW c \in Configs, CallReconfigure(t, c) PROVE Base'
  BY <1>3, BeginBase, EmptyScript, AllScripts DEF CallReconfigure, Places
<1>4. ASSUME CallShutdown(t) PROVE Base'
  BY <1>4, BeginBase, EmptyScript DEF CallShutdown, Places
<1>5. ASSUME CallGetLogger(t) PROVE Base'
  BY <1>5, BeginBase, EmptyScript, LifecycleAssumption DEF CallGetLogger, Places
<1>6. ASSUME NEW s \in Built, NEW c \in Configs, CallSetupSignal(t, s, c) PROVE Base'
  <2>1. <<s>> \in DirectScripts /\ <<s>> \in Scripts
    BY AllScripts DEF Built, DirectScripts
  <2> QED
    BY <1>6, <2>1, BeginBase DEF CallSetupSignal, Places
<1>7. ASSUME NEW s \in Built, CallShutdownSignal(t, s) PROVE Base'
  <2>1. s \in Signals
    BY ScriptSets DEF Built
  <2>2. Leaves(t, s, Idle)
    BY <1>7, LeaveLeaves, IdleThread DEF CallShutdownSignal, Base
  <2>3. setupLock # t /\ runtimeLock # t
    BY <1>7, Known DEF CallShutdownSignal, Call, At, ThreadOK, HoldsLocks, InsideOnly,
         InsideToo, Building
  <2>4. ThreadInv'
    BY <1>7, <2>1, <2>2, <2>3, LeavesOK, IdleThread
       DEF CallShutdownSignal, ShutdownSignal, locks, Idle, Doing, Building
  <2>5. Types'
    BY <1>7, <2>1, <2>2, ShutdownTypes, LifecycleAssumption
       DEF CallShutdownSignal, Call, locks, runtime, Base, Types, Leaves
  <2> QED
    BY <1>7, <2>4, <2>5 DEF Base, NotDoneInside, CallShutdownSignal, locks
<1> QED
  BY <1>1, <1>2, <1>3, <1>4, <1>5, <1>6, <1>7 DEF Start

LEMMA BeginApplyBase ==
  ASSUME Base, NEW t \in Threads, BeginApply(t)
  PROVE  Base'
<1>1. Becomes(t, Doing("policies", th[t].cfg, Policies, th[t].again))
  BY GoBecomes, AllScripts DEF BeginApply, Base, Places
<1>2. th[t].cfg \in Configs /\ runtimeLock # t
  BY Known DEF BeginApply, At, ThreadOK, HasConfig, HoldsLocks, InsideToo
<1>3. ThreadOK(Doing("policies", th[t].cfg, Policies, th[t].again), setupLock = t, TRUE, gen)
  BY <1>2, AllScripts DEF Doing, ThreadOK, HasConfig, FitsPlace, HoldsLocks,
       KnowsGeneration, InsideOnly, InsideToo, Building
<1>4. \A u \in Threads \ {t} : runtimeLock' # u /\ runtimeLock # u
  BY LifecycleAssumption DEF BeginApply, RuntimeFree
<1>5. ThreadInv'
  BY <1>1, <1>3, <1>4, BecomesOK DEF BeginApply, providers
<1>6. Types'
  BY <1>1, <1>2 DEF Base, Types, Becomes, BeginApply, providers
<1> QED
  BY <1>5, <1>6 DEF Base, NotDoneInside, BeginApply

LEMMA SetPolicyBase ==
  ASSUME Base, NEW t \in Threads, SetPolicy(t)
  PROVE  Base'
<1>1. /\ th[t].cfg \in Configs /\ runtimeLock = t /\ th[t].todo \in PolicyScripts
      /\ th[t] \in Thread
  BY Known DEF SetPolicy, At, ThreadOK, HasConfig, HoldsLocks, FitsPlace, InsideToo
<1>2. policy' \in [ToSet(Policies) -> Configs \cup {NoConfig}]
  BY <1>1 DEF Base, Types, SetPolicy
<1>3. CASE ReleasesRuntime(t) /\ setupLock = t
  <2>1. Becomes(t, Doing("signal", th[t].cfg, Order, th[t].again))
    BY <1>3, GoBecomes, AllScripts DEF SetPolicy, InSetup, Base, Places
  <2>2. ThreadOK(Doing("signal", th[t].cfg, Order, th[t].again), TRUE, FALSE, gen)
    BY <1>1, AllScripts DEF Doing, ThreadOK, HasConfig, FitsPlace, HoldsLocks,
         KnowsGeneration, InsideOnly, InsideToo, Building
  <2>3. runtimeLock' = NoThread
    BY <1>3 DEF SetPolicy
  <2>4. ThreadInv'
    BY <1>1, <1>3, <2>1, <2>2, <2>3, BecomesOK, LifecycleAssumption DEF SetPolicy, providers
  <2>5. Types'
    BY <1>2, <2>1, <2>3 DEF Base, Types, Becomes, SetPolicy, providers
  <2> QED
    BY <2>4, <2>5 DEF Base, NotDoneInside, SetPolicy
<1>4. CASE ReleasesRuntime(t) /\ setupLock # t
  <2>1. Becomes(t, Idle)
    BY <1>4, ReturnBecomes DEF SetPolicy, InSetup, Base
  <2>2. runtimeLock' = NoThread
    BY <1>4 DEF SetPolicy
  <2>3. ThreadInv'
    BY <1>1, <1>4, <2>1, <2>2, BecomesOK, IdleThread, LifecycleAssumption DEF SetPolicy, providers
  <2>4. Types'
    BY <1>2, <2>1, <2>2 DEF Base, Types, Becomes, SetPolicy, providers
  <2> QED
    BY <2>3, <2>4 DEF Base, NotDoneInside, SetPolicy
<1>5. CASE ~ReleasesRuntime(t)
  <2>1. Rest(t) \in PolicyScripts
    BY <1>1, <1>5, PolicyTodo DEF ReleasesRuntime, Rest
  <2>2. Becomes(t, Doing("policies", th[t].cfg, Rest(t), th[t].again))
    BY <1>5, <2>1, GoBecomes, AllScripts DEF SetPolicy, Base, Places
  <2>3. ThreadOK(Doing("policies", th[t].cfg, Rest(t), th[t].again), setupLock = t, TRUE, gen)
    BY <1>1, <2>1 DEF Doing, ThreadOK, HasConfig, FitsPlace, HoldsLocks,
         KnowsGeneration, InsideOnly, InsideToo, Building
  <2>4. runtimeLock' = t
    BY <1>1, <1>5 DEF SetPolicy
  <2>5. ThreadInv'
    BY <1>1, <2>2, <2>3, <2>4, BecomesOK DEF SetPolicy, providers
  <2>6. Types'
    BY <1>2, <2>2, <2>4 DEF Base, Types, Becomes, SetPolicy, providers
  <2> QED
    BY <2>5, <2>6 DEF Base, NotDoneInside, SetPolicy
<1> QED
  BY <1>3, <1>4, <1>5

LEMMA EnterSetupBase ==
  ASSUME Base, NEW t \in Threads, EnterSetup(t)
  PROVE  Base'
<1>1. th[t].cfg \in Configs /\ setupLock # t /\ runtimeLock # t /\ setupLock = NoThread
  BY LifecycleAssumption, Known
     DEF EnterSetup, At, ThreadOK, HasConfig, HoldsLocks, InsideToo, InsideOnly, Building
<1>2. CASE MayEnterSetup
  <2>1. Becomes(t, Doing("apply", th[t].cfg, <<>>, th[t].again))
    BY <1>2, GoBecomes, EmptyScript DEF EnterSetup, Base, Places
  <2>2. ThreadOK(Doing("apply", th[t].cfg, <<>>, th[t].again), TRUE, FALSE, gen)
    BY <1>1 DEF Doing, ThreadOK, HasConfig, FitsPlace, HoldsLocks,
         KnowsGeneration, InsideOnly, InsideToo, Building
  <2>3. setupLock' = t
    BY <1>2 DEF EnterSetup
  <2>4. ThreadInv'
    BY <1>1, <2>1, <2>2, <2>3, BecomesOK, LifecycleAssumption DEF EnterSetup, providers
  <2>5. Types'
    BY <2>1, <2>3 DEF Base, Types, Becomes, EnterSetup, runtime, providers
  <2> QED
    BY <1>2, <2>4, <2>5 DEF Base, NotDoneInside, EnterSetup, MayEnterSetup
<1>3. CASE ~MayEnterSetup
  <2>1. Becomes(t, Idle) /\ setupLock' = setupLock
    BY <1>3, ReturnBecomes DEF EnterSetup, Base
  <2>2. ThreadInv'
    BY <1>1, <2>1, BecomesOK, IdleThread DEF EnterSetup, providers
  <2>3. Types'
    BY <2>1 DEF Base, Types, Becomes, EnterSetup, runtime, providers
  <2> QED
    BY <2>1, <2>2, <2>3 DEF Base, NotDoneInside, EnterSetup
<1> QED
  BY <1>2, <1>3

\* A thread that installs signals, in setup_telemetry or by itself.
LEMMA Installing ==
  ASSUME Base, NEW t \in Threads, th[t].pc \in {"signal"} \cup Building
  PROVE  /\ th[t] \in Thread
         /\ th[t].todo \in IF setupLock = t THEN SetupScripts ELSE DirectScripts
         /\ Head1(t) \in Signals
         /\ th[t].cfg \in Configs /\ runtimeLock # t
         /\ setupLock # t => Rest(t) = <<>>
         /\ setupLock = t => Rest(t) = <<>> \/ Rest(t) \in SetupScripts \ {Order}
<1>1. th[t].todo \in IF setupLock = t THEN SetupScripts ELSE DirectScripts
  BY Known DEF ThreadOK, FitsPlace
<1>2. th[t] \in Thread /\ th[t].cfg \in Configs /\ runtimeLock # t
  BY Known DEF ThreadOK, HasConfig, HoldsLocks, InsideToo, Building
<1>3. CASE setupLock = t
  BY <1>1, <1>2, <1>3, SetupTodo DEF Continues, Head1, Rest
<1>4. CASE setupLock # t
  <2>1. Built \subseteq Signals
    BY ScriptSets DEF Built
  <2> QED
    BY <1>1, <1>2, <1>4, <2>1, DirectTodo DEF Head1, Rest
<1> QED
  BY <1>3, <1>4

\* What a step of such a thread does to the providers, as far as types go.
ProvidersTyped ==
  /\ logConfig' \in Configs \cup {NoConfig}
  /\ ref' \in [Signals -> Provider \cup {NoProvider}]
  /\ everSet' \in [Signals -> BOOLEAN]
  /\ live' \in [Signals -> Int]
  /\ lost' \in [Built -> Nat]
  /\ gen' = gen

LEMMA AdvanceBase ==
  ASSUME Base, NEW t \in Threads, th[t].pc \in {"signal"} \cup Building, Advance(t),
         ProvidersTyped, UNCHANGED <<runtimeLock, runtime, calls, cut>>
  PROVE  Base'
<1>1. CASE Rest(t) # <<>>
  <2>1. setupLock = t /\ Rest(t) \in SetupScripts
    BY <1>1, Installing
  <2>2. Becomes(t, Doing("signal", th[t].cfg, Rest(t), th[t].again))
    BY <1>1, <2>1, GoBecomes, AllScripts DEF Advance, Base, Places
  <2>3. ThreadOK(Doing("signal", th[t].cfg, Rest(t), th[t].again), TRUE, FALSE, gen)
    BY <2>1, Installing DEF Doing, ThreadOK, HasConfig, FitsPlace, HoldsLocks,
         KnowsGeneration, InsideOnly, InsideToo, Building
  <2>4. UNCHANGED <<setupLock, setupDone>>
    BY <1>1 DEF Advance
  <2>5. ThreadInv'
    BY <2>1, <2>2, <2>3, <2>4, Installing, BecomesOK DEF ProvidersTyped
  <2>6. Types'
    BY <2>2, <2>4 DEF Base, Types, Becomes, ProvidersTyped, runtime
  <2> QED
    BY <2>4, <2>5, <2>6 DEF Base, NotDoneInside
<1>2. CASE Rest(t) = <<>>
  <2>1. Becomes(t, Idle)
    BY <1>2, ReturnBecomes DEF Advance, Base
  <2>2. IF setupLock = t THEN setupLock' = NoThread /\ setupDone' = TRUE
                         ELSE UNCHANGED <<setupLock, setupDone>>
    BY <1>2 DEF Advance, InSetup
  <2>3. setupLock' # t /\ runtimeLock' # t
    BY <2>2, Installing, LifecycleAssumption
  <2>4. \A u \in Threads \ {t} : setupLock' = u <=> setupLock = u
    BY <2>2, LifecycleAssumption
  <2>5. ThreadInv'
    BY <2>1, <2>3, <2>4, BecomesOK, IdleThread DEF ProvidersTyped
  <2>6. Types'
    BY <2>1, <2>2 DEF Base, Types, Becomes, ProvidersTyped, runtime
  <2> QED
    BY <2>2, <2>5, <2>6 DEF Base, NotDoneInside
<1> QED
  BY <1>1, <1>2

\* What a setup that fails at l has to roll back.
LEMMA ToRollBackLists ==
  ASSUME NEW t, th[t].todo \in SetupScripts
  PROVE  /\ ToRollBack(t) = <<>> \/ ToRollBack(t) \in RollbackLists
         /\ ToSet(ToRollBack(t)) = Signals \ ToSet(th[t].todo)
<1>1. Order = <<"logs", "traces", "metrics">>
  BY DEF Order
<1>2. CASE th[t].todo = Order
  <2>1. ToRollBack(t) = <<>>
    BY <1>2, RollbackScripts
  <2> QED
    BY <1>1, <1>2, <2>1, EmptyScript, ScriptSets, ScriptFacts DEF Is
<1>3. CASE th[t].todo = <<"traces", "metrics">>
  <2>1. ToRollBack(t) = <<"logs">>
    BY <1>3, RollbackScripts
  <2> QED
    BY <1>3, <2>1, ScriptSets, ScriptFacts DEF Is, RollbackLists
<1>4. CASE th[t].todo = <<"metrics">>
  <2>1. ToRollBack(t) = <<"traces", "logs">>
    BY <1>4, RollbackScripts
  <2> QED
    BY <1>4, <2>1, ScriptSets, ScriptFacts DEF Is, RollbackLists
<1> QED
  BY <1>1, <1>2, <1>3, <1>4 DEF SetupScripts

LEMMA FailBase ==
  ASSUME Base, NEW t \in Threads, th[t].pc \in {"signal"} \cup Building, Fail(t),
         ProvidersTyped, UNCHANGED <<runtimeLock, runtime, calls, cut>>
  PROVE  Base'
<1>1. CASE setupLock = t /\ ToRollBack(t) # <<>>
  <2>1. ToRollBack(t) \in RollbackLists
    BY <1>1, Installing, ToRollBackLists
  <2>2. Becomes(t, Doing("rollback", th[t].cfg, ToRollBack(t), th[t].again))
    BY <1>1, <2>1, GoBecomes, AllScripts DEF Fail, InSetup, Base, Places
  <2>3. ThreadOK(Doing("rollback", th[t].cfg, ToRollBack(t), th[t].again), TRUE, FALSE, gen)
    BY <2>1, Installing DEF Doing, ThreadOK, HasConfig, FitsPlace, HoldsLocks,
         KnowsGeneration, InsideOnly, InsideToo, Building
  <2>4. UNCHANGED <<setupLock, setupDone>>
    BY <1>1 DEF Fail, InSetup
  <2>5. ThreadInv'
    BY <1>1, <2>2, <2>3, <2>4, Installing, BecomesOK DEF ProvidersTyped
  <2>6. Types'
    BY <2>2, <2>4 DEF Base, Types, Becomes, ProvidersTyped, runtime
  <2> QED
    BY <2>4, <2>5, <2>6 DEF Base, NotDoneInside
<1>2. CASE ~(setupLock = t /\ ToRollBack(t) # <<>>)
  <2>1. Becomes(t, Idle)
    BY <1>2, ReturnBecomes DEF Fail, InSetup, Base
  <2>2. /\ setupLock' = IF setupLock = t THEN NoThread ELSE setupLock
        /\ setupDone' = setupDone
    BY <1>2 DEF Fail, SetupLockFreed, InSetup
  <2>3. setupLock' # t /\ runtimeLock' # t
    BY <2>2, Installing, LifecycleAssumption
  <2>4. \A u \in Threads \ {t} : setupLock' = u <=> setupLock = u
    BY <2>2, LifecycleAssumption
  <2>5. ThreadInv'
    BY <2>1, <2>3, <2>4, BecomesOK, IdleThread DEF ProvidersTyped
  <2>6. Types'
    BY <2>1, <2>2 DEF Base, Types, Becomes, ProvidersTyped, runtime
  <2> QED
    BY <2>2, <2>5, <2>6 DEF Base, NotDoneInside
<1> QED
  BY <1>1, <1>2

\* A provider made by a thread that has a configuration.
LEMMA NewProviderTyped ==
  ASSUME NEW t, th[t].cfg \in Configs
  PROVE  NewProvider(t) \in Provider
  BY DEF NewProvider, Provider

LEMMA RebuildTyped ==
  ASSUME Base, NEW t, th[t].cfg \in Configs, NEW o, Rebuild(t, o)
  PROVE  ProvidersTyped
<1>1. "logs" \in Signals
  BY ScriptSets
<1>2. live' \in [Signals -> Int]
  BY <1>1 DEF Base, Types, Rebuild
<1>3. ref' \in [Signals -> Provider \cup {NoProvider}]
  <2>1. [by |-> "failed", cfg |-> th[t].cfg] \in Provider
    BY DEF Provider
  <2> QED
    BY <1>1, <2>1, NewProviderTyped DEF Base, Types, Rebuild
<1>4. everSet' \in [Signals -> BOOLEAN]
  <2>1. everSet["logs"] \in BOOLEAN
    BY <1>1 DEF Base, Types
  <2>2. (everSet["logs"] \/ o.reached >= 2) \in BOOLEAN
    BY <2>1
  <2> QED
    BY <2>2 DEF Base, Types, Rebuild
<1> QED
  BY <1>2, <1>3, <1>4 DEF Base, Types, Rebuild, ProvidersTyped

LEMMA ConfigureLoggingBase ==
  ASSUME Base, NEW t \in Threads, ConfigureLogging(t)
  PROVE  Base'
<1>1. th[t].pc \in {"signal"} \cup Building
  BY DEF ConfigureLogging, At
<1>2. PICK o \in LogOutcomes(th[t].cfg) :
        Rebuild(t, o) /\ IF o.raised THEN Fail(t) ELSE Advance(t)
  BY DEF ConfigureLogging
<1>3. ProvidersTyped
  BY <1>1, <1>2, Installing, RebuildTyped
<1> QED
  BY <1>1, <1>2, <1>3, AdvanceBase, FailBase DEF ConfigureLogging

LEMMA CheckProviderBase ==
  ASSUME Base, NEW t \in Threads, CheckProvider(t)
  PROVE  Base'
<1>1. th[t].pc = "signal" /\ Head1(t) \in Built
  BY DEF CheckProvider, At
<1>2. CASE ~th[t].cfg[Head1(t)] \/ Installed(Head1(t))
  <2>1. ProvidersTyped
    BY DEF Base, Types, ProvidersTyped, CheckProvider, providers
  <2> QED
    BY <1>1, <1>2, <2>1, AdvanceBase DEF CheckProvider
<1>3. CASE ~(~th[t].cfg[Head1(t)] \/ Installed(Head1(t)))
  <2> DEFINE d == Doing("build", th[t].cfg, th[t].todo, th[t].again)
             r == [d EXCEPT !.gen = gen[Head1(t)]]
  <2>1. gen[Head1(t)] \in Nat
    BY <1>1 DEF Base, Types
  <2>2. /\ r \in Thread
        /\ r.pc = "build" /\ r.cfg = th[t].cfg /\ r.todo = th[t].todo
        /\ r.gen = gen[Head1(t)] /\ r.stale = FALSE /\ r.again = th[t].again
    <3>1. /\ d \in Thread
          /\ d.pc = "build" /\ d.cfg = th[t].cfg /\ d.todo = th[t].todo
          /\ d.stale = FALSE /\ d.again = th[t].again
      BY <1>1, Installing DEF Doing, Thread, Places
    <3> HIDE DEF d
    <3> QED
      BY <2>1, <3>1 DEF Thread
  <2>4. Becomes(t, r)
    BY <1>3, <2>2, Put DEF CheckProvider, Base
  <2>5. r.todo \in IF setupLock = t THEN SetupScripts \ {Order} ELSE DirectScripts
    BY <1>1, <2>2, Installing, SetupTodo DEF Head1
  <2>6. ThreadOK(r, setupLock = t, FALSE, gen)
    BY <1>1, <2>1, <2>2, <2>5, Installing DEF ThreadOK, HasConfig, FitsPlace, HoldsLocks,
         KnowsGeneration, InsideOnly, InsideToo, Building, Head1
  <2>7. UNCHANGED <<setupLock, setupDone>>
    BY <1>3 DEF CheckProvider
  <2>8. ThreadInv'
    BY <1>1, <2>4, <2>6, <2>7, Installing, BecomesOK DEF CheckProvider, providers
  <2>9. Types'
    BY <2>4, <2>7 DEF Base, Types, Becomes, CheckProvider, runtime, providers
  <2> QED
    BY <2>7, <2>8, <2>9 DEF Base, NotDoneInside
<1> QED
  BY <1>2, <1>3

LEMMA BuildProviderBase ==
  ASSUME Base, NEW t \in Threads, BuildProvider(t)
  PROVE  Base'
<1>1. th[t].pc \in {"signal"} \cup Building /\ th[t].pc = "build"
  BY DEF BuildProvider, At, Building
<1>2. live' \in [Signals -> Int]
  BY <1>1, Installing DEF Base, Types, BuildProvider, BuiltFirst
<1>3. ProvidersTyped
  <2>1. lost' \in [Built -> Nat]
    BY DEF Base, Types, BuildProvider, BuiltFirst
  <2> QED
    BY <1>2, <2>1 DEF Base, Types, ProvidersTyped, BuildProvider
<1>4. CASE Fail(t)
  BY <1>1, <1>3, <1>4, FailBase DEF BuildProvider
<1>6. CASE Advance(t)
  BY <1>1, <1>3, <1>6, AdvanceBase DEF BuildProvider
<1>5. CASE th' = [th EXCEPT ![t] = [@ EXCEPT !.pc = "install"]] /\ UNCHANGED <<setupLock, setupDone>>
  <2> DEFINE r == [th[t] EXCEPT !.pc = "install"]
  <2>1. /\ r \in Thread
        /\ r.pc = "install" /\ r.cfg = th[t].cfg /\ r.todo = th[t].todo
        /\ r.gen = th[t].gen /\ r.stale = th[t].stale /\ r.again = th[t].again
    BY Known DEF Thread, Places
  <2>2. Becomes(t, r)
    BY <1>5, <2>1, Put DEF Base
  <2>3. ThreadOK(r, setupLock = t, runtimeLock = t, gen)
    BY <1>1, <2>1, Known DEF ThreadOK, HasConfig, FitsPlace, HoldsLocks, KnowsGeneration,
         Building, InsideOnly, InsideToo
  <2>4. ThreadInv'
    BY <1>5, <2>2, <2>3, BecomesOK DEF BuildProvider
  <2>5. Types'
    BY <1>5, <1>3, <2>2 DEF Base, Types, Becomes, BuildProvider, ProvidersTyped, runtime
  <2> QED
    BY <1>5, <2>4, <2>5 DEF Base, NotDoneInside
<1> QED
  BY <1>4, <1>5, <1>6 DEF BuildProvider

LEMMA InstallProviderBase ==
  ASSUME Base, NEW t \in Threads, InstallProvider(t)
  PROVE  Base'
<1>1. th[t].pc \in {"signal"} \cup Building
  BY DEF InstallProvider, At, Building
<1>2. ref' \in [Signals -> Provider \cup {NoProvider}]
  BY <1>1, Installing, NewProviderTyped DEF Base, Types, InstallProvider
<1>3. ProvidersTyped
  BY <1>2 DEF Base, Types, ProvidersTyped, InstallProvider
<1> QED
  BY <1>1, <1>3, AdvanceBase DEF InstallProvider

LEMMA DiscardProviderBase ==
  ASSUME Base, NEW t \in Threads, DiscardProvider(t)
  PROVE  Base'
<1>1. th[t].pc \in {"signal"} \cup Building
  BY DEF DiscardProvider, At, Building
<1>2. live' \in [Signals -> Int]
  BY <1>1, Installing DEF Base, Types, DiscardProvider, Discarded
<1>3. ProvidersTyped
  BY <1>2 DEF Base, Types, ProvidersTyped, DiscardProvider
<1> QED
  BY <1>1, <1>3, AdvanceBase, FailBase DEF DiscardProvider

\* Steps that shut a signal down and let t go on as r.
LEMMA LeavesBase ==
  ASSUME Base, NEW t \in Threads, NEW s \in Signals, NEW r \in Thread, Leave(t, s, r),
         ShutdownSignal(s), r.pc \notin Building,
         ThreadOK(r, setupLock' = t, runtimeLock' = t, gen),
         \A u \in Threads \ {t} : setupLock' = u <=> setupLock = u,
         setupLock' \in Threads \cup {NoThread}, NotDoneInside',
         setupDone' \in BOOLEAN, cut' \in BOOLEAN, UNCHANGED <<runtimeLock, runtime, calls>>
  PROVE  Base'
<1>1. Leaves(t, s, r)
  BY LeaveLeaves DEF Base
<1>2. ThreadInv'
  BY <1>1, LeavesOK DEF ShutdownSignal
<1>3. Types'
  BY <1>1, ShutdownTypes DEF Base, Types, Leaves, runtime
<1> QED
  BY <1>2, <1>3 DEF Base

LEMMA RollbackBase ==
  ASSUME Base, NEW t \in Threads, Rollback(t)
  PROVE  Base'
<1>1. th[t] \in Thread /\ th[t].todo \in RollbackLists /\ th[t].cfg \in Configs
  BY Known DEF Rollback, At, ThreadOK, FitsPlace, HasConfig
<1>2. setupLock = t /\ runtimeLock # t /\ th[t].pc = "rollback"
  BY Known DEF Rollback, At, ThreadOK, HoldsLocks, InsideOnly
<1>3. Head1(t) \in Signals /\ (Rest(t) = <<>> \/ Rest(t) \in RollbackLists)
  BY <1>1, RollbackTodo DEF Continues, Head1, Rest
<1>4. CASE Rest(t) = <<>>
  <2>1. Leave(t, Head1(t), Idle) /\ setupLock' = NoThread
    BY <1>4 DEF Rollback
  <2>2. ThreadOK(Idle, setupLock' = t, runtimeLock' = t, gen) /\ Idle.pc \notin Building
    BY <1>2, <2>1, IdleThread, LifecycleAssumption DEF Rollback, Idle, Doing, Building
  <2> QED
    BY <1>2, <1>3, <2>1, <2>2, LeavesBase, IdleThread, LifecycleAssumption
       DEF Rollback, Base, Types, NotDoneInside
<1>5. CASE Rest(t) # <<>>
  <2> DEFINE r == Doing("rollback", th[t].cfg, Rest(t), th[t].again)
  <2>1. Leave(t, Head1(t), r) /\ setupLock' = setupLock
    BY <1>5 DEF Rollback
  <2>2. r \in Thread
    BY <1>1, <1>3, <1>5, AllScripts DEF Doing, Thread, Places
  <2>3. ThreadOK(r, TRUE, FALSE, gen) /\ r.pc \notin Building
    BY <1>1, <1>3, <1>5 DEF Doing, ThreadOK, HasConfig, FitsPlace, HoldsLocks,
         KnowsGeneration, InsideOnly, InsideToo, Building
  <2> HIDE DEF r
  <2>4. ThreadOK(r, setupLock' = t, runtimeLock' = t, gen)
    BY <1>2, <2>1, <2>3 DEF Rollback
  <2> QED
    BY <1>2, <1>3, <2>1, <2>2, <2>3, <2>4, LeavesBase DEF Rollback, Base, Types, NotDoneInside
<1> QED
  BY <1>4, <1>5

LEMMA EnterShutdownBase ==
  ASSUME Base, NEW t \in Threads, EnterShutdown(t)
  PROVE  Base'
<1> DEFINE r == Doing("teardown", th[t].cfg, Teardown, th[t].again)
<1>1. Becomes(t, r)
  BY GoBecomes, AllScripts DEF EnterShutdown, Base, Places
<1>2. setupLock = NoThread /\ runtimeLock # t /\ HasConfig(th[t])
  BY Known DEF EnterShutdown, At, ThreadOK, HoldsLocks
<1>3. ThreadOK(r, TRUE, FALSE, gen)
  BY <1>2, AllScripts DEF Doing, ThreadOK, HasConfig, FitsPlace, HoldsLocks,
       KnowsGeneration, InsideOnly, InsideToo, Building
<1> HIDE DEF r
<1>4. ThreadInv'
  BY <1>1, <1>2, <1>3, BecomesOK, LifecycleAssumption DEF EnterShutdown, providers
<1>5. Types'
  BY <1>1 DEF Base, Types, Becomes, EnterShutdown, runtime, providers
<1> QED
  BY <1>4, <1>5 DEF Base, NotDoneInside, EnterShutdown

\* A thread inside shutdown_telemetry.
LEMMA TearingDown ==
  ASSUME Base, NEW t \in Threads, At(t, "teardown")
  PROVE  /\ th[t] \in Thread
         /\ setupLock = t /\ runtimeLock # t /\ ~setupDone
         /\ Head1(t) \in Signals
         /\ Rest(t) = <<>> \/ Rest(t) \in TeardownScripts
<1>1. th[t] \in Thread /\ th[t].todo \in TeardownScripts
  BY Known DEF At, ThreadOK, FitsPlace
<1>2. setupLock = t /\ runtimeLock # t
  BY Known DEF At, ThreadOK, HoldsLocks, InsideOnly
<1>3. ~setupDone
  BY <1>2, LifecycleAssumption DEF Base, NotDoneInside
<1> QED
  BY <1>1, <1>2, <1>3, TeardownTodo DEF Continues, Head1, Rest

LEMMA TearDownBase ==
  ASSUME Base, NEW t \in Threads, TearDown(t)
  PROVE  Base'
<1> DEFINE r == Doing(IF Rest(t) = <<>> THEN "reset" ELSE "teardown",
                      th[t].cfg, Rest(t), th[t].again)
<1>1. At(t, "teardown") /\ HasConfig(th[t])
  BY Known DEF TearDown, ThreadOK
<1>2. Rest(t) \in Scripts
  BY <1>1, TearingDown, AllScripts, EmptyScript
<1>3. r \in Thread
  BY <1>1, <1>2, TearingDown DEF Doing, Thread, Places
<1>4. ThreadOK(r, TRUE, FALSE, gen) /\ r.pc \notin Building
  BY <1>1, TearingDown DEF Doing, ThreadOK, HasConfig, FitsPlace, HoldsLocks,
       KnowsGeneration, InsideOnly, InsideToo, Building
<1>5. Leave(t, Head1(t), r)
  BY DEF TearDown
<1> HIDE DEF r
<1>6. ThreadOK(r, setupLock' = t, runtimeLock' = t, gen)
  BY <1>1, <1>4, TearingDown DEF TearDown, locks
<1> QED
  BY <1>1, <1>3, <1>4, <1>5, <1>6, TearingDown, LeavesBase
     DEF TearDown, locks, Base, Types, NotDoneInside

LEMMA TearDownRaisesBase ==
  ASSUME Base, NEW t \in Threads, TearDownRaises(t)
  PROVE  Base'
<1>1. At(t, "teardown")
  BY DEF TearDownRaises
<1>2. ThreadOK(Idle, setupLock' = t, runtimeLock' = t, gen) /\ Idle.pc \notin Building
  BY <1>1, TearingDown, IdleThread, LifecycleAssumption DEF TearDownRaises, Idle, Doing, Building
<1> QED
  BY <1>1, <1>2, TearingDown, LeavesBase, IdleThread, LifecycleAssumption
     DEF TearDownRaises, Base, Types, NotDoneInside

LEMMA ResetRuntimeBase ==
  ASSUME Base, NEW t \in Threads, ResetRuntime(t)
  PROVE  Base'
<1>1. setupLock = t /\ runtimeLock # t /\ HasConfig(th[t]) /\ th[t] \in Thread
  BY Known DEF ResetRuntime, At, ThreadOK, HoldsLocks, InsideOnly
<1>2. setupLock' = NoThread /\ runtimeLock' = runtimeLock /\ gen' = gen
  BY DEF ResetRuntime, providers
<1>3. PICK r \in Thread : Becomes(t, r) /\ ThreadOK(r, FALSE, FALSE, gen)
  <2> DEFINE r == Doing("setup", th[t].cfg, <<>>, FALSE)
  <2>1. CASE th[t].again
    <3>1. r \in Thread
      BY <1>1, EmptyScript DEF Doing, Thread, Places
    <3>2. ThreadOK(r, FALSE, FALSE, gen)
      BY <1>1, <2>1 DEF Doing, ThreadOK, HasConfig, FitsPlace, HoldsLocks,
           KnowsGeneration, InsideOnly, InsideToo, Building
    <3>3. Becomes(t, r)
      BY <2>1, <3>1, Put DEF ResetRuntime, Base
    <3> QED
      BY <3>1, <3>2, <3>3
  <2>2. CASE ~th[t].again
    BY <2>2, ReturnBecomes, IdleThread DEF ResetRuntime, Base
  <2> QED
    BY <2>1, <2>2
<1>4. ThreadInv'
  BY <1>1, <1>2, <1>3, BecomesOK, LifecycleAssumption
<1>5. Types'
  BY <1>2, <1>3 DEF Base, Types, Becomes, ResetRuntime, providers
<1> QED
  BY <1>2, <1>4, <1>5 DEF Base, NotDoneInside

LEMMA ProbeBase ==
  ASSUME Base, NEW t \in Threads, Probe(t)
  PROVE  Base'
<1>1. /\ setupLock # t /\ runtimeLock # t /\ th[t].cfg \in Configs /\ th[t] \in Thread
      /\ th[t].todo \in SetupScripts
  BY Known DEF Probe, At, ThreadOK, HoldsLocks, HasConfig, FitsPlace, InsideOnly, InsideToo, Building
<1>2. PICK r \in Thread : Becomes(t, r) /\ ThreadOK(r, FALSE, FALSE, gen)
  <2>1. CASE EverInstalled(Head1(t))
    BY <2>1, ReturnBecomes, IdleThread DEF Probe, Base
  <2>2. CASE ~EverInstalled(Head1(t))
    <3> DEFINE r == IF Rest(t) = <<>> THEN Doing("shutdown", th[t].cfg, <<>>, TRUE)
                                      ELSE Doing("probe", th[t].cfg, Rest(t), FALSE)
    <3>1. Rest(t) = <<>> \/ Rest(t) \in SetupScripts
      BY <1>1, SetupTodo DEF Continues, Rest
    <3>2. r \in Thread
      BY <1>1, <3>1, EmptyScript, AllScripts DEF Doing, Thread, Places
    <3>3. ThreadOK(r, FALSE, FALSE, gen)
      BY <1>1, <3>1 DEF Doing, ThreadOK, HasConfig, FitsPlace, HoldsLocks,
           KnowsGeneration, InsideOnly, InsideToo, Building
    <3>4. Becomes(t, r)
      BY <2>2, <3>2, Put DEF Probe, Base
    <3> QED
      BY <3>2, <3>3, <3>4
  <2> QED
    BY <2>1, <2>2
<1>3. ThreadInv'
  BY <1>1, <1>2, BecomesOK DEF Probe, locks, providers
<1>4. Types'
  BY <1>2 DEF Base, Types, Becomes, Probe, locks, runtime, providers
<1> QED
  BY <1>3, <1>4 DEF Base, NotDoneInside, Probe, locks

LEMMA LazyConfigureBase ==
  ASSUME Base, NEW t \in Threads, LazyConfigure(t)
  PROVE  Base'
<1>1. setupLock # t /\ runtimeLock # t /\ th[t].cfg \in Configs
  BY Known DEF LazyConfigure, At, ThreadOK, HoldsLocks, HasConfig, InsideOnly, InsideToo, Building
<1>2. Becomes(t, Idle)
  BY ReturnBecomes DEF LazyConfigure, Base
<1>3. ProvidersTyped
  <2>1. CASE UNCHANGED providers
    BY <2>1 DEF Base, Types, ProvidersTyped, providers
  <2>2. CASE \E o : Rebuild(t, o)
    BY <1>1, <2>2, RebuildTyped
  <2> QED
    BY <2>1, <2>2 DEF LazyConfigure
<1>4. ThreadInv'
  BY <1>1, <1>2, <1>3, BecomesOK, IdleThread DEF LazyConfigure, locks, ProvidersTyped
<1>5. Types'
  BY <1>2, <1>3 DEF Base, Types, Becomes, ProvidersTyped, LazyConfigure, locks, runtime
<1> QED
  BY <1>4, <1>5 DEF Base, NotDoneInside, LazyConfigure, locks

LEMMA StepBase ==
  ASSUME Base, NEW t \in Threads, Step(t)
  PROVE  Base'
  BY BeginApplyBase, SetPolicyBase, EnterSetupBase, ConfigureLoggingBase, CheckProviderBase,
     BuildProviderBase, InstallProviderBase, DiscardProviderBase, RollbackBase,
     EnterShutdownBase, TearDownBase, TearDownRaisesBase, ResetRuntimeBase, ProbeBase,
     LazyConfigureBase DEF Step

LEMMA BaseNext == Base /\ [Next]_vars => Base'
<1> SUFFICES ASSUME Base, [Next]_vars PROVE Base'
  OBVIOUS
<1>1. CASE Next
  BY <1>1, StartBase, StepBase DEF Next
<1>2. CASE UNCHANGED vars
  BY <1>2 DEF vars, Base, Types, ThreadInv, NotDoneInside
<1> QED
  BY <1>1, <1>2

\* The scripts and places of the threads, and the locks, always agree.
LEMMA BaseAlways == Spec => []Base
  BY BaseInit, BaseNext, PTL DEF Spec
-----------------------------------------------------------------------------
(***************************************************************************)
(* The policies.                                                           *)
(***************************************************************************)
\* A step of t leaves the others where they are.
OthersStay(t) ==
  \A u \in Threads \ {t} :
    \/ th'[u] = th[u]
    \/ th[u].pc \in Building /\ th'[u] = [th[u] EXCEPT !.stale = TRUE]

LEMMA StartOthersStay ==
  ASSUME Base, NEW t \in Threads, Start(t)
  PROVE  OthersStay(t)
<1> USE DEF Base, Types, OthersStay, Begin
<1>1. ASSUME NEW c \in Configs, CallSetup(t, c) PROVE OthersStay(t)
  BY <1>1 DEF CallSetup
<1>2. ASSUME NEW c \in Configs, CallUpdate(t, c) PROVE OthersStay(t)
  BY <1>2 DEF CallUpdate
<1>3. ASSUME NEW c \in Configs, CallReconfigure(t, c) PROVE OthersStay(t)
  BY <1>3 DEF CallReconfigure
<1>4. ASSUME CallShutdown(t) PROVE OthersStay(t)
  BY <1>4 DEF CallShutdown
<1>5. ASSUME CallGetLogger(t) PROVE OthersStay(t)
  BY <1>5 DEF CallGetLogger
<1>6. ASSUME NEW s \in Built, NEW c \in Configs, CallSetupSignal(t, s, c) PROVE OthersStay(t)
  BY <1>6 DEF CallSetupSignal
<1>7. ASSUME NEW s \in Built, CallShutdownSignal(t, s) PROVE OthersStay(t)
  BY <1>7, LeaveLeaves, IdleThread DEF CallShutdownSignal, Leaves
<1> QED
  BY <1>1, <1>2, <1>3, <1>4, <1>5, <1>6, <1>7 DEF Start

LEMMA StepOthersStay ==
  ASSUME Base, NEW t \in Threads, Step(t)
  PROVE  OthersStay(t)
<1> USE DEF Base, Types, OthersStay, Go, Return
<1>1. ASSUME Advance(t) PROVE OthersStay(t)
  BY <1>1 DEF Advance
<1>2. ASSUME Fail(t) PROVE OthersStay(t)
  BY <1>2 DEF Fail
<1>3. ASSUME NEW s, NEW r, Leave(t, s, r) PROVE OthersStay(t)
  BY <1>3 DEF Leave, Staled, Building
<1>4. CASE BeginApply(t)
  BY <1>4 DEF BeginApply
<1>5. CASE SetPolicy(t)
  BY <1>5 DEF SetPolicy
<1>6. CASE EnterSetup(t)
  BY <1>6 DEF EnterSetup
<1>7. CASE ConfigureLogging(t)
  BY <1>1, <1>2, <1>7 DEF ConfigureLogging
<1>8. CASE CheckProvider(t)
  BY <1>1, <1>8 DEF CheckProvider
<1>9. CASE BuildProvider(t)
  BY <1>1, <1>2, <1>9 DEF BuildProvider
<1>10. CASE InstallProvider(t)
  BY <1>1, <1>10 DEF InstallProvider
<1>11. CASE DiscardProvider(t)
  BY <1>1, <1>2, <1>11 DEF DiscardProvider
<1>12. CASE Rollback(t)
  BY <1>3, <1>12 DEF Rollback
<1>13. CASE EnterShutdown(t)
  BY <1>13 DEF EnterShutdown
<1>14. CASE TearDown(t)
  BY <1>3, <1>14 DEF TearDown
<1>15. CASE TearDownRaises(t)
  BY <1>3, <1>15 DEF TearDownRaises
<1>16. CASE ResetRuntime(t)
  BY <1>16 DEF ResetRuntime
<1>17. CASE Probe(t)
  BY <1>17 DEF Probe
<1>18. CASE LazyConfigure(t)
  BY <1>18 DEF LazyConfigure
<1> QED
  BY <1>4, <1>5, <1>6, <1>7, <1>8, <1>9, <1>10, <1>11, <1>12, <1>13, <1>14, <1>15,
     <1>16, <1>17, <1>18 DEF Step

\* An application half-way has set the groups that are not left in its script,
\* all from the configuration that is active.
HalfApplied ==
  \A t \in Threads : th[t].pc = "policies" =>
    /\ active = th[t].cfg
    /\ \A g \in ToSet(Policies) \ ToSet(th[t].todo) : policy[g] = active

PolicyInv == HalfApplied /\ PoliciesFollowSnapshot

\* Steps outside of runtime._lock.
LEMMA PolicyQuiet ==
  ASSUME Base, Base', PolicyInv, NEW t \in Threads, OthersStay(t), th[t].pc # "policies",
         UNCHANGED <<runtimeLock, runtime>>
  PROVE  PolicyInv'
<1>1. PoliciesFollowSnapshot'
  BY DEF PolicyInv, PoliciesFollowSnapshot, runtime
<1>2. ASSUME NEW u \in Threads, th'[u].pc = "policies"
      PROVE  th'[u] = th[u]
  <2>1. runtimeLock' = u
    BY <1>2 DEF Base, ThreadInv, ThreadOK, HoldsLocks
  <2>2. th[u].pc = "policies"
    BY <2>1, Known DEF ThreadOK, HoldsLocks
  <2> QED
    BY <2>2 DEF OthersStay, Building
<1>3. HalfApplied'
  BY <1>2 DEF PolicyInv, HalfApplied, runtime
<1> QED
  BY <1>1, <1>3 DEF PolicyInv

LEMMA PolicyNext == Base /\ Base' /\ PolicyInv /\ [Next]_vars => PolicyInv'
<1> SUFFICES ASSUME Base, Base', PolicyInv, [Next]_vars PROVE PolicyInv'
  OBVIOUS
<1>1. ASSUME NEW t \in Threads, Start(t) PROVE PolicyInv'
  <2>1. th[t].pc # "policies" /\ UNCHANGED <<runtimeLock, runtime>>
    BY <1>1 DEF Start, CallSetup, CallUpdate, CallReconfigure, CallShutdown, CallGetLogger,
         CallSetupSignal, CallShutdownSignal, Call, At, locks, runtime
  <2> QED
    BY <1>1, <2>1, StartOthersStay, PolicyQuiet
<1>2. ASSUME NEW t \in Threads, Step(t) PROVE PolicyInv'
  <2>1. CASE BeginApply(t)
    <3>1. Becomes(t, Doing("policies", th[t].cfg, Policies, th[t].again))
      BY <2>1, GoBecomes, AllScripts DEF BeginApply, Base, Places
    <3>2. runtimeLock' = t /\ t # NoThread /\ active' = th[t].cfg
      BY <2>1, LifecycleAssumption DEF BeginApply
    <3>3. \A u \in Threads : th'[u].pc = "policies" => u = t
      BY <3>2 DEF Base, ThreadInv, ThreadOK, HoldsLocks
    <3>4. HalfApplied'
      BY <3>1, <3>2, <3>3 DEF HalfApplied, Becomes, Doing
    <3> QED
      BY <3>2, <3>4 DEF PolicyInv, PoliciesFollowSnapshot
  <2>2. CASE SetPolicy(t)
    <3>1. /\ th[t].todo \in PolicyScripts /\ runtimeLock = t /\ th[t].pc = "policies"
          /\ th[t] \in Thread
      BY <2>2, Known DEF SetPolicy, At, ThreadOK, FitsPlace, HoldsLocks
    <3>2. /\ active = th[t].cfg /\ active' = active
          /\ policy' = [policy EXCEPT ![Head1(t)] = active]
      BY <2>2, <3>1 DEF PolicyInv, HalfApplied, SetPolicy
    <3>3. \A g \in ToSet(Policies) \ ToSet(Rest(t)) : policy'[g] = active
      BY <3>1, <3>2, PolicyTodo DEF PolicyInv, HalfApplied, Head1, Rest, Base, Types
    <3>4. CASE ReleasesRuntime(t)
      <4>1. ToSet(Rest(t)) = {} /\ runtimeLock' = NoThread
        BY <2>2, <3>1, <3>4, PolicyTodo DEF ReleasesRuntime, Rest, SetPolicy
      <4>2. DOMAIN policy' = ToSet(Policies)
        BY DEF Base, Types
      <4>3. PoliciesFollowSnapshot'
        BY <3>2, <3>3, <4>1, <4>2 DEF PoliciesFollowSnapshot
      <4>4. HalfApplied'
        BY <4>1, LifecycleAssumption DEF HalfApplied, Base, ThreadInv, ThreadOK, HoldsLocks
      <4> QED
        BY <4>3, <4>4 DEF PolicyInv
    <3>5. CASE ~ReleasesRuntime(t)
      <4>1. runtimeLock' = t /\ t # NoThread
        BY <2>2, <3>1, <3>5, LifecycleAssumption DEF SetPolicy
      <4>2. Rest(t) \in Scripts
        BY <3>1, <3>5, PolicyTodo, AllScripts DEF ReleasesRuntime, Rest
      <4>3. Becomes(t, Doing("policies", th[t].cfg, Rest(t), th[t].again))
        BY <2>2, <3>5, <4>2, GoBecomes DEF SetPolicy, Base, Places
      <4>4. \A u \in Threads : th'[u].pc = "policies" => u = t
        BY <4>1 DEF Base, ThreadInv, ThreadOK, HoldsLocks
      <4>5. HalfApplied'
        BY <3>2, <3>3, <4>3, <4>4 DEF HalfApplied, Becomes, Doing
      <4> QED
        BY <4>1, <4>5 DEF PolicyInv, PoliciesFollowSnapshot
    <3> QED
      BY <3>4, <3>5
  <2>3. CASE ResetRuntime(t)
    <3>1. active' = NoConfig /\ runtimeLock' = NoThread
      BY <2>3 DEF ResetRuntime, RuntimeFree
    <3>2. HalfApplied'
      BY <3>1, LifecycleAssumption DEF HalfApplied, Base, ThreadInv, ThreadOK, HoldsLocks
    <3> QED
      BY <3>1, <3>2 DEF PolicyInv, PoliciesFollowSnapshot
  <2>4. CASE \/ EnterSetup(t) \/ ConfigureLogging(t) \/ CheckProvider(t)
             \/ BuildProvider(t) \/ InstallProvider(t) \/ DiscardProvider(t) \/ Rollback(t)
             \/ EnterShutdown(t) \/ TearDown(t) \/ TearDownRaises(t)
             \/ Probe(t) \/ LazyConfigure(t)
    <3>1. th[t].pc # "policies" /\ UNCHANGED <<runtimeLock, runtime>>
      BY <2>4 DEF EnterSetup, ConfigureLogging, CheckProvider, BuildProvider, InstallProvider,
           DiscardProvider, Rollback, EnterShutdown, TearDown, TearDownRaises, Probe,
           LazyConfigure, At, locks, runtime
    <3> QED
      BY <1>2, <3>1, StepOthersStay, PolicyQuiet
  <2> QED
    BY <1>2, <2>1, <2>2, <2>3, <2>4 DEF Step
<1>3. CASE UNCHANGED vars
  BY <1>3 DEF vars, PolicyInv, HalfApplied, PoliciesFollowSnapshot
<1> QED
  BY <1>1, <1>2, <1>3 DEF Next

LEMMA PolicyInit == Init => PolicyInv
  BY DEF Init, PolicyInv, HalfApplied, PoliciesFollowSnapshot, Idle, Doing

(***************************************************************************)
(* Between two applications all policies come from the active              *)
(* configuration, for any threads and configurations (runtime.py:37).      *)
(***************************************************************************)
THEOREM PoliciesFollow == Spec => []PoliciesFollowSnapshot
<1>1. Init => PolicyInv
  BY PolicyInit
<1>2. Base /\ Base' /\ PolicyInv /\ [Next]_vars => PolicyInv'
  BY PolicyNext
<1>3. PolicyInv => PoliciesFollowSnapshot
  BY DEF PolicyInv
<1> QED
  BY <1>1, <1>2, <1>3, BaseAlways, PTL DEF Spec
-----------------------------------------------------------------------------
(***************************************************************************)
(* Stale providers.                                                        *)
(***************************************************************************)
\* A provider whose signal was shut down while it was built is of a generation
\* that is over, so that the test before the installation fails.
LEMMA StaleStep ==
  ASSUME Base, NEW u \in Threads, Start(u) \/ Step(u), NEW t \in Threads,
         th[t].stale, At(t, "install"), th'[t] # th[t]
  PROVE  ref' = ref
<1>1. u = t
  <2> SUFFICES ASSUME u # t PROVE FALSE
    OBVIOUS
  <2>1. th'[t] = th[t] \/ th'[t] = [th[t] EXCEPT !.stale = TRUE]
    BY StartOthersStay, StepOthersStay DEF OthersStay
  <2>2. th[t] \in Thread
    BY Known
  <2>3. [th[t] EXCEPT !.stale = TRUE] = th[t]
    BY <2>2 DEF Thread
  <2> QED
    BY <2>1, <2>3
<1>2. ~Start(t)
  BY DEF Start, CallSetup, CallUpdate, CallReconfigure, CallShutdown, CallGetLogger,
     CallSetupSignal, CallShutdownSignal, Call, At
<1>3. InstallProvider(t) \/ DiscardProvider(t)
  BY <1>1, <1>2 DEF Step, BeginApply, SetPolicy, EnterSetup, ConfigureLogging, CheckProvider,
     BuildProvider, Rollback, EnterShutdown, TearDown, TearDownRaises, ResetRuntime, Probe,
     LazyConfigure, At
<1>4. th[t].gen < gen[Head1(t)] /\ th[t].gen \in Nat /\ gen[Head1(t)] \in Nat
  BY Known, BuildingBuilt DEF At, ThreadOK, KnowsGeneration, Building, Head1
<1>5. ~MayInstall(t, Head1(t))
  BY <1>4 DEF MayInstall
<1> QED
  BY <1>3, <1>5 DEF InstallProvider, DiscardProvider

(***************************************************************************)
(* A provider whose building began before its signal was shut down is      *)
(* never installed after (tracing/provider.py:129).                        *)
(***************************************************************************)
THEOREM StaleStaysOut == Spec => StaleNeverInstalled
<1>1. Base /\ [Next]_vars =>
        [\A t \in Threads :
           th[t].stale /\ At(t, "install") /\ th'[t] # th[t] => ref' = ref]_vars
  BY StaleStep DEF Next, vars
<1> QED
  BY <1>1, BaseAlways, PTL DEF Spec, StaleNeverInstalled
-----------------------------------------------------------------------------
(***************************************************************************)
(* The providers that are alive.                                           *)
(***************************************************************************)
Bit(b) == IF b THEN 1 ELSE 0

\* Logging may lose its provider without shutting it down, never the converse.
LogsCounted == live["logs"] >= Bit(Installed("logs"))

LiveInv == ProvidersAreHeld /\ LogsCounted

LEMMA HoldingFinite ==
  ASSUME NEW s
  PROVE  IsFiniteSet(Holding(s)) /\ Cardinality(Holding(s)) \in Nat
  BY FS_Subset, FS_CardinalityType, LifecycleAssumption DEF Holding

\* Of the threads that hold a provider, a step of t concerns t alone.
LEMMA HoldingOthers ==
  ASSUME Base, NEW t \in Threads, OthersStay(t), NEW s
  PROVE  Holding(s)' \ {t} = Holding(s) \ {t}
<1> SUFFICES ASSUME NEW u \in Threads \ {t}
             PROVE  u \in Holding(s)' <=> u \in Holding(s)
  BY DEF Holding
<1>1. th[u] \in Thread
  BY Known
<1>2. th'[u].pc = th[u].pc /\ th'[u].todo = th[u].todo
  BY <1>1 DEF OthersStay, Thread
<1> QED
  BY <1>2 DEF Holding, At, Head1

LEMMA HoldingSame ==
  ASSUME Base, NEW t \in Threads, OthersStay(t), NEW s,
         th[t].pc # "install", th'[t].pc # "install"
  PROVE  Holding(s)' = Holding(s)
<1>1. t \notin Holding(s) /\ t \notin Holding(s)'
  BY DEF Holding, At
<1> QED
  BY <1>1, HoldingOthers

\* Where setup goes when a step is done, or raised.
LEMMA AdvanceFailPlace ==
  ASSUME Base, NEW t \in Threads, th[t].pc \in {"signal"} \cup Building,
         Advance(t) \/ Fail(t)
  PROVE  th'[t].pc \in {"signal", "rollback", "idle"}
<1>1. th[t] \in Thread /\ th \in [Threads -> Thread]
  BY DEF Base, Types
<1> QED
  BY <1>1 DEF Advance, Fail, Go, Return, Doing, Idle

\* A step that shuts signal r down.
LEMMA LiveShutdown ==
  ASSUME Base, LiveInv, NEW t \in Threads, OthersStay(t), NEW r \in Signals,
         ShutdownSignal(r), th[t].pc # "install", th'[t].pc # "install"
  PROVE  LiveInv'
<1>1. /\ live' = [live EXCEPT ![r] = @ - Bit(Installed(r))]
      /\ ref' = [ref EXCEPT ![r] = NoProvider]
      /\ lost' = lost
  BY DEF ShutdownSignal, ShutDown, Bit
<1>2. (\A s \in Signals : live[s] \in Int) /\ \A s \in Built : lost[s] \in Nat
  BY DEF Base, Types
<1>3. ASSUME NEW s \in Built
      PROVE  live'[s] = Cardinality(Holding(s)') + Bit(Installed(s)') + lost'[s]
  <2>1. Holding(s)' = Holding(s) /\ Cardinality(Holding(s)) \in Nat /\ s \in Signals
    BY HoldingSame, HoldingFinite, ScriptSets DEF Built
  <2>2. live[s] = Cardinality(Holding(s)) + Bit(Installed(s)) + lost[s]
    BY DEF LiveInv, ProvidersAreHeld, Bit
  <2> QED
    BY <1>1, <1>2, <2>1, <2>2 DEF Base, Types, Installed, Bit
<1>4. LogsCounted'
  <2>1. "logs" \in Signals
    BY ScriptSets
  <2> QED
    BY <1>1, <1>2, <2>1 DEF LiveInv, LogsCounted, Base, Types, Installed, Bit
<1> QED
  BY <1>1, <1>3, <1>4 DEF LiveInv, ProvidersAreHeld, Bit

LEMMA LiveQuietInv ==
  ASSUME Base, LiveInv, NEW t \in Threads, OthersStay(t),
         th[t].pc # "install", th'[t].pc # "install", UNCHANGED <<live, lost, ref>>
  PROVE  LiveInv'
<1>1. ASSUME NEW s \in Built
      PROVE  live'[s] = Cardinality(Holding(s)') + Bit(Installed(s)') + lost'[s]
  <2>1. Holding(s)' = Holding(s)
    BY HoldingSame
  <2> QED
    BY <2>1 DEF LiveInv, ProvidersAreHeld, Installed, Bit
<1>2. LogsCounted'
  BY DEF LiveInv, LogsCounted, Installed
<1> QED
  BY <1>1, <1>2 DEF LiveInv, ProvidersAreHeld, Bit

LEMMA LiveRebuild ==
  ASSUME Base, LiveInv, NEW t \in Threads, OthersStay(t),
         th[t].pc # "install", th'[t].pc # "install", th[t].cfg \in Configs,
         NEW o \in LogOutcomes(th[t].cfg), Rebuild(t, o)
  PROVE  LiveInv'
<1>1. "logs" \in Signals /\ "logs" \notin Built /\ Built \subseteq Signals
  BY ScriptSets DEF Built
<1>2. ASSUME NEW s \in Built
      PROVE  live'[s] = Cardinality(Holding(s)') + Bit(Installed(s)') + lost'[s]
  <2>1. Holding(s)' = Holding(s)
    BY HoldingSame
  <2>2. live'[s] = live[s] /\ ref'[s] = ref[s] /\ lost' = lost
    BY <1>1 DEF Rebuild, Base, Types
  <2> QED
    BY <2>1, <2>2 DEF LiveInv, ProvidersAreHeld, Installed, Bit
<1>3. LogsCounted'
  <2>1. live["logs"] \in Int /\ live["logs"] >= 0
    BY <1>1 DEF LiveInv, LogsCounted, Bit, Base, Types
  <2>4. o.reached \in 0..3
    BY DEF LogOutcomes
  <2>2. CASE o.reached > 0
    <3>1. live'["logs"] = live["logs"] + 1
      BY <1>1, <2>2 DEF Rebuild, Base, Types
    <3> QED
      BY <2>1, <3>1 DEF LogsCounted, Bit
  <2>3. CASE ~(o.reached > 0)
    <3>1. live'["logs"] = live["logs"] /\ ref'["logs"] = NoProvider
      BY <1>1, <2>1, <2>3, <2>4 DEF Rebuild, Base, Types
    <3> QED
      BY <2>1, <3>1 DEF LogsCounted, Installed, Bit
  <2> QED
    BY <2>2, <2>3
<1> QED
  BY <1>2, <1>3 DEF LiveInv, ProvidersAreHeld, Bit, Rebuild

\* A provider is built: the thread that built it holds it.
LEMMA LiveBuilt ==
  ASSUME Base, LiveInv, NEW t \in Threads, OthersStay(t), th[t].pc = "build",
         th' = [th EXCEPT ![t] = [@ EXCEPT !.pc = "install"]],
         live' = [live EXCEPT ![Head1(t)] = @ + 1], UNCHANGED <<lost, ref>>
  PROVE  LiveInv'
<1>1. Head1(t) \in Built /\ Built \subseteq Signals /\ "logs" \notin Built
  BY BuildingBuilt, ScriptSets DEF Building, Built
<1>2. th'[t].pc = "install" /\ th'[t].todo = th[t].todo
  <2>1. th[t] \in Thread /\ th \in [Threads -> Thread]
    BY DEF Base, Types
  <2>2. th'[t] = [th[t] EXCEPT !.pc = "install"]
    BY <2>1
  <2> QED
    BY <2>1, <2>2 DEF Thread
<1>3. ASSUME NEW s \in Built
      PROVE  live'[s] = Cardinality(Holding(s)') + Bit(Installed(s)') + lost'[s]
  <2>1. live[s] \in Int /\ lost[s] \in Nat /\ live[s] = Cardinality(Holding(s)) + Bit(Installed(s)) + lost[s]
    BY <1>1 DEF Base, Types, LiveInv, ProvidersAreHeld, Bit
  <2>2. IsFiniteSet(Holding(s)) /\ Cardinality(Holding(s)) \in Nat
    BY HoldingFinite
  <2>3. t \notin Holding(s) /\ (t \in Holding(s)' <=> s = Head1(t))
    BY <1>2 DEF Holding, At, Head1
  <2>4. Holding(s)' \ {t} = Holding(s) \ {t}
    BY HoldingOthers
  <2>5. CASE s = Head1(t)
    <3>1. Holding(s)' = Holding(s) \cup {t}
      BY <2>3, <2>4, <2>5
    <3>2. Cardinality(Holding(s)') = Cardinality(Holding(s)) + 1
      BY <2>2, <2>3, <3>1, FS_AddElement
    <3> QED
      BY <1>1, <2>1, <2>2, <2>5, <3>2 DEF Base, Types, Installed, Bit
  <2>6. CASE s # Head1(t)
    <3>1. Holding(s)' = Holding(s)
      BY <2>3, <2>4, <2>6
    <3>2. live'[s] = live[s]
      BY <1>1, <2>6 DEF Base, Types
    <3> QED
      BY <2>1, <3>1, <3>2 DEF Installed
  <2> QED
    BY <2>5, <2>6
<1>4. LogsCounted'
  BY <1>1, ScriptSets DEF LiveInv, LogsCounted, Installed, Base, Types
<1> QED
  BY <1>3, <1>4 DEF LiveInv, ProvidersAreHeld, Bit

\* The building raised: what was made is lost, and counted so.
LEMMA LiveLost ==
  ASSUME Base, LiveInv, NEW t \in Threads, OthersStay(t), th[t].pc = "build",
         th'[t].pc # "install", ref' = ref,
         live' = [live EXCEPT ![Head1(t)] = @ + BuiltFirst(Head1(t))],
         lost' = [lost EXCEPT ![Head1(t)] = @ + BuiltFirst(Head1(t))]
  PROVE  LiveInv'
<1>1. Head1(t) \in Built /\ Built \subseteq Signals /\ "logs" \notin Built
  BY BuildingBuilt, ScriptSets DEF Building, Built
<1>2. ASSUME NEW s \in Built
      PROVE  live'[s] = Cardinality(Holding(s)') + Bit(Installed(s)') + lost'[s]
  <2>1. live[s] \in Int /\ lost[s] \in Nat /\ live[s] = Cardinality(Holding(s)) + Bit(Installed(s)) + lost[s]
    BY <1>1 DEF Base, Types, LiveInv, ProvidersAreHeld, Bit
  <2>2. Cardinality(Holding(s)) \in Nat /\ Holding(s)' = Holding(s)
    BY HoldingFinite, HoldingSame
  <2>3. Installed(s)' = Installed(s)
    BY DEF Installed
  <2>4. CASE s = Head1(t)
    <3>1. /\ live'[s] = live[s] + BuiltFirst(s)
          /\ lost'[s] = lost[s] + BuiltFirst(s)
          /\ BuiltFirst(s) \in Nat
      BY <1>1, <2>4 DEF Base, Types, BuiltFirst
    <3> QED
      BY <2>1, <2>2, <2>3, <3>1 DEF Bit
  <2>5. CASE s # Head1(t)
    <3>1. live'[s] = live[s] /\ lost'[s] = lost[s]
      BY <1>1, <2>5 DEF Base, Types
    <3> QED
      BY <2>1, <2>2, <2>3, <3>1
  <2> QED
    BY <2>4, <2>5
<1>3. lost'["metrics"] = 0
  BY <1>1 DEF LiveInv, ProvidersAreHeld, Base, Types, BuiltFirst, Built
<1>4. LogsCounted'
  BY <1>1, ScriptSets DEF LiveInv, LogsCounted, Installed, Base, Types
<1> QED
  BY <1>2, <1>3, <1>4 DEF LiveInv, ProvidersAreHeld, Bit

\* A provider is installed, or discarded: the thread holds it no longer.
LEMMA LiveGiven ==
  ASSUME Base, LiveInv, NEW t \in Threads, OthersStay(t), th[t].pc = "install",
         th'[t].pc # "install", lost' = lost,
         \/ /\ ~Installed(Head1(t)) /\ live' = live
            /\ \E p \in Provider : ref' = [ref EXCEPT ![Head1(t)] = p]
         \/ live' = [live EXCEPT ![Head1(t)] = @ - 1] /\ ref' = ref
  PROVE  LiveInv'
<1>1. Head1(t) \in Built /\ Built \subseteq Signals /\ "logs" \notin Built
  BY BuildingBuilt, ScriptSets DEF Building, Built
<1>2. ASSUME NEW s \in Built
      PROVE  live'[s] = Cardinality(Holding(s)') + Bit(Installed(s)') + lost'[s]
  <2>1. live[s] \in Int /\ lost[s] \in Nat /\ live[s] = Cardinality(Holding(s)) + Bit(Installed(s)) + lost[s]
    BY <1>1 DEF Base, Types, LiveInv, ProvidersAreHeld, Bit
  <2>2. IsFiniteSet(Holding(s)) /\ Cardinality(Holding(s)) \in Nat
    BY HoldingFinite
  <2>3. t \notin Holding(s)' /\ (t \in Holding(s) <=> s = Head1(t))
    BY DEF Holding, At
  <2>4. Holding(s)' \ {t} = Holding(s) \ {t}
    BY HoldingOthers
  <2>5. CASE s = Head1(t)
    <3>1. Holding(s)' = Holding(s) \ {t}
      BY <2>3, <2>4
    <3>2. Cardinality(Holding(s)') = Cardinality(Holding(s)) - 1
      BY <2>2, <2>3, <2>5, <3>1, FS_RemoveElement
    <3>3. CASE ~Installed(s) /\ live' = live /\ \E p \in Provider : ref' = [ref EXCEPT ![s] = p]
      <4>1. Installed(s)'
        BY <1>1, <3>3, LifecycleAssumption DEF Installed, Base, Types, Provider
      <4> QED
        BY <2>1, <2>2, <3>2, <3>3, <4>1 DEF Bit
    <3>4. CASE live' = [live EXCEPT ![s] = @ - 1] /\ ref' = ref
      <4>1. live'[s] = live[s] - 1
        BY <1>1, <3>4 DEF Base, Types
      <4> QED
        BY <2>1, <2>2, <3>2, <3>4, <4>1 DEF Installed, Bit
    <3> QED
      BY <2>5, <3>3, <3>4
  <2>6. CASE s # Head1(t)
    <3>1. Holding(s)' = Holding(s)
      BY <2>3, <2>4, <2>6
    <3>2. live'[s] = live[s] /\ ref'[s] = ref[s]
      BY <1>1, <2>6 DEF Base, Types
    <3> QED
      BY <2>1, <3>1, <3>2 DEF Installed
  <2> QED
    BY <2>5, <2>6
<1>3. live'["logs"] = live["logs"] /\ ref'["logs"] = ref["logs"]
  BY <1>1, ScriptSets DEF Base, Types
<1>4. LogsCounted'
  BY <1>3 DEF LiveInv, LogsCounted, Installed
<1> QED
  BY <1>2, <1>4 DEF LiveInv, ProvidersAreHeld, Bit

\* Where a thread goes when it leaves for a place other than an installation.
LEMMA LeavePlace ==
  ASSUME Base, NEW t \in Threads, NEW s, NEW r, Leave(t, s, r)
  PROVE  th'[t] = r
  BY DEF Leave, Staled

LEMMA LiveStart ==
  ASSUME Base, LiveInv, NEW t \in Threads, Start(t)
  PROVE  LiveInv'
<1>1. th[t].pc = "idle" /\ OthersStay(t)
  BY StartOthersStay DEF Start, CallSetup, CallUpdate, CallReconfigure, CallShutdown,
     CallGetLogger, CallSetupSignal, CallShutdownSignal, Call, At
<1>2. ASSUME NEW s \in Built, CallShutdownSignal(t, s) PROVE LiveInv'
  <2>1. th'[t] = Idle /\ Idle.pc # "install" /\ s \in Signals
    BY <1>2, LeavePlace, ScriptSets DEF CallShutdownSignal, Idle, Doing, Built
  <2> QED
    BY <1>1, <1>2, <2>1, LiveShutdown DEF CallShutdownSignal
<1>3. ASSUME NEW w, NEW c, NEW l, Begin(t, w, c, l), w # "install", UNCHANGED <<live, lost, ref>>
      PROVE  LiveInv'
  <2>1. th'[t] = Doing(w, c, l, FALSE)
    BY <1>3 DEF Begin, Base, Types
  <2>2. th'[t].pc = w
    BY <2>1 DEF Doing
  <2> QED
    BY <1>1, <1>3, <2>2, LiveQuietInv
<1> QED
  BY <1>2, <1>3 DEF Start, CallSetup, CallUpdate, CallReconfigure, CallShutdown,
     CallGetLogger, CallSetupSignal, providers

LEMMA LiveStep ==
  ASSUME Base, LiveInv, NEW t \in Threads, Step(t)
  PROVE  LiveInv'
<1>1. OthersStay(t) /\ th \in [Threads -> Thread]
  BY StepOthersStay DEF Base, Types
<1>2. CASE \/ BeginApply(t) \/ SetPolicy(t) \/ EnterSetup(t) \/ CheckProvider(t)
           \/ EnterShutdown(t) \/ ResetRuntime(t) \/ Probe(t)
  <2>1. th[t].pc # "install" /\ UNCHANGED <<live, lost, ref>>
    BY <1>2 DEF BeginApply, SetPolicy, EnterSetup, CheckProvider, EnterShutdown, ResetRuntime,
         Probe, At, providers
  <2>2. th'[t].pc # "install"
    <3>1. CASE BeginApply(t) \/ SetPolicy(t) \/ EnterSetup(t)
      BY <1>1, <3>1 DEF BeginApply, SetPolicy, EnterSetup, Go, Return, Doing, Idle
    <3>2. CASE EnterShutdown(t) \/ ResetRuntime(t) \/ Probe(t)
      BY <1>1, <3>2 DEF EnterShutdown, ResetRuntime, Probe, Go, Return, Doing, Idle
    <3>3. CASE CheckProvider(t)
      <4>1. th[t].pc \in {"signal"} \cup Building
        BY <3>3 DEF CheckProvider, At
      <4>2. CASE Advance(t)
        BY <4>1, <4>2, AdvanceFailPlace
      <4>3. CASE ~Advance(t)
        <5> DEFINE d == Doing("build", th[t].cfg, th[t].todo, th[t].again)
        <5>1. d \in Thread /\ d.pc = "build"
          BY <4>1, Installing DEF Doing, Thread, Places
        <5>2. th'[t] = [d EXCEPT !.gen = gen[Head1(t)]]
          BY <1>1, <3>3, <4>3 DEF CheckProvider
        <5> HIDE DEF d
        <5> QED
          BY <5>1, <5>2 DEF Thread
      <4> QED
        BY <4>2, <4>3
    <3> QED
      BY <1>2, <3>1, <3>2, <3>3
  <2> QED
    BY <1>1, <2>1, <2>2, LiveQuietInv
<1>3. CASE ConfigureLogging(t)
  <2>1. th[t].pc \in {"signal"} \cup Building /\ th[t].pc # "install"
    BY <1>3 DEF ConfigureLogging, At
  <2>2. PICK o \in LogOutcomes(th[t].cfg) :
          Rebuild(t, o) /\ IF o.raised THEN Fail(t) ELSE Advance(t)
    BY <1>3 DEF ConfigureLogging
  <2>3. th'[t].pc # "install"
    BY <2>1, <2>2, AdvanceFailPlace
  <2> QED
    BY <1>1, <2>1, <2>2, <2>3, Installing, LiveRebuild
<1>4. CASE LazyConfigure(t)
  <2>1. th[t].pc # "install" /\ th[t].cfg \in Configs
    BY <1>4, Known DEF LazyConfigure, At, ThreadOK, HasConfig
  <2>2. th'[t].pc # "install"
    BY <1>1, <1>4 DEF LazyConfigure, Return, Doing, Idle
  <2>3. CASE UNCHANGED providers
    BY <1>1, <2>1, <2>2, <2>3, LiveQuietInv DEF providers
  <2>4. CASE \E o \in LogOutcomes(th[t].cfg) : Rebuild(t, o)
    BY <1>1, <2>1, <2>2, <2>4, LiveRebuild
  <2> QED
    BY <1>4, <2>3, <2>4 DEF LazyConfigure
<1>5. CASE BuildProvider(t)
  <2>1. th[t].pc = "build" /\ ref' = ref
    BY <1>5 DEF BuildProvider, At
  <2>2. CASE UNCHANGED <<live, lost>> /\ Advance(t)
    <3>1. th'[t].pc # "install"
      BY <2>1, <2>2, AdvanceFailPlace DEF Building
    <3> QED
      BY <1>1, <2>1, <2>2, <3>1, LiveQuietInv
  <2>3. CASE /\ live' = [live EXCEPT ![Head1(t)] = @ + 1]
             /\ th' = [th EXCEPT ![t] = [@ EXCEPT !.pc = "install"]]
             /\ lost' = lost
    BY <1>1, <2>1, <2>3, LiveBuilt
  <2>4. CASE /\ live' = [live EXCEPT ![Head1(t)] = @ + BuiltFirst(Head1(t))]
             /\ lost' = [lost EXCEPT ![Head1(t)] = @ + BuiltFirst(Head1(t))]
             /\ Fail(t)
    <3>1. th'[t].pc # "install"
      BY <2>1, <2>4, AdvanceFailPlace DEF Building
    <3> QED
      BY <1>1, <2>1, <2>4, <3>1, LiveLost
  <2> QED
    BY <1>5, <2>2, <2>3, <2>4 DEF BuildProvider
<1>6. CASE InstallProvider(t)
  <2>1. th[t].pc = "install" /\ th[t].cfg \in Configs
    BY <1>6, Known DEF InstallProvider, At, ThreadOK, HasConfig, InsideToo, Building
  <2>2. th'[t].pc # "install"
    BY <1>6, <2>1, AdvanceFailPlace DEF InstallProvider, Building
  <2>3. ~Installed(Head1(t)) /\ UNCHANGED <<live, lost>>
    BY <1>6 DEF InstallProvider, MayInstall
  <2>4. NewProvider(t) \in Provider /\ ref' = [ref EXCEPT ![Head1(t)] = NewProvider(t)]
    BY <1>6, <2>1, NewProviderTyped DEF InstallProvider
  <2> QED
    BY <1>1, <2>1, <2>2, <2>3, <2>4, LiveGiven
<1>7. CASE DiscardProvider(t)
  <2>1. /\ th[t].pc = "install" /\ UNCHANGED <<lost, ref>>
        /\ live' = [live EXCEPT ![Head1(t)] = @ - 1]
    BY <1>7 DEF DiscardProvider, Discarded, At
  <2>2. th'[t].pc # "install"
    BY <1>7, <2>1, AdvanceFailPlace DEF DiscardProvider, Building
  <2> QED
    BY <1>1, <2>1, <2>2, LiveGiven
<1>8. CASE Rollback(t)
  <2>1. th[t].pc # "install" /\ Head1(t) \in Signals /\ ShutdownSignal(Head1(t))
    BY <1>8, Known, RollbackTodo DEF Rollback, At, ThreadOK, FitsPlace, Continues, Head1
  <2>2. th'[t].pc # "install"
    BY <1>8, LeavePlace DEF Rollback, Doing, Idle
  <2> QED
    BY <1>1, <2>1, <2>2, LiveShutdown
<1>9. CASE TearDown(t) \/ TearDownRaises(t)
  <2>1. th[t].pc # "install" /\ Head1(t) \in Signals /\ ShutdownSignal(Head1(t))
    BY <1>9, TearingDown DEF TearDown, TearDownRaises, At
  <2>2. th'[t].pc # "install"
    BY <1>9, LeavePlace DEF TearDown, TearDownRaises, Doing, Idle
  <2> QED
    BY <1>1, <2>1, <2>2, LiveShutdown
<1> QED
  BY <1>2, <1>3, <1>4, <1>5, <1>6, <1>7, <1>8, <1>9 DEF Step

LEMMA LiveNext == Base /\ LiveInv /\ [Next]_vars => LiveInv'
<1> SUFFICES ASSUME Base, LiveInv, [Next]_vars PROVE LiveInv'
  OBVIOUS
<1>1. CASE Next
  BY <1>1, LiveStart, LiveStep DEF Next
<1>2. CASE UNCHANGED vars
  BY <1>2 DEF vars, LiveInv, ProvidersAreHeld, LogsCounted, Holding, Installed, At, Head1
<1> QED
  BY <1>1, <1>2

LEMMA LiveInit == Init => LiveInv
<1> SUFFICES ASSUME Init PROVE LiveInv
  OBVIOUS
<1>1. (\A s \in Signals : live[s] = 0 /\ ~Installed(s)) /\ \A s \in Built : lost[s] = 0
  BY DEF Init, Installed
<1>2. \A s : Holding(s) = {}
  BY DEF Init, Holding, At, Idle, Doing
<1>3. Built \subseteq Signals /\ "logs" \in Signals
  BY ScriptSets DEF Built
<1> QED
  BY <1>1, <1>2, <1>3, FS_EmptySet DEF LiveInv, ProvidersAreHeld, LogsCounted, Bit, Built

(***************************************************************************)
(* A tracer or meter provider that is alive is installed, in the hands of  *)
(* a thread, or lost by a building that raised, which loses tracer         *)
(* providers alone (tracing/provider.py:115).                              *)
(***************************************************************************)
THEOREM ProvidersHeld == Spec => []ProvidersAreHeld
<1>1. LiveInv => ProvidersAreHeld
  BY DEF LiveInv
<1> QED
  BY <1>1, LiveInit, LiveNext, BaseAlways, PTL DEF Spec

(***************************************************************************)
(* Every variable keeps its type; no provider is shut down twice.          *)
(***************************************************************************)
THEOREM TypeCorrect == Spec => []TypeOK
<1>1. ASSUME Base, LiveInv PROVE TypeOK
  <2>1. ASSUME NEW s \in Signals PROVE live[s] \in Nat
    <3>1. live[s] \in Int
      BY <1>1 DEF Base, Types
    <3>2. CASE s \in Built
      BY <1>1, <3>1, <3>2, HoldingFinite DEF LiveInv, ProvidersAreHeld, Base, Types
    <3>3. CASE s = "logs"
      BY <1>1, <3>1, <3>3 DEF LiveInv, LogsCounted, Bit
    <3> QED
      BY <3>2, <3>3, ScriptSets DEF Built
  <2>2. live \in [Signals -> Nat]
    BY <1>1, <2>1 DEF Base, Types
  <2> QED
    BY <1>1, <2>2 DEF Base, Types, TypeOK
<1>2. Base /\ LiveInv => TypeOK
  BY <1>1
<1> QED
  BY <1>2, LiveInit, LiveNext, BaseAlways, PTL DEF Spec
-----------------------------------------------------------------------------
(***************************************************************************)
(* What a setup installed.                                                 *)
(***************************************************************************)
OneCfg == \A s, r \in BySetup : ref[s].cfg = ref[r].cfg

\* With the lock free: all of one setup that is done, or nothing.
SetupFree ==
  setupLock = NoThread /\ ~cut => OneCfg /\ (~setupDone => BySetup = {})

\* With the lock held by t: what t has installed, or has yet to take down.
SetupHeld(t) ==
  /\ th[t].pc \in {"apply", "policies"} /\ ~cut => BySetup = {}
  /\ th[t].pc \in {"signal"} \cup Building /\ ~cut =>
       /\ BySetup \cap ToSet(th[t].todo) = {}
       /\ \A s \in BySetup : ref[s].cfg = th[t].cfg
  /\ th[t].pc = "rollback" /\ ~cut => OneCfg /\ BySetup \subseteq ToSet(th[t].todo)
  /\ th[t].pc = "teardown" => (~cut => OneCfg) /\ BySetup \subseteq ToSet(th[t].todo)
  /\ th[t].pc = "reset" => BySetup = {}

SetupInv == SetupFree /\ \A t \in Threads : setupLock = t => SetupHeld(t)

\* A step installs nothing as of a setup.
Shrinks == \A s \in BySetup' : s \in BySetup /\ ref'[s] = ref[s]
\* A step of t installs at most one provider, from its configuration.
Grows(t) == \A s \in BySetup' :
  \/ s \in BySetup /\ ref'[s] = ref[s]
  \/ s = Head1(t) /\ ref'[s].cfg = th[t].cfg

\* t is where it was, as far as SetupHeld can tell.
LEMMA HeldStays ==
  ASSUME NEW t, SetupHeld(t), Shrinks, cut' = cut,
         th'[t].pc = th[t].pc \/ {th[t].pc, th'[t].pc} \subseteq {"apply", "policies"}
           \/ {th[t].pc, th'[t].pc} \subseteq {"signal"} \cup Building,
         th[t].pc \notin {"apply", "policies"} => th'[t].todo = th[t].todo,
         th'[t].cfg = th[t].cfg
  PROVE  SetupHeld(t)'
<1>1. BySetup' \subseteq BySetup /\ \A s \in BySetup' : ref'[s] = ref[s]
  BY DEF Shrinks
<1>2. (OneCfg => OneCfg')
  BY <1>1 DEF OneCfg
<1>3. CASE th[t].pc \in {"apply", "policies"}
  BY <1>1, <1>3 DEF SetupHeld, Building
<1>4. CASE th[t].pc \in {"signal"} \cup Building
  BY <1>1, <1>4 DEF SetupHeld, Building
<1>5. CASE th[t].pc \notin {"apply", "policies", "signal"} \cup Building
  BY <1>1, <1>2, <1>5 DEF SetupHeld, Building
<1> QED
  BY <1>3, <1>4, <1>5

\* Steps of a thread outside setup._lock, which stays outside.
LEMMA SetupOutside ==
  ASSUME Base, SetupInv, NEW t \in Threads, OthersStay(t), setupLock # t, Shrinks,
         UNCHANGED <<setupLock, setupDone, cut>>
  PROVE  SetupInv'
<1>1. SetupFree'
  BY DEF SetupInv, SetupFree, OneCfg, Shrinks
<1>2. ASSUME NEW u \in Threads, setupLock' = u
      PROVE  SetupHeld(u)'
  <2>1. u # t /\ SetupHeld(u) /\ th[u] \in Thread
    BY <1>2, Known DEF SetupInv
  <2>2. th'[u].pc = th[u].pc /\ th'[u].todo = th[u].todo /\ th'[u].cfg = th[u].cfg
    BY <2>1 DEF OthersStay, Thread
  <2> QED
    BY <2>1, <2>2, HeldStays
<1> QED
  BY <1>1, <1>2 DEF SetupInv

\* Steps of the thread inside, which stays inside.
LEMMA SetupInside ==
  ASSUME NEW t \in Threads, setupLock' = t, SetupHeld(t)'
  PROVE  SetupInv'
  BY LifecycleAssumption DEF SetupInv, SetupFree

\* Steps that leave the lock free.
LEMMA SetupLeft ==
  ASSUME setupLock' = NoThread, SetupFree'
  PROVE  SetupInv'
  BY LifecycleAssumption DEF SetupInv

LEMMA SetupAdvance ==
  ASSUME Base, SetupInv, NEW t \in Threads, setupLock = t,
         th[t].pc \in {"signal"} \cup Building, Advance(t), Grows(t), cut' = cut
  PROVE  SetupInv'
<1>1. th[t].todo \in SetupScripts /\ th \in [Threads -> Thread]
  BY Installing DEF Base, Types
<1>2. Continues(th[t].todo, Signals, SetupScripts \ {Order})
  BY <1>1, SetupTodo
<1>3. SetupHeld(t)
  BY DEF SetupInv
<1>4. ~cut => \A s \in BySetup' : s \notin ToSet(Rest(t)) /\ ref'[s].cfg = th[t].cfg
  BY <1>2, <1>3 DEF SetupHeld, Grows, Continues, Head1, Rest
<1>5. CASE Rest(t) # <<>>
  <2>1. th'[t] = Doing("signal", th[t].cfg, Rest(t), th[t].again) /\ setupLock' = t
    BY <1>1, <1>5 DEF Advance, Go
  <2>2. th'[t].pc = "signal" /\ th'[t].cfg = th[t].cfg /\ th'[t].todo = Rest(t)
    BY <2>1 DEF Doing
  <2>3. SetupHeld(t)'
    BY <1>4, <2>2 DEF SetupHeld, Building
  <2> QED
    BY <2>1, <2>3, SetupInside
<1>6. CASE Rest(t) = <<>>
  <2>1. setupLock' = NoThread /\ setupDone' = TRUE
    BY <1>6 DEF Advance, InSetup
  <2>2. SetupFree'
    BY <1>4, <2>1 DEF SetupFree, OneCfg
  <2> QED
    BY <2>1, <2>2, SetupLeft
<1> QED
  BY <1>5, <1>6

LEMMA SetupFail ==
  ASSUME Base, SetupInv, NEW t \in Threads, setupLock = t,
         th[t].pc \in {"signal"} \cup Building, Fail(t), Shrinks, cut' = cut
  PROVE  SetupInv'
<1>1. th[t].todo \in SetupScripts /\ th \in [Threads -> Thread]
  BY Installing DEF Base, Types
<1>2. SetupHeld(t)
  BY DEF SetupInv
<1>3. ~cut => OneCfg' /\ BySetup' \subseteq ToSet(ToRollBack(t))
  <2>1. BySetup' \subseteq Signals
    BY DEF BySetup
  <2> QED
    BY <1>1, <1>2, <2>1, ToRollBackLists DEF SetupHeld, Shrinks, OneCfg
<1>4. CASE ToRollBack(t) # <<>>
  <2>1. th'[t] = Doing("rollback", th[t].cfg, ToRollBack(t), th[t].again) /\ setupLock' = t
    BY <1>1, <1>4 DEF Fail, InSetup, Go
  <2>2. th'[t].pc = "rollback" /\ th'[t].todo = ToRollBack(t)
    BY <2>1 DEF Doing
  <2>3. SetupHeld(t)'
    BY <1>3, <2>2 DEF SetupHeld, Building
  <2> QED
    BY <2>1, <2>3, SetupInside
<1>5. CASE ToRollBack(t) = <<>>
  <2>1. setupLock' = NoThread
    BY <1>5 DEF Fail, InSetup, SetupLockFreed
  <2>2. ~cut => BySetup' = {}
    BY <1>3, <1>5, EmptyScript
  <2>3. SetupFree'
    BY <1>3, <2>2 DEF SetupFree
  <2> QED
    BY <2>1, <2>3, SetupLeft
<1> QED
  BY <1>4, <1>5

\* What shutting signal r down does to what a setup installed.
LEMMA ShutdownShrinks ==
  ASSUME Types, NEW r \in Signals, ShutdownSignal(r)
  PROVE  Shrinks /\ BySetup' = BySetup \ {r}
<1>1. ref' = [ref EXCEPT ![r] = NoProvider]
  BY DEF ShutdownSignal
<1>2. \A s \in Signals : ref'[s] = IF s = r THEN NoProvider ELSE ref[s]
  BY <1>1 DEF Types
<1>3. BySetup' = BySetup \ {r}
  BY <1>2 DEF BySetup, Installed
<1>4. Shrinks
  BY <1>2, <1>3 DEF Shrinks, BySetup
<1> QED
  BY <1>3, <1>4

LEMMA SameRef ==
  ASSUME ref' = ref
  PROVE  BySetup' = BySetup /\ Shrinks
<1>1. BySetup' = BySetup
  BY DEF BySetup, Installed
<1> QED
  BY <1>1 DEF Shrinks

\* Configuring logging takes nothing of a setup but the log provider, and puts
\* nothing of a setup in its place unless the thread is inside and it ends well.
LEMMA RebuildRef ==
  ASSUME Base, NEW t \in Threads, th[t].cfg \in Configs, NEW o, Rebuild(t, o)
  PROVE  /\ setupLock # t \/ o.raised => Shrinks
         /\ setupLock = t /\ Head1(t) = "logs" => Grows(t)
<1>1. ref' = [ref EXCEPT !["logs"] =
                IF o.reached < 3 THEN NoProvider
                ELSE IF o.raised THEN [by |-> "failed", cfg |-> th[t].cfg]
                ELSE NewProvider(t)]
  BY DEF Rebuild
<1>2. \A s \in Signals \ {"logs"} : ref'[s] = ref[s]
  BY <1>1 DEF Base, Types
<1>3. \/ ref'["logs"] = NoProvider
      \/ o.raised /\ ref'["logs"] = [by |-> "failed", cfg |-> th[t].cfg]
      \/ ~o.raised /\ ref'["logs"] = NewProvider(t)
  BY <1>1, ScriptSets DEF Base, Types
<1>4. ASSUME setupLock # t \/ o.raised
      PROVE  Shrinks
  <2>1. "logs" \notin BySetup'
    BY <1>3, <1>4 DEF BySetup, Installed, NewProvider, InSetup
  <2> QED
    BY <1>2, <2>1 DEF Shrinks, BySetup, Installed
<1>5. ASSUME setupLock = t, Head1(t) = "logs"
      PROVE  Grows(t)
  <2>1. "logs" \in BySetup' => ref'["logs"].cfg = th[t].cfg
    BY <1>3 DEF BySetup, Installed, NewProvider
  <2> QED
    BY <1>2, <1>5, <2>1 DEF Grows, BySetup, Installed
<1> QED
  BY <1>4, <1>5

LEMMA InstallRef ==
  ASSUME Base, NEW t \in Threads, InstallProvider(t)
  PROVE  /\ setupLock # t => Shrinks
         /\ setupLock = t => Grows(t)
<1>1. Head1(t) \in Signals
  BY Installing DEF InstallProvider, At, Building
<1>2. ref' = [ref EXCEPT ![Head1(t)] = NewProvider(t)]
  BY DEF InstallProvider
<1>3. /\ \A s \in Signals \ {Head1(t)} : ref'[s] = ref[s]
      /\ ref'[Head1(t)] = NewProvider(t)
  BY <1>1, <1>2 DEF Base, Types
<1>4. NewProvider(t).cfg = th[t].cfg /\ (setupLock # t => NewProvider(t).by = "direct")
  BY DEF NewProvider, InSetup
<1>5. ASSUME setupLock # t PROVE Shrinks
  <2>1. Head1(t) \notin BySetup'
    BY <1>3, <1>4, <1>5 DEF BySetup, Installed
  <2> QED
    BY <1>3, <2>1 DEF Shrinks, BySetup, Installed
<1>6. Grows(t)
  BY <1>3, <1>4 DEF Grows, BySetup, Installed
<1> QED
  BY <1>5, <1>6

\* A thread outside whose step ends or fails does not move the lock.
LEMMA OutsideLock ==
  ASSUME Base, NEW t \in Threads, setupLock # t, th[t].pc \in {"signal"} \cup Building,
         Advance(t) \/ Fail(t)
  PROVE  UNCHANGED <<setupLock, setupDone>>
<1>1. Rest(t) = <<>>
  BY Installing
<1> QED
  BY <1>1 DEF Advance, Fail, SetupLockFreed, InSetup

\* A step of an installing thread that installs nothing and advances, or fails.
LEMMA SetupInstalling ==
  ASSUME Base, SetupInv, NEW t \in Threads, OthersStay(t),
         th[t].pc \in {"signal"} \cup Building,
         \/ Advance(t) /\ (setupLock = t => Grows(t)) /\ (setupLock # t => Shrinks)
         \/ Fail(t) /\ Shrinks,
         cut' = cut
  PROVE  SetupInv'
<1>1. CASE setupLock = t
  BY <1>1, SetupAdvance, SetupFail
<1>2. CASE setupLock # t
  BY <1>2, OutsideLock, SetupOutside
<1> QED
  BY <1>1, <1>2

LEMMA ShrinksGrows == ASSUME NEW t, Shrinks PROVE Grows(t)
  BY DEF Shrinks, Grows

LEMMA SetupStart ==
  ASSUME Base, SetupInv, NEW t \in Threads, Start(t)
  PROVE  SetupInv'
<1>1. th[t].pc = "idle" /\ OthersStay(t) /\ UNCHANGED <<setupLock, setupDone, cut>>
  BY StartOthersStay DEF Start, CallSetup, CallUpdate, CallReconfigure, CallShutdown,
     CallGetLogger, CallSetupSignal, CallShutdownSignal, Call, At, locks
<1>2. setupLock # t
  BY <1>1, Known DEF ThreadOK, HoldsLocks, InsideOnly, InsideToo, Building
<1>3. Shrinks
  <2>1. ASSUME NEW s \in Built, CallShutdownSignal(t, s) PROVE Shrinks
    BY <2>1, ShutdownShrinks, ScriptSets DEF CallShutdownSignal, Built, Base
  <2>2. CASE ref' = ref
    BY <2>2, SameRef
  <2> QED
    BY <2>1, <2>2 DEF Start, CallSetup, CallUpdate, CallReconfigure, CallShutdown,
       CallGetLogger, CallSetupSignal, providers
<1> QED
  BY <1>1, <1>2, <1>3, SetupOutside

LEMMA SetupStep ==
  ASSUME Base, SetupInv, NEW t \in Threads, Step(t)
  PROVE  SetupInv'
<1>1. OthersStay(t) /\ th \in [Threads -> Thread] /\ th[t] \in Thread
  BY StepOthersStay DEF Base, Types
<1>2. setupLock = t => SetupHeld(t)
  BY DEF SetupInv
<1>3. CASE BeginApply(t)
  <2>1. Shrinks /\ UNCHANGED <<setupLock, setupDone, cut>>
    BY <1>3, SameRef DEF BeginApply, providers
  <2>2. th'[t] = Doing("policies", th[t].cfg, Policies, th[t].again) /\ th[t].pc = "apply"
    BY <1>1, <1>3 DEF BeginApply, Go, At
  <2>3. th'[t].pc = "policies" /\ th'[t].cfg = th[t].cfg
    BY <2>2 DEF Doing
  <2>4. setupLock = t => SetupHeld(t)'
    BY <1>2, <2>1, <2>2, <2>3, HeldStays
  <2> QED
    BY <1>1, <2>1, <2>4, SetupInside, SetupOutside
<1>4. CASE SetPolicy(t)
  <2>1. Shrinks /\ UNCHANGED <<setupLock, setupDone, cut>> /\ th[t].pc = "policies"
    BY <1>4, SameRef DEF SetPolicy, providers, At
  <2>2. ASSUME setupLock = t PROVE SetupHeld(t)'
    <3>1. ~cut' => BySetup' = {}
      BY <1>2, <2>1, <2>2 DEF SetupHeld, Shrinks
    <3>2. \/ th'[t] = Doing("signal", th[t].cfg, Order, th[t].again)
          \/ th'[t] = Doing("policies", th[t].cfg, Rest(t), th[t].again)
      BY <1>1, <1>4, <2>2 DEF SetPolicy, InSetup, Go
    <3>3. th'[t].pc \in {"signal", "policies"}
      BY <3>2 DEF Doing
    <3> QED
      BY <3>1, <3>3 DEF SetupHeld, Building
  <2> QED
    BY <1>1, <2>1, <2>2, SetupInside, SetupOutside
<1>5. CASE EnterSetup(t)
  <2>1. Shrinks /\ BySetup' = BySetup /\ setupLock = NoThread /\ cut' = cut /\ setupDone' = setupDone
    BY <1>5, SameRef DEF EnterSetup, providers
  <2>2. CASE MayEnterSetup
    <3>1. th'[t] = Doing("apply", th[t].cfg, <<>>, th[t].again) /\ setupLock' = t
      BY <1>1, <1>5, <2>2 DEF EnterSetup, Go
    <3>2. th'[t].pc = "apply"
      BY <3>1 DEF Doing
    <3>3. SetupHeld(t)'
      BY <2>1, <2>2, <3>2 DEF SetupHeld, SetupInv, SetupFree, MayEnterSetup, Building
    <3> QED
      BY <3>1, <3>3, SetupInside
  <2>3. CASE ~MayEnterSetup
    BY <1>1, <1>5, <2>1, <2>3, SetupOutside, LifecycleAssumption DEF EnterSetup
  <2> QED
    BY <2>2, <2>3
<1>6. CASE ConfigureLogging(t)
  <2>1. th[t].pc \in {"signal"} \cup Building /\ Head1(t) = "logs" /\ cut' = cut
    BY <1>6 DEF ConfigureLogging, At
  <2>2. PICK o \in LogOutcomes(th[t].cfg) :
          Rebuild(t, o) /\ IF o.raised THEN Fail(t) ELSE Advance(t)
    BY <1>6 DEF ConfigureLogging
  <2>3. th[t].cfg \in Configs
    BY <2>1, Installing
  <2> QED
    BY <1>1, <2>1, <2>2, <2>3, RebuildRef, SetupInstalling
<1>7. CASE CheckProvider(t)
  <2>1. th[t].pc = "signal" /\ Shrinks /\ cut' = cut
    BY <1>7, SameRef DEF CheckProvider, At, providers
  <2>2. CASE Advance(t)
    BY <1>1, <2>1, <2>2, ShrinksGrows, SetupInstalling
  <2>3. CASE ~Advance(t)
    <3> DEFINE d == Doing("build", th[t].cfg, th[t].todo, th[t].again)
    <3>1. d \in Thread /\ d.pc = "build" /\ d.todo = th[t].todo /\ d.cfg = th[t].cfg
      BY <1>1, <2>1, Installing DEF Doing, Thread, Places
    <3>2. th'[t] = [d EXCEPT !.gen = gen[Head1(t)]] /\ UNCHANGED <<setupLock, setupDone>>
      BY <1>1, <1>7, <2>3 DEF CheckProvider
    <3> HIDE DEF d
    <3>3. th'[t].pc = "build" /\ th'[t].todo = th[t].todo /\ th'[t].cfg = th[t].cfg
      BY <3>1, <3>2 DEF Thread
    <3>4. setupLock = t => SetupHeld(t)'
      BY <1>2, <2>1, <3>3, HeldStays DEF Building
    <3> QED
      BY <1>1, <2>1, <3>2, <3>4, SetupInside, SetupOutside
  <2> QED
    BY <2>2, <2>3
<1>8. CASE BuildProvider(t)
  <2>1. th[t].pc = "build" /\ Shrinks /\ cut' = cut
    BY <1>8, SameRef DEF BuildProvider, At
  <2>2. CASE Advance(t) \/ Fail(t)
    BY <1>1, <2>1, <2>2, ShrinksGrows, SetupInstalling DEF Building
  <2>3. CASE ~(Advance(t) \/ Fail(t))
    <3>1. th'[t] = [th[t] EXCEPT !.pc = "install"] /\ UNCHANGED <<setupLock, setupDone>>
      BY <1>1, <1>8, <2>3 DEF BuildProvider
    <3>2. th'[t].pc = "install" /\ th'[t].todo = th[t].todo /\ th'[t].cfg = th[t].cfg
      BY <1>1, <3>1 DEF Thread
    <3>3. setupLock = t => SetupHeld(t)'
      BY <1>2, <2>1, <3>2, HeldStays DEF Building
    <3> QED
      BY <1>1, <2>1, <3>1, <3>3, SetupInside, SetupOutside
  <2> QED
    BY <2>2, <2>3
<1>9. CASE InstallProvider(t)
  <2>1. th[t].pc \in {"signal"} \cup Building /\ Advance(t) /\ cut' = cut
    BY <1>9 DEF InstallProvider, At, Building
  <2> QED
    BY <1>1, <1>9, <2>1, InstallRef, SetupInstalling
<1>10. CASE DiscardProvider(t)
  <2>1. th[t].pc \in {"signal"} \cup Building /\ (Advance(t) \/ Fail(t)) /\ Shrinks /\ cut' = cut
    BY <1>10, SameRef DEF DiscardProvider, At, Building
  <2> QED
    BY <1>1, <2>1, ShrinksGrows, SetupInstalling
<1>11. CASE Rollback(t)
  <2>1. th[t].pc = "rollback" /\ setupLock = t /\ th[t].todo \in RollbackLists /\ cut' = cut
    BY <1>11, Known DEF Rollback, At, ThreadOK, HoldsLocks, FitsPlace, InsideOnly
  <2>2. Continues(th[t].todo, Signals, RollbackLists)
    BY <2>1, RollbackTodo
  <2>3. Shrinks /\ BySetup' = BySetup \ {Head1(t)}
    BY <1>11, <2>2, ShutdownShrinks DEF Rollback, Continues, Head1, Base
  <2>4. ~cut => OneCfg' /\ BySetup' \subseteq ToSet(Rest(t))
    BY <1>2, <2>1, <2>2, <2>3 DEF SetupHeld, OneCfg, Shrinks, Continues, Head1, Rest
  <2>5. CASE Rest(t) = <<>>
    <3>1. setupLock' = NoThread /\ (~cut => BySetup' = {})
      BY <1>11, <2>4, <2>5, EmptyScript DEF Rollback
    <3>2. SetupFree'
      BY <2>1, <2>4, <3>1 DEF SetupFree
    <3> QED
      BY <3>1, <3>2, SetupLeft
  <2>6. CASE Rest(t) # <<>>
    <3>1. th'[t] = Doing("rollback", th[t].cfg, Rest(t), th[t].again) /\ setupLock' = t
      BY <1>11, <2>1, <2>6, LeavePlace DEF Rollback
    <3>2. th'[t].pc = "rollback" /\ th'[t].todo = Rest(t)
      BY <3>1 DEF Doing
    <3>3. SetupHeld(t)'
      BY <2>1, <2>4, <3>2 DEF SetupHeld, Building
    <3> QED
      BY <3>1, <3>3, SetupInside
  <2> QED
    BY <2>5, <2>6
<1>12. CASE EnterShutdown(t)
  <2>1. BySetup' = BySetup /\ Shrinks /\ setupLock = NoThread /\ setupLock' = t /\ cut' = cut
    BY <1>12, SameRef DEF EnterShutdown, providers
  <2>2. th'[t] = Doing("teardown", th[t].cfg, Teardown, th[t].again)
    BY <1>1, <1>12 DEF EnterShutdown, Go
  <2>3. th'[t].pc = "teardown" /\ th'[t].todo = Teardown
    BY <2>2 DEF Doing
  <2>4. ToSet(Teardown) = Signals
    BY ScriptFacts, ScriptSets DEF Is, Teardown
  <2>5. ~cut => OneCfg'
    BY <2>1 DEF SetupInv, SetupFree, OneCfg, Shrinks
  <2>6. SetupHeld(t)'
    BY <2>1, <2>3, <2>4, <2>5 DEF SetupHeld, BySetup, Building
  <2> QED
    BY <2>1, <2>6, SetupInside
<1>13. CASE TearDown(t)
  <2>1. th[t].pc = "teardown" /\ setupLock' = t /\ setupLock = t /\ cut' = cut
    BY <1>13, TearingDown DEF TearDown, At, locks
  <2>2. Continues(th[t].todo, Signals, TeardownScripts)
    BY <2>1, Known, TeardownTodo DEF ThreadOK, FitsPlace
  <2>3. Shrinks /\ BySetup' = BySetup \ {Head1(t)}
    BY <1>13, <2>2, ShutdownShrinks DEF TearDown, Continues, Head1, Base
  <2>4. (~cut => OneCfg') /\ BySetup' \subseteq ToSet(Rest(t))
    BY <1>2, <2>1, <2>2, <2>3 DEF SetupHeld, OneCfg, Shrinks, Continues, Head1, Rest
  <2>5. th'[t] = Doing(IF Rest(t) = <<>> THEN "reset" ELSE "teardown",
                       th[t].cfg, Rest(t), th[t].again)
    BY <1>13, LeavePlace DEF TearDown
  <2>6. /\ th'[t].pc = IF Rest(t) = <<>> THEN "reset" ELSE "teardown"
        /\ th'[t].todo = Rest(t)
    BY <2>5 DEF Doing
  <2>7. SetupHeld(t)'
    BY <2>1, <2>4, <2>6, EmptyScript DEF SetupHeld, Building
  <2> QED
    BY <2>1, <2>7, SetupInside
<1>14. CASE TearDownRaises(t)
  BY <1>14, SetupLeft DEF TearDownRaises, SetupFree
<1>15. CASE ResetRuntime(t)
  <2>1. setupLock = t /\ th[t].pc = "reset"
    BY <1>15, Known DEF ResetRuntime, At, ThreadOK, HoldsLocks, InsideOnly
  <2>2. BySetup' = {} /\ setupLock' = NoThread
    BY <1>2, <1>15, <2>1, SameRef DEF SetupHeld, ResetRuntime, providers
  <2>3. SetupFree'
    BY <2>2 DEF SetupFree, OneCfg
  <2> QED
    BY <2>2, <2>3, SetupLeft
<1>16. CASE Probe(t)
  <2>1. Shrinks /\ UNCHANGED <<setupLock, setupDone, cut>> /\ setupLock # t
    BY <1>16, SameRef, Known DEF Probe, At, locks, providers, ThreadOK, HoldsLocks,
       InsideOnly, InsideToo, Building
  <2> QED
    BY <1>1, <2>1, SetupOutside
<1>17. CASE LazyConfigure(t)
  <2>1. UNCHANGED <<setupLock, setupDone, cut>> /\ setupLock # t /\ th[t].cfg \in Configs
    BY <1>17, Known DEF LazyConfigure, At, locks, ThreadOK, HoldsLocks, HasConfig,
       InsideOnly, InsideToo, Building
  <2>2. Shrinks
    BY <1>17, <2>1, SameRef, RebuildRef DEF LazyConfigure, providers
  <2> QED
    BY <1>1, <2>1, <2>2, SetupOutside
<1> QED
  BY <1>3, <1>4, <1>5, <1>6, <1>7, <1>8, <1>9, <1>10, <1>11, <1>12, <1>13, <1>14, <1>15,
     <1>16, <1>17 DEF Step

LEMMA SetupNext == Base /\ SetupInv /\ [Next]_vars => SetupInv'
<1> SUFFICES ASSUME Base, SetupInv, [Next]_vars PROVE SetupInv'
  OBVIOUS
<1>1. CASE Next
  BY <1>1, SetupStart, SetupStep DEF Next
<1>2. CASE UNCHANGED vars
  BY <1>2 DEF vars, SetupInv, SetupFree, SetupHeld, OneCfg, BySetup, Installed
<1> QED
  BY <1>1, <1>2

LEMMA SetupInit == Init => SetupInv
  BY LifecycleAssumption DEF Init, SetupInv, SetupFree, OneCfg, BySetup, Installed

\* Only logging stores a provider and raises after.
FailedAreLogs == \A s \in Built : Installed(s) => ref[s].by # "failed"

LEMMA FailedInit == Init => FailedAreLogs
  BY ScriptSets DEF Init, FailedAreLogs, Installed, Built

LEMMA FailedNext == Base /\ FailedAreLogs /\ [Next]_vars => FailedAreLogs'
<1> SUFFICES ASSUME Base, FailedAreLogs, [Next]_vars, NEW s \in Built, ref'[s] # NoProvider
             PROVE  ref'[s].by # "failed"
  BY DEF FailedAreLogs, Installed
<1>1. s \in Signals /\ s # "logs" /\ (ref'[s] = ref[s] => ref'[s].by # "failed")
  BY ScriptSets DEF Built, FailedAreLogs, Installed
<1>2. ASSUME NEW r, ShutdownSignal(r) PROVE ref'[s] = ref[s]
  BY <1>2 DEF ShutdownSignal, Base, Types
<1>3. ASSUME NEW t, NEW o, Rebuild(t, o) PROVE ref'[s] = ref[s]
  BY <1>1, <1>3 DEF Rebuild, Base, Types
<1>4. ASSUME NEW t \in Threads, InstallProvider(t) PROVE ref'[s].by # "failed"
  <2>1. ref'[s] = ref[s] \/ ref'[s] = NewProvider(t)
    BY <1>1, <1>4 DEF InstallProvider, Base, Types
  <2>2. NewProvider(t).by # "failed"
    BY DEF NewProvider
  <2> QED
    BY <1>1, <2>1, <2>2
<1>5. ASSUME NEW t \in Threads, Start(t) PROVE ref'[s].by # "failed"
  BY <1>1, <1>2, <1>5 DEF Start, CallSetup, CallUpdate, CallReconfigure, CallShutdown,
     CallGetLogger, CallSetupSignal, CallShutdownSignal, providers
<1>6. ASSUME NEW t \in Threads, ConfigureLogging(t) \/ LazyConfigure(t)
      PROVE  ref'[s].by # "failed"
  BY <1>1, <1>3, <1>6 DEF ConfigureLogging, LazyConfigure, providers
<1>7. ASSUME NEW t \in Threads, Rollback(t) \/ TearDown(t) \/ TearDownRaises(t)
      PROVE  ref'[s].by # "failed"
  BY <1>1, <1>2, <1>7 DEF Rollback, TearDown, TearDownRaises
<1>8. ASSUME NEW t \in Threads,
             \/ BeginApply(t) \/ SetPolicy(t) \/ EnterSetup(t) \/ CheckProvider(t)
             \/ BuildProvider(t) \/ DiscardProvider(t) \/ EnterShutdown(t)
             \/ ResetRuntime(t) \/ Probe(t)
      PROVE  ref'[s].by # "failed"
  BY <1>1, <1>8 DEF BeginApply, SetPolicy, EnterSetup, CheckProvider, BuildProvider,
     DiscardProvider, EnterShutdown, ResetRuntime, Probe, providers
<1>9. CASE Next
  BY <1>4, <1>5, <1>6, <1>7, <1>8, <1>9 DEF Next, Step
<1>10. CASE UNCHANGED vars
  BY <1>1, <1>10 DEF vars
<1> QED
  BY <1>9, <1>10

(***************************************************************************)
(* When no setup is done and none is running, nothing of a setup is left   *)
(* but the log provider of a failed one, unless a shutdown was cut short   *)
(* (setup.py:78).                                                          *)
(***************************************************************************)
THEOREM NothingLeft == Spec => []NothingLeftBehind
<1>1. ASSUME Base, SetupInv, FailedAreLogs, setupLock = NoThread, ~setupDone, ~cut,
             NEW s \in Signals, Installed(s)
      PROVE  ref[s].by = "direct" \/ (s = "logs" /\ ref[s].by = "failed")
  <2>1. ref[s].by # "setup"
    BY <1>1 DEF SetupInv, SetupFree, BySetup
  <2>2. ref[s].by \in {"setup", "direct", "failed"}
    BY <1>1 DEF Base, Types, Installed, Provider
  <2>3. ref[s].by = "failed" => s = "logs"
    BY <1>1, ScriptSets DEF FailedAreLogs, Built
  <2> QED
    BY <2>1, <2>2, <2>3
<1>2. Base /\ SetupInv /\ FailedAreLogs => NothingLeftBehind
  BY <1>1 DEF NothingLeftBehind
<1> QED
  BY <1>2, SetupInit, SetupNext, FailedInit, FailedNext, BaseAlways, PTL DEF Spec

(***************************************************************************)
(* The providers that setups installed come from one call (setup.py:64).   *)
(***************************************************************************)
THEOREM OneSetup == Spec => []OneSetupInstalls
<1>1. ASSUME Base, SetupInv PROVE OneSetupInstalls
  <2>1. CASE setupLock = NoThread
    BY <1>1, <2>1 DEF SetupInv, SetupFree, OneSetupInstalls, OneCfg
  <2>2. CASE setupLock # NoThread
    <3>1. PICK t \in Threads : setupLock = t /\ SetupHeld(t)
      BY <1>1, <2>2 DEF Base, Types, SetupInv
    <3>2. th[t].pc \in InsideOnly \cup InsideToo
      BY <1>1, <3>1, Known DEF ThreadOK, HoldsLocks
    <3> QED
      BY <3>1, <3>2 DEF SetupHeld, OneSetupInstalls, OneCfg, InsideOnly, InsideToo
  <2> QED
    BY <2>1, <2>2
<1>2. Base /\ SetupInv => OneSetupInstalls
  BY <1>1
<1> QED
  BY <1>2, SetupInit, SetupNext, BaseAlways, PTL DEF Spec

(***************************************************************************)
(* What setup_telemetry installs is the whole of one call, or nothing.     *)
(***************************************************************************)
THEOREM SetupWhole == Spec => []SetupIsWhole
  BY NothingLeft, OneSetup, PTL DEF SetupIsWhole
=============================================================================
