----------------------------- MODULE Lifecycle -----------------------------
(***************************************************************************)
(* Setup, shutdown and reconfiguration of undef-telemetry (setup.py,       *)
(* runtime.py, and the provider halves of tracing/provider.py,             *)
(* metrics/provider.py and logger/core.py).                                *)
(*                                                                         *)
(* Several threads call setup_telemetry, shutdown_telemetry,               *)
(* reconfigure_telemetry, update_runtime_config and get_logger, and the    *)
(* setup and shutdown functions that the tracing and metrics packages      *)
(* export.  setup._lock serialises the first two; runtime._lock covers one *)
(* application of a configuration; every signal has a lock of its own,     *)
(* which setup releases while it builds a provider, since that talks to    *)
(* the network.  An action is what a thread does under one acquisition of  *)
(* such a lock, or one call outside them.                                  *)
(***************************************************************************)
EXTENDS Integers, Sequences, FiniteSets, SequencesExt

CONSTANTS
    Threads,      \* the threads of the application
    Configs,      \* the configurations they pass: service, traces, metrics, logs
    Env,          \* the configuration TelemetryConfig.from_env() gives
    MaxCalls,     \* bound: calls made in a behaviour
    NoConfig,     \* None, where a configuration is expected
    NoProvider,   \* None, where a provider is expected
    NoThread      \* the holder of a free lock

ASSUME LifecycleAssumption ==
    /\ Configs \subseteq [service : {"a", "b"}, traces : BOOLEAN,
                          metrics : BOOLEAN, logs : BOOLEAN]
    /\ Env \in Configs
    /\ MaxCalls \in Nat
    /\ NoConfig \notin Configs
    /\ IsFiniteSet(Threads)
    /\ NoThread \notin Threads
    /\ NoProvider \notin [by : {"setup", "direct", "failed"}, cfg : Configs]

VARIABLES
    setupLock,    \* the thread inside setup._lock
    setupDone,    \* setup._setup_done
    runtimeLock,  \* the thread inside runtime._lock
    active,       \* runtime._active_config
    policy,       \* the configuration each group of policies was last set from
    logConfig,    \* logger.core._active_config (NoConfig: not _configured)
    ref,          \* the provider each module refers to
    everSet,      \* _otel_global_set, _meter_global_set, _otel_log_global_set
    gen,          \* _setup_generation of the two modules that have one
    live,         \* providers built and not shut down
    lost,         \* tracer and meter providers a failed building left (history)
    th,           \* what each thread is doing
    calls,        \* calls made so far
    cut           \* a shutdown_telemetry was cut short by an exception

vars == <<setupLock, setupDone, runtimeLock, active, policy, logConfig, ref,
          everSet, gen, live, lost, th, calls, cut>>
locks == <<setupLock, setupDone, runtimeLock>>
runtime == <<active, policy>>
providers == <<logConfig, ref, everSet, gen, live, lost>>

Order == <<"logs", "traces", "metrics">>
Teardown == <<"traces", "metrics", "logs">>
Policies == <<"sampling", "queue", "exporter">>
Signals == ToSet(Order)
Built == {"traces", "metrics"}

\* Who installed a provider; "failed" is the log provider that a configuration
\* of logging stored before it raised (history).
Provider == [by : {"setup", "direct", "failed"}, cfg : Configs]

\* What a thread is doing: where it is, the configuration it was given, the
\* steps it has left, the generation it read before building, whether the
\* signal was shut down since (history), and whether it is inside
\* reconfigure_telemetry, to set up again after the shutdown.
Doing(where, c, l, again) ==
    [pc |-> where, cfg |-> c, todo |-> l, gen |-> 0, stale |-> FALSE, again |-> again]
Idle == Doing("idle", NoConfig, <<>>, FALSE)

Places == {"idle", "setup", "shutdown", "apply", "policies", "signal", "build",
           "install", "rollback", "teardown", "reset", "probe", "lazy"}
\* What may remain of a list of three steps.
Remainders(l) == {l, Tail(l), Tail(Tail(l))}
Scripts == {<<>>, <<"traces">>} \cup Remainders(Order) \cup Remainders(Teardown)
           \cup Remainders(Policies) \cup {<<"traces", "logs">>}
Thread == [pc : Places, cfg : Configs \cup {NoConfig}, todo : Scripts,
           gen : Nat, stale : BOOLEAN, again : BOOLEAN]

Head1(t) == Head(th[t].todo)
Rest(t) == Tail(th[t].todo)
At(t, where) == th[t].pc = where
Go(t, where, todo) ==
    th' = [th EXCEPT ![t] = Doing(where, @.cfg, todo, @.again)]
Return(t) == th' = [th EXCEPT ![t] = Idle]
InSetup(t) == setupLock = t

ColdPart(c) == <<c.service, c.traces, c.metrics>>
Current == IF active = NoConfig THEN Env ELSE active
Installed(s) == ref[s] # NoProvider
\* _has_..._provider: a provider is, or ever was, installed.
EverInstalled(s) == Installed(s) \/ everSet[s]
NewProvider(t) == [by |-> IF InSetup(t) THEN "setup" ELSE "direct", cfg |-> th[t].cfg]

Init ==
    /\ setupLock = NoThread
    /\ setupDone = FALSE
    /\ runtimeLock = NoThread
    /\ active = NoConfig
    /\ policy = [g \in ToSet(Policies) |-> NoConfig]
    /\ logConfig = NoConfig
    /\ ref = [s \in Signals |-> NoProvider]
    /\ everSet = [s \in Signals |-> FALSE]
    /\ gen = [s \in Built |-> 0]
    /\ live = [s \in Signals |-> 0]
    /\ lost = [s \in Built |-> 0]
    /\ th = [t \in Threads |-> Idle]
    /\ calls = 0
    /\ cut = FALSE

-----------------------------------------------------------------------------
(* The calls. *)

Call(t) ==
    /\ At(t, "idle")
    /\ calls < MaxCalls
    /\ calls' = calls + 1

Begin(t, where, c, todo) ==
    th' = [th EXCEPT ![t] = Doing(where, c, todo, FALSE)]

CallSetup(t, c) ==
    /\ Call(t)
    /\ Begin(t, "setup", c, <<>>)
    /\ UNCHANGED <<locks, runtime, providers, cut>>

CallShutdown(t) ==
    /\ Call(t)
    /\ Begin(t, "shutdown", NoConfig, <<>>)
    /\ UNCHANGED <<locks, runtime, providers, cut>>

CallUpdate(t, c) ==
    /\ Call(t)
    /\ Begin(t, "apply", c, <<>>)
    /\ UNCHANGED <<locks, runtime, providers, cut>>

\* reconfigure_telemetry reads the active configuration under runtime._lock
\* and goes on without it.
CallReconfigure(t, c) ==
    /\ Call(t)
    /\ runtimeLock = NoThread
    /\ IF ColdPart(Current) # ColdPart(c) THEN Begin(t, "probe", c, Order)
                                          ELSE Begin(t, "apply", c, <<>>)
    /\ UNCHANGED <<locks, runtime, providers, cut>>

\* get_logger found logging unconfigured, a read without the lock.
CallGetLogger(t) ==
    /\ Call(t)
    /\ logConfig = NoConfig
    /\ Begin(t, "lazy", Env, <<>>)
    /\ UNCHANGED <<locks, runtime, providers, cut>>

\* setup_tracing or setup_metrics called by the application itself.
CallSetupSignal(t, s, c) ==
    /\ Call(t)
    /\ Begin(t, "signal", c, <<s>>)
    /\ UNCHANGED <<locks, runtime, providers, cut>>

-----------------------------------------------------------------------------
(* apply_runtime_config, on its own or as the first step of a setup. *)

\* Mutant: the configuration is applied without the lock.
MutRuntimeFree == TRUE
RuntimeFree == runtimeLock = NoThread

ReleasesRuntime(t) == Len(th[t].todo) = 1

BeginApply(t) ==
    /\ At(t, "apply")
    /\ RuntimeFree
    /\ runtimeLock' = t
    /\ active' = th[t].cfg
    /\ Go(t, "policies", Policies)
    /\ UNCHANGED <<setupLock, setupDone, policy, providers, calls, cut>>

SetPolicy(t) ==
    /\ At(t, "policies")
    /\ policy' = [policy EXCEPT ![Head1(t)] = th[t].cfg]
    /\ IF ReleasesRuntime(t)
       THEN /\ runtimeLock' = NoThread
            /\ IF InSetup(t) THEN Go(t, "signal", Order) ELSE Return(t)
       ELSE /\ runtimeLock' = runtimeLock
            /\ Go(t, "policies", Rest(t))
    /\ UNCHANGED <<setupLock, setupDone, active, providers, calls, cut>>

-----------------------------------------------------------------------------
(* setup_telemetry *)

\* Mutant: setup_telemetry is not idempotent.
MayEnterSetup == ~setupDone

EnterSetup(t) ==
    /\ At(t, "setup")
    /\ setupLock = NoThread
    /\ IF MayEnterSetup
       THEN setupLock' = t /\ Go(t, "apply", <<>>)
       ELSE setupLock' = setupLock /\ Return(t)
    /\ UNCHANGED <<setupDone, runtimeLock, runtime, providers, calls, cut>>

\* The step at the head of todo is done: setup goes on to the next one, and
\* after the last one marks itself done and leaves the lock.
Advance(t) ==
    IF Rest(t) # <<>>
    THEN Go(t, "signal", Rest(t)) /\ UNCHANGED <<setupLock, setupDone>>
    ELSE /\ Return(t)
         /\ IF InSetup(t) THEN setupLock' = NoThread /\ setupDone' = TRUE
                          ELSE UNCHANGED <<setupLock, setupDone>>

\* The steps setup had completed, latest first, are the ones it rolls back.
\* Mutant: the latest one is forgotten.
MutToRollBack(t) == Reverse(SubSeq(Order, 1, Len(Order) - Len(th[t].todo) - 1))
ToRollBack(t) == Reverse(SubSeq(Order, 1, Len(Order) - Len(th[t].todo)))

\* Mutant: the lock is kept when setup raises.
MutSetupLockFreed(t) == setupLock
SetupLockFreed(t) == IF InSetup(t) THEN NoThread ELSE setupLock

\* The step raised: setup rolls back, a direct call just fails.
Fail(t) ==
    /\ UNCHANGED setupDone
    /\ IF InSetup(t) /\ ToRollBack(t) # <<>>
       THEN Go(t, "rollback", ToRollBack(t)) /\ UNCHANGED setupLock
       ELSE /\ Return(t)
            /\ setupLock' = SetupLockFreed(t)

\* The loaders of _otel.py import on every call what a signal needs of
\* OpenTelemetry, or find that it is not installed.
Loads == BOOLEAN

\* How far configure_logging gets with a log provider -- 0: none, without an
\* endpoint or the packages; 1: built, and left alone when the export policy
\* answers None or raises; 2: made global; 3: stored -- and whether it raises
\* there or after.
LogOutcomes(c) ==
    {o \in [reached : 0..3, raised : BOOLEAN] :
        (o.reached > 0 => c.logs) /\ (o.reached = 2 => o.raised)}

\* configure_logging rebuilds the handlers: it forgets the provider it had
\* (without shutting it down), and may store a new one, whatever comes after.
Rebuild(t, o) ==
    /\ ref' = [ref EXCEPT !["logs"] =
                IF o.reached < 3 THEN NoProvider
                ELSE IF o.raised THEN [by |-> "failed", cfg |-> th[t].cfg]
                ELSE NewProvider(t)]
    /\ everSet' = [everSet EXCEPT !["logs"] = @ \/ o.reached >= 2]
    /\ live' = [live EXCEPT !["logs"] = @ + IF o.reached > 0 THEN 1 ELSE 0]
    /\ logConfig' = IF o.raised THEN logConfig ELSE th[t].cfg
    /\ UNCHANGED <<gen, lost>>

ConfigureLogging(t) ==
    /\ At(t, "signal")
    /\ Head1(t) = "logs"
    /\ \E o \in LogOutcomes(th[t].cfg) :
        /\ Rebuild(t, o)
        /\ IF o.raised THEN Fail(t) ELSE Advance(t)
    /\ UNCHANGED <<runtimeLock, runtime, calls, cut>>

\* First section of setup_tracing and setup_metrics: nothing to do when the
\* signal is off or has a provider, else note the generation and go and build.
CheckProvider(t) ==
    /\ At(t, "signal")
    /\ Head1(t) \in Built
    /\ IF ~th[t].cfg[Head1(t)] \/ Installed(Head1(t))
       THEN Advance(t)
       ELSE /\ th' = [th EXCEPT ![t] =
                  [Doing("build", @.cfg, @.todo, @.again) EXCEPT !.gen = gen[Head1(t)]]]
            /\ UNCHANGED <<setupLock, setupDone>>
    /\ UNCHANGED <<runtimeLock, runtime, providers, calls, cut>>

\* What an export policy that raises finds built: the tracer provider is made
\* before its exporter, the meter provider after.
BuiltFirst(s) == IF s = "traces" THEN 1 ELSE 0

\* Building outside the lock: there is nothing to build with when the packages
\* are missing, and the export policy of the signal may raise; nobody shuts
\* down a provider that was built by then.
BuildProvider(t) ==
    /\ At(t, "build")
    /\ \E loaded \in Loads :
        \/ /\ loaded
           /\ live' = [live EXCEPT ![Head1(t)] = @ + 1]
           /\ th' = [th EXCEPT ![t] = [@ EXCEPT !.pc = "install"]]
           /\ UNCHANGED <<setupLock, setupDone, lost>>
        \/ /\ loaded
           /\ live' = [live EXCEPT ![Head1(t)] = @ + BuiltFirst(Head1(t))]
           /\ lost' = [lost EXCEPT ![Head1(t)] = @ + BuiltFirst(Head1(t))]
           /\ Fail(t)
        \/ ~loaded /\ UNCHANGED <<live, lost>> /\ Advance(t)
    /\ UNCHANGED <<runtimeLock, runtime, logConfig, ref, everSet, gen, calls, cut>>

\* Second section: the provider is installed unless another thread installed
\* one or the signal was shut down meanwhile.
MayInstall(t, s) == ~Installed(s) /\ gen[s] = th[t].gen

InstallProvider(t) ==
    /\ At(t, "install")
    /\ MayInstall(t, Head1(t))
    /\ ref' = [ref EXCEPT ![Head1(t)] = NewProvider(t)]
    /\ everSet' = [everSet EXCEPT ![Head1(t)] = TRUE]
    /\ Advance(t)
    /\ UNCHANGED <<runtimeLock, runtime, logConfig, gen, live, lost, calls, cut>>

\* ... and shut down again otherwise, which may raise.
\* Mutant: it is dropped without shutting it down.
MutDiscarded(s) == live
Discarded(s) == [live EXCEPT ![s] = @ - 1]

DiscardProvider(t) ==
    /\ At(t, "install")
    /\ ~MayInstall(t, Head1(t))
    /\ live' = Discarded(Head1(t))
    /\ Advance(t) \/ Fail(t)
    /\ UNCHANGED <<runtimeLock, runtime, logConfig, ref, everSet, gen, lost, calls, cut>>

-----------------------------------------------------------------------------
(* shutdown_tracing, shutdown_metrics and shutdown_logging *)

\* Mutant: the generation is bumped after the early return, when there is a
\* provider to shut down.
MutNextGen(s) == IF s \in Built /\ Installed(s) THEN [gen EXCEPT ![s] = @ + 1] ELSE gen
NextGen(s) == IF s \in Built THEN [gen EXCEPT ![s] = @ + 1] ELSE gen

\* Mutant: no early return when there is no provider.
ShutDown(s) == [live EXCEPT ![s] = @ - IF Installed(s) THEN 1 ELSE 0]

ShutdownSignal(s) ==
    /\ gen' = NextGen(s)
    /\ ref' = [ref EXCEPT ![s] = NoProvider]
    /\ live' = ShutDown(s)
    /\ logConfig' = IF s = "logs" THEN NoConfig ELSE logConfig
    /\ UNCHANGED <<everSet, lost>>

\* History: the threads that are building a provider of s now build for a
\* generation that is over.
Staled(s, f) ==
    [u \in Threads |-> IF f[u].pc \in {"build", "install"} /\ Head(f[u].todo) = s
                       THEN [f[u] EXCEPT !.stale = TRUE] ELSE f[u]]

\* Thread t ends what it does and goes where next says.
Leave(t, s, next) == th' = [Staled(s, th) EXCEPT ![t] = next]

\* A direct call of shutdown_tracing or shutdown_metrics.
CallShutdownSignal(t, s) ==
    /\ Call(t)
    /\ ShutdownSignal(s)
    /\ Leave(t, s, Idle)
    /\ UNCHANGED <<locks, runtime, cut>>

\* One step of _rollback; an exception is logged and the next step follows.
Rollback(t) ==
    /\ At(t, "rollback")
    /\ ShutdownSignal(Head1(t))
    /\ IF Rest(t) = <<>>
       THEN Leave(t, Head1(t), Idle) /\ setupLock' = NoThread
       ELSE Leave(t, Head1(t), Doing("rollback", th[t].cfg, Rest(t), th[t].again)) /\ UNCHANGED setupLock
    /\ UNCHANGED <<setupDone, runtimeLock, runtime, calls, cut>>

EnterShutdown(t) ==
    /\ At(t, "shutdown")
    /\ setupLock = NoThread
    /\ setupLock' = t
    /\ setupDone' = FALSE
    /\ Go(t, "teardown", Teardown)
    /\ UNCHANGED <<runtimeLock, runtime, providers, calls, cut>>

TearDown(t) ==
    /\ At(t, "teardown")
    /\ ShutdownSignal(Head1(t))
    /\ Leave(t, Head1(t), Doing(IF Rest(t) = <<>> THEN "reset" ELSE "teardown",
                                th[t].cfg, Rest(t), th[t].again))
    /\ UNCHANGED <<locks, runtime, calls, cut>>

\* The provider's own shutdown raised: the reference is dropped all the same,
\* and the rest of shutdown_telemetry is skipped.
TearDownRaises(t) ==
    /\ At(t, "teardown")
    /\ Installed(Head1(t))
    /\ ShutdownSignal(Head1(t))
    /\ Leave(t, Head1(t), Idle)
    /\ setupLock' = NoThread
    /\ cut' = TRUE
    /\ UNCHANGED <<setupDone, runtimeLock, runtime, calls>>

\* The last step of shutdown_telemetry; reconfigure_telemetry then sets up.
ResetRuntime(t) ==
    /\ At(t, "reset")
    /\ RuntimeFree
    /\ active' = NoConfig
    /\ setupLock' = NoThread
    /\ cut' = FALSE
    /\ IF th[t].again
       THEN th' = [th EXCEPT ![t] = Doing("setup", @.cfg, <<>>, FALSE)]
       ELSE Return(t)
    /\ UNCHANGED <<setupDone, runtimeLock, policy, providers, calls>>

-----------------------------------------------------------------------------
(* reconfigure_telemetry and get_logger *)

\* One of the three _has_..._provider tests, in the order of the code: true
\* when a provider is or ever was installed, and then the call raises.
Probe(t) ==
    /\ At(t, "probe")
    /\ IF EverInstalled(Head1(t))
       THEN Return(t)
       ELSE th' = [th EXCEPT ![t] =
              IF Rest(t) = <<>> THEN Doing("shutdown", @.cfg, <<>>, TRUE)
                                ELSE Doing("probe", @.cfg, Rest(t), FALSE)]
    /\ UNCHANGED <<locks, runtime, providers, calls, cut>>

LazyConfigure(t) ==
    /\ At(t, "lazy")
    /\ IF logConfig = Env
       THEN UNCHANGED providers
       ELSE \E o \in LogOutcomes(th[t].cfg) : Rebuild(t, o)
    /\ Return(t)
    /\ UNCHANGED <<locks, runtime, calls, cut>>

-----------------------------------------------------------------------------
Start(t) ==
    \/ \E c \in Configs : CallSetup(t, c) \/ CallUpdate(t, c) \/ CallReconfigure(t, c)
    \/ CallShutdown(t)
    \/ CallGetLogger(t)
    \/ \E s \in Built :
        \/ CallShutdownSignal(t, s)
        \/ \E c \in Configs : CallSetupSignal(t, s, c)

Step(t) ==
    \/ BeginApply(t) \/ SetPolicy(t)
    \/ EnterSetup(t) \/ ConfigureLogging(t) \/ CheckProvider(t)
    \/ BuildProvider(t) \/ InstallProvider(t) \/ DiscardProvider(t) \/ Rollback(t)
    \/ EnterShutdown(t) \/ TearDown(t) \/ TearDownRaises(t) \/ ResetRuntime(t)
    \/ Probe(t) \/ LazyConfigure(t)

Next == \E t \in Threads : Start(t) \/ Step(t)

Spec == Init /\ [][Next]_vars

\* No thread is forced to call; a call that has begun goes on, since locks
\* are held over finite work and building ends (Resilience).
FairSpec == Spec /\ \A t \in Threads : WF_vars(Step(t))

-----------------------------------------------------------------------------
(* Properties *)

(* Every variable keeps its type; in particular no provider is shut down    *)
(* twice.                                                                  *)
TypeOK ==
    /\ setupLock \in Threads \cup {NoThread}
    /\ runtimeLock \in Threads \cup {NoThread}
    /\ setupDone \in BOOLEAN
    /\ active \in Configs \cup {NoConfig}
    /\ policy \in [ToSet(Policies) -> Configs \cup {NoConfig}]
    /\ logConfig \in Configs \cup {NoConfig}
    /\ ref \in [Signals -> Provider \cup {NoProvider}]
    /\ everSet \in [Signals -> BOOLEAN]
    /\ gen \in [Built -> Nat]
    /\ live \in [Signals -> Nat]
    /\ lost \in [Built -> Nat]
    /\ calls \in 0..MaxCalls
    /\ cut \in BOOLEAN
    /\ th \in [Threads -> Thread]

(* Between two applications the sampling, queue and exporter policies are  *)
(* those of one configuration, the active one, whoever applied it and      *)
(* however many applications overlapped (runtime.py:37).                   *)
PoliciesFollowSnapshot ==
    (runtimeLock = NoThread /\ active # NoConfig) => \A g \in DOMAIN policy : policy[g] = active

Holding(s) == {t \in Threads : At(t, "install") /\ Head1(t) = s}

(* A tracer or meter provider that was built and not shut down is the one  *)
(* its module refers to, or is still in the hands of the thread that built *)
(* it: a lost race, a failed setup and a shutdown leave no exporter thread *)
(* behind that nothing will ever stop (tracing/provider.py:128).  One case *)
(* is left out, counted in lost: the building itself raised after it had   *)
(* made the provider, which happens to tracer providers alone.             *)
ProvidersAreHeld ==
    /\ \A s \in Built :
         live[s] = Cardinality(Holding(s)) + (IF Installed(s) THEN 1 ELSE 0) + lost[s]
    /\ lost["metrics"] = 0

(* When no setup is done and none is running, no provider that a setup     *)
(* installed is left, whichever step of it failed and whatever the other   *)
(* threads did (setup.py:78) -- unless a provider's shutdown raised.  A    *)
(* step that raises after it stored a provider is not among those rolled   *)
(* back: logging's is such a step, and its log provider is what may be     *)
(* left of a failed setup, and nothing else.                               *)
NothingLeftBehind ==
    (setupLock = NoThread /\ ~setupDone /\ ~cut)
        => \A s \in Signals : Installed(s) =>
             ref[s].by = "direct" \/ (s = "logs" /\ ref[s].by = "failed")

BySetup == {s \in Signals : Installed(s) /\ ref[s].by = "setup"}

(* The providers that setup_telemetry installed come from one call of it:  *)
(* concurrent calls with different configurations do not each install a    *)
(* part (setup.py:64).                                                     *)
OneSetupInstalls ==
    ~cut => \A s, r \in BySetup : ref[s].cfg = ref[r].cfg

(* What setup_telemetry has installed is the whole of one call, or nothing *)
(* once it failed or was shut down.                                        *)
SetupIsWhole == NothingLeftBehind /\ OneSetupInstalls

(* A provider whose building began before its signal was shut down is      *)
(* never installed after, even by a call that is still the only one        *)
(* setting up (tracing/provider.py:129).                                   *)
StaleNeverInstalled ==
    [][\A t \in Threads :
        th[t].stale /\ At(t, "install") /\ th'[t] # th[t] => ref' = ref]_vars

(* Every call returns: the locks are taken in one order and given back on  *)
(* every way out.                                                          *)
EveryCallReturns == \A t \in Threads : ~At(t, "idle") ~> At(t, "idle")

=============================================================================
