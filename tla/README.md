# A TLA+ model of undef-telemetry

undef-telemetry is a telemetry library in two languages: the Python package
`src/undef/telemetry` and its TypeScript mirror `typescript/src`. It wraps
logging (structlog), tracing and metrics (OpenTelemetry) with sampling,
backpressure, a circuit breaker around slow network work, cardinality guards,
PII redaction and context propagation, and is configured and reconfigured at
run time from many threads or asynchronous tasks.

The project models what keeps state in both packages, and the two pure
algorithms whose cases are hard to enumerate by hand. TLC checks the models on
small instances; TLAPS proves the safety properties of all of them for every
instance.

- [The system](#the-system)
- [Modules](#modules)
- [Runs](#runs)
- [Proofs](#proofs)
- [What the code does otherwise than it says](#what-the-code-does-otherwise-than-it-says)
- [Abstractions](#abstractions)
- [Not modelled](#not-modelled)
- [Plan](#plan)

Run them with `tlc -config <name>.cfg <MC module>` and `tlapm <module>.tla`.
Paths below are relative to `src/undef/telemetry/`, or to `typescript/src/` for
`.ts`, unless they say otherwise.

## The system

| Component | State | Operations | Hard part | What makes it correct |
|---|---|---|---|---|
| Resilience (`resilience.py`) | policies, consecutive timeouts and trip time per signal, one two-worker executor per signal | `run_with_resilience`, `set_exporter_policy` | threads share a breaker through several short critical sections; timed-out work goes on running on its worker | a tripped breaker lets nothing in until the cooldown ends; a signal never occupies another's workers; calls return although workers hang; a recovered backend is reached again |
| Sampling (`sampling.py`) | a policy per signal | `should_sample`, `set_sampling_policy` | policies change under callers | a refusal is counted once |
| Backpressure (`backpressure.py`) | queue policy, tokens in use per signal | `try_acquire`, `release`, `set_queue_policy` | a policy change empties the queues while tickets are held | never more tickets than the limit; a slot belongs to one call; it comes back |
| Emission sites (`tracing/decorators.py`, `metrics/fallback.py`, `logger/processors.py`) | the ticket they hold | trace a function, add, set, record, log | exceptions between acquire and release | no slot leaks |
| Health (`health.py`, `health.ts`) | counters, queue depth, last error | reads and increments under its own lock | written from inside other locks; one last error for all signals in TypeScript | agrees with what it reports on |
| Setup (`setup.py`) | `_setup_done` | `setup_telemetry`, `shutdown_telemetry` | steps fail half-way; concurrent setups | all or nothing |
| Runtime (`runtime.py`) | the active configuration | apply, update, reload, `reconfigure_telemetry` | check then act over three modules | policies come from one configuration |
| Providers (`tracing/provider.py`, `metrics/provider.py`, `logger/core.py`) | the provider, a generation, OpenTelemetry's process-wide provider that is set once | setup, shutdown, get tracer / meter / logger | built outside the lock; read without it | none leaks; none is installed after its shutdown |
| Instruments (`metrics/fallback.py`, `slo.py`) | in-process values, lazily bound handles, a cache | add, set, record, rebind | made before the provider, bound while it comes and goes | what is reported adds up to the local value |
| Cardinality (`cardinality.py`) | values seen per key with times, last pruning | register, `guard_attributes`, clear | clock read before the lock | bounded distinct values per time to live |
| Propagation and context (`propagation.py`, `logger/context.py`, `tracing/context.py`, `asgi/`) | context variables, a stack of frames | bind, clear, middleware, decorator | nesting; tokens of another task | what a request bound is gone after it; logs carry the ids of the current span |
| Log pipeline (`logger/core.py`, `logger/processors.py`, `schema/events.py`, `config.py`) | the processors built from a configuration, bound loggers | configure, bind, log | the chain, the runtime configuration and the environment drift apart | what is emitted is what its configuration lets through |
| PII (`pii.py`, `pii.ts`) | the rules | register, replace, sanitize | rules meet defaults and each other; rules change under a call; truncation turns values into texts | what should be hidden is |
| TypeScript resilience (`resilience.ts`) | the breaker | `runWithResilience` | a timed-out operation runs beside its retry | late answers change nothing |
| TypeScript providers (`otel.ts`, `runtime.ts`, `shutdown.ts`, `config.ts`) | configuration, a flag, a list of providers | register, reconfigure, shut down | registrations and shutdowns overlap at their awaits | everything is drained; the configuration is that of the providers |
| TypeScript context (`context.ts`, `propagation.ts`) | stores, one stack for all tasks | bind, run, clear | tasks interleave | tasks are kept apart |

Interactions. `setup_telemetry` holds `setup._lock` while it applies the
configuration (under `runtime._lock`, which in turn takes the locks of sampling,
backpressure and resilience one after the other), configures logging and builds
the two providers; each builds its exporter through `run_with_resilience`. An
emission asks sampling, then backpressure, does its work and releases its
ticket; both gates report to health. Instruments go through the cardinality
guard and, when bound, to the meter; the trace decorator opens a span of
`get_tracer()`. The middleware binds contexts around a request and records SLO
metrics. A log call runs through the processors, which read the context, ask
sampling and call the PII engine. Locks nest only in the order setup, runtime or
provider, then the policies, then health.

Only the construction of an exporter goes through `run_with_resilience`
(`tracing/provider.py:117`, `metrics/provider.py:87`, `logger/core.py:147`); the
function is also public, and the model lets an application call it with any
operation at any time, which includes those three.

## Modules

| Module | Models | Instances | Theorems |
|---|---|---|---|
| `CircuitBreaker` | what a breaker promises its callers: the abstract specification of the next two | | |
| `Resilience` | `resilience.py`, with the part of `health.py` it writes | `MCResilience` | `ResilienceProofs` |
| `TsResilience` | `resilience.ts`, with the part of `health.ts` it writes | `MCTsResilience` | `TsResilienceProofs` |
| `Emission` | `sampling.py`, `backpressure.py`, the emission sites, with the part of `health.py` they write | `MCEmission` | `EmissionProofs` |
| `Lifecycle` | `setup.py`, `runtime.py`, the providers' installation and shutdown | `MCLifecycle` | `LifecycleProofs` |
| `Metering` | `metrics/provider.py`, `metrics/fallback.py`, the cache of `slo.py`, what `_otel.py` finds for them | `MCMetering` | `InstrumentProofs` |
| `Cardinality` | `cardinality.py` | `MCCardinality` | `InstrumentProofs` |
| `Context` | `logger/context.py`, `tracing/context.py`, `propagation.py`, the middleware, the ids of the trace decorator | `MCContext` | `ContextProofs` |
| `Settings` | `config.py`, for what the log pipeline reads | | |
| `LogPipeline` | `logger/core.py`, `logger/processors.py`, `schema/events.py`, `classify_error` of `slo.py`; extends `Settings` | `MCLogPipeline` | `EmissionProofs` |
| `Pii` | `pii.py` and `pii.ts`, by what they do at each place of a payload | `MCPii` | `EmissionProofs` |
| `PiiTrees` | the recursive walks of both; extends `Pii` | `MCPii` | |
| `TsProviders` | `otel.ts`, `runtime.ts`, `shutdown.ts`, `config.ts` | `MCTsProviders` | `TsProvidersProofs` |
| `TsContext` | `context.ts`, `propagation.ts` | `MCTsContext` | `TsContextProofs` |

In the Python modules with threads an action is one access to shared state: a
section under a lock, one unlocked read or write of a shared variable, or an
operation on an executor. What a thread does between two of them touches nothing
shared and belongs to one of its neighbours. In the TypeScript modules an action
runs from one `await` to the next. `PROJECT.json` maps every definition to the
lines it stands for. Operators named `Mut...` are mutations: plausible bugs with
which some property is known to fail. The models do not use them.

### Resilience, TsResilience and CircuitBreaker

A Python caller (thread) goes through `check` (breaker), `attempt`
(`GetExecutor`), `submit`, `waiting`, and after the answer `succeeded`, `failed`,
or `expired`, `timedout` and `strike`: the three sections a timeout goes through,
`_maybe_replace_executor`, `record_export_failure`, and the count with its trip.
Then it retries or returns. `strikes` and `age` stand for `_consecutive_timeouts`
and `_circuit_tripped_at`, both up to the value at which the code stops telling
them apart. `hung` counts the workers of each executor that run something nobody
waits for any more: a future whose wait expired and that was running is not
cancelled. Executors are objects (`Pools`): one that was replaced lives on for
the callers that fetched it, may refuse a submission (`RuntimeError`, which the
code treats as an ordinary failure and so clears the count), and its identity is
reused once unreachable. The backend may go down and come up; a down backend
never answers.

In TypeScript nothing runs in parallel, and nothing is cancelled either:
`running` holds the attempts of a call whose operations still run, which may be
several, and each settles when it likes. A call awaits the promise of its latest
attempt only, which settles for the operation of that attempt or for its timer.

`CircuitBreaker` keeps, of all that, the count, the age, and who is inside with
what. Both modules are checked and proved to implement it, under mappings of
their own of `inside`.

### Emission

A call goes `sample`, `acquire`, `span` (traces only), `body`, `release`, with
`drop` for the counter of a refusal, which is under a lock of its own. `queue`
holds tokens; an unbounded queue gives token 0 and holds none. A span that does
not start leaves with the ticket (`leaked`). A direct user of the public ticket
API keeps its ticket and may release it again (`ReleaseAgain`) at any time.
`SetQueuePolicy` empties the queues, held tickets or not, as the code does, and
happens on every reload of a configuration, changed or not. Log records pass the
sampling gate only: no code path takes a ticket of the `logs` queue, whatever
`docs/INTERNALS.md` says of all three signals. `epoch` counts the policies that
were set: `OnlyOwnerFrees` excepts those steps and no other, so that a stale
release that empties a queue is not taken for one.

### Lifecycle

A thread's record holds where it is, the configuration it was given, and the steps
it has left (`todo`), so that setup, rollback, shutdown, the provider tests of
`reconfigure_telemetry`, and the setters of `apply_runtime_config` are sequences
consumed one step per action. `Fail` turns what is done into the steps of
`_rollback`. `ref`, `everSet` and `gen` are the modules' globals; `live` counts, per
signal, the providers built and not shut down. Threads may also call
`setup_tracing`, `setup_metrics` and their shutdowns, which the packages
export: with them the generations matter, since `setup_telemetry` and
`shutdown_telemetry` exclude one another. A step may raise after it built a
provider (`BuiltFirst`: the tracer provider is made before its exporter), or after it
made one global or stored it (`LogOutcomes`). `stale`, `cut` and `lost` are history;
`lost` counts the tracer providers that nobody has after their exporter raised.

### Metering

Where `Lifecycle` asks whether providers are held, `Metering` asks what the
application's instruments make of them. OpenTelemetry's holder of the provider is
`global`, set once, by a setup (`Publish`) or by the application
(`InstallExternal`). A use of an instrument counts locally, then reads the
module's variables one at a time as `get_meter` does (`Judge`, `Lookup`, `Fetch`,
`Store`), binds, and reports (`Export`), while one thread sets up and shuts
down. A meter is named by the provider it came from. `reported` and `missed` are
what OpenTelemetry was told and what was used up without a provider. `packages`
is what of OpenTelemetry can be imported: nothing, the API, whose meters are
placeholders, or also the SDK, without which a setup builds nothing (`Loads`).

### Cardinality

`ReadClock` and `Guard` are the two halves of `guard_attributes`, between which
the thread waits for the lock, for up to `Delay`; `Guard` prunes, tests the limit
and writes, with the clock it read. `used` and `loosest` are history: the true
times values were let through, and the loosest limit the key had. `Tick` is
bounded by `MaxTime`, and the proofs hold for every such bound.

### Context

All this state is in context variables: a task has its own copy, made when it is
created. So a behavior follows one line of tasks, and `CreateTask` goes on with
the created one; what its creator does afterwards is in the behaviors without
that step. Brackets (a request, a websocket, a span with or without a real
provider, the body of a task) nest, and application code may bind and clear by
hand inside them. A token of OpenTelemetry made in another task is refused
(`mine`). `strayed` says that a bind and a clear did not come in a pair. A header
has two readers, `_parse_traceparent` (`Adopted`) and OpenTelemetry's `extract`
(`Extracted`), of which the second refuses some that the first takes (`Loose`).
`Provide` is a setup or a shutdown of tracing by any thread; one may come between the
two looks that the start of a span takes at the provider (`get_tracer`, then
`_sync_otel_trace_context`). `parted` says that the ids in force come from such a
header or such a span.

### LogPipeline and Settings

`FromEnv` parses the environment, or refuses it, as `TelemetryConfig.from_env`
does for one variable of each kind of parser. `chain` is the configuration the
processors were built from, `runtime` the active one, `sampling` the policy, and
`bound` a logger bound at some time, with the processors of that time. A log call
(`Log`) is one action: merging, hardening, standard fields, sampling, schema and
level filter, in this order, with the event's keys in their order in the dict,
since the excess over `max_attr_count` is what comes last. What is added after that
(`Standard`, with the error taxonomy, and `Fingerprinted`) counts for the required
keys. `event_name` is what the function of `schema/events.py` would build at the
moment, and `NamePasses` what the processors would let through. An event that
passes the processors goes to the standard library, whose root logger has the default
level of the latest configuration (`Outcome`, `last.root`). `get_logger` looks at
`_configured` (`FindUnconfigured`) and configures from the environment
(`LazyConfigure`) in two steps; `lazy` says that some thread is between them.

### Pii and PiiTrees

A payload is a function from the places in it, sequences of keys and items, to what
is there. One action applies one rule to the whole payload, another the default
redaction. In Python the rules are copied at the start of a call and other threads
register and replace rules between the actions. The same module has the engine of
`pii.ts` as a second behaviour (`lang`), whose defaults are at the top level only and
see the rules' last segments, in lower case (`Targeting`), while rules match keys
exactly.

Truncation applies `str()` or `String()` to whatever is at the place. The text of
a short text is itself; that of a number (`digits`) differs from the number and shows
it; that of a container is cut, and what its beginning shows is open: any of the values
in it (`told`), which stay in the tree below the text, where no later rule and no
default goes.

`ReadableAsDeclared` compares the result with a reading of rules and defaults as
declarations, in which no order of rules and no intermediate payload occurs. It has
two halves: what a rule hides for certain or the default redaction takes is not
readable, as it was or in a text; what no rule takes and no default is readable.
Between them are the values in a truncated container.

The engines do not work place by place but walk trees: `PiiTrees` has `MaskNode`,
`WalkRule`, `WalkDefaults` and `WalkTop` as they stand in the code, and `WalksAgree` says that
each step of a call makes of the places what the walk makes of the tree.

### TsProviders

A registration imports, builds and sets the tracer provider, then the meter
provider, each after an await and each with a failure that is swallowed, and then
stores its list. A shutdown takes the list and awaits the flushes and then the
shutdowns of all providers. `GuardKeepsProviders` is about the refusal of
`reconfigureTelemetry`; the actions that go around it (`setupTelemetry` and
`updateRuntimeConfig`, which have no guard, a registration under a
configuration that is not both the current and the runtime one, and a
reconfiguration while a registration is under way) set `strayed`.

### TsContext

`stores` are the objects of AsyncLocalStorage and `store` the one of each task;
without it everything is in `base`. The asynchronous function given to
`runWithContext` becomes a task with a store of its own (`RunAsync`); a task that is
merely started shares its creator's (`Start`). `running` is the stack of synchronous
`runWithContext` calls on the thread. The propagation stack is one for all tasks,
so a clear may pop a frame that another task pushed; `NothingLeftActive` says what is
left of order: once every frame is popped, by whomever, nothing is active.

## Runs

| Run | Question | Bounds |
|---|---|---|
| `resilience` | Does a tripped breaker show in health, are executors used right, is `CircuitBreaker` implemented, does a timed call return with all workers hung, does a breaker close once the backend stays up? | two callers, one signal, two executors, one worker, threshold two; calls that retry once, calls without a timeout; a backend that hangs and recovers |
| `ts_resilience` | Do only awaited attempts move the breaker, is `CircuitBreaker` implemented, do timed calls settle? | two callers, two signals, one retry, with a timeout and a sleep or with neither |
| `emission` | Are queues within their limits, depths right, slots owned, freed by their owners only, and given back? | events, traces and direct users on two signals, two calls, two attempts, limits that move between none, one and two |
| `lifecycle` | Is a setup all or nothing, from one configuration, without stale installs, and without leaks but the one of a failed exporter, and does every call return? | two threads, two configurations that differ in the service and in a provider, three calls |
| `metering` | Does nothing come from the placeholder, do early instruments bind, does what was reported add up? | two threads, two setups with shutdowns, an external provider, two instruments, three uses; OpenTelemetry whole, without its SDK, or absent |
| `cardinality` | Are windows bounded, recent values kept, refusals justified? | two threads, three values, limits of one and two with different times to live, pruning every two seconds, five seconds |
| `context` | Do brackets give back what they found, and logs carry the ids of the span? | three brackets, two binds, four calls; a header that both parsers take and one that only the module's takes; a provider that comes and goes |
| `log_pipeline` | Is what is emitted as its configuration says, and is `event_name` as strict as the processors? | five environments, one of them refused, with overrides of a module and of one inside it above and below the default level, strictness by either variable and few keys; events of four levels with the name under `logger`, `logger_name`, both or neither; lazy configuration |
| `log_module_levels` | A statement of the documentation that does not hold | the same |
| `pii` | Is what stays readable what rules and defaults, read as declarations, leave readable, and do the walks do that? | payloads of two and three levels with one part below the top, three keys of which two differ in case, short texts, secrets and numbers; four rule lists and two rules to register, depths 0, 2 and 8, both languages |
| `ts_providers` | Is a lone registration drained whole, does the guard work, does every call settle? | two registrations, two shutdowns, two changes |
| `ts_context` | Are tasks kept apart, do runs restore, is nothing left active after the last clear? | three tasks, two fields, five calls, with and without AsyncLocalStorage |

Why the bounds are enough. Two threads give every pairwise race on a breaker, a
lock, a cache or a generation, and a third party is another call of one of them.
A caller creates an executor only when its signal has none and it holds none
itself, so the other caller holds at most one: two executors are enough for one
signal, and a new one always finds a free identity. Three calls of the lifecycle
are a build, what overtakes it, and what follows. The threshold and the cooldown
are small since the code only compares. Three values of a key are one more than
the larger limit; five seconds see a value let through, expired, swept and let
through again under the other limit. Three brackets are one inside another beside
a body. A payload of three levels has a place above and at every path of the
rules, and below all but the longest, and depth 2 is inside it. Three tasks on one stack are the two that
interleave and one that is left out. The proofs have none of these
bounds. `MaxAttempts`, `MaxCalls`, `MaxUses`, `MaxSetups` and `MaxChanges` bound
the number of calls; after it the system stops, hence `CHECK_DEADLOCK FALSE` where
nothing else goes on.

Symmetry is used in `cardinality` (threads, values), `metering` (threads) and
`ts_context` (fields, tasks but the root), which check no liveness.

Fairness. Threads run, event loops run continuations and timers: weak fairness
of what a call does once begun, since every step is a short critical section, a
continuation, or, for a timed call, a wait that expires. Nobody is forced to begin
a call, except for `BreakerRecovers`, which asks that the application goes on
exporting: a breaker that nobody calls stays as it is. Workers may hang for
ever and abandoned operations never settle: `EveryTimedCallReturns` and
`EveryTimedCallSettles` need nothing of them. `BreakerRecovers` has as a premise
that the backend, from some time on, is up and answers in time (`Prompt`), and says
nothing of abandoned operations. `EveryCallReturns` of the lifecycle assumes that
building a provider ends, which is what `EveryTimedCallReturns` shows of the wait
it contains. `EveryCallSettles` of the TypeScript providers assumes that each
import and each flush or shutdown of a provider settles, resolved or rejected.
`SlotsReturn` assumes that traced functions return or raise, and that a direct
user of the ticket API releases what it has.

## Proofs

`tlapm` checks every step of the eight proof modules. They assume only what the
named assumptions of the modules state of their constants. Few of the properties
are inductive; the strengthening of each is named in its module.

`ResilienceProofs`: `TypeCorrect`, `ExecutorsDisciplined`, `BreakerImplemented`,
`TrippedShown`. `TypeOK` is inductive. Discipline needs it and lemmas on what
`GetExecutor` obtains: the signal's executor, or one that nobody could reach, so that
a reused identity confuses no one. The refinement maps every action to
`Enter`, `TimedOut`, `Answered`, `EndAttempt`, `Tick` or a stutter. `TrippedShown`
counts: when health shows no error and no success has yet to clear the count, the timeouts
counted and those told to health and still to be counted (`Strikers`) are together below
the threshold (`HealthInv`), because the success that cleared them came from a
caller that is none of the others. It needs no more callers than the threshold, as the
property does.

`TsResilienceProofs`: `TypeCorrect`, `StrikesShown`, `OverlapOnlyTimed`,
`StrikesAreAttempts`, `BreakerImplemented`. The invariant adds that without a timeout
nothing of an earlier attempt is left running (`UntimedAlone`), and that a call
sleeps only with attempts left (`SleepersRetry`), which is why a sleep ends in a
retry. The refinement is to the same abstract module.

`EmissionProofs`: `TypeCorrect`, `QueuesReported`, `SlotsOwned`, `OwnersFree`,
`CallsAccounted`. That every slot has one owner is not inductive. The invariant adds
that tokens are issued in order (so a new one is new), that a call past the gates
holds a ticket of its own signal, that no two tickets are the same, stale ones
included, and that queues are finite. From these each step keeps the owner of
each slot, and a repeated release finds nothing. `CallsAccounted` rests on the same
invariant and on a lemma (`GateCount`) on how the number of calls at the gates changes.

`LifecycleProofs`: `TypeCorrect`, `PoliciesFollow`, `ProvidersHeld`, `SetupWhole`,
`StaleStaysOut`. Each depends on what threads have left to do. `Base` says, for
every thread, which scripts fit where it is, which locks it holds there, that it
has a configuration, and that the generation it noted is one that was
(`KnowsGeneration`); it is proved first, action by action. On top of it come
three independent invariants. `PolicyInv` says that an application half-way has set
the groups that are no longer in its script. `LiveInv` counts the providers in the
hands of threads, which is also why no count is negative. `SetupInv` says, place by
place, what the holder of `setup._lock` has installed or has yet to take down: what
it installed is disjoint from what it has left to set up, and contained in what it
has left to tear down. `StaleStaysOut` needs `KnowsGeneration` alone. A lemma per
invariant (`OthersStay`, `Shrinks`) says what a step of one thread can do to what is
known of the others.

`InstrumentProofs` is about `Cardinality` and `Metering`, which share no variable
(hence the names `MeterInit`, `MeterNext`, `MeterSpec`). For `Cardinality`:
`TypeCorrect`, `TablesBounded`, `RecentKept`, `WindowsBounded`,
`OverflowsJustified`. The invariant relates the times in the
table to the true ones (`TimesAgree`): a stored time is at most the true one and at
least that less `Delay`, since a waiting thread's reading is not older
(`ReadingsFresh`); and a limit in force is within what the history has seen
(`LimitsKnown`). Pruning then removes
only what has expired by the shortest time to live, and what is refused meets values
that a pruning of less than `PruneInterval` ago left. That windows are bounded
is the bound of the table and the fact that what is recent is in it.

For `Metering`: `MeterTypeCorrect`, `NeverFromProxy`, `ReportsComplete`, `BindsLate`.
A use is spread over up to eight steps, so the invariant (`MeterInv`) says, for each
place a thread can be at, what it has read and what still holds of it. That nothing
comes from the placeholder needs that OpenTelemetry holds a provider whenever the
module does and that the baseline is the placeholder or that provider (`HolderKept`);
then a thread past the test for a real provider finds one (`MetersFetched`), and
since OpenTelemetry never changes it, a meter cached after a shutdown is
still one of the right provider. `ReportsAddUp` counts the uses of an instrument that
have counted and not reported (`Pending`), one more or one less at a step; it needs
that the operation and the instrument of a thread fit its place (`CallsAtStep`), and
that there is room for what creations under way will append (`RoomLeft`). `BindsLate` needs
that a call that began with a provider goes on with it, and so does the making of a
counter of `slo.py` (`ProviderKept`, `MakerKept`), and that an instrument is resolved
by a handle or by a refusal only (`ResolvedByMeter`). TLC checked all of these on the
instance of the run before they were proved.

`ContextProofs`: `TypeCorrect`, `StaysInStep`, `RestoresFields`, `RestoresTrace`.
`BracketRestoresTrace` needs to know what is left on the stack when a bracket ends.
The invariant (`Balanced`) says, for every open bracket, that what it has put on the
stack are its own entry and its binds, that each of these gives back ids and context that
were in step when it was pushed, and the lowest those the bracket found. `RestoresFields`
follows from the token alone, strayed or not.

`TsProvidersProofs`: `TypeCorrect`, `OnlyDrained`, `Drains`, `GuardHolds`. `Progress`
says what a shutdown has flushed and shut down by where it is, `Listed` and `Covered`
that what an ended lone registration built is in the list or in a snapshot, and
`GivenCurrent` that a registration under way, nobody having strayed, was given
the configuration that is still the active one.

`TsContextProofs`: `TypeCorrect`, `Isolation`, `NothingLeft`, `Restores`. Stores made later are nested inside the earlier ones on the run
stack: each saved store is older than the running one, so nothing the inner code
touches is the outer store. Tasks that share a store see each other, which makes
`TasksIsolated` a statement about stores. Without AsyncLocalStorage the saved value is
itself what comes back. `NothingLeft` needs that the lowest frame, if there is one, is
empty.

In `EmissionProofs`, for `LogPipeline`: `LogTypeCorrect`, `NamesStayAgreed`,
`OutcomesConfigured`. `NamesAgree` is about every name and is not inductive; what is
(`ConfiguredAlike`) is that between a setup and a shutdown the active configuration
and that of the processors have the same cold part, which a reconfiguration
without a restart keeps because it compares the very part that `event_name` reads. `CallExplained` says
that a call came out as `Outcome` decides; from it `OutcomeAsConfigured` follows by
lemmas on the operators: `FromEnvType` (an environment is refused or gives a
configuration), `EffectiveLeast` (the bound logger lets through whatever some override
asks for), and `ThresholdDeclared` (the first match in the order of lengths is
the longest override, for any number of overrides, since prefixes of one name of the
same length are the same).

And for `Pii`: `PiiInvariant`, `PiiTypeCorrect`, `ReadableDeclared`. What is declared of
a result says nothing of a call under way; the invariant (`RulesSoFar`) says it after
each rule: a place of the payload is as it was, with no text on the way to it, exactly
where none of the rules applied so far changed anything; what they take nothing of is
as it was or the text of the number it was; what they hide is gone. It also says that
a text on the way to a place was put there by a rule that truncated the container
(`LeftSoFar`), which is why a rule that is for the place and does not find it has a
truncation before it. From these a rule step keeps each part (`IntactStep`, `SparedStep`,
`GoneStep`, `LeftStep`). After the last rule a value compares equal to the payload's if
and only if no rule changed anything in it (`SameIsUntouched`), so that the first
sensitive key on the way decides as declared (`DeclaredIsRedacted`,
`RedactedByDefault`). The assumptions are that the payloads are trees, none of whose
own texts is one that a mask or a truncation makes.

Only model-checked: everything temporal beyond invariants and steps
(`EveryTimedCallReturns`, `BreakerRecovers`, `SlotsReturn`, `EveryCallReturns`,
`EveryTimedCallSettles`, `EveryCallSettles`), which TLAPS does not prove under
fairness; and `WalksAgree`, which is about recursive operators, over which TLAPS has no
induction. The theorems about `Pii` hold for trees of any size; that the walks are what
`Pii` says is checked up to three levels.

## What the code does otherwise than it says

`ModuleLevels` (run `log_module_levels`, `logger/processors.py:174`): the level
filter looks for the logger's name in the event, and nothing puts it there.
`docs/CONFIGURATION.md:34` has `UNDEF_LOG_MODULE_LEVELS` set the level of a module.
Only a caller that passes a key `logger_name` or `logger` has its override applied, and
only one at or above the default level: what the processors let through goes to the
standard library, whose root logger has the default level (`logger/core.py:185`, `:254`),
so that the `undef.server=DEBUG` of `docs/CONFIGURATION.md:34` shows nothing under the
default `INFO`. `OutcomeAsConfigured` shows that within these two limits the longest
override decides.

Met on the way, without a run of its own:

- After the cooldown every call is a probe, not one (`resilience.py:113`); retries
  of a call already in go on during the cooldown (`docs/INTERNALS.md:93`); two
  overlapping timeouts trip the breaker without replacing the executor
  (`resilience.py:185`); an error that is not a timeout after the cooldown clears
  the breaker instead of tripping it again (`docs/INTERNALS.md:94`).
- A span that fails to start leaks its ticket (`tracing/decorators.py:58`, and 39
  for the asynchronous form); `SlotsAreOwned` excepts these tickets.
- The tracer provider is made before its exporter (`tracing/provider.py:115`); when
  the export policy fails closed and the exporter raises (`:117`), nobody shuts it down
  (`lost` in `ProvidersAreHeld`). Logging that raises after it stored a log provider
  (`logger/core.py:158-256`) is not among the steps a failed setup rolls back, so the
  provider stays until the next configuration or shutdown (excepted by `SetupIsWhole`).
- The trace decorator asks twice whether there is a real provider, for the tracer and
  for the ids (`tracing/decorators.py:39-40` and `58-59`, `tracing/provider.py:193` and
  `:204`): a shutdown in between leaves the ids of the span before under the new span.
  `propagation.py:49-69` takes a `traceparent` in upper case, which OpenTelemetry
  (`_otel.py:131-133`) does not, so the ids in logs are the header's and the context is
  empty. `InStep` excepts both (`parted`).
- `get_logger` looks at `_configured` and then configures (`logger/core.py:295-298`): a
  setup that ends in between has its processors replaced by the environment's, and
  `event_name` then follows the setup (`drifted` in `NamesAgree`).
- `docs/INTERNALS.md:150` has expired values pruned on each guard call; they are pruned
  every five seconds (`cardinality.py:77`), so that a value is refused for others that
  expired up to five seconds ago. `OverflowJustified` allows for these
  (`PruneInterval`) and does not hold without.
- A comment has compat mode skip required keys (`logger/processors.py:131-132`); they are
  enforced in every mode (`:139`), which is what `OutcomeAsConfigured` says.
- A setup that ends between the test and the shutdown of a reconfiguration is torn
  down (`runtime.py:104`); an exception in one provider's shutdown skips the rest
  (`setup.py:119`); `shutdown_telemetry` resets the configuration but no policy.
- Configuring logging again drops the log provider it had, which no shutdown
  then reaches (`logger/core.py:135`). A logger bound before a reconfiguration keeps
  the processors of that time.
- A changed log endpoint, level or security section does not count as a provider
  change, so `reconfigure_telemetry` ignores it (`runtime.py:119`);
  an update may make `event_name` stricter or laxer than the processors, which is why
  `NamesAgree` excepts it; an update also discards sampling overrides.
- `max_attr_count` counts the event and the level among the keys it drops; an event
  of `trace()` passes the level filter as a debug event.
- An external meter provider set before the first setup is taken for the placeholder
  (`metrics/provider.py:66`); after a second setup OpenTelemetry still has the first,
  dead provider, for traces as for metrics.
- A nested PII rule whose last segment is a sensitive key exempts that key
  everywhere from the default redaction. In TypeScript it does so in any case of
  letters, while rules match exactly (`pii.ts:109`, `:174-182`): a rule for `token`
  leaves the value of `Token` to nobody.
- Truncation converts with `str()` (`pii.py:90-93`): a number under a sensitive key becomes
  its own text, which the default redaction takes for a changed value and leaves
  (`:143`); a container becomes a text whose beginning shows what is in it, and the
  whole of it when it is short, whatever the rules for what is below it say.
- TypeScript: a second registration replaces the list of the first, which
  `shutdownTelemetry` then does not reach (`otel.ts:33`, `typescript/README.md:63`);
  this is why `OnlyRegistrationDrained` is about the only one. `setupTelemetry` does
  not set the runtime configuration, so `reconfigureTelemetry` compares with the
  environment; `updateRuntimeConfig` has no guard, and `reconfigureTelemetry` none while
  a registration is under way (`runtime.ts:77`). Without AsyncLocalStorage
  `runWithContext` restores the context at the first await of an asynchronous function.
  The clear of one task may pop the frame of another (`propagation.ts:19`).

## Abstractions

- Resilience: `fail_open` chooses between returning None and raising; neither
  changes state, and the call is over. The warning in an event loop, latencies and
  retry counters are left out; backoff is a wait. A policy is read once, at the start.
- Emission: rates are zero, one, or between, where the draw is a choice.
  Overrides are folded into the rate that applies.
- Lifecycle: a configuration is its service, whether tracing and metrics are on,
  and whether logs have an endpoint. Each setup finds the SDK of OpenTelemetry or
  does not (`Loads`). Configuring
  logging is one step, since all of it is under the lock. The policies are three
  groups (sampling, queue, exporter) set in order. Applications that also call the
  setters themselves, against a concurrent configuration, get what came last, and are
  left out. The startup records of setup are emissions.
- Metering: one thread sets up and shuts down, which the lock of `setup.py` makes of
  any number; sampling and backpressure, which come first in each use, are in
  `Emission`. A histogram is a counter of its records.
- Context: a header is absent, taken by both parsers, taken by the module's only, or
  invalid for both, which binds as an absent one; the fields other than the
  propagated ones are one; baggage and tracestate go with the traceparent.
- LogPipeline: one setting of each kind of parser; a name is valid or not; modules
  are sequences of chunks of text, so that one name may be a prefix of another without
  being its parent, as in the code. No OpenTelemetry log provider.
- Pii: a leaf is a short text, which truncation leaves alone, a secret, which every
  mask cuts or replaces, or a number with a short text. What masks leave of texts and
  of containers is one text. Which values the text of a container shows is a free choice
  among those that are not secrets; the text of an object in TypeScript
  (`[object Object]`) shows none. The limit of 32 levels is out of reach.
- TsProviders: a configuration is what `reconfigureTelemetry` compares.
- Functions named `..._for_tests` are not operations, except `reset_runtime_for_tests`,
  which `shutdown_telemetry` calls.

## Not modelled

- Console rendering, the text of fingerprints and stack traces, colours (`logger/pretty.py`,
  `pretty.ts`, `fingerprint.ts`): text.
- The re-exports of the `__init__.py` files.
- Test helpers (`testing.py`, `testing.ts`).
- The rest of `config.py`: the same parsers over other variables.
- Backpressure, sampling and cardinality of the TypeScript package: synchronous, so
  that each is its Python model with one thread and no delay, all of whose behaviors
  are among those checked.
- TypeScript tracing, logger, schema, metrics, SLO: they forward to OpenTelemetry and
  pino or transform data. `tracing.ts` keeps one pair of manual ids for all tasks.
- React bindings, e2e backend, examples, conformance and development scripts.

## Plan

Done, in this order: `Resilience` with `CircuitBreaker`; `Emission`; `Lifecycle`;
`Cardinality` and `Metering`; `Context`; `Settings` with `LogPipeline`; `Pii` with `PiiTrees`;
`TsResilience`, `TsProviders`, `TsContext`; their proofs.

Left:

1. The tracer's counterpart of `Metering`, whose provider has the same rule.
2. The cached counter of a response status in the middleware, with `Metering`.
