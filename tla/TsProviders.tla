----------------------------- MODULE TsProviders -----------------------------
(***************************************************************************)
(* Registering, reconfiguring and shutting down OpenTelemetry providers in *)
(* the TypeScript package: otel.ts, runtime.ts, shutdown.ts and the        *)
(* configuration of config.ts.                                             *)
(*                                                                         *)
(* Registrations and shutdowns are asynchronous and may overlap; an action *)
(* runs from one await to the next.  The guard of reconfigureTelemetry is  *)
(* synchronous and knows only whether a registration has ended.            *)
(* OpenTelemetry keeps the first provider set for each signal, and         *)
(* registerOtelProviders does not ask whether its own was kept.            *)
(***************************************************************************)
EXTENDS Integers, FiniteSets

CONSTANTS
  Registrations,  \* calls of registerOtelProviders, each made once
  Shutdowns,      \* calls of shutdownTelemetry, each made once
  Endpoints,      \* the OTLP endpoints and headers a configuration may have
  Default,        \* DEFAULTS, the configuration before the first setup
  Env,            \* what configFromEnv returns
  MaxChanges,     \* bound: configurations applied
  Nil             \* null, no provider

Signals  == {"traces", "metrics"}
Provider == Registrations \X Signals
\* The provider-changing fields of a TelemetryConfig.
Config   == [otelEnabled: BOOLEAN, otlp: Endpoints]

ASSUME ConfigAssumption == {Default, Env} \subseteq Config
ASSUME BoundAssumption == MaxChanges \in Nat
ASSUME NilAssumption == Nil \notin Provider \cup Config

VARIABLES
  config,      \* _config of config.ts
  active,      \* _activeConfig of runtime.ts
  registered,  \* _providersRegistered
  providers,   \* _registeredProviders
  global,      \* the provider OpenTelemetry holds, by signal
  reg,         \* the signal a registration is setting up
  cfg,         \* the configuration it was given
  own,         \* the providers it has built
  down,        \* what a shutdown awaits
  snapshot,    \* the providers it found
  pending,     \* those whose promises it awaits
  flushed,     \* providers whose forceFlush settled
  shut,        \* providers whose shutdown settled
  ended,       \* history: the registrations that had ended when a shutdown began
  built,       \* history: the configuration of the last registration that ended
  strayed,     \* history: the configuration was changed past the guard
  changes      \* configurations applied

configs == <<config, active, strayed, changes>>
setups  == <<registered, providers, global, reg, cfg, own, built>>
downs   == <<down, snapshot, pending, flushed, shut, ended>>
vars    == <<configs, setups, downs>>

TypeOK ==
  /\ config \in Config /\ active \in Config \cup {Nil}
  /\ registered \in BOOLEAN /\ providers \in SUBSET Provider
  /\ global \in [Signals -> Provider \cup {Nil}]
  /\ reg \in [Registrations -> {"new", "traces", "metrics", "done"}]
  /\ cfg \in [Registrations -> Config \cup {Nil}]
  /\ own \in [Registrations -> SUBSET Provider]
  /\ down \in [Shutdowns -> {"new", "flush", "shutdown", "done"}]
  /\ snapshot \in [Shutdowns -> SUBSET Provider]
  /\ pending \in [Shutdowns -> SUBSET Provider]
  /\ flushed \subseteq Provider /\ shut \subseteq flushed
  /\ ended \in [Shutdowns -> SUBSET Registrations]
  /\ built \in Config \cup {Nil} /\ (registered <=> built # Nil)
  /\ strayed \in BOOLEAN /\ changes \in 0..MaxChanges
  /\ \A d \in Shutdowns : pending[d] # {} => down[d] \in {"flush", "shutdown"}
-----------------------------------------------------------------------------
\* Operators named Mut... are mutations of the operator they precede; nothing
\* in the model uses them.

Init ==
  /\ config = Default /\ active = Nil /\ strayed = FALSE /\ changes = 0
  /\ registered = FALSE /\ providers = {} /\ global = [s \in Signals |-> Nil]
  /\ reg = [r \in Registrations |-> "new"] /\ cfg = [r \in Registrations |-> Nil]
  /\ own = [r \in Registrations |-> {}] /\ built = Nil
  /\ down = [d \in Shutdowns |-> "new"]
  /\ snapshot = [d \in Shutdowns |-> {}] /\ pending = [d \in Shutdowns |-> {}]
  /\ flushed = {} /\ shut = {} /\ ended = [d \in Shutdowns |-> {}]

\* getRuntimeConfig
Current == IF active = Nil THEN Env ELSE active

\* Some of the provider-changing fields differ.
MutChanged(c, d) == c.otelEnabled # d.otelEnabled
Changed(c, d) == c # d

\* The list registerOtelProviders stores, p being what its last try built.
MutStored(r, p) == p
Stored(r, p) == own[r] \cup p

\* Where a shutdown goes when one of its promises settles: allSettled.
MutAfterStuck(d, p, ok) ==
  IF ~ok \/ pending[d] # {p} THEN down[d] ELSE IF down[d] = "flush" THEN "shutdown" ELSE "done"
After(d, p, ok) ==
  IF pending[d] # {p} THEN down[d] ELSE IF down[d] = "flush" THEN "shutdown" ELSE "done"

\* A registration has begun, and one is under way.
Begun    == \E r \in Registrations : reg[r] # "new"
UnderWay == \E r \in Registrations : reg[r] \in Signals
-----------------------------------------------------------------------------
Change ==
  /\ changes < MaxChanges
  /\ changes' = changes + 1
  /\ UNCHANGED <<setups, downs>>

\* setupTelemetry, which leaves the runtime configuration alone.
SetupTelemetry(c) ==
  /\ Change
  /\ config' = c
  /\ strayed' = (strayed \/ Begun)
  /\ UNCHANGED active

\* updateRuntimeConfig, and reloadRuntimeFromEnv when c is Env: no guard.
Update(c) ==
  /\ Change
  /\ config' = c /\ active' = c
  /\ strayed' = (strayed \/ Begun)

\* reconfigureTelemetry, when it does not throw.
Reconfigure(c) ==
  /\ registered => ~Changed(Current, c)
  /\ Change
  /\ config' = c /\ active' = c
  /\ strayed' = (strayed \/ UnderWay)

\* registerOtelProviders, up to its first await.
Register(r, c) ==
  /\ reg[r] = "new"
  /\ reg' = [reg EXCEPT ![r] = IF c.otelEnabled THEN "traces" ELSE "done"]
  /\ cfg' = [cfg EXCEPT ![r] = c]
  /\ strayed' = (strayed \/ c # active \/ c # config)
  /\ UNCHANGED <<config, active, changes, registered, providers, global, own, built, downs>>

\* What one try block builds: nothing when an import fails.  set...Provider
\* keeps the provider it has.
SetUp(r, s, ok) ==
  LET p == <<r, s>>
  IN /\ reg[r] = s
     /\ global' = IF ok /\ global[s] = Nil THEN [global EXCEPT ![s] = p] ELSE global
     /\ own' = IF ok THEN [own EXCEPT ![r] = @ \cup {p}] ELSE own
     /\ UNCHANGED <<cfg, configs, downs>>

SetUpTraces(r, ok) ==
  /\ SetUp(r, "traces", ok)
  /\ reg' = [reg EXCEPT ![r] = "metrics"]
  /\ UNCHANGED <<registered, providers, built>>

\* The end of the registration, with the list and the mark.
SetUpMetrics(r, ok) ==
  /\ SetUp(r, "metrics", ok)
  /\ reg' = [reg EXCEPT ![r] = "done"]
  /\ providers' = Stored(r, IF ok THEN {<<r, "metrics">>} ELSE {})
  /\ registered' = TRUE
  /\ built' = cfg[r]

\* shutdownTelemetry takes a copy of the list and starts every forceFlush.
Shutdown(d) ==
  /\ down[d] = "new"
  /\ snapshot' = [snapshot EXCEPT ![d] = providers]
  /\ pending' = [pending EXCEPT ![d] = providers]
  /\ down' = [down EXCEPT ![d] = IF providers = {} THEN "done" ELSE "flush"]
  /\ ended' = [ended EXCEPT ![d] = {r \in Registrations : reg[r] = "done"}]
  /\ UNCHANGED <<flushed, shut, configs, setups>>

\* A forceFlush or a shutdown of a provider settles.  With the last forceFlush
\* every shutdown starts.
Settle(d, p, ok) ==
  /\ p \in pending[d]
  /\ down' = [down EXCEPT ![d] = After(d, p, ok)]
  /\ pending' = [pending EXCEPT ![d] =
       IF down[d] = "flush" /\ down'[d] = "shutdown" THEN snapshot[d] ELSE @ \ {p}]
  /\ flushed' = IF down[d] = "flush" THEN flushed \cup {p} ELSE flushed
  /\ shut' = IF down[d] = "shutdown" THEN shut \cup {p} ELSE shut
  /\ UNCHANGED <<snapshot, ended, configs, setups>>

Next ==
  \/ \E c \in Config : SetupTelemetry(c) \/ Update(c) \/ Reconfigure(c)
  \/ \E r \in Registrations :
       \/ Register(r, config)
       \/ \E ok \in BOOLEAN : SetUpTraces(r, ok) \/ SetUpMetrics(r, ok)
  \/ \E d \in Shutdowns :
       \/ Shutdown(d)
       \/ \E p \in Provider, ok \in BOOLEAN : Settle(d, p, ok)

Spec == Init /\ [][Next]_vars

\* Imports and the promises of OpenTelemetry settle, either way.
FairSpec ==
  /\ Spec
  /\ \A r \in Registrations :
       WF_vars(\E ok \in BOOLEAN : SetUpTraces(r, ok) \/ SetUpMetrics(r, ok))
  /\ \A d \in Shutdowns, p \in Provider : WF_vars(\E ok \in BOOLEAN : Settle(d, p, ok))
-----------------------------------------------------------------------------
\* A shutdown that has ended has flushed and shut down every provider it found,
\* although some of them failed to.
ShutdownDrains ==
  \A d \in Shutdowns : down[d] = "done" => snapshot[d] \subseteq shut

\* The providers of a registration that ended before a shutdown began are shut
\* down by it, whichever of them could be built, if it is the only registration.
OnlyRegistrationDrained ==
  \A r \in Registrations : (\A q \in Registrations \ {r} : reg[q] = "new") =>
    \A d \in Shutdowns : down[d] = "done" /\ r \in ended[d] => own[r] \subseteq shut

\* The guard keeps the configuration that of the running providers, as long as
\* the application registers the runtime configuration, changes it only by
\* reconfigureTelemetry from then on, and not during the registration.
GuardKeepsProviders == registered /\ ~strayed => config = built /\ active = built

\* Every registration and every shutdown settles.
EveryCallSettles ==
  /\ \A r \in Registrations : reg[r] \in Signals ~> reg[r] = "done"
  /\ \A d \in Shutdowns : down[d] \in {"flush", "shutdown"} ~> down[d] = "done"
=============================================================================
