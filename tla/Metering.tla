------------------------------ MODULE Metering ------------------------------
(***************************************************************************)
(* Meters and metric instruments: metrics/provider.py, metrics/api.py,     *)
(* metrics/fallback.py and the instrument cache of slo.py.                 *)
(*                                                                         *)
(* OpenTelemetry keeps the first provider a process sets, for good.  An    *)
(* instrument counts locally whether or not there is one, and looks for a  *)
(* meter on each use until it has found one.  The look-up reads the        *)
(* module's state a piece at a time, mostly without its lock, while a      *)
(* setup installs a provider or a shutdown removes it.                     *)
(*                                                                         *)
(* A meter, and the OpenTelemetry instrument made from it, is named by the *)
(* provider it came from.  Sampling and backpressure come first in every   *)
(* use (module Emission); a use they refuse changes nothing and is left    *)
(* out.  setup_telemetry and shutdown_telemetry run under the lock of      *)
(* setup.py, so that the generation check of setup_metrics never fails     *)
(* here; module Lifecycle has it, with the rest of setup.                  *)
(***************************************************************************)
EXTENDS Integers, Sequences, FiniteSets

CONSTANTS
  Callers,    \* threads of the application
  MaxSetups,  \* bound: setups of a behaviour; setup n builds provider n
  MaxUses,    \* bound: factory calls and uses of instruments
  MaxInst,    \* bound: instruments made
  Levels,     \* the values a gauge is set to
  Proxy,      \* OpenTelemetry's placeholder provider
  External,   \* a provider the application installed itself
  Nil,        \* None
  Uncaptured  \* _baseline_captured is False

ASSUME BoundsAssumption == {MaxSetups, MaxUses, MaxInst} \cup Levels \subseteq Nat
ASSUME NamesAssumption ==
  /\ Proxy \notin Nat /\ External \notin Nat /\ Nil \notin Nat /\ Uncaptured \notin Nat
  /\ Proxy # External /\ Nil \notin {Proxy, External} /\ Uncaptured \notin {Proxy, External, Nil}
  /\ Nil \notin Callers
ASSUME CallersAssumption == IsFiniteSet(Callers)

VARIABLES
  packages,   \* the parts of OpenTelemetry that are installed
  global,     \* the provider OpenTelemetry holds
  provider,   \* _meter_provider
  everSet,    \* _meter_global_set
  baseline,   \* _baseline_meter_provider
  cached,     \* _meters["undef.telemetry"]
  meterLock,  \* _meter_lock is held by setup or shutdown
  admin,      \* what the holder of the lock of setup.py is at
  setups,     \* setups begun
  inst,       \* the instruments, in the order they were made
  slo,        \* _counters["http.requests.total"] of slo.py: an index of inst, or 0
  sloLock,    \* the thread that holds the lock of slo.py
  th,         \* the threads
  uses        \* calls made

adminVars == <<packages, global, provider, everSet, baseline, cached, meterLock, admin, setups>>
meterVars == <<adminVars, inst, slo, sloLock, th, uses>>

Ours      == 1..MaxSetups
Providers == Ours \cup {External}

\* counter stands for Counter and for Histogram, which report alike.
Kinds == {"counter", "gauge"}

\* raised: the lazy creation failed.  offered: the factory had a
\* meter.  missed: what uses without a provider counted.  The last two are history.

Instrument == [kind: Kinds, resolved: BOOLEAN, handle: Providers \cup {Proxy, Nil}, raised: BOOLEAN,
               offered: BOOLEAN, value: Int, reported: Int, missed: Int]

\* pc: the next step.  op: what the look-up of a meter is for.  by: the value
\* a gauge is set to, or Nil to add one.  at: the instrument used.  meter: found by the look-up.
\* sure (history): the call began with a provider installed, and there has
\* been no shutdown since.
Thread == [pc: {"idle", "use", "real", "cache", "fetch", "store", "write", "make", "bind", "export"},
           op: Kinds \cup {"slo", "use"}, by: {Nil} \cup Levels, at: Nat,
           meter: Providers \cup {Proxy, Nil}, sure: BOOLEAN]

Idle == [pc |-> "idle", op |-> "use", by |-> Nil, at |-> 0, meter |-> Nil, sure |-> FALSE]

\* What can be imported: nothing, the API, or also the SDK with its exporter,
\* which depends on the API.
Packages == {{}, {"api"}, {"api", "sdk"}}

MeterTypeOK ==
  /\ packages \in Packages
  /\ global \in Providers \cup {Proxy} /\ provider \in Ours \cup {Nil}
  /\ everSet \in BOOLEAN /\ baseline \in Providers \cup {Proxy, Uncaptured}
  /\ cached \in Providers \cup {Proxy, Nil} /\ meterLock \in BOOLEAN
  /\ admin \in {"down", "build", "install", "publish", "rebind", "up", "closing"}
  /\ setups \in 0..MaxSetups /\ uses \in 0..MaxUses
  /\ inst \in Seq(Instrument) /\ Len(inst) <= MaxInst /\ slo \in 0..Len(inst)
  /\ sloLock \in Callers \cup {Nil} /\ th \in [Callers -> Thread]
  /\ meterLock <=> admin \in {"publish", "closing"}
  /\ \A t \in Callers : sloLock = t <=> th[t].op = "slo"
  /\ \A i \in DOMAIN inst : inst[i].handle # Nil => inst[i].resolved
-----------------------------------------------------------------------------
\* Operators named Mut... are mutations of the operator they precede; nothing
\* in the model uses them.

MeterInit ==
  /\ packages \in Packages
  /\ global = Proxy /\ provider = Nil /\ everSet = FALSE /\ baseline = Uncaptured
  /\ cached = Nil /\ meterLock = FALSE /\ admin = "down" /\ setups = 0
  /\ inst = <<>> /\ slo = 0 /\ sloLock = Nil
  /\ th = [t \in Callers |-> Idle] /\ uses = 0

\* set_meter_provider: the first one stays.
SetGlobal(p) == IF global = Proxy THEN p ELSE global

\* _HAS_OTEL_METRICS, and what the loaders find.
HasOtel == "api" \in packages
Loads(part) == HasOtel /\ part \in packages

\* _has_real_meter_provider, once it has read that _meter_provider is None.
MutReal == TRUE
Real ==
  /\ Loads("api") /\ ~everSet
  /\ IF baseline = Uncaptured THEN global # Proxy ELSE global # baseline

\* What a use is worth to the local value.
Amount(i, by) == IF by = Nil THEN 1 ELSE by - inst[i].value

\* What it adds to the OpenTelemetry instrument.  The exemplar of an active
\* trace is either accepted, or refused with a TypeError and left out.
MutReports(i, by) == IF by = Nil THEN 1 ELSE by
Reports(i, by) == Amount(i, by)

\* A new instrument; creating it from the meter may have raised.
New(k, meter, raised) ==
  LET h == IF raised THEN Nil ELSE meter
  IN [kind |-> k, resolved |-> h # Nil, handle |-> h, raised |-> FALSE,
      offered |-> meter # Nil, value |-> 0, reported |-> 0, missed |-> 0]

\* What creating the OpenTelemetry instrument leaves, for good.
Settled(x, meter, raised) ==
  [x EXCEPT !.resolved = TRUE, !.handle = IF raised THEN Nil ELSE meter, !.raised = raised]

\* _resolve_otel, under _RESOLVE_LOCK: another thread may have been first.
MutUnmarked(x, meter, raised) ==
  IF x.resolved THEN x ELSE [Settled(x, meter, raised) EXCEPT !.resolved = FALSE]
Bound(x, meter, raised) == IF x.resolved THEN x ELSE Settled(x, meter, raised)

\* _resolve_otel when there is no meter.
MutUnbound(x) == [x EXCEPT !.resolved = TRUE]
Unbound(x) == x

\* The SLO instruments after a setup.
Rebound == 0
-----------------------------------------------------------------------------
\* setup_telemetry up to the first locked section of setup_metrics.
BeginSetup(enabled) ==
  /\ admin = "down" /\ setups < MaxSetups
  /\ setups' = setups + 1
  /\ admin' = IF enabled /\ HasOtel /\ provider = Nil THEN "build" ELSE "rebind"
  /\ baseline' = IF admin' = "build" /\ baseline = Uncaptured THEN global ELSE baseline
  /\ UNCHANGED <<packages, global, provider, everSet, cached, meterLock, inst, slo, sloLock, th, uses>>

\* The provider is built outside the lock, or building it raises; without the
\* SDK there is none.
Build ==
  /\ admin = "build"
  /\ admin' \in IF Loads("sdk") THEN {"install", "down"} ELSE {"rebind"}
  /\ UNCHANGED <<packages, global, provider, everSet, baseline, cached, meterLock, setups, inst, slo, sloLock, th, uses>>

\* The second locked section; readers without the lock see it half done.
Install ==
  /\ admin = "install"
  /\ admin' = "publish" /\ meterLock' = TRUE
  /\ global' = SetGlobal(setups)
  /\ UNCHANGED <<packages, provider, everSet, baseline, cached, setups, inst, slo, sloLock, th, uses>>

Publish ==
  /\ admin = "publish"
  /\ provider' = setups /\ everSet' = TRUE /\ cached' = global
  /\ admin' = "rebind" /\ meterLock' = FALSE
  /\ UNCHANGED <<packages, global, baseline, setups, inst, slo, sloLock, th, uses>>

\* _rebind_slo_instruments
Rebind ==
  /\ admin = "rebind" /\ sloLock = Nil
  /\ slo' = Rebound
  /\ admin' = "up"
  /\ UNCHANGED <<packages, global, provider, everSet, baseline, cached, meterLock, setups, inst, sloLock, th, uses>>

\* shutdown_metrics: the provider is shut down first, then forgotten.
BeginShutdown ==
  /\ admin = "up"
  /\ IF provider = Nil THEN admin' = "down" /\ UNCHANGED <<meterLock, th>>
     ELSE /\ admin' = "closing" /\ meterLock' = TRUE
          /\ th' = [t \in Callers |-> [th[t] EXCEPT !.sure = FALSE]]
  /\ UNCHANGED <<packages, global, provider, everSet, baseline, cached, setups, inst, slo, sloLock, uses>>

EndShutdown ==
  /\ admin = "closing"
  /\ provider' = Nil /\ cached' = Nil
  /\ admin' = "down" /\ meterLock' = FALSE
  /\ UNCHANGED <<packages, global, everSet, baseline, setups, inst, slo, sloLock, th, uses>>

\* The application installs a provider of its own.
InstallExternal ==
  /\ HasOtel /\ global = Proxy
  /\ global' = External
  /\ UNCHANGED <<packages, provider, everSet, baseline, cached, meterLock, admin, setups, inst, slo, sloLock, th, uses>>
-----------------------------------------------------------------------------
\* get_meter reads _meter_provider.
Looked == IF provider # Nil THEN "cache" ELSE "real"

\* A factory of metrics/api.py; op "slo" is _lazy_counter, under the lock of slo.py.
Create(t, k) ==
  /\ th[t].pc = "idle" /\ uses < MaxUses
  /\ Len(inst) + Cardinality({u \in Callers : th[u].op # "use"}) < MaxInst
  /\ k = "slo" => slo = 0 /\ sloLock = Nil
  /\ sloLock' = IF k = "slo" THEN t ELSE sloLock
  /\ th' = [th EXCEPT ![t] = [Idle EXCEPT !.pc = Looked, !.op = k]]
  /\ uses' = uses + 1
  /\ UNCHANGED <<adminVars, inst, slo>>

\* A use counts locally and reads _resolved; a gauge counts when it reports.
Begin(t, i, by) ==
  LET x == inst[i]
  IN /\ inst' = IF x.kind = "counter" THEN [inst EXCEPT ![i].value = @ + Amount(i, by)] ELSE inst
     /\ th' = [th EXCEPT ![t] =
          [pc |-> IF x.resolved THEN "export" ELSE Looked, op |-> "use", by |-> by, at |-> i,
           meter |-> IF x.resolved THEN x.handle ELSE Nil, sure |-> provider # Nil /\ ~meterLock]]
     /\ UNCHANGED <<adminVars, slo, sloLock>>

\* Counter.add, Histogram.record, Gauge.add, Gauge.set and the recorders of slo.py
\* that find their instrument cached.
Use(t, i, by) ==
  /\ th[t].pc = "idle" /\ uses < MaxUses
  /\ inst[i].kind = "counter" => by = Nil
  /\ Begin(t, i, by)
  /\ uses' = uses + 1

\* The add of a record_red_metrics that had to make its counter.
UseMade(t) ==
  /\ th[t].pc = "use"
  /\ Begin(t, th[t].at, Nil)
  /\ UNCHANGED uses

To(t, pc, meter) == th' = [th EXCEPT ![t] = [@ EXCEPT !.pc = pc, !.meter = meter]]

\* Where get_meter returns a meter to.
Answered(t) == IF th[t].op = "use" THEN "bind" ELSE "make"

\* The rest of _has_real_meter_provider.
Judge(t) ==
  /\ th[t].pc = "real"
  /\ To(t, IF Real THEN "cache" ELSE Answered(t), Nil)
  /\ UNCHANGED <<adminVars, inst, slo, sloLock, uses>>

\* The cache is read under the lock, when there is a provider.
Lookup(t) ==
  /\ th[t].pc = "cache"
  /\ provider # Nil => ~meterLock
  /\ IF provider # Nil /\ cached # Nil THEN To(t, Answered(t), cached) ELSE To(t, "fetch", Nil)
  /\ UNCHANGED <<adminVars, inst, slo, sloLock, uses>>

\* get_meter of OpenTelemetry, without the lock.
Fetch(t) ==
  /\ th[t].pc = "fetch"
  /\ To(t, "store", global)
  /\ UNCHANGED <<adminVars, inst, slo, sloLock, uses>>

Store(t) ==
  /\ th[t].pc = "store"
  /\ To(t, IF provider # Nil THEN "write" ELSE Answered(t), th[t].meter)
  /\ UNCHANGED <<adminVars, inst, slo, sloLock, uses>>

\* The meter enters the cache, perhaps after the shutdown that emptied it.
Write(t) ==
  /\ th[t].pc = "write" /\ ~meterLock
  /\ cached' = th[t].meter
  /\ To(t, Answered(t), th[t].meter)
  /\ UNCHANGED <<packages, global, provider, everSet, baseline, meterLock, admin, setups, inst, slo, sloLock, uses>>

\* The factory returns; slo.py keeps its counter, frees its lock and uses it.
Make(t, raised) ==
  LET k == th[t].op
  IN /\ th[t].pc = "make"
     /\ raised => th[t].meter # Nil
     /\ inst' = Append(inst, New(IF k = "slo" THEN "counter" ELSE k, th[t].meter, raised))
     /\ slo' = IF k = "slo" THEN Len(inst') ELSE slo
     /\ sloLock' = IF k = "slo" THEN Nil ELSE sloLock
     /\ th' = [th EXCEPT ![t] = IF k = "slo" THEN [Idle EXCEPT !.pc = "use", !.at = Len(inst')] ELSE Idle]
     /\ UNCHANGED <<adminVars, uses>>

\* The rest of _resolve_otel.
Bind(t, raised) ==
  LET i == th[t].at
      x == inst[i]
      y == IF th[t].meter = Nil THEN Unbound(x) ELSE Bound(x, th[t].meter, raised)
  IN /\ th[t].pc = "bind"
     /\ raised => th[t].meter # Nil /\ ~x.resolved
     /\ inst' = [inst EXCEPT ![i] = y]
     /\ To(t, "export", IF th[t].meter = Nil THEN Nil ELSE y.handle)
     /\ UNCHANGED <<adminVars, slo, sloLock, uses>>

\* The OpenTelemetry instrument is told, if the use has one.
Export(t) ==
  LET i    == th[t].at
      by   == th[t].by
      told == th[t].meter # Nil
  IN /\ th[t].pc = "export"
     /\ inst' = [inst EXCEPT
          ![i].value    = IF inst[i].kind = "gauge" THEN @ + Amount(i, by) ELSE @,
          ![i].reported = IF told THEN @ + Reports(i, by) ELSE @,
          ![i].missed   = IF told THEN @ ELSE @ + Amount(i, by)]
     /\ th' = [th EXCEPT ![t] = Idle]
     /\ UNCHANGED <<adminVars, slo, sloLock, uses>>

Step(t) ==
  \/ UseMade(t) \/ Judge(t) \/ Lookup(t) \/ Fetch(t) \/ Store(t) \/ Write(t)
  \/ \E raised \in BOOLEAN : Make(t, raised) \/ Bind(t, raised)
  \/ Export(t)

MeterNext ==
  \/ \E e \in BOOLEAN : BeginSetup(e)
  \/ Build \/ Install \/ Publish \/ Rebind
  \/ BeginShutdown \/ EndShutdown
  \/ InstallExternal
  \/ \E t \in Callers :
       \/ \E k \in Kinds \cup {"slo"} : Create(t, k)
       \/ \E i \in DOMAIN inst, by \in {Nil} \cup Levels : Use(t, i, by)
       \/ Step(t)

MeterSpec == MeterInit /\ [][MeterNext]_meterVars
-----------------------------------------------------------------------------
\* Nothing comes from the placeholder: a meter in the cache, in a call or in an
\* instrument is one of the provider OpenTelemetry holds for good.
NothingFromProxy ==
  \A m \in {cached} \cup {th[t].meter : t \in Callers} \cup {inst[i].handle : i \in DOMAIN inst} :
    m # Nil => m = global /\ m # Proxy

\* The uses of i that have counted and not yet reported.
Pending(i) == {t \in Callers : th[t].op = "use" /\ th[t].at = i /\ th[t].pc \notin {"idle", "use"}}

\* What OpenTelemetry was told adds up to the local value, but for the uses that
\* found no provider: no use is reported twice, none is lost, and concurrent
\* sets of a gauge report differences that fit together.
ReportsAddUp ==
  \A i \in DOMAIN inst :
    inst[i].value = inst[i].reported + inst[i].missed
                    + (IF inst[i].kind = "counter" THEN Cardinality(Pending(i)) ELSE 0)

\* An instrument made before the setup, and used before it, still finds the
\* provider: a use that began with the provider installed reports, unless
\* OpenTelemetry refused the instrument or a shutdown came in between.
LateBinding ==
  \A t \in Callers : th[t].pc = "export" /\ th[t].sure =>
    th[t].meter # Nil \/ inst[th[t].at].raised

\* After a setup that installed a provider slo.py holds no counter made before:
\* the one it holds has been offered a meter (OpenTelemetry may have refused).
SloRebound == admin = "up" /\ provider # Nil /\ slo # 0 => inst[slo].offered

\* Nothing made before a setup stays without the provider that it installs.
BoundAfterSetup == LateBinding /\ SloRebound
=============================================================================
