----------------------------- MODULE LogPipeline -----------------------------
(***************************************************************************)
(* A log call from the logger to the output, or to where it is lost: the   *)
(* level of the bound logger, the processors of configure_logging          *)
(* (logger/core.py, logger/processors.py, schema/events.py, sampling.py),  *)
(* then the level of the root logger of the standard library, while the    *)
(* environment, the configuration and the sampling policy change           *)
(* (setup.py, runtime.py).  A call runs in one thread through one chain of *)
(* processors and reads each of the shared policies once, so it is one     *)
(* action.  What sanitize_payload does to nested values is in Pii, when    *)
(* setups and shutdowns overlap or fail is in Lifecycle; here no           *)
(* OpenTelemetry provider is installed.                                    *)
(***************************************************************************)
EXTENDS Settings, Sequences, SequencesExt, FiniteSetsExt

CONSTANTS
  Envs,       \* environments the process may be given
  Events,     \* calls: level, event name, its other keys in order, and the values of
              \* the keys logger_name and logger
  Names,      \* event names
  Valid,      \* the names of three to five lower-case segments
  None        \* no configuration, no logger, no call

ASSUME EnvsAssumption   == Envs \subseteq Env /\ Modules \subseteq Seq(STRING)
ASSUME NamesAssumption  == Valid \subseteq Names /\ "" \notin Valid
ASSUME EventsAssumption ==
  Events \subseteq [level: Levels, name: Names, keys: Seq(STRING),
                    logger_name: Seq(STRING), logger: Seq(STRING)]
ASSUME NoneAssumption   == None \notin Config

VARIABLES
  env,        \* os.environ
  done,       \* _setup_done
  configured, \* _configured
  chain,      \* the configuration structlog's processors were built from, and the
              \* root logger has its level from
  lazy,       \* threads have found logging not configured and are about to do it
  runtime,    \* _active_config of runtime.py
  sampling,   \* the policy of logs: its rate, and those of names
  bound,      \* a logger the application got from bind(): its processors
  drifted,    \* history: since the setup an update changed the cold part, or a
              \* thread that had found logging not configured did
  last        \* history: the last call, its processors, the level of the root
              \* logger and the outcome

policy  == <<env, runtime, sampling, bound>>
logVars == <<policy, done, configured, chain, lazy, drifted, last>>

Configs  == {FromEnv(e) : e \in Envs} \ {Refused}
Policies == [rate: 0..Always, of: UNION {[N -> 0..Always] : N \in SUBSET Names}]

LogTypeOK ==
  /\ env \in Envs
  /\ done \in BOOLEAN /\ configured \in BOOLEAN /\ lazy \in BOOLEAN /\ drifted \in BOOLEAN
  /\ chain \in Config \cup {None}
  /\ runtime \in Config \cup {None}
  /\ bound \in Config \cup {None} /\ (chain = None => bound = None)
  /\ sampling \in Policies
  /\ \/ last = None
     \/ /\ last.event \in Events /\ last.chain \in Config /\ last.root \in Levels
        /\ last.out \in {"emitted", "filtered", "sampled out", "invalid"}
-----------------------------------------------------------------------------
\* Operators named Mut... are mutations of the operator they precede; nothing
\* in the model uses them.

\* configure_logging: the level of the bound logger, so low that the events
\* of every override reach the level filter.
Effective(c) == Min({c.level} \cup {c.modules[m] : m \in DOMAIN c.modules})

\* _make_filtering_bound_logger, where trace() is a debug() if it does anything.
Called(c, l) == l >= Effective(c)
AsDebug(l) == IF l = Trace THEN Debug ELSE l

\* The keys of the event dict, in its order: those of the call, the event, the
\* context, the level.
Merged(e, context) ==
  e.keys \o (IF e.level = Trace THEN <<"_trace">> ELSE <<>>) \o <<"event">>
         \o SelectSeq(context, LAMBDA k : ~Contains(e.keys, k)) \o <<"level">>

\* harden_input drops the excess, whatever it is.
Hardened(c, keys) ==
  IF c.count > 0 /\ Len(keys) > c.count THEN SubSeq(keys, 1, c.count) ELSE keys

\* classify_error gives all three, whatever the status.
Taxonomy == {"error_type", "error_code", "error_name"}

\* add_standard_fields
Standard(c, keys) ==
  keys \cup {"service", "env", "version"}
       \cup (IF c.taxonomy /\ "exc_name" \in keys /\ "error_type" \notin keys
             THEN Taxonomy ELSE {})

\* add_error_fingerprint; a key for an exception comes with one.
Fingerprinted(keys) ==
  IF keys \cap {"exc_info", "exc_name", "exception"} = {} THEN keys
  ELSE keys \cup {"error_fingerprint"}

\* The keys that the policies see.
Completed(c, e, context) ==
  Fingerprinted(Standard(c, ToSet(Hardened(c, Merged(e, context)))))

Name(e, keys) == IF "event" \in keys THEN e.name ELSE ""

\* should_sample: what may become of an event of this name.
Kept(name) ==
  LET r == IF name \in DOMAIN sampling.of THEN sampling.of[name] ELSE sampling.rate
  IN  CASE r = 0 -> {FALSE} [] r = Always -> {TRUE} [] OTHER -> BOOLEAN

\* enforce_event_schema: strict_schema makes names strict; keys are always
\* required.
StrictNames(c) == c.strict \/ c.names
NamePasses(c, name) == StrictNames(c) => name \in Valid
Conforms(c, name, keys) == NamePasses(c, name) /\ c.required \subseteq keys

\* _LevelFilter knows the logger only by a key of the event: the override of
\* the longest prefix of that name, or the level of the logging.
LoggerName(e, keys) ==
  CASE "logger_name" \in keys -> e.logger_name
    [] "logger_name" \notin keys /\ "logger" \in keys -> e.logger
    [] OTHER -> <<>>
OverridesOf(c, name) == {m \in DOMAIN c.modules : IsPrefix(m, name)}
MutThreshold(c, name) ==
  IF OverridesOf(c, name) = {} THEN c.level
  ELSE c.modules[CHOOSE m \in OverridesOf(c, name) :
                   \A n \in OverridesOf(c, name) : Len(m) <= Len(n)]
Threshold(c, name) ==
  IF OverridesOf(c, name) = {} THEN c.level
  ELSE c.modules[CHOOSE m \in OverridesOf(c, name) :
                   \A n \in OverridesOf(c, name) : Len(m) >= Len(n)]
EventLevel(e) == AsDebug(e.level)
Drops(c, e, keys) ==
  DOMAIN c.modules # {} /\ EventLevel(e) < Threshold(c, LoggerName(e, keys))

\* What becomes of an event, when sampling answers keep.  What the processors
\* let through goes to a logger of the standard library.
Outcome(c, root, e, keys, keep) ==
  CASE ~Called(c, e.level)                 -> "filtered"
    [] ~keep                               -> "sampled out"
    [] ~Conforms(c, Name(e, keys), keys)   -> "invalid"
    [] Drops(c, e, keys)                   -> "filtered"
    [] EventLevel(e) < root                -> "filtered"
    [] OTHER                               -> "emitted"

\* _is_strict_event_name
StrictEventName == runtime # None /\ (runtime.strict \/ runtime.names)

\* event_name builds the name from its segments, and does not raise.
event_name(name) == StrictEventName => name \in Valid

\* A policy without overrides.
Uniform(rate) == [rate |-> rate, of |-> [n \in {} |-> Always]]
KeepAll == Uniform(Always)

LogInit ==
  /\ env \in Envs
  /\ done = FALSE /\ configured = FALSE /\ lazy = FALSE /\ drifted = FALSE
  /\ chain = None /\ runtime = None /\ bound = None /\ last = None
  /\ sampling = KeepAll
-----------------------------------------------------------------------------
\* Calls are looked at one by one.
Quiet == last = None /\ last' = None

ChangeEnv(e) ==
  /\ env' = e
  /\ UNCHANGED <<done, configured, chain, lazy, runtime, sampling, bound, drifted>>
  /\ Quiet

\* apply_runtime_config: the snapshot, and a policy without overrides.
Apply(c) ==
  /\ runtime'  = c
  /\ sampling' = Uniform(c.rate)

\* configure_logging
Configure(c) == configured' = TRUE /\ chain' = c

\* setup_telemetry, with a configuration or the environment's.
Setup(c) ==
  /\ ~done /\ c # Refused
  /\ done' = TRUE /\ drifted' = FALSE
  /\ Apply(c) /\ Configure(c)
  /\ UNCHANGED <<env, lazy, bound>>
  /\ Quiet

\* shutdown_telemetry: structlog keeps its processors, sampling its policy.
Shutdown ==
  /\ done' = FALSE /\ configured' = FALSE
  /\ runtime' = None
  /\ UNCHANGED <<env, chain, lazy, sampling, bound, drifted>>
  /\ Quiet

Active == IF runtime = None THEN FromEnv(env) ELSE runtime

\* update_runtime_config and reload_runtime_from_env.
Update(c) ==
  /\ c # Refused
  /\ Apply(c)
  /\ drifted' = (drifted \/ (done /\ Cold(c) # Cold(chain)))
  /\ UNCHANGED <<env, done, configured, chain, lazy, bound>>
  /\ Quiet

\* reconfigure_telemetry: a shutdown and a setup where the cold part changes,
\* else an update.
Reconfigure(c) ==
  /\ c # Refused /\ Active # Refused
  /\ Apply(c)
  /\ IF Cold(c) # Cold(Active)
     THEN Configure(c) /\ done' = TRUE /\ drifted' = FALSE
     ELSE UNCHANGED <<configured, chain, done, drifted>>
  /\ UNCHANGED <<env, lazy, bound>>
  /\ Quiet

SetSampling(p) ==
  /\ sampling' = p
  /\ UNCHANGED <<env, done, configured, chain, lazy, runtime, bound, drifted>>
  /\ Quiet

\* get_logger, or a call of the module's logger: it finds logging not configured,
FindUnconfigured ==
  /\ ~configured /\ ~lazy
  /\ lazy' = TRUE
  /\ UNCHANGED <<policy, done, configured, chain, drifted>>
  /\ Quiet

\* and configures it from the environment, whoever has configured it meanwhile,
\* unless from_env raises.  Other threads may still be about to.
LazyConfigure ==
  /\ lazy /\ lazy' \in BOOLEAN
  /\ IF FromEnv(env) = Refused THEN UNCHANGED <<configured, chain, drifted>>
     ELSE /\ Configure(FromEnv(env))
          /\ drifted' = (drifted \/ (done /\ Cold(FromEnv(env)) # Cold(chain)))
  /\ UNCHANGED <<policy, done>>
  /\ Quiet

\* bind() makes a logger that keeps the processors of the moment.
Bind ==
  /\ chain # None
  /\ bound' = chain
  /\ UNCHANGED <<env, done, configured, chain, lazy, runtime, sampling, drifted>>
  /\ Quiet

\* A call of a logger whose processors are c.
Log(c, e, context) ==
  LET keys == Completed(c, e, context) IN
  /\ last = None /\ c # None
  /\ \E keep \in Kept(Name(e, keys)) :
       last' = [event |-> e, chain |-> c, root |-> chain.level, keys |-> keys,
                out |-> Outcome(c, chain.level, e, keys, keep)]
  /\ UNCHANGED <<policy, done, configured, chain, lazy, drifted>>

Forget ==
  /\ last # None /\ last' = None
  /\ UNCHANGED <<policy, done, configured, chain, lazy, drifted>>

LogNext ==
  \/ \E e \in Envs : ChangeEnv(e)
  \/ \E c \in Configs \cup {FromEnv(env)} : Setup(c) \/ Update(c) \/ Reconfigure(c)
  \/ \E r \in 0..Always : SetSampling([rate |-> r, of |-> [n \in Valid |-> Always - r]])
  \/ \E c \in {chain, bound}, e \in Events, x \in {<<>>, <<"request">>} : Log(c, e, x)
  \/ Shutdown \/ FindUnconfigured \/ LazyConfigure \/ Bind \/ Forget

LogSpec == LogInit /\ [][LogNext]_logVars
-----------------------------------------------------------------------------
\* What is emitted is named as a strict configuration wants, and has the
\* required keys, although keys were dropped before the check.
EmittedConforms ==
  last # None /\ last.out = "emitted" =>
    /\ last.chain.strict \/ last.chain.names =>
         last.event.name \in Valid /\ "event" \in last.keys
    /\ last.chain.required \subseteq last.keys

\* The override of module M that holds for a logger's name: the longest.
Overrides(c, name, l) ==
  \/ \E m \in DOMAIN c.modules :
       /\ IsPrefix(m, name) /\ c.modules[m] = l
       /\ \A n \in DOMAIN c.modules : IsPrefix(n, name) => IsPrefix(n, m)
  \/ l = c.level /\ \A n \in DOMAIN c.modules : ~IsPrefix(n, name)

\* Two levels decide: that of the longest override of the logger's name, as far
\* as the event carries that name, by the processors it went by; and the
\* default level of the latest configuration, which the root logger has.  No
\* event below either is emitted, and none above both is filtered.
ThresholdsHeld ==
  last # None =>
    \A l \in Levels : Overrides(last.chain, LoggerName(last.event, last.keys), l) =>
      /\ last.out = "emitted"  => AsDebug(last.event.level) >= l
                                 /\ AsDebug(last.event.level) >= last.root
      /\ last.out = "filtered" => last.event.level < l
                                 \/ AsDebug(last.event.level) < last.root

\* What became of a log call is what the configuration it went by says.
OutcomeAsConfigured == EmittedConforms /\ ThresholdsHeld

\* Between a setup and the next, event_name builds the names that the processors
\* let through, unless an update changed what only a restart may change, or a
\* get_logger that had found logging not configured replaced the processors.
NamesAgree ==
  done /\ ~drifted => \A n \in Names : event_name(n) <=> NamePasses(chain, n)

\* UNDEF_LOG_MODULE_LEVELS: the level of a module holds for the loggers that
\* get_logger gives it (CONFIGURATION.md).  It does not: nothing puts the name
\* of the logger in the event, and the root logger has the default level.
ModuleLevels ==
  last # None =>
    \A l \in Levels : Overrides(last.chain, last.event.logger, l) =>
      /\ last.out = "emitted"  => AsDebug(last.event.level) >= l
      /\ last.out = "filtered" => AsDebug(last.event.level) < l
=============================================================================
