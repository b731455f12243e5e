------------------------------- MODULE Settings ------------------------------
(***************************************************************************)
(* TelemetryConfig.from_env (config.py), for the settings the log pipeline *)
(* reads.  A variable is Absent, or has a text that is told apart only as  *)
(* far as its parser does: Junk is one it does not understand.  The other  *)
(* variables go through the same parsers, one of each kind being here.     *)
(***************************************************************************)
EXTENDS Integers

CONSTANTS
  Absent,     \* a variable that is not set
  Junk,       \* a text a parser does not understand
  Refused,    \* ConfigurationError
  Modules,    \* module names of overrides, sequences of chunks of text
  Keys        \* keys that may be required

\* Log levels by their number; ERROR and CRITICAL are like WARNING.
Trace   == 5
Debug   == 10
Info    == 20
Warning == 30
Levels  == {Trace, Debug, Info, Warning}

\* A rate is counted in halves.
Always == 2

\* The texts of the environment: a flag is set to a word for true or to any other.
Env == [service:  {Absent, "name", "other"},
        level:    {Absent, Junk} \cup Levels,
        modules:  UNION {[M -> {Junk} \cup Levels] : M \in SUBSET Modules},
        strict:   {Absent, "true", "other"},
        names:    {Absent, "true", "other"},
        taxonomy: {Absent, "true", "other"},
        required: SUBSET Keys,
        rate:     {Absent, Junk} \cup -1..3,
        count:    {Absent, Junk} \cup -1..8]

Config == [service:  {"undef-service", "name", "other"},
           level:    Levels,
           modules:  UNION {[M -> Levels] : M \in SUBSET Modules},
           strict:   BOOLEAN,
           names:    BOOLEAN,
           taxonomy: BOOLEAN,
           required: SUBSET Keys,
           rate:     0..Always,
           count:    0..64]
-----------------------------------------------------------------------------
\* _parse_bool: a text that is not a word for true is false.
Flag(text, default) == IF text = Absent THEN default ELSE text = "true"

Or(text, default) == IF text = Absent THEN default ELSE text

\* _normalize_level, also of each override.
BadLevel(text) == text \notin Levels

\* _parse_env_float and _parse_env_int
NotANumber(text) == text = Junk

\* _validate_rate and _validate_non_negative, after the parse.
BadRate(text)  == NotANumber(text) \/ text \notin 0..Always
BadCount(text) == NotANumber(text) \/ text < 0

FromEnv(env) ==
  IF \/ BadLevel(Or(env.level, Info))
     \/ \E m \in DOMAIN env.modules : BadLevel(env.modules[m])
     \/ BadRate(Or(env.rate, Always))
     \/ BadCount(Or(env.count, 64))
  THEN Refused
  ELSE [service  |-> Or(env.service, "undef-service"),
        level    |-> Or(env.level, Info),
        modules  |-> env.modules,
        strict   |-> Flag(env.strict, FALSE),
        names    |-> Flag(env.names, FALSE),
        taxonomy |-> Flag(env.taxonomy, TRUE),
        required |-> env.required,
        rate     |-> Or(env.rate, Always),
        count    |-> Or(env.count, 64)]

\* What _provider_config_changed compares: the cold part of a configuration,
\* neither the policies nor logging and security.
MutCold(c) == <<c.service, c.names, c.taxonomy, c.required>>
Cold(c) == <<c.service, c.strict, c.names, c.taxonomy, c.required>>
=============================================================================
