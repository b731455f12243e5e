---------------------------- MODULE MCLogPipeline ----------------------------
(***************************************************************************)
(* An instance of LogPipeline for TLC.                                     *)
(***************************************************************************)
EXTENDS LogPipeline, TLC

U == <<"undef">>
S == <<"undef", ".server">>

Plain == [service |-> Absent, level |-> Absent, modules |-> <<>>, strict |-> Absent,
          names |-> Absent, taxonomy |-> Absent, required |-> {}, rate |-> Absent, count |-> Absent]

TestModules == {U, S}

\* Overrides in both directions, strictness by either variable, few
\* attributes, a rate, and texts the parsers refuse or read as false.
TestEnvs ==
  {Plain,
   [Plain EXCEPT !.level = Debug, !.modules = (U :> Trace) @@ (S :> Warning),
                 !.taxonomy = "other", !.required = {"tenant"}],
   [Plain EXCEPT !.strict = "true", !.modules = (U :> Debug), !.rate = 1],
   [Plain EXCEPT !.names = "true", !.strict = "other", !.required = {"error_type"},
                 !.count = 3, !.service = "other"],
   [Plain EXCEPT !.count = -1]}

Call(l, n, x, k) == [level |-> l, logger |-> n, name |-> x, keys |-> k,
                     logger_name |-> <<"undef", "ined">>]
TestEvents ==
  {Call(l, S, "a.valid.name", k) : l \in Levels,
     k \in {<<"tenant">>, <<"tenant", "logger", "user">>, <<"logger", "tenant", "logger_name">>}}
  \cup {Call(Warning, S, "a.valid.name", <<"exc_name">>)}
  \cup {Call(Warning, S, "other", k) : k \in {<<"tenant">>, <<>>}}
=============================================================================
