---------------------------- MODULE MCTsProviders ----------------------------
(***************************************************************************)
(* Instances of TsProviders for TLC.                                       *)
(***************************************************************************)
EXTENDS TsProviders

\* OpenTelemetry is off until something turns it on: the environment does.
Off == [otelEnabled |-> FALSE, otlp |-> "a"]
On  == [otelEnabled |-> TRUE, otlp |-> "b"]
=============================================================================
