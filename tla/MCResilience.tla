---------------------------- MODULE MCResilience ----------------------------
(***************************************************************************)
(* Instances of Resilience for TLC.                                        *)
(***************************************************************************)
EXTENDS Resilience

\* A policy that retries once.
Retried == [retries |-> 1, backoff |-> TRUE, timed |-> TRUE, blocking |-> FALSE]
\* timeout_seconds = 0: the operation runs in the caller.
Untimed == [retries |-> 0, backoff |-> FALSE, timed |-> FALSE, blocking |-> FALSE]

RetriedOrInline == {Retried, Untimed}
=============================================================================
