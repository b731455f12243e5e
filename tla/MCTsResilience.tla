--------------------------- MODULE MCTsResilience ---------------------------
(***************************************************************************)
(* Instances of TsResilience for TLC.                                      *)
(***************************************************************************)
EXTENDS TsResilience

Retrying(n, t, b) == [retries |-> n, timed |-> t, backoff |-> b]

\* Retried after a sleep with a timeout, at once without one.
Mixed == {Retrying(1, TRUE, TRUE), Retrying(1, FALSE, FALSE)}
=============================================================================
