---------------------------- MODULE MCCardinality ----------------------------
(***************************************************************************)
(* Instances of Cardinality for TLC.                                       *)
(***************************************************************************)
EXTENDS Cardinality, TLC

Request(m, s) == [max |-> m, ttl |-> s]

\* A limit that clamps to one value for a second, one of one value, one of two.
Moving == {Request(0, 0), Request(1, 3), Request(2, 2)}

Symmetric == Permutations(Threads) \cup Permutations(Values)
=============================================================================
