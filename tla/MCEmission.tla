----------------------------- MODULE MCEmission -----------------------------
(***************************************************************************)
(* Instances of Emission for TLC.                                          *)
(***************************************************************************)
EXTENDS Emission

Policy(n) == [s \in Signals |-> IF s = "logs" THEN 0 ELSE n]

\* The default (unbounded), and bounds that shrink and grow.
UpToTwo == {Policy(0), Policy(1), Policy(2)}
=============================================================================
