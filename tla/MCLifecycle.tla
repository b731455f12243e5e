---------------------------- MODULE MCLifecycle ----------------------------
(***************************************************************************)
(* Instances of Lifecycle for TLC.                                         *)
(***************************************************************************)
EXTENDS Lifecycle

Full == [service |-> "a", traces |-> TRUE, metrics |-> TRUE, logs |-> TRUE]
\* Another service name, and no metrics: the two cannot be mixed unnoticed.
Traced == [service |-> "b", traces |-> TRUE, metrics |-> FALSE, logs |-> FALSE]

FullAndTraced == {Full, Traced}
=============================================================================
