---------------------------- MODULE MCTsContext ----------------------------
(***************************************************************************)
(* Instances of TsContext for TLC.                                         *)
(***************************************************************************)
EXTENDS TsContext, TLC

Symmetry == Permutations(Fields) \cup Permutations(Tasks \ {Root})
=============================================================================
