------------------------------ MODULE MCContext ------------------------------
(***************************************************************************)
(* An instance of Context for TLC.                                         *)
(***************************************************************************)
EXTENDS Context
=============================================================================
