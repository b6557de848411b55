------------------------------- MODULE MC_Chain -------------------------------
(***************************************************************************)
(* Model-checking instance of Chain.                                       *)
(***************************************************************************)
EXTENDS Chain
=============================================================================
