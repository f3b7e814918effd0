---------------------------- MODULE MCEvaluation ----------------------------
(***************************************************************************)
(* Finite instances of Evaluation for TLC.                                 *)
(***************************************************************************)
EXTENDS Evaluation
=============================================================================
