------------------------------ MODULE MCRadio -------------------------------
(***************************************************************************)
(* Finite instances of Radio for TLC.                                      *)
(***************************************************************************)
EXTENDS Radio
=============================================================================
