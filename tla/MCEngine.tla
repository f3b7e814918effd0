------------------------------ MODULE MCEngine ------------------------------
(***************************************************************************)
(* Finite instances of Engine for TLC.                                     *)
(***************************************************************************)
EXTENDS EngineLedger, TLC

\* Configurations are interchangeable.
Symmetry == Permutations(Value)
=============================================================================
