------------------------------- MODULE MCLabs -------------------------------
(***************************************************************************)
(* Finite instances of Labs for TLC.                                       *)
(***************************************************************************)
EXTENDS Labs, TLC

Symmetry == Permutations(Checkout)
=============================================================================
