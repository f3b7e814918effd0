---------------------------- MODULE MCDirectory -----------------------------
(***************************************************************************)
(* Finite instances of Directory for TLC.                                  *)
(***************************************************************************)
EXTENDS Directory
=============================================================================
