----------------------------- MODULE MCService -----------------------------
(***************************************************************************)
(* Finite instances of Service for TLC.                                    *)
(***************************************************************************)
EXTENDS Service
=============================================================================
