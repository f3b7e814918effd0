----------------------------- MODULE MCSession ------------------------------
(***************************************************************************)
(* Finite instances of Session for TLC.                                    *)
(***************************************************************************)
EXTENDS Session
=============================================================================
