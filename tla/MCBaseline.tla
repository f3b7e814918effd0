----------------------------- MODULE MCBaseline -----------------------------
(***************************************************************************)
(* Finite instances of Baseline for TLC.                                   *)
(***************************************************************************)
EXTENDS Baseline

\* A suite with one attempt of each kind, and single invocations.
SuiteAndSingles ==
  {<<"clean", "agent-restart", "controller-restart", "backhaul-loss">>,
   <<"controller-restart">>, <<"backhaul-loss">>, <<"negative">>}
=============================================================================
