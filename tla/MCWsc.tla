------------------------------- MODULE MCWsc -------------------------------
(***************************************************************************)
(* Finite instances of Wsc for TLC.                                        *)
(***************************************************************************)
EXTENDS Wsc

B(role, index, settings) ==
  [role |-> role, inside |-> 1, outside |-> FALSE, index |-> index, settings |-> settings]

Front1 == B({"fronthaul"}, 1, "psk")

\* Legitimate answers, and each way in which one is not.
AllPlans ==
  {<<Front1>>, <<B({"fronthaul"}, None, "psk"), B({"backhaul"}, None, "other")>>,
   <<Front1, B({"backhaul"}, 2, "psk")>>, <<B({"teardown"}, None, "none")>>,
   <<B({"fronthaul", "teardown"}, 1, "incomplete")>>,
   <<Front1, B({"fronthaul"}, 1, "psk")>>, <<Front1, B({"teardown"}, 2, "psk")>>,
   <<[Front1 EXCEPT !.outside = TRUE]>>, <<[Front1 EXCEPT !.inside = 2]>>,
   <<[Front1 EXCEPT !.inside = 0, !.settings = "none"]>>,
   <<B({"fronthaul"}, 1, "incomplete")>>, <<B({"fronthaul"}, 1, "other")>>}
=============================================================================
