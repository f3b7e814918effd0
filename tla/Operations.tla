----------------------------- MODULE Operations -----------------------------
(***************************************************************************)
(* The lifecycle of an EMOSA operation: its states, the states that keep a *)
(* pod occupied, and the table of transitions every handler goes through   *)
(* (src/emosa/model.py and src/emosa/operations.py).                       *)
(***************************************************************************)

\* The states of a journal row.
State ==
  {"REQUESTED", "VALIDATED", "SUBMITTED", "CONFIG_COMMITTED",
   "OBSERVED_APPLIED", "REJECTED", "FAILED", "TIMED_OUT", "INDETERMINATE",
   "OWNERSHIP_CONFLICT", "CANCELLED"}

\* A row of the journal that has not been inserted yet.
Absent == "ABSENT"

\* The states in which an operation still occupies its pod.
ACTIVE ==
  {"REQUESTED", "VALIDATED", "SUBMITTED", "CONFIG_COMMITTED", "INDETERMINATE"}

\* What the transition table lets follow each state; the states it does not
\* list are final.
TRANSITIONS ==
  [s \in State |->
     CASE s = "REQUESTED" -> {"VALIDATED", "REJECTED", "CANCELLED"}
       [] s = "VALIDATED" ->
            {"SUBMITTED", "REJECTED", "OWNERSHIP_CONFLICT", "CANCELLED",
             "OBSERVED_APPLIED"}
       [] s = "SUBMITTED" ->
            {"CONFIG_COMMITTED", "INDETERMINATE", "FAILED",
             "OWNERSHIP_CONFLICT"}
       [] s = "CONFIG_COMMITTED" ->
            {"OBSERVED_APPLIED", "FAILED", "TIMED_OUT", "OWNERSHIP_CONFLICT"}
       [] s = "INDETERMINATE" ->
            {"CONFIG_COMMITTED", "OBSERVED_APPLIED", "OWNERSHIP_CONFLICT",
             "FAILED"}
       [] OTHER -> {}]

\* The states no write can belong to: nothing was handed to the pod.
Unsent == {Absent, "REQUESTED", "VALIDATED", "REJECTED", "CANCELLED"}

\* The states reconciliation watches, and those that take the pod's scope over
\* from every older operation.
Tracked ==
  {"CONFIG_COMMITTED", "INDETERMINATE", "TIMED_OUT", "OBSERVED_APPLIED"}

Superseding == Tracked \cup {"SUBMITTED", "OWNERSHIP_CONFLICT"}
=============================================================================
