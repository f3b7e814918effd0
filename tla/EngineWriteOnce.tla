--------------------------- MODULE EngineWriteOnce --------------------------
(***************************************************************************)
(* The engine implements WriteOnce: the verdict is read off the journal    *)
(* row alone, the effect off the pod's server.                             *)
(***************************************************************************)
EXTENDS Engine

\* What a journal row in state s with attribution a tells about the write.
VerdictIn(s, a) ==
  CASE s \in {Absent, "REQUESTED", "VALIDATED"} -> "open"
    [] s = "SUBMITTED" -> "claimed"
    [] s \in {"REJECTED", "CANCELLED", "FAILED"} -> "none"
    [] s = "OWNERSHIP_CONFLICT" -> IF a = "reply" THEN "done" ELSE "none"
    [] s \in Tracked ->
         IF a = "reply" THEN "done" ELSE IF a = "unknown" THEN "unknown" ELSE "none"

VerdictOf(o) == VerdictIn(state[o], attribution[o])

Promise == INSTANCE WriteOnce WITH
  verdict <- [o \in Op |-> VerdictOf(o)],
  effect  <- [o \in Op |-> wire[o] = "committed"]

\* The journal's verdict on a write is durable before the write, true when it
\* is given and never revised (execute, recover, cancel and reconcile).
ImplementsWriteOnce == Promise!Spec
=============================================================================
