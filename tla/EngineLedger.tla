---------------------------- MODULE EngineLedger ----------------------------
(***************************************************************************)
(* The inductive invariant behind the safety properties of Engine: what    *)
(* the journal, the running coroutine and the wire always agree on, before *)
(* and after any stop.                                                     *)
(***************************************************************************)
EXTENDS EngineWriteOnce

\* States that follow an attempt.
Attempted ==
  {"SUBMITTED", "CONFIG_COMMITTED", "INDETERMINATE", "FAILED",
   "OWNERSHIP_CONFLICT", "TIMED_OUT"}

\* One coroutine at a time executes, and its place in execute tells which
\* states its row can be in: cancel can overtake planning and nothing else.
OneCoroutine ==
  /\ \A o \in Op : pc[o] # "idle" => up /\ busy
  /\ \A o, p \in Op : pc[o] # "idle" /\ pc[p] # "idle" => o = p
  /\ \A o \in Op : pc[o] = "planning" => state[o] \in {"REQUESTED", "CANCELLED"}
  /\ \A o \in Op : pc[o] \in {"submitting", "awaiting"} => state[o] = "SUBMITTED"
  /\ \A o \in Op : up /\ state[o] = "SUBMITTED" =>
       pc[o] \in {"submitting", "awaiting"}
  /\ \A o, p \in Op : state[o] = "SUBMITTED" /\ state[p] = "SUBMITTED" => o = p

\* An attempt is journalled once and before anything is sent for it.
AttemptFirst ==
  /\ \A o \in Op : attempts[o] \in {0, 1}
  /\ \A o \in Op : state[o] \in Unsent => attempts[o] = 0
  /\ \A o \in Op : state[o] \in Attempted => attempts[o] = 1
  /\ \A o \in Op : sends[o] <= attempts[o]
  /\ \A o \in Op : pc[o] = "submitting" => sends[o] = 0
  /\ \A o \in Op : sends[o] = 0 <=> wire[o] = "unsent"

\* The attribution of a row agrees with its state and with the server.
Attributed ==
  /\ \A o \in Op : attempts[o] = 0 <=> attribution[o] = "not_submitted"
  /\ \A o \in Op : state[o] \in {"SUBMITTED", "INDETERMINATE"} =>
       attribution[o] = "unknown"
  /\ \A o \in Op : state[o] \in {"CONFIG_COMMITTED", "TIMED_OUT"} =>
       attribution[o] = "reply"
  /\ \A o \in Op : attribution[o] = "reply" => wire[o] = "committed"

\* Evidence is recorded once, with the verdict it belongs to, and says whether
\* the deadline had passed.
EvidenceFits ==
  /\ \A o \in Op : evidence[o] = "noop" =>
       state[o] = "OBSERVED_APPLIED" /\ attempts[o] = 0
  /\ \A o \in Op : evidence[o] = "applied" =>
       state[o] = "OBSERVED_APPLIED" /\ attempts[o] = 1 /\ ~elapsed[o]
  /\ \A o \in Op : evidence[o] = "late" =>
       /\ state[o] \in {"OBSERVED_APPLIED", "TIMED_OUT"}
       /\ attempts[o] = 1 /\ elapsed[o]
  /\ \A o \in Op : state[o] = "OBSERVED_APPLIED" => evidence[o] # "none"
  /\ \A o \in Op : state[o] = "TIMED_OUT" => elapsed[o]

\* The journal, the coroutines and the wire agree (execute, submit, recover,
\* cancel and reconcile taken together, in any order and across stops).
Ledger == OneCoroutine /\ AttemptFirst /\ Attributed /\ EvidenceFits

\* Where no monitor update is refused while a reply is awaited, a verdict that
\* says the pod was not changed is true for ever.
Untouched ==
  \A o \in Op :
    \/ state[o] = "FAILED"
    \/ state[o] = "OWNERSHIP_CONFLICT" /\ attribution[o] # "reply"
    => wire[o] \notin {"sent", "committed"}

\* Where no handler is cut between its commits, the pod is served in turn:
\* whoever is inserted behind an active operation is refused.
Serial ==
  \A o, p \in Op : p < o =>
    /\ state[o] # Absent => state[p] # Absent
    /\ state[p] \in ACTIVE => state[o] \in {Absent, "REJECTED"}

-----------------------------------------------------------------------------
(***************************************************************************)
(* While nobody else has written: what the rows of the pod, drained or     *)
(* not, say of the operations that wrote them.  It holds where the server  *)
(* answers no request with an error besides ("rpcerror").                  *)
(***************************************************************************)

\* The write of the operation may still be on its way.
Unresolved(o) == state[o] \in {"SUBMITTED", "INDETERMINATE"}

\* All versions the session may look at have one configuration.
Even == \A i, j \in DOMAIN rows : rows[i].cfg = rows[j].cfg

\* No later operation has taken the pod over or changed it.
Latest(o) ==
  /\ state[o] \in {"CONFIG_COMMITTED", "OBSERVED_APPLIED", "TIMED_OUT"}
  /\ \A p \in Op : p > o =>
       state[p] \notin Tracked /\ ~(state[p] = "SUBMITTED" /\ wire[p] = "committed")

\* A version bears the name of the operation that made it.
Signed ==
  \A i \in DOMAIN rows, o \in Op : rows[i].by = o =>
    wire[o] = "committed" /\ rows[i].cfg = target[o]

\* The guard of a write that may still run holds, or its late execution changes
\* nothing: then the configuration was there before.
GuardsHold ==
  /\ \A o \in Op : Unresolved(o) => wire[o] # "refused"
  /\ \A o \in Op : wire[o] = "sent" =>
       guard[o] = IF Unresolved(o) THEN Server.cfg ELSE target[o]

\* The configuration changes with the one write that is unresolved, once.
RowsFollow ==
  /\ (\A o \in Op : Unresolved(o) => wire[o] # "committed") => Even
  /\ \A o \in Op : Unresolved(o) /\ wire[o] = "committed" =>
       /\ Server.cfg = target[o]
       /\ \A i, j \in DOMAIN rows :
            i <= j /\ rows[i].cfg = target[o] => rows[j].cfg = target[o]
  /\ \A o \in Op : Latest(o) => \A i \in DOMAIN rows : rows[i].cfg = target[o]

NoConflict == ~conflict /\ \A o \in Op : state[o] # "OWNERSHIP_CONFLICT"

Calm == Signed /\ (foreign = 0 => NoConflict /\ GuardsHold /\ RowsFollow)
=============================================================================
