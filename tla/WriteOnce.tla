----------------------------- MODULE WriteOnce ------------------------------
(***************************************************************************)
(* What the journal promises about the write of an operation, with the     *)
(* engine, the session and the process lifetimes left out: a write is      *)
(* claimed before it can take effect, takes effect at most once, and every *)
(* verdict about it is true and final.                                     *)
(***************************************************************************)

CONSTANT Op

VARIABLES verdict,  \* what the journal says about the write
          effect    \* whether it has changed the pod

vars == <<verdict, effect>>

\* open     nothing may have been written
\* claimed  a write may happen
\* none     no write happened and none will
\* done     the write happened
\* unknown  it cannot be told, and a late effect is possible
Verdict == {"open", "claimed", "none", "done", "unknown"}

Init ==
  /\ verdict = [o \in Op |-> "open"]
  /\ effect = [o \in Op |-> FALSE]

Claim(o) ==
  /\ verdict[o] = "open"
  /\ verdict' = [verdict EXCEPT ![o] = "claimed"]
  /\ UNCHANGED effect

Decline(o) ==
  /\ verdict[o] = "open"
  /\ verdict' = [verdict EXCEPT ![o] = "none"]
  /\ UNCHANGED effect

TakeEffect(o) ==
  /\ verdict[o] \in {"claimed", "unknown"}
  /\ ~effect[o]
  /\ effect' = [effect EXCEPT ![o] = TRUE]
  /\ UNCHANGED verdict

Report(o) ==
  /\ verdict[o] = "claimed"
  /\ \E v \in {"none", "done", "unknown"} :
       /\ v = "none" => ~effect[o]
       /\ v = "done" => effect[o]
       /\ verdict' = [verdict EXCEPT ![o] = v]
  /\ UNCHANGED effect

Next == \E o \in Op : Claim(o) \/ Decline(o) \/ TakeEffect(o) \/ Report(o)

Spec == Init /\ [][Next]_vars
=============================================================================
