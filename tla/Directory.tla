----------------------------- MODULE Directory ------------------------------
(***************************************************************************)
(* What the local API says of one pod: Application.refresh fills the status*)
(* cache and the inventories in rounds, AgentDirectory keeps the last good *)
(* observation for two seconds (src/emosa/app.py, src/emosa/agents.py).    *)
(* A round awaits two jobs of the pod's session, between which connections *)
(* come and go and other coroutines read snapshots of the same backend.    *)
(***************************************************************************)
EXTENDS Integers

CONSTANTS
  Freshness,      \* FRESHNESS_SECONDS, in ticks
  MaxTime,        \* bound: ticks of the monotonic clock
  MaxGeneration,  \* bound: connections of the session
  MaxVersion      \* bound: changes of the pod's rows

ASSUME DirectoryAssumption ==
  {Freshness, MaxTime, MaxGeneration, MaxVersion} \subseteq Nat

VARIABLES
  pod,        \* what the session would read: connection, rows and their binding
  now,        \* the clock
  shown,      \* history: when the session last showed each version as complete
  last,       \* backend.last, the snapshot every caller is given
  loop,       \* where refresh is, the snapshot it holds and what happened to its job
  cache,      \* cache[pod], the status
  inventory,  \* inventories[pod]
  agent       \* observations[pod] and failures[pod] of the directory

vars == <<pod, now, shown, last, loop, cache, inventory, agent>>

Generations == 0..MaxGeneration
Versions    == 0..MaxVersion
Reading     == [gen: Generations, ver: Versions, ready: BOOLEAN]
Nothing     == [gen |-> 0, ver |-> 0, ready |-> FALSE]

\* The absence of a snapshot, an inventory or an observation is generation 0.
TypeOK ==
  /\ pod \in [up: BOOLEAN, gen: Generations, ver: Versions,
              binding: {"complete", "no state", "mismatch"}]
  /\ now \in 0..MaxTime
  /\ shown \in [Generations \X Versions -> -1..MaxTime]
  /\ last \in Reading /\ inventory \in Reading
  /\ loop \in [pc: {"sleep", "snapshot", "inventory", "dead"}, torn: BOOLEAN,
               snap: Reading, shared: BOOLEAN]
  /\ cache \in [ready: BOOLEAN, fresh: BOOLEAN, gen: Generations]
  /\ agent \in [observed: Reading, at: 0..MaxTime, failed: BOOLEAN]
  /\ cache.fresh => cache.ready

Init ==
  /\ pod = [up |-> FALSE, gen |-> 0, ver |-> 0, binding |-> "complete"]
  /\ now = 0
  /\ shown = [x \in Generations \X Versions |-> -1]
  /\ last = Nothing /\ inventory = Nothing
  /\ loop = [pc |-> "sleep", torn |-> FALSE, snap |-> Nothing, shared |-> FALSE]
  /\ cache = [ready |-> FALSE, fresh |-> FALSE, gen |-> 0]
  /\ agent = [observed |-> Nothing, at |-> 0, failed |-> FALSE]

-----------------------------------------------------------------------------
(***************************************************************************)
(* The pod and the clock.                                                  *)
(***************************************************************************)

Shows(p, t) ==
  shown' = IF p.up /\ p.binding = "complete" THEN [shown EXCEPT ![<<p.gen, p.ver>>] = t]
           ELSE shown

Tick ==
  /\ now < MaxTime
  /\ now' = now + 1
  /\ Shows(pod, now + 1)
  /\ UNCHANGED <<pod, last, loop, cache, inventory, agent>>

\* The connection is lost, comes back as a new generation, or the rows change.
PodChanges ==
  /\ \/ /\ pod.up
        /\ pod' = [pod EXCEPT !.up = FALSE]
     \/ /\ ~pod.up /\ pod.gen < MaxGeneration
        /\ pod' = [pod EXCEPT !.up = TRUE, !.gen = @ + 1]
     \/ /\ pod.ver < MaxVersion
        /\ \E b \in {"complete", "no state", "mismatch"} :
             pod' = [pod EXCEPT !.ver = @ + 1, !.binding = b]
  /\ loop' = [loop EXCEPT !.torn = @ \/ ~pod'.up]
  /\ Shows(pod', now)
  /\ UNCHANGED <<now, last, cache, inventory, agent>>

-----------------------------------------------------------------------------
(***************************************************************************)
(* OpenSyncBackend.snapshot and inventory.                                 *)
(***************************************************************************)

\* A session job that is answered, with the rows read through the binding.
Answered == pod.up /\ pod.binding # "mismatch"
Read == [gen |-> pod.gen, ver |-> pod.ver, ready |-> pod.binding = "complete"]

\* One that raises: no connection in time, one lost on the way, no binding.
Raises == ~pod.up \/ pod.binding = "mismatch"

\* snapshot answers a failure with the last one, which it marks in place.
Stale == [last EXCEPT !.ready = FALSE]

-----------------------------------------------------------------------------
(***************************************************************************)
(* Application.refresh.                                                    *)
(***************************************************************************)

Start ==
  /\ loop.pc = "sleep"
  /\ loop' = [loop EXCEPT !.pc = "snapshot", !.torn = ~pod.up]
  /\ UNCHANGED <<pod, now, shown, last, cache, inventory, agent>>

\* The except branch.
Failed ==
  /\ agent' = [agent EXCEPT !.failed = TRUE]
  /\ cache' = [cache EXCEPT !.ready = FALSE, !.fresh = FALSE]
  /\ loop' = [loop EXCEPT !.pc = "sleep"]

\* What a round's first job can have led to: new rows, or the last ones as stale.
Snapshots ==
  (IF Answered THEN {Read} ELSE {}) \cup
  (IF (Raises \/ loop.torn) /\ last.gen # 0 THEN {Stale} ELSE {})

\* Engine.reconcile has returned a snapshot, or raised as there never was one.
Reconciled ==
  /\ loop.pc = "snapshot"
  /\ \/ \E s \in Snapshots :
          /\ last' = s
          /\ cache' = [ready |-> s.ready, fresh |-> s.ready, gen |-> s.gen]
          /\ loop' = [pc |-> "inventory", snap |-> s, shared |-> TRUE, torn |-> ~pod.up]
          /\ UNCHANGED agent
     \/ /\ (Raises \/ loop.torn) /\ last.gen = 0
        /\ Failed
        /\ UNCHANGED last
  /\ UNCHANGED <<pod, now, shown, inventory>>

\* Fault: the generation of the snapshot is not compared.
AgreesAnyGeneration(snap, inv) == snap.ready /\ inv.ready

\* The two reads of the round are ready and of the same connection.
Agrees(snap, inv) == snap.ready /\ inv.ready /\ inv.gen = snap.gen

\* Fault: an observation leaves an earlier failure in place.
ObservedKeepsFailure == [observed |-> Read, at |-> now, failed |-> agent.failed]

\* AgentDirectory.observe: the reading is stamped and the failure forgotten.
Observed == [observed |-> Read, at |-> now, failed |-> FALSE]

\* backend.inventory has returned or raised.
Inventoried ==
  /\ loop.pc = "inventory"
  /\ \/ /\ Answered
        /\ inventory' = Read
        /\ agent' = IF Agrees(loop.snap, Read)
                    THEN Observed
                    ELSE [agent EXCEPT !.failed = TRUE]
        /\ loop' = [loop EXCEPT !.pc = "sleep"]
        /\ UNCHANGED cache
     \/ /\ Raises \/ loop.torn
        /\ Failed
        /\ UNCHANGED inventory
  /\ UNCHANGED <<pod, now, shown, last>>

\* A plan or a submission reads a snapshot while refresh holds one: a failure
\* marks the object they share.
OtherSnapshot ==
  /\ \/ /\ Answered
        /\ last' = Read
        /\ loop' = [loop EXCEPT !.shared = FALSE]
     \/ /\ Raises /\ last.gen # 0
        /\ last' = Stale
        /\ loop' = IF loop.shared THEN [loop EXCEPT !.snap.ready = FALSE] ELSE loop
  /\ UNCHANGED <<pod, now, shown, cache, inventory, agent>>

-----------------------------------------------------------------------------

Refresh == Start \/ Reconciled \/ Inventoried

Next == Tick \/ PodChanges \/ Refresh \/ OtherSnapshot

Spec == Init /\ [][Next]_vars

\* The refresh task is scheduled and the session's jobs end; nothing is assumed
\* of the pod, the clock or other callers.
FairSpec == Spec /\ WF_vars(Refresh)

-----------------------------------------------------------------------------
(***************************************************************************)
(* What the views say, and what must hold of them.                         *)
(***************************************************************************)

\* Fault: an observation does not age.
FreshAtAnyAge == agent.observed.gen # 0 /\ ~agent.failed

\* AgentDirectory.view: the agent is shown ready and fresh.
AgentFresh ==
  agent.observed.gen # 0 /\ now - agent.at <= Freshness /\ ~agent.failed

\* inventory in Application.handle: what was last fetched, as fresh as the status.
InventoryFresh == inventory.gen # 0 /\ cache.ready

\* The state is well typed, and an agent shown as fresh shows rows that a connection of
\* its pod showed, with a complete binding, within the freshness limit, also when the
\* pod is gone or a round is stuck in a job (view's age and failures).
FreshIsRecent ==
  /\ TypeOK
  /\ AgentFresh =>
       LET seen == shown[agent.observed.gen, agent.observed.ver]
       IN  seen >= 0 /\ now - seen <= Freshness

\* A fresh agent shows what the inventory shows.  And from the end of a round to the
\* next status the views do not contradict each other: a fresh agent's pod is ready,
\* on the connection it was observed on, and an inventory shown as fresh is not of an
\* earlier connection than the status.  (It can be of a later one, when the round was
\* torn: then the agent is not fresh.  While a round awaits its inventory, the status
\* is ahead of both.)
ViewsAgree ==
  /\ AgentFresh => agent.observed = inventory
  /\ loop.pc # "inventory" =>
       /\ AgentFresh => cache.ready /\ cache.gen = agent.observed.gen
       /\ InventoryFresh => inventory.gen >= cache.gen

\* A pod that stays connected and bound is in the end shown as fresh again,
\* whatever failed before.
AgentReturns ==
  <>[](pod.up /\ pod.binding = "complete") => <>[](now = MaxTime => AgentFresh)
=============================================================================
