--------------------------- MODULE DirectoryProofs ---------------------------
(***************************************************************************)
(* For any freshness limit and any number of ticks, connections and changes*)
(* of the rows: a fresh agent shows what the pod showed within the limit,  *)
(* and between two rounds the views do not contradict each other.  At the  *)
(* end, what the radio manager publishes: the theorem about Radio.         *)
(***************************************************************************)
EXTENDS Directory, Radio, TLAPS

\* The history knows what the session shows now, and nothing of the future.
HistoryHolds ==
  /\ \A x \in Generations \X Versions : shown[x] <= now
  /\ pod.up /\ pod.binding = "complete" => shown[pod.gen, pod.ver] = now

\* What was observed was shown when it was observed, or later.
ObservedWasShown ==
  /\ agent.at <= now
  /\ agent.observed.gen # 0 => agent.at <= shown[agent.observed.gen, agent.observed.ver]

\* What is kept of the session is of no later connection than its own ...
NotAhead == last.gen <= pod.gen /\ cache.gen <= pod.gen

\* ... the status is the snapshot's that the round holds, which may since have been
\* marked as stale ...
StatusIsHeld ==
  loop.pc = "inventory" => cache.gen = loop.snap.gen /\ (loop.snap.ready => cache.ready)

\* ... and from the end of a round to the next status the status, the inventory and an
\* agent without failure are of one connection; the agent is the inventory.
RoundsEnd ==
  /\ agent.observed.gen # 0 /\ ~agent.failed => agent.observed = inventory
  /\ loop.pc # "inventory" =>
       /\ agent.observed.gen # 0 /\ ~agent.failed =>
            cache.ready /\ cache.gen = agent.observed.gen
       /\ inventory.gen # 0 /\ cache.ready => inventory.gen >= cache.gen

Inv == TypeOK /\ HistoryHolds /\ ObservedWasShown /\ NotAhead /\ StatusIsHeld /\ RoundsEnd

-----------------------------------------------------------------------------

LEMMA Bounds ==
  Freshness \in Nat /\ MaxTime \in Nat /\ MaxGeneration \in Nat /\ MaxVersion \in Nat
BY DirectoryAssumption

LEMMA Arithmetic ==
  ASSUME NEW n \in Nat
  PROVE  /\ \A a \in 0..n : a < n => a + 1 \in 0..n /\ a <= a + 1
         /\ \A a, b, c \in -1..n : a <= a /\ (a <= b /\ b <= c => a <= c)
         /\ 0..n \subseteq -1..n
<1>1. \A a \in 0..n : a < n => a + 1 \in 0..n /\ a <= a + 1
  OBVIOUS
<1>2. \A a, b, c \in Int : a <= a /\ (a <= b /\ b <= c => a <= c)
  OBVIOUS
<1>3. -1..n \subseteq Int
  OBVIOUS
<1>4. 0..n \subseteq -1..n
  OBVIOUS
<1>5. QED
  BY <1>1, <1>2, <1>3, <1>4

LEMMA Numbers ==
  /\ \A t \in 0..MaxTime : t \in Nat /\ t <= t /\ t >= 0 /\ ~(-1 > t) /\ -1 <= t
  /\ \A g \in Generations : g \in Nat /\ g <= g
  /\ 0 \in Generations /\ 0 \in Versions /\ 0 \in 0..MaxTime
BY Bounds DEF Generations, Versions

LEMMA InitInv == Init => Inv
<1>. SUFFICES ASSUME Init PROVE Inv
  OBVIOUS
<1>1. -1 \in -1..MaxTime /\ -1 <= 0 /\ 0 <= 0
  BY Bounds
<1>2. TypeOK
  BY <1>1, Numbers DEF Init, TypeOK, Reading, Nothing
<1>3. QED
  BY <1>1, <1>2 DEF Init, Inv, HistoryHolds, ObservedWasShown, NotAhead, StatusIsHeld,
     RoundsEnd, Nothing

\* What the session reads.
LEMMA ReadType == ASSUME TypeOK PROVE Read \in Reading /\ Read.gen = pod.gen
BY DEF TypeOK, Read, Reading

LEMMA StaleType ==
  ASSUME TypeOK PROVE Stale \in Reading /\ Stale.gen = last.gen /\ ~Stale.ready
BY DEF TypeOK, Stale, Reading

\* How the history goes on when the session shows p at time t.
LEMMA ShowsSteps ==
  ASSUME TypeOK, HistoryHolds, NEW p \in [up: BOOLEAN, gen: Generations, ver: Versions,
                                          binding: {"complete", "no state", "mismatch"}],
         NEW t \in 0..MaxTime, now <= t, Shows(p, t)
  PROVE  /\ shown' \in [Generations \X Versions -> -1..MaxTime]
         /\ \A x \in Generations \X Versions : shown'[x] <= t /\ shown[x] <= shown'[x]
         /\ p.up /\ p.binding = "complete" => shown'[p.gen, p.ver] = t
<1>. DEFINE x == <<p.gen, p.ver>>
<1>1. x \in Generations \X Versions
  OBVIOUS
<1>2. \A y \in Generations \X Versions :
        /\ shown[y] \in -1..MaxTime /\ shown[y] <= now /\ shown[y] <= shown[y]
        /\ shown[y] <= t
  <2>1. now \in -1..MaxTime /\ t \in -1..MaxTime
    BY Bounds, Arithmetic DEF TypeOK
  <2>2. QED
    BY <2>1, Bounds, Arithmetic DEF TypeOK, HistoryHolds
<1>3. t \in -1..MaxTime /\ t <= t
  BY Bounds, Arithmetic
<1>4. CASE p.up /\ p.binding = "complete"
  <2>1. shown' = [shown EXCEPT ![x] = t]
    BY <1>4 DEF Shows
  <2>2. QED
    BY <1>1, <1>2, <1>3, <2>1 DEF TypeOK
<1>5. CASE ~(p.up /\ p.binding = "complete")
  BY <1>2, <1>5 DEF Shows, TypeOK
<1>6. QED
  BY <1>4, <1>5

\* With it the observation stays covered.
LEMMA StaysShown ==
  ASSUME TypeOK, ObservedWasShown, NEW t \in 0..MaxTime, now <= t, UNCHANGED agent,
         now' = t, shown' \in [Generations \X Versions -> -1..MaxTime],
         \A x \in Generations \X Versions : shown[x] <= shown'[x]
  PROVE  ObservedWasShown'
<1>1. agent.observed.gen \in Generations /\ agent.observed.ver \in Versions
      /\ agent.at \in 0..MaxTime /\ now \in 0..MaxTime
  BY DEF TypeOK, Reading
<1>. DEFINE x == <<agent.observed.gen, agent.observed.ver>>
<1>2. x \in Generations \X Versions
  BY <1>1
<1>3. shown[x] \in -1..MaxTime /\ shown'[x] \in -1..MaxTime /\ shown[x] <= shown'[x]
  BY <1>2 DEF TypeOK
<1>4. \A a \in 0..MaxTime, b, c \in -1..MaxTime : a <= b /\ b <= c => a <= c
  BY Bounds
<1>5. agent.at <= t
  <2>1. agent.at \in -1..MaxTime /\ now \in -1..MaxTime /\ t \in -1..MaxTime
    BY <1>1, Bounds, Arithmetic
  <2>2. QED
    BY <2>1, Bounds, Arithmetic DEF ObservedWasShown
<1>6. QED
  BY <1>1, <1>3, <1>4, <1>5 DEF ObservedWasShown

LEMMA TickStep == ASSUME Inv, Tick PROVE Inv'
<1>1. now + 1 \in 0..MaxTime /\ now <= now + 1
  BY Bounds, Arithmetic DEF Inv, TypeOK, Tick
<1>2. /\ shown' \in [Generations \X Versions -> -1..MaxTime]
      /\ \A x \in Generations \X Versions : shown'[x] <= now + 1 /\ shown[x] <= shown'[x]
      /\ pod.up /\ pod.binding = "complete" => shown'[pod.gen, pod.ver] = now + 1
  BY <1>1, ShowsSteps DEF Inv, TypeOK, Tick
<1>3. TypeOK'
  BY <1>1, <1>2 DEF Inv, TypeOK, Tick
<1>4. ObservedWasShown'
  BY <1>1, <1>2, StaysShown DEF Inv, Tick
<1>5. QED
  BY <1>2, <1>3, <1>4
     DEF Inv, Tick, HistoryHolds, NotAhead, StatusIsHeld, RoundsEnd

LEMMA PodStep == ASSUME Inv, PodChanges PROVE Inv'
<1>1. /\ pod' \in [up: BOOLEAN, gen: Generations, ver: Versions,
                   binding: {"complete", "no state", "mismatch"}]
      /\ pod.gen <= pod'.gen
  <2>1. CASE pod' = [pod EXCEPT !.up = FALSE]
    BY <2>1, Numbers DEF Inv, TypeOK
  <2>2. CASE pod.gen < MaxGeneration /\ pod' = [pod EXCEPT !.up = TRUE, !.gen = @ + 1]
    <3>1. \A g \in Generations : g < MaxGeneration => g + 1 \in Generations /\ g <= g + 1
      BY Bounds, Arithmetic DEF Generations
    <3>2. QED
      BY <2>2, <3>1 DEF Inv, TypeOK
  <2>3. ASSUME NEW b \in {"complete", "no state", "mismatch"}, pod.ver < MaxVersion,
               pod' = [pod EXCEPT !.ver = @ + 1, !.binding = b]
        PROVE  /\ pod' \in [up: BOOLEAN, gen: Generations, ver: Versions,
                            binding: {"complete", "no state", "mismatch"}]
               /\ pod.gen <= pod'.gen
    <3>1. \A v \in Versions : v < MaxVersion => v + 1 \in Versions
      BY Bounds, Arithmetic DEF Versions
    <3>2. QED
      BY <2>3, <3>1, Numbers DEF Inv, TypeOK
  <2>4. QED
    BY <2>1, <2>2, <2>3 DEF PodChanges
<1>2. now \in 0..MaxTime /\ now <= now
  BY Numbers DEF Inv, TypeOK
<1>3. /\ shown' \in [Generations \X Versions -> -1..MaxTime]
      /\ \A x \in Generations \X Versions : shown'[x] <= now /\ shown[x] <= shown'[x]
      /\ pod'.up /\ pod'.binding = "complete" => shown'[pod'.gen, pod'.ver] = now
  BY <1>1, <1>2, ShowsSteps DEF Inv, PodChanges
<1>4. loop' = [loop EXCEPT !.torn = loop'.torn] /\ loop'.torn \in BOOLEAN
  BY <1>1 DEF Inv, TypeOK, PodChanges
<1>5. TypeOK'
  BY <1>1, <1>3, <1>4 DEF Inv, TypeOK, PodChanges
<1>6. ObservedWasShown'
  BY <1>2, <1>3, StaysShown DEF Inv, PodChanges
<1>7. NotAhead'
  <2>1. \A a, b, c \in Generations : a <= b /\ b <= c => a <= c
    BY Bounds DEF Generations
  <2>2. last.gen \in Generations /\ cache.gen \in Generations
    BY DEF Inv, TypeOK, Reading
  <2>3. QED
    BY <1>1, <2>1, <2>2 DEF Inv, TypeOK, NotAhead, PodChanges
<1>8. StatusIsHeld' /\ RoundsEnd'
  BY <1>4 DEF Inv, TypeOK, PodChanges, StatusIsHeld, RoundsEnd
<1>9. QED
  BY <1>3, <1>5, <1>6, <1>7, <1>8 DEF Inv, HistoryHolds, PodChanges

LEMMA StartStep == ASSUME Inv, Start PROVE Inv'
<1>1. TypeOK'
  BY DEF Inv, TypeOK, Start
<1>2. QED
  BY <1>1 DEF Inv, TypeOK, Start, HistoryHolds, ObservedWasShown, NotAhead, StatusIsHeld,
     RoundsEnd

\* The except branch.
LEMMA FailedStep ==
  ASSUME Inv, Failed, UNCHANGED <<pod, now, shown, last, inventory>> PROVE Inv'
<1>1. TypeOK'
  BY DEF Inv, TypeOK, Failed
<1>2. HistoryHolds' /\ ObservedWasShown'
  BY DEF Inv, TypeOK, Failed, HistoryHolds, ObservedWasShown
<1>3. NotAhead' /\ StatusIsHeld' /\ RoundsEnd'
  BY DEF Inv, TypeOK, Failed, NotAhead, StatusIsHeld, RoundsEnd
<1>4. QED
  BY <1>1, <1>2, <1>3 DEF Inv

LEMMA ReconciledStep == ASSUME Inv, Reconciled PROVE Inv'
<1>1. CASE Failed /\ UNCHANGED last
  BY <1>1, FailedStep DEF Reconciled
<1>2. ASSUME NEW s \in Snapshots, last' = s, UNCHANGED agent,
             cache' = [ready |-> s.ready, fresh |-> s.ready, gen |-> s.gen],
             loop' = [pc |-> "inventory", snap |-> s, shared |-> TRUE, torn |-> ~pod.up]
      PROVE  Inv'
  <2>1. UNCHANGED <<pod, now, shown, inventory>>
    BY DEF Reconciled
  <2>2. s \in Reading /\ s.gen <= pod.gen
    <3>1. s = Read \/ s = Stale
      BY DEF Snapshots
    <3>2. pod.gen <= pod.gen
      BY Numbers DEF Inv, TypeOK
    <3>3. QED
      BY <3>1, <3>2, ReadType, StaleType DEF Inv, NotAhead
  <2>3. TypeOK'
    BY <1>2, <2>1, <2>2 DEF Inv, TypeOK, Reading
  <2>4. HistoryHolds' /\ ObservedWasShown'
    BY <1>2, <2>1 DEF Inv, HistoryHolds, ObservedWasShown
  <2>5. NotAhead' /\ StatusIsHeld' /\ RoundsEnd'
    BY <1>2, <2>1, <2>2 DEF Inv, NotAhead, StatusIsHeld, RoundsEnd
  <2>6. QED
    BY <2>3, <2>4, <2>5 DEF Inv
<1>3. QED
  BY <1>1, <1>2 DEF Reconciled

LEMMA InventoriedStep == ASSUME Inv, Inventoried PROVE Inv'
<1>1. CASE Failed /\ UNCHANGED inventory
  BY <1>1, FailedStep DEF Inventoried
<1>2. CASE /\ Answered /\ inventory' = Read
           /\ agent' = IF Agrees(loop.snap, Read) THEN Observed
                       ELSE [agent EXCEPT !.failed = TRUE]
           /\ loop' = [loop EXCEPT !.pc = "sleep"]
           /\ UNCHANGED cache
  <2>1. UNCHANGED <<pod, now, shown, last>> /\ loop.pc = "inventory"
    BY DEF Inventoried
  <2>2. Read \in Reading /\ Read.gen = pod.gen
    BY ReadType DEF Inv
  <2>3. TypeOK'
    BY <1>2, <2>1, <2>2 DEF Inv, TypeOK, Observed
  <2>4. ObservedWasShown'
    <3>1. CASE Agrees(loop.snap, Read)
      <4>1. agent'.observed = Read /\ agent'.at = now
        BY <1>2, <3>1 DEF Observed
      <4>2. pod.up /\ pod.binding = "complete" /\ Read.ver = pod.ver
        BY <1>2, <3>1 DEF Answered, Agrees, Read
      <4>3. shown[pod.gen, pod.ver] = now /\ now <= now
        BY <4>2, Numbers DEF Inv, HistoryHolds, TypeOK
      <4>4. QED
        BY <2>1, <2>2, <4>1, <4>2, <4>3 DEF ObservedWasShown
    <3>2. CASE ~Agrees(loop.snap, Read)
      BY <1>2, <2>1, <3>2 DEF Inv, TypeOK, ObservedWasShown
    <3>3. QED
      BY <3>1, <3>2
  <2>5. RoundsEnd'
    <3>1. ASSUME ~agent'.failed
          PROVE  cache.ready /\ cache.gen = agent'.observed.gen
      <4>1. Agrees(loop.snap, Read)
        BY <1>2, <3>1 DEF Inv, TypeOK
      <4>2. agent'.observed = Read
        BY <1>2, <4>1 DEF Observed
      <4>3. QED
        BY <2>1, <4>1, <4>2 DEF Agrees, Inv, StatusIsHeld
    <3>2. inventory'.gen >= cache.gen
      <4>1. \A a, b \in Generations : a <= b => b >= a
        BY Bounds DEF Generations
      <4>2. QED
        BY <1>2, <2>2, <4>1 DEF Inv, TypeOK, NotAhead
    <3>3. ~agent'.failed => agent'.observed = inventory'
      BY <1>2 DEF Inv, TypeOK, Observed
    <3>4. QED
      BY <1>2, <3>1, <3>2, <3>3 DEF RoundsEnd
  <2>6. HistoryHolds' /\ NotAhead' /\ StatusIsHeld'
    BY <1>2, <2>1 DEF Inv, TypeOK, HistoryHolds, NotAhead, StatusIsHeld
  <2>7. QED
    BY <2>3, <2>4, <2>5, <2>6 DEF Inv
<1>3. QED
  BY <1>1, <1>2 DEF Inventoried

LEMMA OtherStep == ASSUME Inv, OtherSnapshot PROVE Inv'
<1>1. UNCHANGED <<pod, now, shown, cache, inventory, agent>>
  BY DEF OtherSnapshot
<1>2. /\ loop' \in {loop, [loop EXCEPT !.shared = FALSE], [loop EXCEPT !.snap.ready = FALSE]}
      /\ last' \in {Read, Stale}
  BY DEF OtherSnapshot
<1>3. /\ loop' \in [pc: {"sleep", "snapshot", "inventory", "dead"}, torn: BOOLEAN,
                    snap: Reading, shared: BOOLEAN]
      /\ loop'.pc = loop.pc /\ loop'.snap.gen = loop.snap.gen
      /\ loop'.snap.ready => loop.snap.ready
  <2>1. CASE loop' \in {loop, [loop EXCEPT !.shared = FALSE]}
    BY <2>1 DEF Inv, TypeOK, Reading
  <2>. DEFINE s == [loop.snap EXCEPT !.ready = FALSE]
  <2>2. s \in Reading /\ s.gen = loop.snap.gen /\ ~s.ready
    BY DEF Inv, TypeOK, Reading
  <2>3. CASE loop' = [loop EXCEPT !.snap.ready = FALSE]
    <3>1. loop' = [loop EXCEPT !.snap = s]
      BY <2>3
    <3>2. loop'.snap = s
      BY <3>1 DEF Inv, TypeOK
    <3>. HIDE DEF s
    <3>3. QED
      BY <2>2, <3>1, <3>2 DEF Inv, TypeOK
  <2>4. QED
    BY <1>2, <2>1, <2>3
<1>4. last' \in Reading /\ last'.gen <= pod.gen
  <2>1. pod.gen <= pod.gen
    BY Numbers DEF Inv, TypeOK
  <2>2. QED
    BY <1>2, <2>1, ReadType, StaleType DEF Inv, NotAhead
<1>5. TypeOK'
  BY <1>1, <1>3, <1>4 DEF Inv, TypeOK
<1>6. HistoryHolds' /\ ObservedWasShown'
  BY <1>1 DEF Inv, HistoryHolds, ObservedWasShown
<1>7. NotAhead'
  BY <1>1, <1>4 DEF Inv, NotAhead
<1>8. StatusIsHeld' /\ RoundsEnd'
  BY <1>1, <1>3 DEF Inv, StatusIsHeld, RoundsEnd
<1>9. QED
  BY <1>5, <1>6, <1>7, <1>8 DEF Inv

LEMMA StepInv == ASSUME Inv, [Next]_vars PROVE Inv'
<1>1. CASE UNCHANGED vars
  <2>1. UNCHANGED <<pod, now, shown, last, loop, cache, inventory, agent>>
    BY <1>1 DEF vars
  <2>2. TypeOK'
    BY <2>1 DEF Inv, TypeOK
  <2>3. HistoryHolds' /\ ObservedWasShown'
    BY <2>1 DEF Inv, HistoryHolds, ObservedWasShown
  <2>4. NotAhead' /\ StatusIsHeld' /\ RoundsEnd'
    BY <2>1 DEF Inv, NotAhead, StatusIsHeld, RoundsEnd
  <2>5. QED
    BY <2>2, <2>3, <2>4 DEF Inv
<1>2. QED
  BY <1>1, TickStep, PodStep, StartStep, ReconciledStep, InventoriedStep, OtherStep
     DEF Next, Refresh

\* An agent shown as fresh shows rows that a connection of its pod showed, with a complete
\* binding, within the freshness limit (AgentDirectory.view).
THEOREM FreshMeansRecent == Spec => []FreshIsRecent
<1>1. Inv => FreshIsRecent
  <2>. SUFFICES ASSUME Inv, AgentFresh
                PROVE  LET seen == shown[agent.observed.gen, agent.observed.ver]
                       IN  seen >= 0 /\ now - seen <= Freshness
    BY DEF FreshIsRecent, Inv
  <2>1. /\ agent.observed.gen \in Generations /\ agent.observed.ver \in Versions
        /\ agent.at \in 0..MaxTime /\ now \in 0..MaxTime
    BY DEF Inv, TypeOK, Reading
  <2>. DEFINE x == <<agent.observed.gen, agent.observed.ver>>
              seen == shown[x]
  <2>2. x \in Generations \X Versions
    BY <2>1
  <2>3. seen \in -1..MaxTime
    BY <2>2 DEF Inv, TypeOK
  <2>4. agent.at <= seen /\ now - agent.at <= Freshness
    BY DEF AgentFresh, Inv, ObservedWasShown
  <2>5. \A a, t \in 0..MaxTime, v \in -1..MaxTime :
          a <= v /\ t - a <= Freshness => v >= 0 /\ t - v <= Freshness
    BY Bounds
  <2>6. QED
    BY <2>1, <2>3, <2>4, <2>5
<1>2. QED
  BY <1>1, InitInv, StepInv, PTL DEF Spec

\* A fresh agent is what the inventory shows; from the end of a round to the next status
\* its pod is ready on the connection it was observed on, and a fresh inventory is not
\* of an earlier connection than the status.
THEOREM ViewsDoAgree == Spec => []ViewsAgree
<1>1. Inv => ViewsAgree
  BY DEF Inv, RoundsEnd, ViewsAgree, AgentFresh, InventoryFresh
<1>2. QED
  BY <1>1, InitInv, StepInv, PTL DEF Spec

-----------------------------------------------------------------------------
(***************************************************************************)
(* The radio manager, for any settings, writers, failures and restarts:    *)
(* State is what the radio did, never what was asked of it.                *)
(***************************************************************************)

\* What is applied is within the profile; what the radio runs while the cycle is
\* looking, and what the cycle has seen, the radio has run since the snapshot; the
\* same of what a cycle has given up.
Looked ==
  /\ cycle.pc = "apply" => cycle.config \in Settings
  /\ cycle.pc \in {"apply", "observe"} => live \in cycle.ran \cup {Off}
  /\ cycle.pc = "publish" => cycle.saw \in cycle.ran \cup {Off}
  /\ \A c \in late : c.saw \in c.ran \cup {Off}

ManagerInv == ManagerTypeOK /\ Looked

LEMMA IdleType == Idle \in Cycles
BY DEF Idle, Cycles

LEMMA RadioBounds == MaxFaults \in Nat /\ MaxWrites \in Nat
BY RadioAssumption

LEMMA ManagerInitInv == ASSUME ManagerInit PROVE ManagerInv
<1>1. Looked
  BY DEF ManagerInit, Looked, Idle
<1>2. writes \in 0..MaxWrites /\ faults \in 0..MaxFaults
  BY RadioBounds DEF ManagerInit
<1>3. ManagerTypeOK
  BY <1>2, IdleType DEF ManagerInit, ManagerTypeOK
<1>4. QED
  BY <1>1, <1>3 DEF ManagerInv

\* Whatever surrounds the manager only takes the radio away, or begins a new cycle.
LEMMA SurroundingsKeep ==
  ASSUME ManagerInv, Write \/ Withhold \/ RadioFails \/ DatabaseRestarts \/ ManagerRestarts
  PROVE  ManagerInv' /\ state' = state
<1>1. CASE Write
  <2>1. writes' \in 0..MaxWrites /\ config' \in Settings \cup {Unsupported}
    BY <1>1, RadioBounds DEF ManagerInv, ManagerTypeOK, Write
  <2>2. QED
    BY <1>1, <2>1 DEF ManagerInv, ManagerTypeOK, Looked, Write
<1>2. CASE Withhold
  <2>1. policy' \in BOOLEAN
    BY <1>2 DEF Withhold
  <2>2. QED
    BY <1>2, <2>1 DEF ManagerInv, ManagerTypeOK, Looked, Withhold
<1>3. CASE RadioFails \/ DatabaseRestarts
  BY <1>3, RadioBounds DEF ManagerInv, ManagerTypeOK, Looked, RadioFails, DatabaseRestarts
<1>4. CASE ManagerRestarts
  BY <1>4, IdleType, RadioBounds DEF ManagerInv, ManagerTypeOK, Looked, ManagerRestarts, Idle
<1>5. QED
  BY <1>1, <1>2, <1>3, <1>4

LEMMA ReadPolicyKeeps == ASSUME ManagerInv, ReadPolicy PROVE ManagerInv' /\ state' = state
<1>1. cycle' \in Cycles /\ cycle'.pc = "read"
  BY DEF ManagerInv, ManagerTypeOK, Cycles, ReadPolicy
<1>2. UNCHANGED <<config, state, gen, live, policy, applied, late, writes, faults, trouble>>
  BY DEF ReadPolicy
<1>3. QED
  BY <1>1, <1>2 DEF ManagerInv, ManagerTypeOK, Looked

LEMMA SnapshotKeeps == ASSUME ManagerInv, Snapshot PROVE ManagerInv' /\ state' = state
<1>1. /\ cycle' \in Cycles /\ cycle'.ran = {live}
      /\ cycle'.pc \in {"apply", "observe"} /\ cycle'.config = config
      /\ cycle'.pc = "apply" => config \in Settings
  BY DEF ManagerInv, ManagerTypeOK, Cycles, Snapshot
<1>2. UNCHANGED <<config, state, gen, live, policy, applied, late, writes, faults, trouble>>
  BY DEF Snapshot
<1>3. QED
  BY <1>1, <1>2 DEF ManagerInv, ManagerTypeOK, Looked

LEMMA ApplyKeeps == ASSUME ManagerInv, Apply PROVE ManagerInv' /\ state' = state
<1>1. cycle.config \in Settings /\ cycle.gen \in Nat /\ cycle.pc = "apply"
  BY DEF ManagerInv, ManagerTypeOK, Cycles, Looked, Apply
<1>2. /\ live' \in Settings \cup {Off} /\ faults' \in 0..MaxFaults
      /\ applied' \in {<<0, None>>} \cup (Nat \X Settings)
      /\ trouble' \in {"none", "radio", "restart", "driver"}
  BY <1>1, RadioBounds DEF ManagerInv, ManagerTypeOK, Apply, Forget
<1>3. cycle' \in Cycles /\ cycle'.pc = "observe" /\ live' \in cycle'.ran
  BY <1>2 DEF ManagerInv, ManagerTypeOK, Cycles, Apply
<1>4. UNCHANGED <<config, state, gen, policy, late, writes>>
  BY DEF Apply
<1>5. QED
  BY <1>2, <1>3, <1>4 DEF ManagerInv, ManagerTypeOK, Looked

LEMMA ObserveKeeps == ASSUME ManagerInv, Observe PROVE ManagerInv' /\ state' = state
<1>1. PICK s \in {live, Off} : cycle' = [cycle EXCEPT !.pc = "publish", !.saw = s]
  BY DEF Observe, Seen
<1>2. s \in Settings \cup {Off} /\ s \in cycle.ran \cup {Off}
  BY DEF ManagerInv, ManagerTypeOK, Looked, Observe
<1>3. cycle' \in Cycles /\ cycle'.pc = "publish" /\ cycle'.saw = s /\ cycle'.ran = cycle.ran
  BY <1>1, <1>2 DEF ManagerInv, ManagerTypeOK, Cycles
<1>4. faults' \in 0..MaxFaults
  BY RadioBounds DEF ManagerInv, ManagerTypeOK, Observe
<1>5. UNCHANGED <<config, state, gen, live, policy, applied, late, writes, trouble>>
  BY DEF Observe
<1>6. QED
  BY <1>2, <1>3, <1>4, <1>5 DEF ManagerInv, ManagerTypeOK, Looked

\* What is published was seen, and Config is the one of the snapshot.
PublishedIsGenuine ==
  state' \notin {state, Off} =>
    \E c \in late \cup {cycle} : state' \in c.ran /\ c.config = config

\* What one publication, in time or late, can make of State.
LEMMA OnePublication ==
  ASSUME ManagerInv, NEW c \in Cycles, c.saw \in c.ran \cup {Off}
  PROVE  /\ Published(c) \in Settings \cup {Off}
         /\ Published(c) \notin {state, Off} => Published(c) \in c.ran /\ c.config = config
<1>1. c.saw \in Settings \cup {Off} /\ state \in Settings \cup {Off}
  BY DEF ManagerInv, ManagerTypeOK, Cycles
<1>2. QED
  BY <1>1 DEF Published, UnchangedRows

LEMMA PublishKeeps == ASSUME ManagerInv, Publish PROVE ManagerInv' /\ PublishedIsGenuine
<1>1. cycle \in Cycles /\ cycle.saw \in cycle.ran \cup {Off}
  BY DEF ManagerInv, ManagerTypeOK, Looked, Publish
<1>2. /\ Published(cycle) \in Settings \cup {Off}
      /\ Published(cycle) \notin {state, Off} =>
           Published(cycle) \in cycle.ran /\ cycle.config = config
  BY <1>1, OnePublication
<1>3. state' \in {state, Published(cycle)} /\ late' \in {late, late \cup {cycle}}
  BY DEF Publish
<1>4. faults' \in 0..MaxFaults /\ gen' \in Nat
  BY RadioBounds DEF ManagerInv, ManagerTypeOK, Publish
<1>5. cycle' = Idle /\ UNCHANGED <<config, live, policy, applied, writes, trouble>>
  BY DEF Publish
<1>6. ManagerTypeOK'
  BY <1>1, <1>2, <1>3, <1>4, <1>5, IdleType DEF ManagerInv, ManagerTypeOK
<1>7. Looked'
  BY <1>1, <1>3, <1>5 DEF ManagerInv, Looked, Idle
<1>8. PublishedIsGenuine
  BY <1>2, <1>3 DEF PublishedIsGenuine
<1>9. QED
  BY <1>6, <1>7, <1>8 DEF ManagerInv

LEMMA RunsLateKeeps == ASSUME ManagerInv, RunsLate PROVE ManagerInv' /\ PublishedIsGenuine
<1>1. PICK c \in late :
        /\ state' = Published(c) /\ late' = late \ {c}
        /\ UNCHANGED <<config, gen, live, policy, applied, cycle, writes, faults, trouble>>
  BY DEF RunsLate
<1>2. c \in Cycles /\ c.saw \in c.ran \cup {Off}
  BY DEF ManagerInv, ManagerTypeOK, Looked
<1>3. /\ Published(c) \in Settings \cup {Off}
      /\ Published(c) \notin {state, Off} => Published(c) \in c.ran /\ c.config = config
  BY <1>2, OnePublication
<1>4. ManagerInv'
  BY <1>1, <1>3 DEF ManagerInv, ManagerTypeOK, Looked
<1>5. QED
  BY <1>1, <1>3, <1>4 DEF PublishedIsGenuine

\* A positive State is what the radio ran while the cycle that publishes it was looking,
\* and Config is the one that cycle read, even when the publication runs after it was
\* given up (cycle's driver reads and the guard of its publication).
THEOREM StateIsGenuine == ManagerSpec => Genuine
<1>1. ManagerInv /\ [ManagerNext]_managerVars => ManagerInv' /\ [PublishedIsGenuine]_managerVars
  <2> SUFFICES ASSUME ManagerInv, [ManagerNext]_managerVars PROVE ManagerInv' /\ [PublishedIsGenuine]_managerVars
    OBVIOUS
  <2>1. CASE Publish
    BY <2>1, PublishKeeps
  <2>2. CASE RunsLate
    BY <2>2, RunsLateKeeps
  <2>3. CASE ReadPolicy \/ Snapshot \/ Apply \/ Observe
    BY <2>3, ReadPolicyKeeps, SnapshotKeeps, ApplyKeeps, ObserveKeeps DEF PublishedIsGenuine
  <2>4. CASE Write \/ Withhold \/ RadioFails \/ DatabaseRestarts \/ ManagerRestarts
    BY <2>4, SurroundingsKeep DEF PublishedIsGenuine
  <2>5. CASE UNCHANGED managerVars
    BY <2>5 DEF managerVars, ManagerInv, ManagerTypeOK, Looked
  <2>6. QED
    BY <2>1, <2>2, <2>3, <2>4, <2>5 DEF ManagerNext, Cycle
<1>2. ManagerInv => ManagerTypeOK
  BY DEF ManagerInv
<1>3. QED
  BY <1>1, <1>2, ManagerInitInv, PTL DEF ManagerSpec, Genuine, PublishedIsGenuine
=============================================================================
