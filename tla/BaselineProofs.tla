--------------------------- MODULE BaselineProofs ---------------------------
(***************************************************************************)
(* For any suites, any number of invocations and of troubles: what an      *)
(* attempt takes away is given back, a process's end is on record before   *)
(* it is forgotten, and an attempt that is recorded as passed has          *)
(* recovered after its own disturbance.                                    *)
(***************************************************************************)
EXTENDS Baseline, TLAPS

-----------------------------------------------------------------------------
(***************************************************************************)
(* The inductive invariant.                                                *)
(***************************************************************************)

Typed == TypeOK /\ logged \subseteq Unit /\ policy \in BOOLEAN /\ (known => policy)

\* What is taken away is given back at the next place of the script.
Returned ==
  ~botched =>
    /\ proc["transport"] = "paused" => pc \in Barrier \cup {"resume"}
    /\ link = "cut" => pc \in {"outage", "restore"}
    /\ psk = "wrong" => pc \in {"rejected", "right-key"}
    /\ conf = "mutated" => pc \in {"edit", "own-conf"}

\* A node whose units are being collected runs none of them, and those that have ended
\* are on record before the reset; so is a unit that was stopped by itself.
Halted(units) == \A u \in units : proc[u] \notin {"active", "paused"}

Written ==
  /\ pc \notin {"halt", "note", "reset", "idle"} => node = 1
  /\ pc \in {"note", "reset"} => Halted(UnitsOf[node])
  /\ pc \in {"halt", "note", "reset"} /\ node = 2 => Halted(UnitsOf[1])
  /\ pc = "reset" => \A u \in UnitsOf[node] : proc[u] \in Ended => u \in logged
  /\ pc \in {"write", "forget"} => proc["agent"] \in Ended
  /\ pc \in {"write-helper", "forget-helper"} => proc["helper"] \in Ended
  /\ pc \in {"write-controller", "forget-controller"} => proc["controller"] \in Ended
  /\ pc = "forget" => "agent" \in logged
  /\ pc = "forget-helper" => "helper" \in logged
  /\ pc = "forget-controller" => "controller" \in logged

\* Where the script of an attempt can be.
Common ==
  Preparing \cup Ending \cup {"idle", "captures", "poll", "clients", "dwell", "probe", "final"}

Special(kind) ==
  CASE kind = "clean" -> {"prepare", "services", "start-helper", "policy", "controller-ap",
                          "bootstrap", "start-agent"}
    [] kind = "agent-restart" -> {"stop", "write", "forget", "restart"}
    [] kind = "controller-restart" -> {"pause", "resume"} \cup Barrier
    [] kind = "backhaul-loss" -> {"healthy", "cut", "outage", "restore"}
    [] kind = "negative" -> {"healthy", "wrong-key", "rejected", "right-key", "edit",
                             "own-conf", "clients-again"}

\* The records of the invocation: the attempts before this one have passed.
Recorded ==
  /\ pc \in Common \cup Special(Kinds)
  /\ status = "passed" => pc \in Preparing \cup Ending \cup {"idle"}
  /\ \A i \in 1..Len(plan) : i < at => disk[i] = "passed"
  /\ pc = "summary" => disk[at] = status /\ Kinds # "negative"
  /\ summary => pc = "idle" /\ \A i \in 1..Len(plan) : disk[i] = "passed"

\* Nothing has been heard of the agent since the disturbance ended, or a contact has.
Silent ==
  CASE Kinds = "agent-restart" -> "agent" \notin up
    [] Kinds = "backhaul-loss" -> ~fresh
    [] OTHER -> ~known

Heard == "contact" \in since \/ Silent

\* An access point that has lost its configuration cannot have it back: there is no
\* policy until the next attempt.
Lasting == cleared => ~policy

\* On the way to the disturbance's end: a clean start finds nothing that runs and
\* gives the policy before an agent can have been heard, ...
StartingClean ==
  /\ pc \in {"attempt", "prepare"} /\ Kinds = "clean" => Halted(Unit)
  /\ pc = "prepare" => ~cleared
  /\ pc \in {"services", "start-helper", "policy"} \/ (pc = "captures" /\ Kinds = "clean") =>
       ~policy /\ ~cleared /\ \A x \in Peer : ap[x] = "initial"
  /\ pc \in {"controller-ap", "bootstrap", "start-agent"} => Lasting /\ Heard

\* ... an agent that is stopped, or whose backhaul is cut, is out of touch, ...
StartingAgain ==
  /\ Kinds \in {"agent-restart", "backhaul-loss"} /\ pc = "captures" => Lasting
  /\ pc \in {"stop", "write", "forget", "restart"} => Lasting
  /\ pc \in {"write", "forget", "restart"} => Heard
  /\ Kinds = "backhaul-loss" /\ pc \in {"healthy", "cut", "outage", "restore"} => Lasting

\* ... and behind the barrier nobody meets the controller without its policy.
StartingController ==
  /\ pc \in Barrier => ~cleared /\ proc["transport"] # "active"
  /\ pc \in {"write-controller", "forget-controller", "restart-controller",
             "restart-helper", "restore-policy"} => Heard
  /\ pc = "resume" /\ status = "running" => Lasting /\ Heard

Disturbed == StartingClean /\ StartingAgain /\ StartingController

\* ... from there to the verdict ...
Recovering ==
  /\ Kinds # "negative" /\ pc \in {"poll", "clients", "dwell", "probe", "final"} =>
       Lasting /\ Heard
  /\ pc = "final" => {"wired", "wifi"} \subseteq since

\* ... and after it.
Recovered ==
  pc \in Ending /\ status = "passed" /\ Kinds # "negative" =>
    /\ since = {"contact", "wired", "wifi"} /\ ~cleared
    /\ policy \/ proc["controller"] # "active"
    /\ pc \in {"save", "summary"} =>
         tape.holds # {} /\ (Kinds = "clean" => "handshake" \in tape.holds)

Inv ==
  Typed /\ Returned /\ Written /\ Recorded /\ Disturbed /\ Recovering /\ Recovered
-----------------------------------------------------------------------------
(***************************************************************************)
(* The constants and the kinds of steps.                                   *)
(***************************************************************************)

LEMMA Bounds == MaxRuns \in Nat /\ MaxTroubles \in Nat
BY BaselineAssumption

\* An invocation has a first attempt.
LEMMA PlanLength ==
  ASSUME NEW p \in Plans
  PROVE  /\ Len(p) \in Nat /\ 1 \in 1..Len(p)
         /\ \A i \in 1..Len(p) : p[i] \in Kind
<1>1. p \in Seq(Kind) /\ p # <<>>
  BY BaselineAssumption
<1>2. QED
  BY <1>1

Starts == Invoke \/ Begin \/ Healthy \/ Captures
Collects == Halt \/ Note \/ Reset
Ends == Collect \/ Evidence \/ Save \/ Summary
Fails == Fail \/ FailCollecting \/ Killed
Disturbs == Pause \/ Resume \/ Cut \/ Outage \/ Restore
Recovers ==
  Poll \/ Dwell \/ Final \/ \E c \in {"wired", "wifi"} : Client(c)
Crashes == \E u \in Unit : Crash(u)

LEMMA NextCases ==
  ASSUME Next
  PROVE  \/ Starts \/ Collects \/ Clean \/ AgentRestart \/ ControllerRestart
         \/ Disturbs \/ Negative \/ Recovers \/ Ends \/ Fails \/ Crashes \/ Peers
BY DEF Next, Script, Failures, Starts, Collects, Ends, Fails, Disturbs, Recovers, Crashes

-----------------------------------------------------------------------------
(***************************************************************************)
(* The types.                                                              *)
(***************************************************************************)

\* The parts of the type.
ScriptType ==
  /\ plan \in Plans /\ mode \in Modes /\ at \in 1..Len(plan)
  /\ node \in 1..2 /\ runs \in 0..MaxRuns /\ troubles \in 0..MaxTroubles

RecordType ==
  /\ status \in {"running", "passed", "failed", "interrupted"}
  /\ disk \in [1..Len(plan) -> {"none", "running", "passed", "failed"}]
  /\ summary \in BOOLEAN /\ held \in BOOLEAN

UnitType ==
  /\ proc \in [Unit -> {"none", "active", "paused"} \cup Ended]
  /\ logged \subseteq Unit /\ \A u \in logged : proc[u] \in Ended
  /\ policy \in BOOLEAN /\ (policy => proc["controller"] = "active")
  /\ known \in BOOLEAN /\ (known => policy)
  /\ up \subseteq {"helper", "agent"} /\ \A u \in up : proc[u] = "active"

LabType ==
  /\ ap \in [Peer -> {"initial", "applied", "cleared"}]
  /\ link \in {"none", "up", "cut"}
  /\ psk \in {"good", "wrong"} /\ conf \in {"own", "mutated"}
  /\ tape \in [on: BOOLEAN, holds: SUBSET {"handshake", "traffic"}]
  /\ since \subseteq {"contact", "wired", "wifi"}
  /\ fresh \in BOOLEAN /\ cleared \in BOOLEAN /\ botched \in BOOLEAN

LEMMA TypeParts == Typed <=> ScriptType /\ RecordType /\ UnitType /\ LabType
<1>1. up \subseteq {u \in {"helper", "agent"} : proc[u] = "active"}
      <=> up \subseteq {"helper", "agent"} /\ \A u \in up : proc[u] = "active"
  OBVIOUS
<1>2. {known, fresh, cleared, botched} \subseteq BOOLEAN
      <=> known \in BOOLEAN /\ fresh \in BOOLEAN /\ cleared \in BOOLEAN /\ botched \in BOOLEAN
  OBVIOUS
<1>3. QED
  BY <1>1, <1>2 DEF Typed, TypeOK, ScriptType, RecordType, UnitType, LabType

LEMMA InitTyped == Init => Typed
<1> SUFFICES ASSUME Init PROVE Typed
  OBVIOUS
<1>1. ScriptType
  <2>1. plan \in Plans /\ at \in 1..Len(plan)
    BY PlanLength DEF Init
  <2>2. runs \in 0..MaxRuns /\ troubles \in 0..MaxTroubles
    BY Bounds DEF Init
  <2>3. QED
    BY <2>1, <2>2 DEF Init, ScriptType
<1>2. RecordType
  BY DEF Init, RecordType
<1>3. UnitType
  BY DEF Init, UnitType, Unit
<1>4. LabType
  BY DEF Init, LabType, Peer
<1>5. QED
  BY <1>1, <1>2, <1>3, <1>4, TypeParts

LEMMA ScriptTyped == ASSUME ScriptType, Next PROVE ScriptType'
<1> USE DEF ScriptType
<1>1. CASE Invoke
  <2>1. plan' \in Plans /\ at' = 1 /\ node' = 1 /\ mode' \in Modes
    BY <1>1 DEF Invoke
  <2>2. at' \in 1..Len(plan')
    BY <2>1, PlanLength
  <2>3. runs' \in 0..MaxRuns /\ troubles' = troubles
    BY <1>1, Bounds DEF Invoke
  <2>4. QED
    BY <2>1, <2>2, <2>3
<1>2. CASE Reset
  BY <1>2 DEF Reset
<1>3. CASE Summary
  BY <1>3, PlanLength DEF Summary
<1>4. CASE UNCHANGED <<script, troubles>>
  BY <1>4 DEF script
<1>5. CASE UNCHANGED script /\ Trouble
  BY <1>5, Bounds DEF script, Trouble
<1>6. Next => \/ Invoke \/ Reset \/ Summary
              \/ UNCHANGED <<script, troubles>>
              \/ UNCHANGED script /\ Trouble
  <2>1. Halt \/ Note \/ Begin \/ Healthy \/ Captures => UNCHANGED <<script, troubles>>
    BY DEF Halt, Note, Begin, Healthy, Captures
  <2>2. Clean => UNCHANGED <<script, troubles>>
    BY DEF Clean, Prepare, Launch, Policy, ControllerApplied, Bootstrap
  <2>3. AgentRestart \/ ControllerRestart => UNCHANGED <<script, troubles>>
    BY DEF AgentRestart, ControllerRestart, Stop, WriteResult, ResetResult, Launch, Policy,
           script
  <2>4. Disturbs \/ Negative => UNCHANGED <<script, troubles>>
    BY DEF Disturbs, Pause, Resume, Cut, Outage, Restore,
           Negative, WrongKey, Rejected, RightKey, Edit, OwnConf
  <2>5. Recovers \/ Collect \/ Evidence \/ Save => UNCHANGED <<script, troubles>>
    BY DEF Recovers, Poll, Client, Dwell, Final, Collect, Evidence, Save
  <2>6. Fails \/ Crashes => UNCHANGED script /\ Trouble
    BY DEF Fails, Fail, FailCollecting, Killed, Crashes, Crash
  <2>7. Peers => UNCHANGED <<script, troubles>>
    BY DEF Peers, Join, Contact, Lapse
  <2>8. QED
    BY <2>1, <2>2, <2>3, <2>4, <2>5, <2>6, <2>7, NextCases DEF Starts, Collects, Ends
<1>7. QED
  BY <1>1, <1>2, <1>3, <1>4, <1>5, <1>6

LEMMA RecordTyped == ASSUME ScriptType, RecordType, Next PROVE RecordType'
<1> USE DEF RecordType
<1>1. CASE Starts
  <2>1. CASE Invoke
    BY <2>1 DEF Invoke
  <2>2. CASE Begin
    BY <2>2 DEF Begin, script, ScriptType
  <2>3. CASE Healthy \/ Captures
    BY <2>3 DEF Healthy, Captures, script, record
  <2>4. QED
    BY <1>1, <2>1, <2>2, <2>3 DEF Starts
<1>2. CASE Collects
  BY <1>2 DEF Collects, Halt, Note, Reset, script, record
<1>3. CASE Clean
  BY <1>3 DEF Clean, Prepare, Launch, Policy, ControllerApplied, Bootstrap, script, record
<1>4. CASE AgentRestart
  BY <1>4 DEF AgentRestart, Stop, WriteResult, ResetResult, Launch, script, record
<1>5. CASE ControllerRestart
  BY <1>5 DEF ControllerRestart, Stop, WriteResult, ResetResult, Launch, Policy, script, record
<1>6. CASE Disturbs
  BY <1>6 DEF Disturbs, Pause, Resume, Cut, Outage, Restore, script, record
<1>7. CASE Negative
  BY <1>7 DEF Negative, WrongKey, Rejected, RightKey, Edit, OwnConf, script, record
<1>8. CASE Recovers
  <2>1. held' \in BOOLEAN
    BY <1>8 DEF Recovers, Poll, Client, Dwell, Final, Ready
  <2>2. QED
    BY <1>8, <2>1 DEF Recovers, Poll, Client, Dwell, Final, script, record
<1>9. CASE Ends
  <2>1. plan' = plan /\ held' = held /\ summary' \in BOOLEAN
    BY <1>9 DEF Ends, Collect, Evidence, Save, Summary, script, record
  <2>2. status' \in {"running", "passed", "failed", "interrupted"}
    BY <1>9 DEF Ends, Collect, Evidence, Save, Summary, script, record
  <2>3. disk' \in [1..Len(plan) -> {"none", "running", "passed", "failed"}]
    BY <1>9 DEF Ends, Collect, Evidence, Save, Summary, script, record
  <2>4. QED
    BY <2>1, <2>2, <2>3
<1>10. CASE Fails \/ Crashes
  BY <1>10 DEF Fails, Fail, FailCollecting, Killed, Crashes, Crash, script, record
<1>11. CASE Peers
  BY <1>11 DEF Peers, Join, Contact, Lapse, script, record
<1>12. QED
  BY <1>1, <1>2, <1>3, <1>4, <1>5, <1>6, <1>7, <1>8, <1>9, <1>10, <1>11, NextCases

LEMMA LabTyped == ASSUME UnitType, LabType, Next PROVE LabType'
<1> USE DEF LabType
<1>1. CASE Starts
  <2>1. CASE Captures
    <3>1. fresh' \in BOOLEAN
      BY <2>1 DEF Captures
    <3>2. tape' \in [on: BOOLEAN, holds: SUBSET {"handshake", "traffic"}]
      BY <2>1 DEF Captures
    <3>3. QED
      BY <2>1, <3>1, <3>2 DEF Captures, lab
  <2>2. CASE Begin
    BY <2>2 DEF Begin, native, lab
  <2>3. CASE Invoke \/ Healthy
    BY <2>3 DEF Invoke, Healthy, native, lab, story
  <2>4. QED
    BY <1>1, <2>1, <2>2, <2>3 DEF Starts
<1>2. CASE Collects
  BY <1>2 DEF Collects, Halt, Note, Reset, native, lab, story
<1>3. CASE Clean
  BY <1>3 DEF Clean, Prepare, Launch, Policy, ControllerApplied, Bootstrap, native, lab, story
<1>4. CASE AgentRestart
  BY <1>4 DEF AgentRestart, Stop, WriteResult, ResetResult, Launch, native, lab, story
<1>5. CASE ControllerRestart
  BY <1>5 DEF ControllerRestart, Stop, WriteResult, ResetResult, Launch, Policy,
              native, lab, story
<1>6. CASE Disturbs
  BY <1>6 DEF Disturbs, Pause, Resume, Cut, Outage, Restore, native, lab, story
<1>7. CASE Negative
  BY <1>7 DEF Negative, WrongKey, Rejected, RightKey, Edit, OwnConf, native, lab, story
<1>8. CASE Recovers
  BY <1>8 DEF Recovers, Poll, Client, Dwell, Final, native, lab, story
<1>9. CASE Ends
  BY <1>9 DEF Ends, Collect, Evidence, Save, Summary, native, lab, story
<1>10. CASE Fails \/ Crashes
  <2>1. UNCHANGED <<ap, link, conf, since, fresh, cleared>> /\ psk' \in {psk, "wrong"}
    BY <1>10 DEF Fails, Fail, FailCollecting, Killed, Crashes, Crash, native, lab, story
  <2>2. botched' \in BOOLEAN
    BY <1>10 DEF Fails, Fail, FailCollecting, Killed, Crashes, Crash
  <2>3. tape' \in [on: BOOLEAN, holds: SUBSET {"handshake", "traffic"}]
    BY <1>10 DEF Fails, Fail, FailCollecting, Killed, Crashes, Crash, story
  <2>4. QED
    BY <2>1, <2>2, <2>3
<1>11. CASE Contact
  BY <1>11 DEF Contact, Seen, native, lab
<1>12. ASSUME NEW u \in {"helper", "agent"}, Join(u) PROVE LabType'
  <2>1. UNCHANGED <<lab, botched>> /\ fresh' \in BOOLEAN
    BY <1>12 DEF Join
  <2>2. since' \subseteq {"contact", "wired", "wifi"}
    BY <1>12 DEF Join
  <2>3. tape' \in [on: BOOLEAN, holds: SUBSET {"handshake", "traffic"}]
    BY <1>12 DEF Join, Seen
  <2>4. ap' \in [Peer -> {"initial", "applied", "cleared"}]
    BY <1>12 DEF Join
  <2>5. cleared' \in BOOLEAN
    BY <1>12 DEF Join
  <2>6. QED
    BY <2>1, <2>2, <2>3, <2>4, <2>5 DEF lab
<1>13. ASSUME NEW u \in {"helper", "agent"}, Lapse(u) PROVE LabType'
  BY <1>13 DEF Lapse, lab, story
<1>14. QED
  BY <1>1, <1>2, <1>3, <1>4, <1>5, <1>6, <1>7, <1>8, <1>9, <1>10, <1>11, <1>12, <1>13,
     NextCases DEF Peers

-----------------------------------------------------------------------------
(***************************************************************************)
(* The units.                                                              *)
(***************************************************************************)

\* A step that does nothing to them.
Steady == UNCHANGED <<proc, policy, up, known, logged>>

LEMMA SteadySteps ==
  ASSUME \/ Invoke \/ Begin \/ Healthy \/ Prepare \/ ControllerApplied \/ Bootstrap
         \/ Cut \/ Outage \/ Restore \/ Negative \/ Recovers \/ Evidence \/ Save \/ Summary
         \/ FailCollecting \/ Killed \/ Contact
  PROVE  Steady
<1> USE DEF Steady, native, record
<1>1. CASE Invoke \/ Begin \/ Healthy
  BY <1>1 DEF Invoke, Begin, Healthy
<1>2. CASE Prepare \/ ControllerApplied \/ Bootstrap
  BY <1>2 DEF Prepare, ControllerApplied, Bootstrap
<1>3. CASE Cut \/ Outage \/ Restore
  BY <1>3 DEF Cut, Outage, Restore
<1>4. CASE Negative
  BY <1>4 DEF Negative, WrongKey, Rejected, RightKey, Edit, OwnConf
<1>5. CASE Recovers
  BY <1>5 DEF Recovers, Poll, Client, Dwell, Final
<1>6. CASE Evidence \/ Save \/ Summary
  BY <1>6 DEF Evidence, Save, Summary
<1>7. CASE FailCollecting \/ Killed \/ Contact
  BY <1>7 DEF FailCollecting, Killed, Contact
<1>8. QED
  BY <1>1, <1>2, <1>3, <1>4, <1>5, <1>6, <1>7

LEMMA LaunchUnits ==
  ASSUME UnitType, NEW place, NEW units \in SUBSET Unit, NEW next, Launch(place, units, next)
  PROVE  UnitType'
<1> USE DEF UnitType, Ended
<1>1. /\ \A u \in units : proc[u] = "none"
      /\ proc' = [u \in Unit |-> IF u \in units THEN "active" ELSE proc[u]]
      /\ UNCHANGED <<policy, up, known, logged>>
  BY DEF Launch, record
<1>2. proc' \in [Unit -> {"none", "active", "paused"} \cup Ended]
  BY <1>1
<1>3. \A u \in logged' : proc'[u] \in Ended
  BY <1>1
<1>4. \A u \in up' : proc'[u] = "active"
  BY <1>1 DEF Unit
<1>5. "controller" \in Unit
  BY DEF Unit
<1>6. QED
  BY <1>1, <1>2, <1>3, <1>4, <1>5

\* A unit ends, by itself or because it is stopped.
LEMMA EndUnits ==
  ASSUME UnitType, NEW u \in Unit, proc[u] = "active", NEW r \in Ended,
         proc' = [proc EXCEPT ![u] = r], Gone({u}), logged' = logged
  PROVE  UnitType'
<1> USE DEF UnitType, Ended
<1>1. proc' \in [Unit -> {"none", "active", "paused"} \cup Ended]
  OBVIOUS
<1>2. \A v \in logged' : proc'[v] \in Ended
  OBVIOUS
<1>3. up' = up \ {u}
  BY DEF Gone
<1>4. up' \subseteq {"helper", "agent"} /\ \A v \in up' : proc'[v] = "active"
  BY <1>3 DEF Unit
<1>5. policy' = (policy /\ u # "controller") /\ known' = (known /\ u # "controller")
  BY DEF Gone
<1>6. /\ policy' \in BOOLEAN /\ known' \in BOOLEAN /\ (known' => policy')
      /\ (policy' => proc'["controller"] = "active")
  BY <1>5 DEF Unit
<1>7. QED
  BY <1>1, <1>2, <1>4, <1>6

LEMMA ForgetUnits ==
  ASSUME UnitType, NEW units \in SUBSET Unit, Forget(units),
         UNCHANGED <<policy, up, known>>
  PROVE  UnitType'
<1> USE DEF UnitType, Ended
<1>1. /\ proc' = [u \in Unit |-> IF u \in units /\ proc[u] \in Ended THEN "none" ELSE proc[u]]
      /\ logged' = logged \ units
  BY DEF Forget
<1>2. proc' \in [Unit -> {"none", "active", "paused"} \cup Ended]
  BY <1>1
<1>3. \A u \in logged' : proc'[u] \in Ended
  BY <1>1
<1>4. \A u \in up' : proc'[u] = "active"
  BY <1>1 DEF Unit
<1>5. policy' => proc'["controller"] = "active"
  BY <1>1 DEF Unit
<1>6. QED
  BY <1>1, <1>2, <1>3, <1>4, <1>5

LEMMA HaltUnits == ASSUME ScriptType, UnitType, Halt PROVE UnitType'
<1> USE DEF UnitType, Ended
<1> DEFINE units == UnitsOf[node]
<1>1. PICK bad \in SUBSET units :
        proc' = [u \in Unit |->
          IF u \notin units \/ proc[u] \notin {"active", "paused"} THEN proc[u]
          ELSE IF u \in bad \/ proc[u] = "paused" THEN "failed" ELSE "success"]
  BY DEF Halt
<1>2. Gone(units) /\ logged' = logged
  BY DEF Halt, record
<1> HIDE DEF units
<1>3. proc' \in [Unit -> {"none", "active", "paused"} \cup Ended]
  BY <1>1
<1>4. \A u \in logged' : proc'[u] \in Ended
  BY <1>1, <1>2
<1>5. up' = up \ units
  BY <1>2 DEF Gone
<1>6. \A u \in up' : proc'[u] = "active"
  BY <1>1, <1>5 DEF Unit
<1>7. /\ policy' = (policy /\ "controller" \notin units)
      /\ known' = (known /\ "controller" \notin units)
  BY <1>2 DEF Gone
<1>8. "controller" \notin units => proc'["controller"] = proc["controller"]
  BY <1>1 DEF Unit
<1>9. /\ policy' \in BOOLEAN /\ known' \in BOOLEAN /\ (known' => policy')
      /\ (policy' => proc'["controller"] = "active")
  BY <1>7, <1>8
<1>10. QED
  BY <1>2, <1>3, <1>4, <1>5, <1>6, <1>9

\* A stopped transport, and one that goes on.
LEMMA SignalUnits ==
  ASSUME UnitType, proc["transport"] \in {"active", "paused"},
         NEW now \in {"active", "paused"}, proc' = [proc EXCEPT !["transport"] = now],
         UNCHANGED <<policy, up, known, logged>>
  PROVE  UnitType'
<1> USE DEF UnitType, Ended
<1>1. proc' \in [Unit -> {"none", "active", "paused"} \cup Ended]
  OBVIOUS
<1>2. \A u \in Unit : u # "transport" => proc'[u] = proc[u]
  OBVIOUS
<1>3. \A u \in logged' : proc'[u] \in Ended
  BY <1>2
<1>4. \A u \in up' : proc'[u] = "active"
  BY <1>2 DEF Unit
<1>5. policy' => proc'["controller"] = "active"
  BY <1>2 DEF Unit
<1>6. QED
  BY <1>1, <1>3, <1>4, <1>5

LEMMA StopUnits ==
  ASSUME UnitType, NEW place, NEW u \in Unit, NEW next, Stop(place, u, next)
  PROVE  UnitType'
<1>1. PICK r \in Ended : proc' = [proc EXCEPT ![u] = r]
  BY DEF Stop
<1>2. proc[u] = "active" /\ Gone({u}) /\ logged' = logged
  BY DEF Stop, record
<1>3. QED
  BY <1>1, <1>2, EndUnits

LEMMA ResetUnits ==
  ASSUME UnitType, NEW place, NEW u \in Unit, NEW next, ResetResult(place, u, next)
  PROVE  UnitType'
BY ForgetUnits DEF ResetResult

LEMMA WriteUnits ==
  ASSUME UnitType, NEW place, NEW u \in Unit, NEW next, WriteResult(place, u, next),
         proc[u] \in Ended
  PROVE  UnitType'
BY DEF WriteResult, UnitType, native

LEMMA PolicyUnits ==
  ASSUME UnitType, NEW place, NEW next, Policy(place, next)
  PROVE  UnitType'
BY DEF Policy, UnitType, record

\* Units that were stopped have ended; nothing that runs has its end on record.
LEMMA UnitTyped == ASSUME Written, ScriptType, UnitType, Next PROVE UnitType'
<1>1. CASE Steady
  BY <1>1 DEF Steady, UnitType
<1>2. CASE Captures
  <2>1. /\ \A u \in {"capture"} : proc[u] = "none"
        /\ proc' = [proc EXCEPT !["capture"] = "active"]
        /\ UNCHANGED <<policy, up, known, logged>>
    BY <1>2 DEF Captures, record
  <2>2. QED
    BY <2>1 DEF UnitType, Ended, Unit
<1>3. CASE Halt
  BY <1>3, HaltUnits
<1>4. CASE Note
  <2>1. /\ logged' \subseteq logged \cup {u \in UnitsOf[node] : proc[u] \in Ended}
        /\ UNCHANGED <<proc, policy, up, known>>
    BY <1>4 DEF Note, native
  <2>2. UnitsOf[node] \subseteq Unit
    BY DEF ScriptType, UnitsOf, Unit
  <2>3. QED
    BY <2>1, <2>2 DEF UnitType
<1>5. CASE Reset
  <2>1. UnitsOf[node] \in SUBSET Unit
    BY DEF ScriptType, UnitsOf, Unit
  <2>2. QED
    BY <1>5, <2>1, ForgetUnits DEF Reset
<1>6. CASE Clean
  <2>1. {"transport", "controller"} \in SUBSET Unit /\ {"helper"} \in SUBSET Unit
        /\ {"agent"} \in SUBSET Unit
    BY DEF Unit
  <2>2. QED
    BY <1>1, <1>6, <2>1, LaunchUnits, PolicyUnits, SteadySteps DEF Clean
<1>7. CASE AgentRestart
  <2>1. "agent" \in Unit /\ {"agent"} \in SUBSET Unit
    BY DEF Unit
  <2>2. WriteResult("write", "agent", "forget") => proc["agent"] \in Ended
    BY DEF WriteResult, Written
  <2>3. QED
    BY <1>7, <2>1, <2>2, LaunchUnits, StopUnits, WriteUnits, ResetUnits DEF AgentRestart
<1>8. CASE ControllerRestart
  <2>1. /\ "helper" \in Unit /\ {"helper"} \in SUBSET Unit
        /\ "controller" \in Unit /\ {"controller"} \in SUBSET Unit
    BY DEF Unit
  <2>2. /\ WriteResult("write-helper", "helper", "forget-helper") => proc["helper"] \in Ended
        /\ WriteResult("write-controller", "controller", "forget-controller")
             => proc["controller"] \in Ended
    BY DEF WriteResult, Written
  <2>3. QED
    BY <1>8, <2>1, <2>2, LaunchUnits, StopUnits, WriteUnits, ResetUnits, PolicyUnits
       DEF ControllerRestart
<1>9. CASE Pause
  BY <1>9, SignalUnits DEF Pause, record
<1>10. CASE Resume
  <2>1. CASE proc["transport"] = "paused"
    <3>1. proc' = [proc EXCEPT !["transport"] = "active"]
      BY <1>10, <2>1 DEF Resume
    <3>2. QED
      BY <1>10, <2>1, <3>1, SignalUnits DEF Resume, record
  <2>2. CASE proc["transport"] # "paused"
    <3>1. proc' = proc
      BY <1>10, <2>2 DEF Resume, UnitType
    <3>2. QED
      BY <1>1, <1>10, <3>1 DEF Resume, record, Steady
  <2>3. QED
    BY <2>1, <2>2
<1>11. CASE Collect
  <2>1. /\ proc' = [proc EXCEPT !["capture"] = "none"] /\ logged' = logged \ {"capture"}
        /\ UNCHANGED <<policy, up, known>>
    BY <1>11 DEF Collect
  <2>2. QED
    BY <2>1 DEF UnitType, Unit, Ended
<1>12. CASE Fail
  <2>1. /\ \/ proc' = proc
           \/ /\ proc["transport"] = "active"
              /\ proc' = [proc EXCEPT !["transport"] = "paused"]
        /\ UNCHANGED <<policy, up, known, logged>>
    BY <1>12 DEF Fail, record
  <2>2. QED
    BY <1>1, <2>1, SignalUnits DEF Steady
<1>13. ASSUME NEW u \in Unit, Crash(u) PROVE UnitType'
  <2>1. "failed" \in Ended /\ logged' = logged
    BY <1>13 DEF Ended, Crash, record
  <2>2. QED
    BY <1>13, <2>1, EndUnits DEF Crash
<1>14. ASSUME NEW u \in {"helper", "agent"}, Join(u) PROVE UnitType'
  <2>1. /\ UNCHANGED <<proc, policy, logged>> /\ up' = up \cup {u} /\ proc[u] = "active"
        /\ known' = known \/ known' = policy
    BY <1>14 DEF Join, Carried, record
  <2>2. QED
    BY <2>1 DEF UnitType
<1>15. ASSUME NEW u \in {"helper", "agent"}, Lapse(u) PROVE UnitType'
  <2>1. UNCHANGED <<proc, policy, known, logged>> /\ up' = up \ {u}
    BY <1>15 DEF Lapse, record
  <2>2. QED
    BY <2>1 DEF UnitType
<1>16. QED
  BY <1>1, <1>2, <1>3, <1>4, <1>5, <1>6, <1>7, <1>8, <1>9, <1>10, <1>11, <1>12, <1>13, <1>14,
     <1>15, SteadySteps, NextCases DEF Starts, Collects, Disturbs, Ends, Fails, Crashes, Peers

LEMMA StepTyped == ASSUME Typed, Written, Next PROVE Typed'
<1>1. Typed' <=> ScriptType' /\ RecordType' /\ UnitType' /\ LabType'
  BY TypeParts, PTL
<1>2. QED
  BY <1>1, TypeParts, ScriptTyped, RecordTyped, UnitTyped, LabTyped

-----------------------------------------------------------------------------
(***************************************************************************)
(* What is taken away is given back.                                       *)
(***************************************************************************)

LEMMA InitReturned == Init => Returned
BY DEF Init, Returned, Unit

\* The transport is only stopped by the barrier, and leaves it running.
LEMMA TransportReturned ==
  ASSUME Typed, Next,
         ~botched /\ proc["transport"] = "paused" => pc \in Barrier \cup {"resume"}
  PROVE  ~botched' /\ proc'["transport"] = "paused" => pc' \in Barrier \cup {"resume"}
<1>1. "transport" \in Unit /\ proc \in [Unit -> {"none", "active", "paused"} \cup Ended]
  BY DEF Unit, Typed, TypeOK
<1>2. CASE Starts
  BY <1>1, <1>2 DEF Starts, Invoke, Begin, Healthy, Captures, native, Barrier
<1>3. CASE Collects
  BY <1>1, <1>3 DEF Collects, Halt, Note, Reset, Forget, native, Barrier
<1>4. CASE Clean
  BY <1>1, <1>4 DEF Clean, Prepare, Launch, Policy, ControllerApplied, Bootstrap, native, Barrier
<1>5. CASE AgentRestart
  BY <1>1, <1>5 DEF AgentRestart, Stop, WriteResult, ResetResult, Forget, Launch, native, Barrier
<1>6. CASE ControllerRestart
  BY <1>6 DEF ControllerRestart, Stop, WriteResult, ResetResult, Launch, Policy, Barrier
<1>7. CASE Disturbs
  BY <1>1, <1>7 DEF Disturbs, Pause, Resume, Cut, Outage, Restore, native, Barrier
<1>8. CASE Negative
  BY <1>8 DEF Negative, WrongKey, Rejected, RightKey, Edit, OwnConf, native, Barrier
<1>9. CASE Recovers
  BY <1>9 DEF Recovers, Poll, Client, Dwell, Final, native, Barrier
<1>10. CASE Ends
  BY <1>1, <1>10 DEF Ends, Collect, Evidence, Save, Summary, native, Barrier
<1>11. CASE Fail
  BY <1>1, <1>11 DEF Fail, Handler, Barrier, Restoring
<1>12. CASE FailCollecting \/ Killed
  BY <1>1, <1>12 DEF FailCollecting, Killed, native, Barrier, Restoring
<1>13. CASE Crashes \/ Peers
  BY <1>1, <1>13 DEF Crashes, Crash, Peers, Join, Contact, Lapse, native
<1>14. QED
  BY <1>2, <1>3, <1>4, <1>5, <1>6, <1>7, <1>8, <1>9, <1>10, <1>11, <1>12, <1>13, NextCases
     DEF Fails

LEMMA BackhaulReturned ==
  ASSUME Typed, Next, ~botched /\ link = "cut" => pc \in {"outage", "restore"}
  PROVE  ~botched' /\ link' = "cut" => pc' \in {"outage", "restore"}
<1>2. CASE Starts
  BY <1>2 DEF Starts, Invoke, Begin, Healthy, Captures, lab
<1>3. CASE Collects
  BY <1>3 DEF Collects, Halt, Note, Reset, lab
<1>4. CASE Clean
  BY <1>4 DEF Clean, Prepare, Launch, Policy, ControllerApplied, Bootstrap, lab
<1>5. CASE AgentRestart
  BY <1>5 DEF AgentRestart, Stop, WriteResult, ResetResult, Launch, lab
<1>6. CASE ControllerRestart
  BY <1>6 DEF ControllerRestart, Stop, WriteResult, ResetResult, Launch, Policy, lab
<1>7. CASE Disturbs
  BY <1>7 DEF Disturbs, Pause, Resume, Cut, Outage, Restore, lab
<1>8. CASE Negative
  BY <1>8 DEF Negative, WrongKey, Rejected, RightKey, Edit, OwnConf, lab
<1>9. CASE Recovers
  BY <1>9 DEF Recovers, Poll, Client, Dwell, Final, lab
<1>10. CASE Ends
  BY <1>10 DEF Ends, Collect, Evidence, Save, Summary, lab
<1>11. CASE Fails
  BY <1>11 DEF Fails, Fail, FailCollecting, Killed, Handler, Barrier, Restoring, lab
<1>12. CASE Crashes \/ Peers
  BY <1>12 DEF Crashes, Crash, Peers, Join, Contact, Lapse, lab
<1>13. QED
  BY <1>2, <1>3, <1>4, <1>5, <1>6, <1>7, <1>8, <1>9, <1>10, <1>11, <1>12, NextCases

LEMMA KeyReturned ==
  ASSUME Typed, Next,
         ~botched /\ psk = "wrong" => pc \in {"rejected", "right-key"},
         ~botched /\ conf = "mutated" => pc \in {"edit", "own-conf"}
  PROVE  /\ ~botched' /\ psk' = "wrong" => pc' \in {"rejected", "right-key"}
         /\ ~botched' /\ conf' = "mutated" => pc' \in {"edit", "own-conf"}
<1>2. CASE Starts
  BY <1>2 DEF Starts, Invoke, Begin, Healthy, Captures, lab
<1>3. CASE Collects
  BY <1>3 DEF Collects, Halt, Note, Reset, lab
<1>4. CASE Clean
  BY <1>4 DEF Clean, Prepare, Launch, Policy, ControllerApplied, Bootstrap, lab
<1>5. CASE AgentRestart
  BY <1>5 DEF AgentRestart, Stop, WriteResult, ResetResult, Launch, lab
<1>6. CASE ControllerRestart
  BY <1>6 DEF ControllerRestart, Stop, WriteResult, ResetResult, Launch, Policy, lab
<1>7. CASE Disturbs
  BY <1>7 DEF Disturbs, Pause, Resume, Cut, Outage, Restore, lab
<1>8. CASE Negative
  BY <1>8 DEF Negative, WrongKey, Rejected, RightKey, Edit, OwnConf, lab
<1>9. CASE Recovers
  BY <1>9 DEF Recovers, Poll, Client, Dwell, Final, lab
<1>10. CASE Ends
  BY <1>10 DEF Ends, Collect, Evidence, Save, Summary, lab
<1>11. CASE Fails
  BY <1>11 DEF Fails, Fail, FailCollecting, Killed, Handler, Barrier, Restoring, lab
<1>12. CASE Crashes \/ Peers
  BY <1>12 DEF Crashes, Crash, Peers, Join, Contact, Lapse, lab
<1>13. QED
  BY <1>2, <1>3, <1>4, <1>5, <1>6, <1>7, <1>8, <1>9, <1>10, <1>11, <1>12, NextCases

LEMMA StepReturned == ASSUME Typed, Returned, Next PROVE Returned'
BY TransportReturned, BackhaulReturned, KeyReturned DEF Returned

-----------------------------------------------------------------------------
(***************************************************************************)
(* What has ended is on record before it is forgotten.                     *)
(***************************************************************************)

LEMMA InitWritten == Init => Written
BY DEF Init, Written

\* Away from the places at which something has ended, there is nothing to show.
Elsewhere ==
  /\ pc \notin {"halt", "note", "reset", "write", "forget", "write-helper", "forget-helper",
                "write-controller", "forget-controller"}
  /\ node = 1 \/ pc = "idle"

LEMMA ElsewhereWritten == Elsewhere => Written
BY DEF Elsewhere, Written

\* While the script stays where it is, a unit may end.
LEMMA EndWritten ==
  ASSUME Typed, Written, UNCHANGED <<pc, node, logged>>,
         NEW u \in Unit, proc[u] = "active", proc' = [proc EXCEPT ![u] = "failed"]
  PROVE  Written'
<1>1. proc \in [Unit -> {"none", "active", "paused"} \cup Ended] /\ node \in 1..2
  BY DEF Typed, TypeOK
<1>2. \A v \in Unit : v # u => proc'[v] = proc[v]
  BY <1>1
<1>3. proc'[u] = "failed"
  BY <1>1
<1>4. \A v \in 1..2 : UnitsOf[v] \subseteq Unit
  BY DEF UnitsOf, Unit
<1>5. \A v \in 1..2 : Halted(UnitsOf[v]) => Halted(UnitsOf[v])'
  BY <1>1, <1>2, <1>3, <1>4 DEF Halted
<1>6. (pc \in {"note", "reset"} => Halted(UnitsOf[node]))'
      /\ (pc \in {"halt", "note", "reset"} /\ node = 2 => Halted(UnitsOf[1]))'
  BY <1>1, <1>5 DEF Written
<1>7. ASSUME pc = "reset" PROVE u \notin UnitsOf[node]
  BY <1>1, <1>7 DEF Written, Halted
<1>8. (pc = "reset" => \A v \in UnitsOf[node] : proc[v] \in Ended => v \in logged)'
  BY <1>1, <1>2, <1>4, <1>7 DEF Written
<1>9. \A v \in Unit : proc[v] \in Ended => proc'[v] \in Ended
  BY <1>2, <1>3 DEF Ended
<1>10. {"agent", "helper", "controller"} \subseteq Unit
  BY DEF Unit
<1>11. QED
  BY <1>6, <1>8, <1>9, <1>10 DEF Written

LEMMA CollectsWritten == ASSUME Typed, Written, Collects PROVE Written'
<1>1. /\ proc \in [Unit -> {"none", "active", "paused"} \cup Ended] /\ node \in 1..2
      /\ \A v \in 1..2 : UnitsOf[v] \subseteq Unit
  BY DEF Typed, TypeOK, UnitsOf, Unit
<1>2. UnitsOf[1] \cap UnitsOf[2] = {}
  BY DEF UnitsOf
<1>3. CASE Halt
  <2>1. PICK bad \in SUBSET UnitsOf[node] :
          proc' = [u \in Unit |->
            IF u \notin UnitsOf[node] \/ proc[u] \notin {"active", "paused"} THEN proc[u]
            ELSE IF u \in bad \/ proc[u] = "paused" THEN "failed" ELSE "success"]
    BY <1>3 DEF Halt
  <2>2. node' = node /\ pc = "halt" /\ pc' = "note"
    BY <1>3 DEF Halt, script
  <2>3. \A u \in UnitsOf[node] : proc'[u] \notin {"active", "paused"}
    BY <1>1, <2>1
  <2>4. node = 2 => \A u \in UnitsOf[1] : proc'[u] = proc[u]
    BY <1>1, <1>2, <2>1
  <2>5. node = 2 => \A u \in UnitsOf[1] : proc'[u] \notin {"active", "paused"}
    BY <2>2, <2>4 DEF Written, Halted
  <2>6. QED
    BY <2>2, <2>3, <2>5 DEF Written, Halted
<1>4. CASE Note
  <2>1. /\ UNCHANGED <<node, proc>> /\ pc = "note" /\ pc' = "reset"
        /\ logged' = logged \cup {u \in UnitsOf[node] : proc[u] \in Ended}
    BY <1>4 DEF Note, script, native
  <2>2. QED
    BY <2>1 DEF Written, Halted
<1>5. CASE Reset
  <2>1. CASE node = 2
    BY <1>5, <2>1 DEF Reset, Written
  <2>2. CASE node = 1
    <3>1. pc = "reset" /\ pc' = "halt" /\ node' = 2
      BY <1>5, <2>2 DEF Reset
    <3>2. \A u \in UnitsOf[1] : proc'[u] \in {proc[u], "none"}
      BY <1>1, <1>5 DEF Reset, Forget
    <3>3. \A u \in UnitsOf[1] : proc'[u] \notin {"active", "paused"}
      BY <2>2, <3>1, <3>2 DEF Written, Halted
    <3>4. QED
      BY <3>1, <3>3 DEF Written, Halted
  <2>3. QED
    BY <1>1, <2>1, <2>2
<1>6. QED
  BY <1>3, <1>4, <1>5 DEF Collects

LEMMA RestartsWritten ==
  ASSUME Typed, Written, AgentRestart \/ ControllerRestart PROVE Written'
<1>1. proc \in [Unit -> {"none", "active", "paused"} \cup Ended]
      /\ "agent" \in Unit /\ "helper" \in Unit /\ "controller" \in Unit
  BY DEF Typed, TypeOK, Unit
<1>2. CASE Stop("stop", "agent", "write")
  BY <1>1, <1>2 DEF Stop, Written, script
<1>3. CASE Stop("stop-helper", "helper", "write-helper")
  BY <1>1, <1>3 DEF Stop, Written, script
<1>4. CASE Stop("stop-controller", "controller", "write-controller")
  BY <1>1, <1>4 DEF Stop, Written, script
<1>5. CASE WriteResult("write", "agent", "forget")
  BY <1>5 DEF WriteResult, Written, native, script
<1>6. CASE WriteResult("write-helper", "helper", "forget-helper")
  BY <1>6 DEF WriteResult, Written, native, script
<1>7. CASE WriteResult("write-controller", "controller", "forget-controller")
  BY <1>7 DEF WriteResult, Written, native, script
<1>8. CASE Elsewhere'
  BY <1>8, ElsewhereWritten, PTL
<1>9. AgentRestart \/ ControllerRestart
        => node' = node /\ pc \notin {"halt", "note", "reset", "idle"}
  BY DEF AgentRestart, ControllerRestart, Stop, WriteResult, ResetResult, Launch, Policy, script
<1>10. QED
  BY <1>2, <1>3, <1>4, <1>5, <1>6, <1>7, <1>8, <1>9
     DEF AgentRestart, ControllerRestart, ResetResult, Launch, Policy, Elsewhere, Written

LEMMA StepWritten == ASSUME Typed, Written, Next PROVE Written'
<1>1. CASE Elsewhere'
  BY <1>1, ElsewhereWritten, PTL
<1>2. CASE UNCHANGED <<pc, node, logged, proc>>
  BY <1>2 DEF Written, Halted
<1>3. CASE Invoke
  BY <1>3 DEF Invoke, Enter, Written
<1>4. CASE Begin \/ Healthy \/ Captures \/ Clean
  <2>1. Kinds \in Kind
    BY PlanLength DEF Typed, TypeOK, Kinds
  <2>2. node' = node /\ pc \notin {"halt", "note", "reset", "idle"}
    BY <1>4 DEF Begin, Healthy, Captures, Clean, Prepare, Launch, Policy, ControllerApplied,
                Bootstrap, script
  <2>3. CASE Clean
    BY <1>1, <2>2, <2>3 DEF Clean, Prepare, Launch, Policy, ControllerApplied,
                Bootstrap, Elsewhere, Written
  <2>4. CASE Begin \/ Healthy \/ Captures
    BY <1>1, <2>1, <2>2, <2>4 DEF Begin, Healthy, Captures, Elsewhere, Written, Kind
  <2>5. QED
    BY <1>4, <2>3, <2>4
<1>5. CASE Disturbs \/ Negative
  <2>1. Elsewhere'
    BY <1>5 DEF Disturbs, Pause, Resume, Cut, Outage, Restore, Onwards, Negative, WrongKey,
                Rejected, RightKey, Edit, OwnConf, script, Elsewhere, Written
  <2>2. QED
    BY <1>1, <2>1
<1>6. CASE Recovers \/ Collect \/ Evidence \/ Save
  <2>1. Elsewhere'
    BY <1>6 DEF Recovers, Poll, Client, Dwell, Final, Collect, Evidence, Save, script,
                Elsewhere, Written
  <2>2. QED
    BY <1>1, <2>1
<1>7. CASE Summary
  BY <1>7 DEF Summary, Enter, Written
<1>8. CASE Fails
  <2>1. Elsewhere'
    BY <1>8 DEF Fails, Fail, FailCollecting, Killed, Handler, Preparing, script, Elsewhere,
                Written
  <2>2. QED
    BY <1>1, <2>1
<1>9. ASSUME NEW u \in Unit, Crash(u) PROVE Written'
  BY <1>9, EndWritten DEF Crash, script, record
<1>10. CASE Peers
  BY <1>2, <1>10 DEF Peers, Join, Contact, Lapse, script, record, native
<1>11. QED
  BY <1>3, <1>4, <1>5, <1>6, <1>7, <1>8, <1>9, <1>10, CollectsWritten, RestartsWritten,
     NextCases DEF Starts, Ends, Crashes

-----------------------------------------------------------------------------
(***************************************************************************)
(* The places of an attempt, and the records of its invocation.            *)
(***************************************************************************)

LEMMA KindOfAttempt == Typed => Kinds \in Kind
BY PlanLength DEF Typed, TypeOK, Kinds

LEMMA InitRecorded == Init => Recorded
<1> SUFFICES ASSUME Init PROVE Recorded
  OBVIOUS
<1>1. at = 1 /\ pc = "idle" /\ status = "running" /\ summary = FALSE
  BY DEF Init
<1>2. ~ \E i \in 1..Len(plan) : i < at
  BY <1>1
<1>3. QED
  BY <1>1, <1>2 DEF Recorded, Common

\* Each step leads to a place of the same kind of attempt, or to the end of one.
LEMMA PlaceKept ==
  ASSUME Typed, Recorded, Next, UNCHANGED <<plan, at>>
  PROVE  pc' \in Common \cup Special(Kinds)
<1>1. Kinds \in Kind /\ pc \in Common \cup Special(Kinds)
  BY KindOfAttempt DEF Recorded
<1> USE DEF Common, Special, Kind, Preparing, Ending
<1>2. CASE Invoke \/ Summary
  BY <1>2 DEF Invoke, Summary, Enter
<1>3. CASE Begin \/ Healthy \/ Captures
  BY <1>1, <1>3 DEF Begin, Healthy, Captures
<1>4. CASE Collects
  BY <1>4 DEF Collects, Halt, Note, Reset
<1>5. CASE Clean
  BY <1>1, <1>5 DEF Clean, Prepare, Launch, Policy, ControllerApplied, Bootstrap, Barrier
<1>6. CASE AgentRestart
  BY <1>1, <1>6 DEF AgentRestart, Stop, WriteResult, ResetResult, Launch, Barrier
<1>7. CASE ControllerRestart
  BY <1>1, <1>7 DEF ControllerRestart, Stop, WriteResult, ResetResult, Launch, Policy, Barrier
<1>8. CASE Disturbs
  BY <1>1, <1>8 DEF Disturbs, Pause, Resume, Cut, Outage, Restore, Onwards, Barrier
<1>9. CASE Negative
  BY <1>1, <1>9 DEF Negative, WrongKey, Rejected, RightKey, Edit, OwnConf, Onwards, Barrier
<1>10. CASE Recovers
  BY <1>1, <1>10 DEF Recovers, Poll, Client, Dwell, Final, Barrier
<1>11. CASE Collect \/ Evidence \/ Save
  BY <1>11 DEF Collect, Evidence, Save
<1>12. CASE Fails
  BY <1>1, <1>12 DEF Fails, Fail, FailCollecting, Killed, Handler, Barrier
<1>13. CASE Crashes \/ Peers
  BY <1>1, <1>13 DEF Crashes, Crash, Peers, Join, Contact, Lapse
<1>14. QED
  BY <1>2, <1>3, <1>4, <1>5, <1>6, <1>7, <1>8, <1>9, <1>10, <1>11, <1>12, <1>13, NextCases
     DEF Starts, Ends

LEMMA InvokeRecorded == ASSUME Typed, Invoke PROVE Recorded'
<1>1. /\ at' = 1 /\ summary' = FALSE /\ status' = status
      /\ pc' \in {"halt", "attempt"}
  BY DEF Invoke, Enter
<1>2. ~ \E i \in 1..Len(plan') : i < at'
  BY <1>1
<1>3. QED
  BY <1>1, <1>2 DEF Recorded, Common, Preparing, Kinds

\* An attempt that has passed is the last, or the next one begins.
LEMMA SummaryRecorded == ASSUME Typed, Recorded, Summary PROVE Recorded'
<1>1. /\ pc = "summary" /\ UNCHANGED <<plan, status, disk>>
      /\ (summary' <=> status = "passed" /\ at = Len(plan))
      /\ at \in 1..Len(plan) /\ Len(plan) \in Nat
  BY PlanLength DEF Summary, Typed, TypeOK
<1>2. disk[at] = status /\ \A i \in 1..Len(plan) : i < at => disk[i] = "passed"
  BY <1>1 DEF Recorded
<1>3. CASE status = "passed" /\ at < Len(plan)
  <2>1. at' = at + 1 /\ pc' \in {"halt", "attempt"}
    BY <1>3 DEF Summary, Enter
  <2>2. ~summary'
    BY <1>1, <1>3
  <2>3. \A i \in 1..Len(plan) : i < at' => disk[i] = "passed"
    BY <1>1, <1>2, <1>3, <2>1
  <2>4. QED
    BY <1>1, <2>1, <2>2, <2>3 DEF Recorded, Common, Preparing
<1>4. CASE ~(status = "passed" /\ at < Len(plan))
  <2>1. at' = at /\ pc' = "idle"
    BY <1>4 DEF Summary
  <2>2. ASSUME summary', NEW i \in 1..Len(plan) PROVE disk[i] = "passed"
    BY <1>1, <1>2, <2>2
  <2>3. QED
    BY <1>1, <1>2, <2>1, <2>2 DEF Recorded, Common
<1>5. QED
  BY <1>3, <1>4

\* What a step other than these can do to the records: what follows the verdict
\* keeps it, ...
LEMMA VerdictPlace ==
  ASSUME Recorded, Next, ~Invoke, ~Summary, status' = "passed"
  PROVE  pc' \in Preparing \cup Ending \cup {"idle"}
<1>1. status = "passed" => pc \in {"halt", "note", "reset", "attempt", "collect", "evidence",
                                   "save", "summary", "idle"}
  BY DEF Recorded, Preparing, Ending
<1> USE DEF Preparing, Ending
<1>2. CASE Begin \/ Healthy \/ Captures
  BY <1>1, <1>2 DEF Begin, Healthy, Captures
<1>3. CASE Collects
  BY <1>3 DEF Collects, Halt, Note, Reset
<1>4. CASE Clean
  BY <1>1, <1>4 DEF Clean, Prepare, Launch, Policy, ControllerApplied, Bootstrap
<1>5. CASE AgentRestart \/ ControllerRestart
  BY <1>1, <1>5 DEF AgentRestart, ControllerRestart, Stop, WriteResult, ResetResult, Launch, Policy
<1>6. CASE Disturbs
  BY <1>1, <1>6 DEF Disturbs, Pause, Resume, Cut, Outage, Restore
<1>7. CASE Negative
  BY <1>1, <1>7 DEF Negative, WrongKey, Rejected, RightKey, Edit, OwnConf
<1>8. CASE Recovers
  BY <1>1, <1>8 DEF Recovers, Poll, Client, Dwell, Final
<1>9. CASE Collect \/ Evidence \/ Save
  BY <1>9 DEF Collect, Evidence, Save
<1>10. CASE Fails
  BY <1>1, <1>10 DEF Fails, Fail, FailCollecting, Killed
<1>11. CASE Crashes \/ Peers
  BY <1>1, <1>11 DEF Crashes, Crash, Peers, Join, Contact, Lapse
<1>12. QED
  BY <1>2, <1>3, <1>4, <1>5, <1>6, <1>7, <1>8, <1>9, <1>10, <1>11, NextCases DEF Starts, Ends

\* ... and the record is written where the attempt begins and ends.
LEMMA RecordSteps ==
  ASSUME Typed, Next, ~Invoke, ~Summary
  PROVE  /\ UNCHANGED <<plan, at, summary>>
         /\ disk' = disk \/ Begin \/ Save
         /\ pc' = "summary" => Save \/ UNCHANGED <<pc, disk, status>>
         /\ pc = "idle" => pc' = "idle"
<1> USE DEF script, record
<1>1. CASE Healthy \/ Captures
  BY <1>1, KindOfAttempt DEF Healthy, Captures, Kind
<1>2. CASE Begin
  BY <1>2, KindOfAttempt DEF Begin, Kind
<1>3. CASE Collects
  BY <1>3 DEF Collects, Halt, Note, Reset
<1>4. CASE Clean
  BY <1>4 DEF Clean, Prepare, Launch, Policy, ControllerApplied, Bootstrap
<1>5. CASE AgentRestart \/ ControllerRestart
  BY <1>5 DEF AgentRestart, ControllerRestart, Stop, WriteResult, ResetResult, Launch, Policy
<1>6. CASE Disturbs
  BY <1>6 DEF Disturbs, Pause, Resume, Cut, Outage, Restore, Onwards
<1>7. CASE Negative
  BY <1>7 DEF Negative, WrongKey, Rejected, RightKey, Edit, OwnConf, Onwards
<1>8. CASE Recovers
  BY <1>8 DEF Recovers, Poll, Client, Dwell, Final
<1>9. CASE Collect \/ Evidence \/ Save
  BY <1>9 DEF Collect, Evidence, Save
<1>10. CASE Fails
  BY <1>10 DEF Fails, Fail, FailCollecting, Killed, Handler
<1>11. CASE Crashes \/ Peers
  BY <1>11 DEF Crashes, Crash, Peers, Join, Contact, Lapse
<1>12. QED
  BY <1>1, <1>2, <1>3, <1>4, <1>5, <1>6, <1>7, <1>8, <1>9, <1>10, <1>11, NextCases
     DEF Starts, Ends

LEMMA OthersRecorded ==
  ASSUME Typed, Recorded, Next, ~Invoke, ~Summary
  PROVE  Recorded'
<1>1. UNCHANGED <<plan, at, summary>> /\ Kinds' = Kinds
  BY RecordSteps DEF Kinds
<1>2. at \in 1..Len(plan) /\ Len(plan) \in Nat
      /\ disk \in [1..Len(plan) -> {"none", "running", "passed", "failed"}]
  BY PlanLength DEF Typed, TypeOK
<1>3. (pc \in Common \cup Special(Kinds))'
  <2>1. pc' \in Common \cup Special(Kinds)
    BY <1>1, PlaceKept
  <2>2. Common' = Common /\ Special(Kinds)' = Special(Kinds)
    BY <1>1 DEF Common, Special, Preparing, Ending, Barrier
  <2>3. QED
    BY <2>1, <2>2
<1>4. (status = "passed" => pc \in Preparing \cup Ending \cup {"idle"})'
  BY VerdictPlace DEF Preparing, Ending
<1>5. \A i \in 1..Len(plan) : i # at => disk'[i] = disk[i]
  BY <1>2, RecordSteps DEF Begin, Save
<1>6. (\A i \in 1..Len(plan) : i < at => disk[i] = "passed")'
  BY <1>1, <1>2, <1>5 DEF Recorded
<1>7. ASSUME pc' = "summary" PROVE (disk[at] = status /\ Kinds # "negative")'
  <2>1. CASE Save
    BY <1>1, <1>2, <1>7, <2>1 DEF Save
  <2>2. CASE UNCHANGED <<pc, disk, status>>
    BY <1>1, <1>7, <2>2 DEF Recorded
  <2>3. QED
    BY <1>7, <2>1, <2>2, RecordSteps
<1>8. ASSUME summary' PROVE (pc = "idle" /\ \A i \in 1..Len(plan) : disk[i] = "passed")'
  <2>1. pc = "idle" /\ \A i \in 1..Len(plan) : disk[i] = "passed"
    BY <1>1, <1>8 DEF Recorded
  <2>2. pc' = "idle" /\ disk' = disk
    BY <2>1, RecordSteps DEF Begin, Save
  <2>3. QED
    BY <1>1, <2>1, <2>2
<1>9. QED
  BY <1>3, <1>4, <1>6, <1>7, <1>8 DEF Recorded

LEMMA StepRecorded == ASSUME Typed, Recorded, Next PROVE Recorded'
BY InvokeRecorded, SummaryRecorded, OthersRecorded

-----------------------------------------------------------------------------
(***************************************************************************)
(* The disturbance and the recovery from it.                               *)
(***************************************************************************)

LEMMA StopTakes ==
  ASSUME NEW place, NEW u, NEW next, Stop(place, u, next)
  PROVE  /\ pc = place /\ (cleared' => cleared) /\ (policy' => policy) /\ (known' => known)
         /\ since' = {} /\ up' = up \ {u} /\ fresh' = fresh
<1>1. cleared' = (cleared /\ u # "agent")
  BY DEF Stop
<1>2. policy' = (policy /\ "controller" \notin {u})
  BY DEF Stop, Gone
<1>3. known' = (known /\ "controller" \notin {u})
  BY DEF Stop, Gone
<1>4. pc = place /\ since' = {} /\ up' = up \ {u} /\ fresh' = fresh
  BY DEF Stop, Gone
<1>5. QED
  BY <1>1, <1>2, <1>3, <1>4, Zenon

\* An access point is only given its configuration by a policy, and the policy is
\* given at two places.
LEMMA LastingKept ==
  ASSUME Typed, Lasting, Next
  PROVE  Lasting' \/ pc \in {"policy", "restore-policy"}
<1> USE DEF Lasting
<1>1. /\ cleared \in BOOLEAN /\ policy \in BOOLEAN
  BY DEF Typed, TypeOK
<1>2. CASE UNCHANGED <<policy, cleared>>
  BY <1>2
<1>3. CASE Starts
  <2>1. cleared' = FALSE \/ UNCHANGED <<policy, cleared>>
    BY <1>3 DEF Starts, Invoke, Begin, Healthy, Captures, native, story
  <2>2. QED
    BY <2>1
<1>4. CASE Collects
  <2>1. CASE Halt
    <3>1. cleared' = cleared /\ policy' = (policy /\ "controller" \notin UnitsOf[node])
      BY <2>1 DEF Halt, Gone, story
    <3>2. QED
      BY <3>1
  <2>2. CASE Note \/ Reset
    BY <1>2, <2>2 DEF Note, Reset, native, story
  <2>3. QED
    BY <1>4, <2>1, <2>2 DEF Collects
<1>5. CASE Clean
  BY <1>2, <1>5 DEF Clean, Prepare, Launch, Policy, ControllerApplied, Bootstrap, native, story
<1>6. CASE AgentRestart
  BY <1>2, <1>6, StopTakes DEF AgentRestart, WriteResult, ResetResult, Launch, native, story
<1>7. CASE ControllerRestart
  BY <1>2, <1>7, StopTakes DEF ControllerRestart, WriteResult, ResetResult, Launch, Policy,
                               native, story
<1>8. CASE Disturbs \/ Negative
  <2>1. cleared' = FALSE \/ UNCHANGED <<policy, cleared>>
    BY <1>8 DEF Disturbs, Pause, Resume, Cut, Outage, Restore, Negative, WrongKey, Rejected,
                RightKey, Edit, OwnConf, native, story
  <2>2. QED
    BY <2>1
<1>9. CASE Recovers \/ Ends
  BY <1>2, <1>9 DEF Recovers, Poll, Client, Dwell, Final, Ends, Collect, Evidence, Save, Summary,
                native, story
<1>10. CASE Fails
  BY <1>2, <1>10 DEF Fails, Fail, FailCollecting, Killed, native, story
<1>11. ASSUME NEW u \in Unit, Crash(u) PROVE Lasting'
  <2>1. cleared' = cleared /\ (policy' => policy)
    BY <1>11 DEF Crash, Gone
  <2>2. QED
    BY <2>1
<1>12. ASSUME NEW u \in {"helper", "agent"}, Join(u) PROVE Lasting'
  <2>1. policy' = policy /\ (cleared' => cleared \/ ~policy)
    BY <1>12 DEF Join
  <2>2. QED
    BY <2>1
<1>13. CASE Contact \/ \E u \in {"helper", "agent"} : Lapse(u)
  BY <1>2, <1>13 DEF Contact, Lapse, native, story
<1>14. QED
  BY <1>3, <1>4, <1>5, <1>6, <1>7, <1>8, <1>9, <1>10, <1>11, <1>12, <1>13, NextCases
     DEF Crashes, Peers

\* Where what has been heard may be dropped.
Dropping ==
  {"attempt", "stop", "stop-helper", "stop-controller", "cut", "restore", "right-key"}

\* The agent is not back before it has been heard.
LEMMA HeardKept ==
  ASSUME Typed, Heard, Next, UNCHANGED <<plan, at>>, pc \notin Dropping
  PROVE  Heard'
<1> USE DEF Heard, Silent, Dropping
<1>1. Kinds' = Kinds
  BY DEF Kinds
<1>2. /\ known \in BOOLEAN /\ fresh \in BOOLEAN /\ Kinds \in Kind
  BY KindOfAttempt DEF Typed, TypeOK
<1>3. CASE UNCHANGED <<since, up, known, fresh>>
  BY <1>1, <1>3
<1>4. CASE /\ "contact" \in since => "contact" \in since'
           /\ up' \subseteq up /\ (known' => known) /\ (fresh' => fresh)
  BY <1>1, <1>4
<1>5. CASE "contact" \in since'
  BY <1>5
<1>6. CASE Captures
  <2>1. UNCHANGED <<since, up, known>> /\ (Kinds = "backhaul-loss" => ~fresh')
    BY <1>2, <1>6 DEF Captures
  <2>2. QED
    BY <1>1, <2>1
<1>7. CASE Invoke \/ Begin \/ Healthy
  BY <1>3, <1>7 DEF Invoke, Begin, Healthy, native, story
<1>8. CASE Collects
  BY <1>4, <1>8 DEF Collects, Halt, Gone, Note, Reset, native, story
<1>9. CASE Clean
  BY <1>3, <1>9 DEF Clean, Prepare, Launch, Policy, ControllerApplied, Bootstrap, native, story
<1>10. CASE AgentRestart \/ ControllerRestart
  BY <1>3, <1>10 DEF AgentRestart, ControllerRestart, Stop, WriteResult, ResetResult, Launch,
                     Policy, native, story
<1>11. CASE Disturbs
  BY <1>3, <1>11 DEF Disturbs, Pause, Resume, Cut, Outage, Restore, native, story
<1>12. CASE Negative
  BY <1>3, <1>12 DEF Negative, WrongKey, Rejected, RightKey, Edit, OwnConf, native, story
<1>13. CASE Recovers
  BY <1>4, <1>13 DEF Recovers, Poll, Client, Dwell, Final, native, story
<1>14. CASE Ends \/ Fails
  BY <1>3, <1>14 DEF Ends, Collect, Evidence, Save, Summary, Fails, Fail, FailCollecting,
                     Killed, native, story
<1>15. ASSUME NEW u \in Unit, Crash(u) PROVE Heard'
  BY <1>4, <1>15 DEF Crash, Gone
<1>16. CASE Contact \/ Join("agent")
  BY <1>5, <1>16 DEF Contact, Join
<1>17. CASE Join("helper")
  BY <1>1, <1>17 DEF Join
<1>18. ASSUME NEW u \in {"helper", "agent"}, Lapse(u) PROVE Heard'
  BY <1>4, <1>18 DEF Lapse, story
<1>19. QED
  BY <1>6, <1>7, <1>8, <1>9, <1>10, <1>11, <1>12, <1>13, <1>14, <1>15, <1>16, <1>17, <1>18,
     NextCases DEF Starts, Crashes, Peers

\* Where no step of the script leads by itself.
LEMMA PeersStay ==
  ASSUME Crashes \/ Peers
  PROVE  UNCHANGED <<pc, plan, at, status>> /\ (policy' => policy)
<1>1. CASE Peers
  BY <1>1 DEF Peers, Join, Contact, Lapse, script, native
<1>2. ASSUME NEW u \in Unit, Crash(u)
      PROVE  UNCHANGED <<pc, plan, at, status>> /\ (policy' => policy)
  <2>1. policy' = (policy /\ "controller" \notin {u})
    BY <1>2 DEF Crash, Gone
  <2>2. UNCHANGED <<pc, plan, at, status>>
    BY <1>2 DEF Crash, script
  <2>3. QED
    BY <2>1, <2>2
<1>3. QED
  BY <1>1, <1>2 DEF Crashes

\* Nothing that does not run can join or end.
LEMMA HaltedStays ==
  ASSUME Typed, Halted(Unit), Crashes \/ Peers
  PROVE  UNCHANGED <<proc, cleared, ap>>
<1>1. \A u \in Unit : proc[u] # "active"
  BY DEF Halted
<1>2. "agent" \in Unit /\ "helper" \in Unit
  BY DEF Unit
<1>3. ~Crashes
  BY <1>1 DEF Crashes, Crash
<1>4. ~Contact /\ \A u \in {"helper", "agent"} : ~Join(u)
  BY <1>1, <1>2 DEF Contact, Join, Carried
<1>5. \A u \in {"helper", "agent"} : Lapse(u) => UNCHANGED <<proc, cleared, ap>>
  BY DEF Lapse, story
<1>6. QED
  BY <1>3, <1>4, <1>5 DEF Peers

\* Without a policy, no access point is configured and none loses a configuration.
LEMMA InitialStays ==
  ASSUME Typed, ~policy, ~cleared, \A x \in Peer : ap[x] = "initial", Crashes \/ Peers
  PROVE  ~policy' /\ ~cleared' /\ \A x \in Peer : ap'[x] = "initial"
<1>1. ap \in [Peer -> {"initial", "applied", "cleared"}]
  BY DEF Typed, TypeOK
<1>2. ~policy'
  BY PeersStay
<1>3. CASE Crashes
  BY <1>2, <1>3 DEF Crashes, Crash
<1>4. CASE Contact
  BY <1>2, <1>4 DEF Contact, native
<1>5. ASSUME NEW u \in {"helper", "agent"}, Join(u)
      PROVE  ~cleared' /\ \A x \in Peer : ap'[x] = "initial"
  <2>1. Where(u) \in Peer
    BY DEF Where, Peer
  <2>2. ap' = [ap EXCEPT ![Where(u)] = "initial"]
    BY <1>1, <1>5, <2>1 DEF Join
  <2>3. cleared' = (cleared \/ (ap[Where(u)] = "applied" /\ ~policy))
    BY <1>5 DEF Join
  <2>4. ~cleared'
    BY <2>1, <2>3
  <2>5. QED
    BY <1>1, <2>2, <2>4
<1>6. ASSUME NEW u \in {"helper", "agent"}, Lapse(u)
      PROVE  ~cleared' /\ \A x \in Peer : ap'[x] = "initial"
  BY <1>6 DEF Lapse, story
<1>7. QED
  BY <1>2, <1>3, <1>4, <1>5, <1>6 DEF Peers

\* After both nodes were collected nothing runs.
LEMMA ResetHalts ==
  ASSUME Typed, Written, Reset, pc' = "attempt"
  PROVE  Halted(Unit)'
<1>1. proc \in [Unit -> {"none", "active", "paused"} \cup Ended] /\ node \in 1..2
  BY DEF Typed, TypeOK
<1>2. node = 2 /\ pc = "reset"
  BY <1>1 DEF Reset
<1>3. Halted(UnitsOf[1]) /\ Halted(UnitsOf[2])
  BY <1>2 DEF Written
<1>4. \A u \in Unit : u \in UnitsOf[1] \/ u \in UnitsOf[2]
  BY DEF Unit, UnitsOf
<1>5. \A u \in Unit : proc[u] \notin {"active", "paused"}
  BY <1>3, <1>4 DEF Halted
<1>6. \A u \in Unit : proc'[u] \in {proc[u], "none"}
  BY <1>1 DEF Reset, Forget
<1>7. \A u \in Unit : proc'[u] \notin {"active", "paused"}
  BY <1>5, <1>6
<1>8. QED
  BY <1>7 DEF Halted

LEMMA CleanStep ==
  ASSUME Typed, Written, Recorded, StartingClean, Next
  PROVE  StartingClean'
<1> DEFINE Places == {"attempt", "prepare", "captures", "services", "start-helper", "policy",
                      "controller-ap", "bootstrap", "start-agent"}
<1>1. CASE pc' \notin Places
  BY <1>1 DEF StartingClean
<1>2. CASE Invoke \/ Summary
  <2>1. pc' \in Places => pc' = "attempt" /\ Kinds' # "clean"
    <3>1. CASE Invoke
      BY <3>1 DEF Invoke, Enter, Kinds
    <3>2. CASE Summary
      BY <3>2 DEF Summary, Enter, Kinds
    <3>3. QED
      BY <1>2, <3>1, <3>2
  <2>2. QED
    BY <1>1, <2>1 DEF StartingClean
<1>3. CASE Reset
  <2>1. pc' \in Places => pc' = "attempt" /\ Halted(Unit)'
    BY <1>3, ResetHalts DEF Reset
  <2>2. QED
    BY <1>1, <2>1 DEF StartingClean
<1>4. CASE Begin
  <2>1. /\ Kinds' = Kinds
        /\ pc' \in Places => (pc' = "prepare" /\ Kinds = "clean")
                             \/ (pc' = "captures" /\ Kinds # "clean")
    BY <1>4, KindOfAttempt DEF Begin, Kind, Kinds, script
  <2>2. pc = "attempt" /\ proc' = proc /\ cleared' = FALSE
    BY <1>4 DEF Begin, native
  <2>3. pc' = "prepare" => Halted(Unit)'
    BY <2>1, <2>2 DEF StartingClean, Halted
  <2>4. QED
    BY <1>1, <2>1, <2>2, <2>3 DEF StartingClean
<1>5. CASE Clean
  <2>1. UNCHANGED <<plan, at>> /\ pc \notin Dropping /\ Kinds' = Kinds
    BY <1>5 DEF Clean, Prepare, Launch, Policy, ControllerApplied, Bootstrap, script, Dropping,
                Kinds
  <2>2. Heard => Heard'
    BY <2>1, HeardKept
  <2>3. Lasting => Lasting' \/ pc \in {"policy", "restore-policy"}
    BY LastingKept
  <2>4. CASE Prepare
    <3>1. "controller" \in Unit
      BY DEF Unit
    <3>2. ~policy' /\ ~cleared'
      BY <2>4, <3>1 DEF Prepare, Typed, TypeOK, StartingClean, story
    <3>3. pc' = "captures" /\ ap' = [x \in Peer |-> "initial"]
      BY <2>4 DEF Prepare
    <3>4. \A x \in Peer : ap'[x] = "initial"
      BY <3>3
    <3>5. QED
      BY <3>2, <3>3, <3>4 DEF StartingClean
  <2>5. CASE Launch("services", {"transport", "controller"}, "start-helper")
    BY <2>5 DEF Launch, StartingClean, story
  <2>6. CASE Launch("start-helper", {"helper"}, "policy")
    BY <2>6 DEF Launch, StartingClean, story
  <2>7. CASE Policy("policy", "controller-ap")
    <3>1. pc = "policy" /\ pc' = "controller-ap" /\ UNCHANGED <<known, cleared>>
      BY <2>7 DEF Policy, story
    <3>2. ~cleared /\ ~policy /\ ~known
      BY <3>1 DEF StartingClean, Typed
    <3>3. Kinds = "clean"
      BY <3>1, KindOfAttempt DEF Recorded, Common, Special, Preparing, Ending, Barrier, Kind
    <3>4. Lasting' /\ Heard'
      BY <2>1, <3>1, <3>2, <3>3 DEF Lasting, Heard, Silent
    <3>5. QED
      BY <3>1, <3>4 DEF StartingClean
  <2>8. CASE ControllerApplied \/ Bootstrap
    BY <2>2, <2>3, <2>8 DEF ControllerApplied, Bootstrap, StartingClean
  <2>9. CASE Launch("start-agent", {"agent"}, "poll")
    BY <1>1, <2>9 DEF Launch
  <2>10. QED
    BY <1>5, <2>4, <2>5, <2>6, <2>7, <2>8, <2>9 DEF Clean
<1>6. CASE Crashes \/ Peers
  <2>1. UNCHANGED <<pc, plan, at>> /\ Kinds' = Kinds
    BY <1>6, PeersStay DEF Kinds
  <2>2. Heard /\ pc \in Places \ {"attempt"} => Heard'
    BY <2>1, HeardKept DEF Dropping
  <2>3. Lasting => Lasting' \/ pc \in {"policy", "restore-policy"}
    BY LastingKept
  <2>4. CASE pc \in {"attempt", "prepare"} /\ Kinds = "clean"
    <3>1. Halted(Unit)
      BY <2>4 DEF StartingClean
    <3>2. proc' = proc /\ cleared' = cleared
      BY <1>6, <3>1, HaltedStays
    <3>3. Halted(Unit)'
      BY <3>1, <3>2 DEF Halted
    <3>4. pc = "prepare" => ~cleared'
      BY <3>2 DEF StartingClean
    <3>5. QED
      BY <2>1, <2>4, <3>3, <3>4 DEF StartingClean
  <2>5. CASE \/ pc \in {"services", "start-helper", "policy"}
             \/ pc = "captures" /\ Kinds = "clean"
    <3>1. ~policy /\ ~cleared /\ \A x \in Peer : ap[x] = "initial"
      BY <2>5 DEF StartingClean
    <3>2. ~policy' /\ ~cleared' /\ \A x \in Peer : ap'[x] = "initial"
      BY <1>6, <3>1, InitialStays
    <3>3. QED
      BY <2>1, <2>5, <3>2 DEF StartingClean
  <2>6. CASE pc \in {"controller-ap", "bootstrap", "start-agent"}
    BY <2>1, <2>2, <2>3, <2>6 DEF StartingClean
  <2>7. pc = "prepare" => Kinds = "clean"
    BY KindOfAttempt DEF Recorded, Common, Special, Preparing, Ending, Barrier, Kind
  <2>8. CASE pc \in {"attempt", "captures"} /\ Kinds # "clean"
    BY <2>1, <2>8 DEF StartingClean
  <2>9. QED
    BY <1>1, <2>1, <2>4, <2>5, <2>6, <2>7, <2>8
<1>7. CASE Healthy \/ Captures \/ Halt \/ Note
  <2>1. CASE Captures
    <3>1. /\ pc = "captures" /\ UNCHANGED <<policy, cleared, ap>>
          /\ pc' \in Places => pc' = "services" /\ Kinds = "clean"
      BY <2>1, KindOfAttempt DEF Captures, Kind
    <3>2. QED
      BY <1>1, <3>1 DEF StartingClean
  <2>2. CASE Healthy
    <3>1. Kinds \in {"backhaul-loss", "negative"} /\ Kinds' = Kinds /\ pc' = "captures"
      BY <2>2, KindOfAttempt DEF Healthy, Recorded, Common, Special, Preparing, Ending, Barrier,
                                 Kind, Kinds, script
    <3>2. QED
      BY <3>1 DEF StartingClean
  <2>3. CASE Halt \/ Note
    BY <1>1, <2>3 DEF Halt, Note
  <2>4. QED
    BY <1>7, <2>1, <2>2, <2>3
<1>8. CASE AgentRestart
  BY <1>1, <1>8 DEF AgentRestart, Stop, WriteResult, ResetResult, Launch
<1>9. CASE ControllerRestart
  BY <1>1, <1>9 DEF ControllerRestart, Stop, WriteResult, ResetResult, Launch, Policy
<1>10. CASE Disturbs \/ Negative
  BY <1>1, <1>10 DEF Disturbs, Pause, Resume, Cut, Outage, Restore, Onwards, Negative, WrongKey,
                     Rejected, RightKey, Edit, OwnConf
<1>11. CASE Recovers
  BY <1>1, <1>11 DEF Recovers, Poll, Client, Dwell, Final
<1>12. CASE Collect \/ Evidence \/ Save \/ Fails
  BY <1>1, <1>12 DEF Collect, Evidence, Save, Fails, Fail, FailCollecting, Killed, Handler
<1>13. QED
  BY <1>2, <1>3, <1>4, <1>5, <1>6, <1>7, <1>8, <1>9, <1>10, <1>11, <1>12, NextCases
     DEF Starts, Collects, Ends

LEMMA AgainStep ==
  ASSUME Typed, Recorded, StartingAgain, Next
  PROVE  StartingAgain'
<1> DEFINE Places == {"captures", "stop", "write", "forget", "restart", "healthy", "cut",
                      "outage", "restore"}
<1>1. CASE pc' \notin Places
  BY <1>1 DEF StartingAgain
<1>2. Lasting => Lasting' \/ pc \in {"policy", "restore-policy"}
  BY LastingKept
<1>3. CASE Invoke \/ Summary
  BY <1>1, <1>3 DEF Invoke, Summary, Enter
<1>4. Kinds' = Kinds \/ Invoke \/ Summary
  BY RecordSteps DEF Kinds
<1>5. Heard => Heard' \/ Invoke \/ Summary \/ pc \in Dropping
  BY HeardKept, RecordSteps
<1>6. Kinds \in Kind
  BY KindOfAttempt
<1>7. CASE Begin
  <2>1. cleared' = FALSE /\ pc' \notin {"stop", "write", "forget", "restart"}
    BY <1>6, <1>7 DEF Begin, Kind
  <2>2. QED
    BY <2>1 DEF StartingAgain, Lasting
<1>8. CASE Healthy
  BY <1>2, <1>4, <1>8, <1>3 DEF Healthy, StartingAgain, Recorded, Special, Common, Preparing,
                               Ending, Barrier
<1>9. CASE Captures
  BY <1>2, <1>3, <1>4, <1>6, <1>9 DEF Captures, StartingAgain, Kind
<1>10. CASE Collects
  BY <1>1, <1>10 DEF Collects, Halt, Note, Reset
<1>11. CASE Prepare
  <2>1. Kinds' = "clean"
    BY <1>4, <1>6, <1>11 DEF Prepare, Recorded, Special, Common, Preparing, Ending, Barrier,
                             Kind, Invoke, Summary
  <2>2. QED
    BY <1>11, <2>1 DEF Prepare, StartingAgain
<1>12. CASE Clean /\ ~Prepare
  BY <1>1, <1>12 DEF Clean, Launch, Policy, ControllerApplied, Bootstrap
<1>13. CASE Stop("stop", "agent", "write")
  <2>1. pc = "stop" /\ pc' = "write" /\ since' = {} /\ up' = up \ {"agent"}
    BY <1>13 DEF Stop, Gone
  <2>2. Kinds = "agent-restart"
    BY <1>6, <2>1 DEF Recorded, Special, Common, Preparing, Ending, Barrier, Kind
  <2>3. Kinds' = "agent-restart"
    BY <1>13, <2>2 DEF Stop, Kinds, script
  <2>4. Heard'
    BY <2>1, <2>3 DEF Heard, Silent
  <2>5. Lasting'
    BY <1>2, <2>1 DEF StartingAgain
  <2>6. QED
    BY <2>1, <2>4, <2>5 DEF StartingAgain
<1>14. CASE WriteResult("write", "agent", "forget")
  BY <1>2, <1>5, <1>14 DEF WriteResult, StartingAgain, Invoke, Summary, Dropping
<1>15. CASE ResetResult("forget", "agent", "restart")
  BY <1>2, <1>5, <1>15 DEF ResetResult, StartingAgain, Invoke, Summary, Dropping
<1>16. CASE Launch("restart", {"agent"}, "poll")
  BY <1>1, <1>16 DEF Launch
<1>17. CASE ControllerRestart
  BY <1>1, <1>17 DEF ControllerRestart, Stop, WriteResult, ResetResult, Launch, Policy
<1>18. CASE Cut \/ Outage
  BY <1>2, <1>4, <1>18 DEF Cut, Outage, StartingAgain, Invoke, Summary
<1>19. CASE Pause \/ Resume \/ Restore \/ Negative
  BY <1>1, <1>19 DEF Pause, Resume, Restore, Onwards, Negative, WrongKey, Rejected, RightKey,
                     Edit, OwnConf
<1>20. CASE Recovers
  BY <1>1, <1>20 DEF Recovers, Poll, Client, Dwell, Final
<1>21. CASE Collect \/ Evidence \/ Save \/ FailCollecting \/ Killed
  BY <1>1, <1>21 DEF Collect, Evidence, Save, FailCollecting, Killed
<1>22. CASE Fail
  <2>1. pc' \in Places => pc \in {"cut", "outage"} /\ pc' = "restore"
    BY <1>22 DEF Fail, Handler
  <2>2. Kinds' = Kinds
    BY <1>22 DEF Fail, Kinds, script
  <2>3. QED
    BY <1>1, <1>2, <2>1, <2>2 DEF StartingAgain
<1>23. CASE Crashes \/ Peers
  <2>1. pc' = pc /\ Kinds' = Kinds
    BY <1>23, PeersStay DEF Kinds
  <2>2. pc \in Places => (Lasting => Lasting')
    BY <1>2
  <2>3. pc \in {"write", "forget", "restart"} => (Heard => Heard')
    BY <1>23, HeardKept, PeersStay DEF Dropping
  <2>4. QED
    BY <2>1, <2>2, <2>3 DEF StartingAgain
<1>24. QED
  BY <1>3, <1>7, <1>8, <1>9, <1>10, <1>11, <1>12, <1>13, <1>14, <1>15, <1>16, <1>17, <1>18, <1>19,
     <1>20, <1>21, <1>22, <1>23, NextCases
     DEF Starts, Collects, Ends, Fails, AgentRestart, Disturbs

\* Behind the barrier the transport carries nothing.
LEMMA BarrierStays ==
  ASSUME Typed, proc["transport"] # "active", ~cleared, Crashes \/ Peers
  PROVE  proc'["transport"] # "active" /\ ~cleared'
<1>1. proc \in [Unit -> {"none", "active", "paused"} \cup Ended]
  BY DEF Typed, TypeOK
<1>2. CASE Crashes
  BY <1>1, <1>2 DEF Crashes, Crash
<1>3. ~Contact /\ \A u \in {"helper", "agent"} : ~Join(u)
  BY DEF Contact, Join, Carried
<1>4. \A u \in {"helper", "agent"} : Lapse(u) => UNCHANGED <<proc, cleared>>
  BY DEF Lapse, story
<1>5. QED
  BY <1>2, <1>3, <1>4 DEF Peers

LEMMA ControllerStep ==
  ASSUME Typed, Recorded, StartingController, Next
  PROVE  StartingController'
<1> DEFINE Places == Barrier \cup {"resume"}
<1>1. CASE pc' \notin Places
  BY <1>1 DEF StartingController, Barrier
<1>2. Lasting => Lasting' \/ pc \in {"policy", "restore-policy"}
  BY LastingKept
<1>3. Heard => Heard' \/ Invoke \/ Summary \/ pc \in Dropping
  BY HeardKept, RecordSteps
<1>4. proc \in [Unit -> {"none", "active", "paused"} \cup Ended]
      /\ "transport" \in Unit /\ "helper" \in Unit /\ "controller" \in Unit
  BY DEF Typed, TypeOK, Unit
<1>5. CASE Pause
  <2>1. pc' = "stop-helper" /\ proc'["transport"] = "paused" /\ ~cleared'
    BY <1>4, <1>5 DEF Pause
  <2>2. QED
    BY <2>1 DEF StartingController
<1>6. CASE ControllerRestart
  <2>1. pc \in Barrier /\ ~cleared /\ proc["transport"] # "active"
    BY <1>6 DEF ControllerRestart, Stop, WriteResult, ResetResult, Launch, Policy,
                StartingController, Barrier
  <2>2. proc'["transport"] # "active"
    <3>1. CASE \/ Stop("stop-helper", "helper", "write-helper")
               \/ Stop("stop-controller", "controller", "write-controller")
      BY <1>4, <2>1, <3>1 DEF Stop
    <3>2. CASE \/ ResetResult("forget-helper", "helper", "stop-controller")
               \/ ResetResult("forget-controller", "controller", "restart-controller")
      BY <1>4, <2>1, <3>2 DEF ResetResult, Forget
    <3>3. CASE \/ Launch("restart-controller", {"controller"}, "restart-helper")
               \/ Launch("restart-helper", {"helper"}, "restore-policy")
      BY <1>4, <2>1, <3>3 DEF Launch
    <3>4. CASE \/ WriteResult("write-helper", "helper", "forget-helper")
               \/ WriteResult("write-controller", "controller", "forget-controller")
               \/ Policy("restore-policy", "resume")
      BY <2>1, <3>4 DEF WriteResult, Policy, native
    <3>5. QED
      BY <1>6, <3>1, <3>2, <3>3, <3>4 DEF ControllerRestart
  <2>3. ~cleared'
    <3>1. CASE \/ Stop("stop-helper", "helper", "write-helper")
               \/ Stop("stop-controller", "controller", "write-controller")
      BY <2>1, <3>1, StopTakes
    <3>2. CASE cleared' = cleared
      BY <2>1, <3>2
    <3>3. QED
      BY <1>6, <3>1, <3>2 DEF ControllerRestart, WriteResult, ResetResult, Launch, Policy, story
  <2>4. pc' \in {"write-controller", "forget-controller", "restart-controller",
                 "restart-helper", "restore-policy", "resume"} => Heard'
    <3>1. CASE Stop("stop-controller", "controller", "write-controller")
      <4>1. pc = "stop-controller" /\ ~known'
        BY <3>1, StopTakes DEF Stop, Gone
      <4>2. Kinds = "controller-restart"
        BY <4>1, KindOfAttempt DEF Recorded, Special, Common, Preparing, Ending, Kind
      <4>3. Kinds' = Kinds
        BY <3>1 DEF Stop, Kinds, script
      <4>4. QED
        BY <4>1, <4>2, <4>3 DEF Heard, Silent
    <3>2. CASE ~Stop("stop-controller", "controller", "write-controller")
      <4>1. pc' \in {"write-controller", "forget-controller", "restart-controller",
                     "restart-helper", "restore-policy", "resume"} =>
              pc \in {"write-controller", "forget-controller", "restart-controller",
                      "restart-helper", "restore-policy"}
        BY <1>6, <3>2 DEF ControllerRestart, Stop, WriteResult, ResetResult, Launch, Policy
      <4>2. QED
        BY <1>3, <4>1 DEF StartingController, Dropping, Invoke, Summary
    <3>3. QED
      BY <3>1, <3>2
  <2>5. Lasting'
    BY <2>3 DEF Lasting
  <2>6. QED
    BY <2>2, <2>3, <2>4, <2>5 DEF StartingController
<1>7. CASE Fail
  <2>1. pc' \in Places => pc' = "resume" /\ status' # "running"
    BY <1>7 DEF Fail, Handler, Barrier
  <2>2. QED
    BY <1>1, <2>1 DEF StartingController, Barrier
<1>8. CASE Crashes \/ Peers
  <2>1. pc' = pc /\ status' = status /\ Barrier' = Barrier
    BY <1>8, PeersStay DEF Barrier
  <2>2. pc \in Barrier => ~cleared' /\ proc'["transport"] # "active"
    BY <1>8, BarrierStays DEF StartingController
  <2>3. Heard /\ pc \in {"write-controller", "forget-controller", "restart-controller",
                         "restart-helper", "restore-policy", "resume"} => Heard'
    BY <1>8, PeersStay, HeardKept DEF Dropping
  <2>4. pc = "resume" => (Lasting => Lasting')
    BY <1>2
  <2>5. QED
    BY <2>1, <2>2, <2>3, <2>4 DEF StartingController
<1>9. CASE Starts \/ Summary
  <2>1. pc' \notin Places
    BY <1>9, KindOfAttempt DEF Starts, Invoke, Begin, Healthy, Captures, Summary, Enter,
                               Barrier, Kind
  <2>2. QED
    BY <1>1, <2>1
<1>10. CASE Collects \/ Clean
  BY <1>1, <1>10 DEF Collects, Halt, Note, Reset, Clean, Prepare, Launch, Policy,
                     ControllerApplied, Bootstrap, Barrier
<1>11. CASE AgentRestart
  BY <1>1, <1>11 DEF AgentRestart, Stop, WriteResult, ResetResult, Launch, Barrier
<1>12. CASE Resume \/ Cut \/ Outage \/ Restore
  BY <1>1, <1>12 DEF Resume, Cut, Outage, Restore, Onwards, Barrier
<1>13. CASE Negative
  BY <1>1, <1>13 DEF Negative, WrongKey, Rejected, RightKey, Edit, OwnConf, Onwards, Barrier
<1>14. CASE Recovers
  BY <1>1, <1>14 DEF Recovers, Poll, Client, Dwell, Final, Barrier
<1>15. CASE Collect \/ Evidence \/ Save \/ FailCollecting \/ Killed
  BY <1>1, <1>15 DEF Collect, Evidence, Save, FailCollecting, Killed, Barrier
<1>16. QED
  BY <1>5, <1>6, <1>7, <1>8, <1>9, <1>10, <1>11, <1>12, <1>13, <1>14, <1>15, NextCases
     DEF Ends, Fails, Disturbs

LEMMA InitDisturbed == Init => Disturbed
BY DEF Init, Disturbed, StartingClean, StartingAgain, StartingController, Barrier

LEMMA StepDisturbed == ASSUME Typed, Written, Recorded, Disturbed, Next PROVE Disturbed'
BY CleanStep, AgainStep, ControllerStep DEF Disturbed

\* From the disturbance's end to the verdict.
LEMMA InitRecovering == Init => Recovering /\ Recovered
BY DEF Init, Recovering, Recovered, Ending

LEMMA StepRecovering ==
  ASSUME Typed, Recorded, Disturbed, Recovering, Next
  PROVE  Recovering'
<1> DEFINE Places == {"poll", "clients", "dwell", "probe", "final"}
<1>1. CASE pc' \notin Places
  BY <1>1 DEF Recovering
<1>2. Lasting => Lasting' \/ pc \in {"policy", "restore-policy"}
  BY LastingKept
<1>3. Heard => Heard' \/ Invoke \/ Summary \/ pc \in Dropping
  BY HeardKept, RecordSteps
<1>4. Kinds' = Kinds \/ Invoke \/ Summary
  BY RecordSteps DEF Kinds
<1>5. since \subseteq {"contact", "wired", "wifi"}
  BY DEF Typed, TypeOK
<1>6. CASE Starts \/ Summary
  <2>1. pc' \notin Places
    BY <1>6, KindOfAttempt DEF Starts, Invoke, Begin, Healthy, Captures, Summary, Enter, Kind
  <2>2. QED
    BY <1>1, <2>1
<1>7. CASE Collects
  BY <1>1, <1>7 DEF Collects, Halt, Note, Reset
<1>8. CASE Clean
  <2>1. pc' \in Places => pc = "start-agent" /\ pc' = "poll"
    BY <1>8 DEF Clean, Prepare, Launch, Policy, ControllerApplied, Bootstrap
  <2>2. pc = "start-agent" => Lasting /\ Heard
    BY DEF Disturbed, StartingClean
  <2>3. QED
    BY <1>1, <1>2, <1>3, <2>1, <2>2 DEF Recovering, Dropping, Invoke, Summary
<1>9. CASE AgentRestart
  <2>1. pc' \in Places => pc = "restart" /\ pc' = "poll"
    BY <1>9 DEF AgentRestart, Stop, WriteResult, ResetResult, Launch
  <2>2. pc = "restart" => Lasting /\ Heard
    BY DEF Disturbed, StartingAgain
  <2>3. QED
    BY <1>1, <1>2, <1>3, <2>1, <2>2 DEF Recovering, Dropping, Invoke, Summary
<1>10. CASE ControllerRestart \/ Pause \/ Cut \/ Outage
  BY <1>1, <1>10 DEF ControllerRestart, Stop, WriteResult, ResetResult, Launch, Policy, Pause,
                     Cut, Outage
<1>11. CASE Resume
  <2>1. pc' \in Places => pc = "resume" /\ status = "running" /\ pc' = "poll"
    BY <1>11 DEF Resume, Onwards
  <2>2. pc = "resume" /\ status = "running" => Lasting /\ Heard
    BY DEF Disturbed, StartingController
  <2>3. QED
    BY <1>1, <1>2, <1>3, <2>1, <2>2 DEF Recovering, Dropping, Invoke, Summary
<1>12. CASE Restore
  <2>1. pc = "restore" /\ (pc' \in Places => status = "running" /\ pc' = "poll")
    BY <1>12 DEF Restore, Onwards
  <2>2. Kinds = "backhaul-loss"
    BY <2>1, KindOfAttempt DEF Recorded, Special, Common, Preparing, Ending, Barrier, Kind
  <2>3. Lasting'
    BY <1>2, <2>1, <2>2 DEF Disturbed, StartingAgain
  <2>4. Kinds' = "backhaul-loss"
    BY <1>12, <2>2 DEF Restore, Kinds, script
  <2>5. fresh' = (status # "running" /\ fresh)
    BY <1>12 DEF Restore
  <2>6. status = "running" => Heard'
    BY <2>4, <2>5 DEF Heard, Silent
  <2>7. QED
    BY <1>1, <2>1, <2>3, <2>6 DEF Recovering
<1>13. CASE Negative
  <2>1. pc' \in Places => pc' = "clients" /\ pc = "right-key"
    BY <1>13 DEF Negative, WrongKey, Rejected, RightKey, Edit, OwnConf, Onwards
  <2>2. pc = "right-key" => Kinds = "negative"
    BY KindOfAttempt DEF Recorded, Special, Common, Preparing, Ending, Barrier, Kind
  <2>3. QED
    BY <1>1, <1>4, <2>1, <2>2 DEF Recovering, Invoke, Summary
<1>14. CASE Recovers
  <2>1. pc' \in Places => pc \in Places \/ Kinds = "negative"
    <3>1. pc \in Places \/ pc = "clients-again"
      BY <1>14 DEF Recovers, Poll, Client, Dwell, Final
    <3>2. pc = "clients-again" => Kinds = "negative"
      BY KindOfAttempt DEF Recorded, Special, Common, Preparing, Ending, Barrier, Kind
    <3>3. QED
      BY <3>1, <3>2
  <2>2. Kinds' = Kinds
    BY <1>14 DEF Recovers, Poll, Client, Dwell, Final, Kinds, script
  <2>3. pc \in Places /\ Kinds # "negative" => Lasting' /\ Heard'
    BY <1>2, <1>3 DEF Recovering, Dropping, Invoke, Summary
  <2>4. pc' = "final" => {"wired", "wifi"} \subseteq since'
    <3>1. CASE Poll \/ Dwell \/ Final
      BY <3>1 DEF Poll, Dwell, Final
    <3>2. CASE Client("wired")
      BY <3>2 DEF Client
    <3>3. CASE Client("wifi")
      BY <3>3 DEF Client
    <3>4. QED
      BY <1>14, <3>1, <3>2, <3>3 DEF Recovers
  <2>5. QED
    BY <2>1, <2>2, <2>3, <2>4 DEF Recovering
<1>15. CASE Collect \/ Evidence \/ Save \/ Fails
  BY <1>1, <1>15 DEF Collect, Evidence, Save, Fails, Fail, FailCollecting, Killed, Handler
<1>16. CASE Crashes \/ Peers
  <2>1. pc' = pc /\ Kinds' = Kinds /\ UNCHANGED <<plan, at>>
    BY <1>16, PeersStay DEF Kinds
  <2>2. since \subseteq since'
    BY <1>16 DEF Crashes, Crash, Peers, Contact, Join, Lapse, story
  <2>3. pc \in Places => (Heard => Heard') /\ (Lasting => Lasting')
    BY <1>2, <2>1, HeardKept DEF Dropping
  <2>4. QED
    BY <2>1, <2>2, <2>3 DEF Recovering
<1>17. QED
  BY <1>6, <1>7, <1>8, <1>9, <1>10, <1>11, <1>12, <1>13, <1>14, <1>15, <1>16, NextCases
     DEF Ends, Disturbs

\* A verdict rests on the last reading: the agent is known, so the policy is there, and
\* the policy is there, so no configuration was lost.
LEMMA FinalRecovered == ASSUME Typed, Recovering, Final PROVE Recovered'
<1>1. pc = "final" /\ pc' = "collect" /\ Ready /\ UNCHANGED <<since, cleared, policy, proc>>
  BY DEF Final, native, story
<1>2. known /\ fresh /\ "agent" \in up
  BY <1>1 DEF Ready
<1>3. policy
  BY <1>2 DEF Typed
<1>4. Kinds' = Kinds
  BY DEF Final, Kinds, script
<1>5. ASSUME Kinds # "negative"
      PROVE  since = {"contact", "wired", "wifi"} /\ ~cleared
  <2>1. Lasting /\ Heard /\ {"wired", "wifi"} \subseteq since
    BY <1>1, <1>5 DEF Recovering
  <2>2. "contact" \in since
    BY <1>2, <2>1 DEF Heard, Silent
  <2>3. since \subseteq {"contact", "wired", "wifi"}
    BY DEF Typed, TypeOK
  <2>4. QED
    BY <1>3, <2>1, <2>2, <2>3 DEF Lasting
<1>6. QED
  BY <1>1, <1>3, <1>4, <1>5 DEF Recovered

\* After the verdict the native peers cannot take away what it rests on.
LEMMA PeersRecovered == ASSUME Typed, Recovered, Crashes \/ Peers PROVE Recovered'
<1>1. UNCHANGED <<pc, plan, at, status>> /\ Kinds' = Kinds
  BY PeersStay DEF Kinds
<1> SUFFICES ASSUME pc \in Ending, status = "passed", Kinds # "negative"
             PROVE  Recovered'
  BY <1>1 DEF Recovered, Ending
<1>2. /\ since = {"contact", "wired", "wifi"} /\ ~cleared
      /\ policy \/ proc["controller"] # "active"
      /\ pc \in {"save", "summary"} =>
           tape.holds # {} /\ (Kinds = "clean" => "handshake" \in tape.holds)
  BY DEF Recovered
<1>3. tape \in [on: BOOLEAN, holds: SUBSET {"handshake", "traffic"}]
      /\ proc \in [Unit -> {"none", "active", "paused"} \cup Ended]
  BY DEF Typed, TypeOK
<1>4. ASSUME NEW u \in Unit, Crash(u) PROVE Recovered'
  <2>1. since' = since /\ cleared' = cleared /\ tape'.holds = tape.holds
    BY <1>3, <1>4 DEF Crash
  <2>2. proc' = [proc EXCEPT ![u] = "failed"] /\ policy' = (policy /\ "controller" \notin {u})
    BY <1>4 DEF Crash, Gone
  <2>3. policy' \/ proc'["controller"] # "active"
    BY <1>2, <1>3, <2>2 DEF Unit
  <2>4. QED
    BY <1>1, <1>2, <2>1, <2>3 DEF Recovered
<1>5. CASE Contact
  <2>1. UNCHANGED <<policy, proc, cleared>> /\ since' = since \cup {"contact"}
    BY <1>5 DEF Contact, native
  <2>2. tape.holds \subseteq tape'.holds
    BY <1>3, <1>5 DEF Contact, Seen
  <2>3. QED
    BY <1>1, <1>2, <2>1, <2>2 DEF Recovered
<1>6. ASSUME NEW u \in {"helper", "agent"}, Join(u) PROVE Recovered'
  <2>1. proc["controller"] = "active" /\ UNCHANGED <<policy, proc>>
    BY <1>6 DEF Join, Carried
  <2>2. policy
    BY <1>2, <2>1
  <2>3. cleared' = (cleared \/ (ap[Where(u)] = "applied" /\ ~policy))
    BY <1>6 DEF Join
  <2>4. ~cleared'
    BY <1>2, <2>2, <2>3
  <2>5. since' = since \/ since' = since \cup {"contact"}
    BY <1>6 DEF Join
  <2>6. tape.holds \subseteq tape'.holds
    BY <1>3, <1>6 DEF Join, Seen
  <2>7. QED
    BY <1>1, <1>2, <2>1, <2>4, <2>5, <2>6 DEF Recovered
<1>7. ASSUME NEW u \in {"helper", "agent"}, Lapse(u) PROVE Recovered'
  BY <1>1, <1>2, <1>7 DEF Lapse, story, Recovered
<1>8. QED
  BY <1>4, <1>5, <1>6, <1>7 DEF Crashes, Peers

\* The record is saved as passed only if the capture shows the agent.
LEMMA EndsRecovered ==
  ASSUME Typed, Recovered, Collect \/ Evidence \/ Save PROVE Recovered'
<1>1. pc \in Ending /\ Kinds' = Kinds
  BY DEF Collect, Evidence, Save, Ending, Kinds, script
<1>2. status' = "passed" => status = "passed"
  BY DEF Collect, Evidence, Save
<1>3. UNCHANGED <<since, cleared, policy>>
  BY DEF Collect, Evidence, Save, native, story
<1>4. proc'["controller"] = proc["controller"]
  BY DEF Collect, Evidence, Save, native, Typed, TypeOK, Unit
<1>5. ASSUME status' = "passed", Kinds # "negative", pc' \in {"save", "summary"}
      PROVE  tape'.holds # {} /\ (Kinds = "clean" => "handshake" \in tape'.holds)
  <2>1. CASE Collect
    BY <1>5, <2>1 DEF Collect
  <2>2. CASE Evidence
    BY <1>5, <2>2 DEF Evidence, story
  <2>3. CASE Save
    BY <1>5, <2>3 DEF Save, story, Recovered, Ending
  <2>4. QED
    BY <2>1, <2>2, <2>3
<1>6. QED
  BY <1>1, <1>2, <1>3, <1>4, <1>5 DEF Recovered

LEMMA StepRecovered == ASSUME Typed, Recorded, Recovering, Recovered, Next PROVE Recovered'
<1>1. CASE status' # "passed" \/ pc' \notin Ending
  BY <1>1 DEF Recovered, Ending
<1>2. CASE Invoke \/ Summary
  BY <1>1, <1>2 DEF Invoke, Summary, Enter, Ending
<1>3. CASE Starts \/ Collects
  BY <1>1, <1>2, <1>3, KindOfAttempt
     DEF Starts, Begin, Healthy, Captures, Collects, Halt, Note, Reset, Ending, Kind
<1>4. CASE Clean
  BY <1>1, <1>4 DEF Clean, Prepare, Launch, Policy, ControllerApplied, Bootstrap, Ending
<1>5. CASE AgentRestart
  BY <1>1, <1>5 DEF AgentRestart, Stop, WriteResult, ResetResult, Launch, Ending
<1>6. CASE ControllerRestart
  BY <1>1, <1>6 DEF ControllerRestart, Stop, WriteResult, ResetResult, Launch, Policy, Ending
<1>7. CASE Disturbs \/ Negative
  <2>1. status' = status
    BY <1>7 DEF Disturbs, Pause, Resume, Cut, Outage, Restore, Negative, WrongKey, Rejected,
                RightKey, Edit, OwnConf
  <2>2. pc \notin Preparing \cup Ending \cup {"idle"}
    BY <1>7 DEF Disturbs, Pause, Resume, Cut, Outage, Restore, Negative, WrongKey, Rejected,
                RightKey, Edit, OwnConf, Preparing, Ending
  <2>3. QED
    BY <1>1, <2>1, <2>2 DEF Recorded
<1>8. CASE Recovers
  BY <1>1, <1>8, FinalRecovered DEF Recovers, Poll, Client, Dwell, Ending
<1>9. CASE Fails
  <2>1. CASE Fail
    <3>1. status # "passed"
      BY <2>1 DEF Fail, Recorded
    <3>2. QED
      BY <1>1, <2>1, <3>1 DEF Fail
  <2>2. CASE FailCollecting \/ Killed
    BY <1>1, <2>2 DEF FailCollecting, Killed, Ending
  <2>3. QED
    BY <1>9, <2>1, <2>2 DEF Fails
<1>10. QED
  BY <1>2, <1>3, <1>4, <1>5, <1>6, <1>7, <1>8, <1>9, PeersRecovered, EndsRecovered, NextCases
     DEF Ends

-----------------------------------------------------------------------------
(***************************************************************************)
(* The theorems.                                                           *)
(***************************************************************************)

LEMMA InitInv == Init => Inv
BY InitTyped, InitReturned, InitWritten, InitRecorded, InitDisturbed, InitRecovering DEF Inv

LEMMA StepInv == ASSUME Inv, [Next]_vars PROVE Inv'
<1>1. CASE Next
  BY <1>1, StepTyped, StepReturned, StepWritten, StepRecorded, StepDisturbed, StepRecovering,
     StepRecovered DEF Inv
<1>2. CASE UNCHANGED vars
  <2>1. /\ UNCHANGED <<plan, mode, at, node, runs, pc, held, status, disk, summary, logged>>
        /\ UNCHANGED <<proc, policy, ap, up, known, fresh, link, psk, conf>>
        /\ UNCHANGED <<tape, since, cleared, botched, troubles>>
    BY <1>2 DEF vars, script, record, native, lab, story

  <2>2. Kinds' = Kinds
    BY <2>1 DEF Kinds
  <2>3. Typed'
    BY <2>1 DEF Inv, Typed, TypeOK
  <2>4. Returned' /\ Written'
    BY <2>1 DEF Inv, Returned, Written, Halted, Barrier
  <2>5. Recorded'
    BY <2>1, <2>2 DEF Inv, Recorded, Common, Special, Preparing, Ending, Barrier
  <2>6. Lasting' = Lasting /\ Heard' = Heard /\ Halted(Unit)' = Halted(Unit)
    BY <2>1, <2>2 DEF Lasting, Heard, Silent, Halted
  <2>7. StartingClean'
    BY <2>1, <2>2, <2>6 DEF Inv, Disturbed, StartingClean
  <2>8. StartingAgain' /\ StartingController'
    BY <2>1, <2>2, <2>6 DEF Inv, Disturbed, StartingAgain, StartingController, Barrier
  <2>9. Recovering'
    BY <2>1, <2>2, <2>6 DEF Inv, Recovering
  <2>10. Recovered'
    BY <2>1, <2>2 DEF Inv, Recovered, Ending
  <2>11. QED
    BY <2>3, <2>4, <2>5, <2>7, <2>8, <2>9, <2>10 DEF Inv, Disturbed
<1>3. QED
  BY <1>1, <1>2

\* Every step of the script, of its failures and of the peers keeps the invariant.
THEOREM Invariance == Spec => []Inv
BY InitInv, StepInv, PTL DEF Spec

\* When an attempt has ended, in whatever way, the transport runs or is gone, the
\* backhaul is not cut, the client has its key and the agent its own file, unless the
\* command that gives one of them back did not run.
THEOREM AllRestored == Spec => []Restored
<1>1. ASSUME Inv PROVE Restored
  <2>1. SUFFICES ASSUME pc \in Ending \cup {"idle"}, ~botched
                 PROVE  /\ proc["transport"] # "paused" /\ link # "cut"
                        /\ psk = "good" /\ conf = "own"
    BY DEF Restored
  <2>2. pc \notin Barrier \cup {"resume", "outage", "restore", "rejected", "right-key", "edit",
                                "own-conf"}
    BY <2>1 DEF Ending, Barrier
  <2>3. psk \in {"good", "wrong"} /\ conf \in {"own", "mutated"}
    BY <1>1 DEF Inv, Typed, TypeOK
  <2>4. QED
    BY <1>1, <2>1, <2>2, <2>3 DEF Inv, Returned
<1>2. QED
  BY <1>1, Invariance, PTL

\* systemd forgets the end of a native process only after it was written down: each unit
\* but the capture, at each reset, whether the script stopped it or it ended by itself.
LEMMA KeptStep ==
  ASSUME Inv, Next, NEW u \in Unit \ {"capture"}, proc[u] \in Ended, proc'[u] = "none"
  PROVE  u \in logged
<1>1. proc \in [Unit -> {"none", "active", "paused"} \cup Ended] /\ Written
  BY DEF Inv, Typed, TypeOK
<1>2. proc[u] \notin {"none", "active", "paused"}
  BY DEF Ended
<1>3. CASE proc' = proc
  BY <1>2, <1>3
<1>4. CASE Steady
  BY <1>3, <1>4 DEF Steady
<1>5. CASE Captures \/ Pause \/ Resume \/ Collect \/ Fail
  BY <1>1, <1>2, <1>5 DEF Captures, Pause, Resume, Collect, Fail
<1>6. CASE Halt
  BY <1>1, <1>2, <1>6 DEF Halt
<1>7. CASE Reset
  BY <1>1, <1>2, <1>7 DEF Reset, Forget, Written
<1>8. CASE Note
  BY <1>3, <1>8 DEF Note, native
<1>9. ASSUME NEW place, NEW units, NEW next, Launch(place, units, next) PROVE FALSE
  BY <1>1, <1>2, <1>9 DEF Launch
<1>10. ASSUME NEW place, NEW next, Policy(place, next) PROVE FALSE
  BY <1>2, <1>10 DEF Policy
<1>11. ASSUME NEW place, NEW v, NEW next, Stop(place, v, next) PROVE FALSE
  BY <1>1, <1>2, <1>11 DEF Stop, Ended
<1>12. ASSUME NEW place, NEW v, NEW next, WriteResult(place, v, next) PROVE FALSE
  BY <1>2, <1>12 DEF WriteResult, native
<1>13. ASSUME NEW place, NEW v, NEW next, ResetResult(place, v, next)
       PROVE  pc = place /\ u = v
  BY <1>1, <1>2, <1>13 DEF ResetResult, Forget
<1>14. CASE Clean
  BY <1>4, <1>9, <1>10, <1>14, SteadySteps DEF Clean
<1>15. CASE AgentRestart \/ ControllerRestart
  BY <1>1, <1>9, <1>10, <1>11, <1>12, <1>13, <1>15 DEF AgentRestart, ControllerRestart, Written
<1>16. CASE Crashes
  BY <1>1, <1>2, <1>16 DEF Crashes, Crash
<1>17. CASE Peers
  BY <1>3, <1>17 DEF Peers, Join, Contact, Lapse, native
<1>18. QED
  BY <1>4, <1>5, <1>6, <1>7, <1>8, <1>14, <1>15, <1>16, <1>17, SteadySteps, NextCases
     DEF Starts, Collects, Disturbs, Ends, Fails

\* The end of a process, other than the capture's, is on record before its unit is
\* forgotten, in whatever place the script was failed or killed (collect's order).
THEOREM EndsOnRecord == Spec => ResultsKept
<1>1. ASSUME Inv, [Next]_vars
      PROVE  \A u \in Unit \ {"capture"} : proc[u] \in Ended /\ proc'[u] = "none" => u \in logged
  <2>1. CASE Next
    BY <1>1, <2>1, KeptStep
  <2>2. CASE UNCHANGED vars
    BY <2>2 DEF vars, native, Ended
  <2>3. QED
    BY <1>1, <2>1, <2>2
<1>2. QED
  BY <1>1, Invariance, PTL DEF Spec, ResultsKept

\* An attempt of a suite that is recorded as passed when its summary is written has
\* recovered after its own disturbance, and shows it in its own capture; a suite
\* recorded as passed consists of such attempts.
THEOREM PassesAreTrue == Spec => []PassedIsTrue
<1>1. ASSUME Inv PROVE PassedIsTrue
  <2>1. ASSUME pc = "summary", disk[at] = "passed"
        PROVE  /\ since = {"contact", "wired", "wifi"} /\ ~cleared
               /\ tape.holds # {} /\ (Kinds = "clean" => "handshake" \in tape.holds)
    <3>1. status = "passed" /\ Kinds # "negative" /\ pc \in Ending
      BY <1>1, <2>1 DEF Inv, Recorded, Ending
    <3>2. QED
      BY <1>1, <2>1, <3>1 DEF Inv, Recovered
  <2>2. summary => \A i \in 1..Len(plan) : disk[i] = "passed"
    BY <1>1 DEF Inv, Recorded
  <2>3. QED
    BY <1>1, <2>1, <2>2 DEF PassedIsTrue, Inv, Typed
<1>2. QED
  BY <1>1, Invariance, PTL
=============================================================================
