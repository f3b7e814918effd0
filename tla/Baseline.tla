------------------------------ MODULE Baseline ------------------------------
(***************************************************************************)
(* The measurements of deploy/peer-baseline: run.py drives a native        *)
(* controller and a native agent through clean starts, restarts and an     *)
(* outage of their backhaul, negative.py through its negative controls.    *)
(* Every command may fail, the script may be interrupted or killed, and a  *)
(* native process may end by itself.                                       *)
(*                                                                         *)
(* The reads of one readiness check are one step.  hostapd, the bus and    *)
(* the supplicants start and stop with the processes that are modelled.    *)
(***************************************************************************)
EXTENDS Integers, Sequences

CONSTANTS
  Plans,        \* the invocations: sequences of kinds of attempts
  Modes,        \* subset of {"wired", "wireless"}
  MaxRuns,      \* bound: invocations one after the other
  MaxTroubles   \* bound: failed commands, interruptions, kills and crashes in all

Kind == {"clean", "agent-restart", "controller-restart", "backhaul-loss", "negative"}

ASSUME BaselineAssumption ==
  /\ Plans \subseteq Seq(Kind) /\ <<>> \notin Plans
  /\ Modes \subseteq {"wired", "wireless"}
  /\ {MaxRuns, MaxTroubles} \subseteq Nat

VARIABLES
  plan, mode, at,  \* the invocation, and the attempt it is at
  pc,              \* where the script is
  node,            \* the node that stop_collect is at
  held,            \* a poll has seen the system ready since it last was not
  status,          \* result["status"] of the attempt, in memory
  disk,            \* and in result.json, of each attempt
  summary,         \* all_passed in summary.json
  proc,            \* the units: systemd's view of each
  logged,          \* the ended units whose result is recorded
  policy,          \* whether the running controller has the BSS policy
  ap,              \* the configuration of the access point of each node
  up,              \* which agents call themselves operational
  known, fresh,    \* the controller's inventory of the agent, and whether its last
                   \* contact is later than fresh_after
  link,            \* the backhaul
  psk, conf,       \* the wireless client's key ("wrong" also while its network is
                   \* disabled), the agent's hostapd file
  tape,            \* the Ethernet capture: whether it runs, what it holds
  since,           \* what has happened since the attempt's disturbance ended
  cleared,         \* whether an access point has lost its configuration since it began
  botched,         \* whether a command that restores something did not run
  runs, troubles   \* counts for the bounds

script == <<plan, mode, at, node, runs>>
record == <<disk, summary, logged>>
native == <<proc, policy, ap, up, known>>
lab == <<link, psk, conf>>
story == <<tape, since, cleared>>
vars == <<script, pc, held, status, record, native, fresh, lab, story, botched, troubles>>

Unit == {"transport", "controller", "helper", "agent", "capture"}
UnitsOf == <<{"transport", "controller", "helper", "capture"}, {"agent"}>>
Ended == {"success", "failed"}
Peer == {"controller", "agent"}

TypeOK ==
  /\ plan \in Plans /\ mode \in Modes /\ at \in 1..Len(plan)
  /\ node \in 1..2 /\ held \in BOOLEAN
  /\ status \in {"running", "passed", "failed", "interrupted"}
  /\ disk \in [1..Len(plan) -> {"none", "running", "passed", "failed"}]
  /\ summary \in BOOLEAN
  /\ proc \in [Unit -> {"none", "active", "paused"} \cup Ended]
  /\ \A u \in logged : proc[u] \in Ended
  /\ policy => proc["controller"] = "active"
  /\ ap \in [Peer -> {"initial", "applied", "cleared"}]
  /\ up \subseteq {u \in {"helper", "agent"} : proc[u] = "active"}
  /\ link \in {"none", "up", "cut"}
  /\ psk \in {"good", "wrong"} /\ conf \in {"own", "mutated"}
  /\ tape \in [on: BOOLEAN, holds: SUBSET {"handshake", "traffic"}]
  /\ since \subseteq {"contact", "wired", "wifi"}
  /\ {known, fresh, cleared, botched} \subseteq BOOLEAN
  /\ runs \in 0..MaxRuns /\ troubles \in 0..MaxTroubles

Init ==
  /\ plan \in Plans /\ mode \in Modes /\ at = 1
  /\ pc = "idle" /\ node = 1 /\ held = FALSE
  /\ status = "running" /\ disk = [i \in 1..Len(plan) |-> "none"] /\ summary = FALSE
  /\ proc = [u \in Unit |-> "none"] /\ logged = {}
  /\ policy = FALSE /\ ap = [x \in Peer |-> "initial"]
  /\ up = {} /\ known = FALSE /\ fresh = TRUE
  /\ link = "none" /\ psk = "good" /\ conf = "own"
  /\ tape = [on |-> FALSE, holds |-> {}] /\ since = {} /\ cleared = FALSE
  /\ botched = FALSE /\ runs = 0 /\ troubles = 0

\* The kind of the attempt.
Kinds == plan[at]
Enter(p, i) == IF p[i] = "clean" THEN "halt" ELSE "attempt"

\* A new invocation, under a label of its own.
Invoke ==
  /\ pc = "idle" /\ runs < MaxRuns
  /\ \E p \in Plans, m \in Modes :
       /\ plan' = p /\ mode' = m /\ at' = 1 /\ node' = 1
       /\ disk' = [i \in 1..Len(p) |-> "none"]
       /\ pc' = Enter(p, 1)
  /\ summary' = FALSE /\ runs' = runs + 1
  /\ UNCHANGED <<held, status, logged, native, fresh, lab, story, botched, troubles>>

-----------------------------------------------------------------------------
(***************************************************************************)
(* stop_collect, before a clean start: node by node, stop, record, reset.  *)
(***************************************************************************)

Gone(units) ==
  /\ up' = up \ units
  /\ policy' = (policy /\ "controller" \notin units)
  /\ known' = (known /\ "controller" \notin units)

\* A stopped process that was paused ends by the timeout of its unit.
Halt ==
  /\ pc = "halt"
  /\ \E bad \in SUBSET UnitsOf[node] :
       proc' = [u \in Unit |->
         IF u \notin UnitsOf[node] \/ proc[u] \notin {"active", "paused"} THEN proc[u]
         ELSE IF u \in bad \/ proc[u] = "paused" THEN "failed" ELSE "success"]
  /\ Gone(UnitsOf[node])
  /\ pc' = "note"
  /\ UNCHANGED <<script, held, status, record, ap, fresh, lab, story, botched, troubles>>

\* Fault: the units are reset although nothing was written.
NoteNothing ==
  /\ pc = "note"
  /\ pc' = "reset"
  /\ UNCHANGED <<script, held, status, record, native, fresh, lab, story, botched, troubles>>

\* shutdown.json
Note ==
  /\ pc = "note"
  /\ logged' = logged \cup {u \in UnitsOf[node] : proc[u] \in Ended}
  /\ pc' = "reset"
  /\ UNCHANGED <<script, held, status, disk, summary, native, fresh, lab, story, botched, troubles>>

Forget(units) ==
  /\ proc' = [u \in Unit |-> IF u \in units /\ proc[u] \in Ended THEN "none" ELSE proc[u]]
  /\ logged' = logged \ units

Reset ==
  /\ pc = "reset" /\ Forget(UnitsOf[node])
  /\ IF node = 1 THEN node' = 2 /\ pc' = "halt" ELSE node' = 1 /\ pc' = "attempt"
  /\ UNCHANGED <<plan, mode, at, runs, held, status, disk, summary, policy, ap, up, known,
                 fresh, lab, story, botched, troubles>>

-----------------------------------------------------------------------------
(***************************************************************************)
(* An attempt up to its disturbance.                                       *)
(***************************************************************************)

Begin ==
  /\ pc = "attempt"
  /\ status' = "running" /\ disk' = [disk EXCEPT ![at] = "running"]
  /\ tape' = [on |-> FALSE, holds |-> {}] /\ since' = {} /\ cleared' = FALSE
  /\ fresh' = TRUE /\ held' = FALSE
  /\ pc' = (CASE Kinds = "clean" -> "prepare"
              [] Kinds \in {"backhaul-loss", "negative"} -> "healthy"
              [] OTHER -> "captures")
  /\ UNCHANGED <<script, summary, logged, native, lab, botched, troubles>>

\* node.py prepare and hostap, on both nodes: no credentials are left.
Prepare ==
  /\ pc = "prepare" /\ \A u \in Unit : proc[u] = "none"
  /\ ap' = [x \in Peer |-> "initial"]
  /\ link' = IF mode = "wired" THEN "up" ELSE "none"
  /\ conf' = "own"
  /\ pc' = "captures"
  /\ UNCHANGED <<script, held, status, record, proc, policy, up, known, fresh, psk, story,
                 botched, troubles>>

\* Everything the controller and the nodes report, in one reading of all of it.
Ready ==
  /\ up = {"helper", "agent"}
  /\ \A x \in Peer : ap[x] = "applied"
  /\ proc["controller"] = "active" /\ known /\ fresh
  /\ mode = "wireless" => link = "up"

Healthy ==
  /\ pc = "healthy" /\ Ready
  /\ pc' = "captures"
  /\ UNCHANGED <<script, held, status, record, native, fresh, lab, story, botched, troubles>>

\* Both captures; a recovery takes fresh_after when they run.
Captures ==
  /\ pc = "captures" /\ proc["capture"] = "none"
  /\ proc' = [proc EXCEPT !["capture"] = "active"]
  /\ tape' = [tape EXCEPT !.on = TRUE]
  /\ fresh' = (Kinds \in {"clean", "negative"})
  /\ pc' = (CASE Kinds = "clean" -> "services"
              [] Kinds = "agent-restart" -> "stop"
              [] Kinds = "controller-restart" -> "pause"
              [] Kinds = "backhaul-loss" -> "cut"
              [] Kinds = "negative" -> "wrong-key")
  /\ UNCHANGED <<script, held, status, record, policy, ap, up, known, lab, since, cleared,
                 botched, troubles>>

\* node.py launch: nothing of the name may be left.
Launch(place, units, next) ==
  /\ pc = place /\ \A u \in units : proc[u] = "none"
  /\ proc' = [u \in Unit |-> IF u \in units THEN "active" ELSE proc[u]]
  /\ pc' = next
  /\ UNCHANGED <<script, held, status, record, policy, ap, up, known, fresh, lab, story,
                 botched, troubles>>

\* The controller answers, and is given its policy.
Policy(place, next) ==
  /\ pc = place /\ proc["controller"] = "active"
  /\ policy' = TRUE
  /\ pc' = next
  /\ UNCHANGED <<script, held, status, record, proc, ap, up, known, fresh, lab, story,
                 botched, troubles>>

ControllerApplied ==
  /\ pc = "controller-ap" /\ ap["controller"] = "applied"
  /\ pc' = IF mode = "wireless" THEN "bootstrap" ELSE "start-agent"
  /\ UNCHANGED <<script, held, status, record, native, fresh, lab, story, botched, troubles>>

\* The agent learns the backhaul by WPS.
Bootstrap ==
  /\ pc = "bootstrap" /\ ap["controller"] = "applied" /\ link = "none"
  /\ link' = "up"
  /\ pc' = "start-agent"
  /\ UNCHANGED <<script, held, status, record, native, fresh, psk, conf, story, botched, troubles>>

Clean ==
  \/ Prepare
  \/ Launch("services", {"transport", "controller"}, "start-helper")
  \/ Launch("start-helper", {"helper"}, "policy")
  \/ Policy("policy", "controller-ap")
  \/ ControllerApplied \/ Bootstrap
  \/ Launch("start-agent", {"agent"}, "poll")

-----------------------------------------------------------------------------
(***************************************************************************)
(* Disturbances.                                                           *)
(***************************************************************************)

\* unit(name, "stop", ...) of a process that has to be running; the result is
\* read and written before it is reset.
Stop(place, u, next) ==
  /\ pc = place /\ proc[u] = "active"
  /\ \E r \in Ended : proc' = [proc EXCEPT ![u] = r]
  /\ Gone({u})
  /\ since' = {}
  /\ cleared' = (cleared /\ u # "agent")
  /\ pc' = next
  /\ UNCHANGED <<script, held, status, record, ap, fresh, lab, tape, botched, troubles>>

WriteResult(place, u, next) ==
  /\ pc = place
  /\ logged' = logged \cup {u}
  /\ pc' = next
  /\ UNCHANGED <<script, held, status, disk, summary, native, fresh, lab, story, botched, troubles>>

ResetResult(place, u, next) ==
  /\ pc = place /\ Forget({u})
  /\ pc' = next
  /\ UNCHANGED <<script, held, status, disk, summary, policy, ap, up, known, fresh, lab, story,
                 botched, troubles>>

AgentRestart ==
  \/ Stop("stop", "agent", "write")
  \/ WriteResult("write", "agent", "forget")
  \/ ResetResult("forget", "agent", "restart")
  \/ Launch("restart", {"agent"}, "poll")

\* controller_policy_barrier: SIGSTOP for the transport of the controller.
Pause ==
  /\ pc = "pause" /\ proc["transport"] = "active"
  /\ proc' = [proc EXCEPT !["transport"] = "paused"]
  /\ cleared' = FALSE
  /\ pc' = "stop-helper"
  /\ UNCHANGED <<script, held, status, record, policy, ap, up, known, fresh, lab, tape, since,
                 botched, troubles>>

ControllerRestart ==
  \/ Stop("stop-helper", "helper", "write-helper")
  \/ WriteResult("write-helper", "helper", "forget-helper")
  \/ ResetResult("forget-helper", "helper", "stop-controller")
  \/ Stop("stop-controller", "controller", "write-controller")
  \/ WriteResult("write-controller", "controller", "forget-controller")
  \/ ResetResult("forget-controller", "controller", "restart-controller")
  \/ Launch("restart-controller", {"controller"}, "restart-helper")
  \/ Launch("restart-helper", {"helper"}, "restore-policy")
  \/ Policy("restore-policy", "resume")

Barrier ==
  {"stop-helper", "write-helper", "forget-helper", "stop-controller", "write-controller",
   "forget-controller", "restart-controller", "restart-helper", "restore-policy"}

\* Where the attempt goes on after a finally block.
Onwards(place) == IF status = "running" THEN place ELSE "collect"

\* SIGCONT, on every way out of the barrier.
Resume ==
  /\ pc = "resume"
  /\ proc' = [proc EXCEPT !["transport"] = IF @ = "paused" THEN "active" ELSE @]
  /\ pc' = Onwards("poll")
  /\ UNCHANGED <<script, held, status, record, policy, ap, up, known, fresh, lab, story,
                 botched, troubles>>

Cut ==
  /\ pc = "cut"
  /\ link' = "cut" /\ since' = {} /\ cleared' = FALSE
  /\ pc' = "outage"
  /\ UNCHANGED <<script, held, status, record, native, fresh, psk, conf, tape, botched,
                 troubles>>

\* Ten seconds without it: both clients have to have lost the controller.
Outage ==
  /\ pc = "outage" /\ link = "cut"
  /\ pc' = "restore"
  /\ UNCHANGED <<script, held, status, record, native, fresh, lab, story, botched, troubles>>

\* Fault: fresh_after stays where it was before the outage.
RestoreKeepsStamp ==
  /\ pc = "restore"
  /\ link' = "up" /\ since' = {}
  /\ pc' = Onwards("poll")
  /\ UNCHANGED <<script, held, status, record, native, fresh, psk, conf, tape, cleared,
                 botched, troubles>>

\* The finally block; fresh_after is taken again once the link is back.
Restore ==
  /\ pc = "restore"
  /\ link' = "up" /\ since' = {}
  /\ fresh' = (status # "running" /\ fresh)
  /\ pc' = Onwards("poll")
  /\ UNCHANGED <<script, held, status, record, native, psk, conf, tape, cleared, botched,
                 troubles>>

\* wrong_key: the client's network is disabled, then tried with a wrong key, with which
\* it must not be authorized.
WrongKey ==
  /\ pc = "wrong-key"
  /\ psk' = "wrong"
  /\ pc' = "rejected"
  /\ UNCHANGED <<script, held, status, record, native, fresh, link, conf, story, botched, troubles>>

Rejected ==
  /\ pc = "rejected"
  /\ pc' = "right-key"
  /\ UNCHANGED <<script, held, status, record, native, fresh, lab, story, botched, troubles>>

RightKey ==
  /\ pc = "right-key"
  /\ psk' = "good" /\ since' = {}
  /\ pc' = Onwards("clients")
  /\ UNCHANGED <<script, held, status, record, native, fresh, link, conf, tape, cleared,
                 botched, troubles>>

\* update_rejections: each edit has to be refused, and the file is put back.
Edit ==
  /\ pc = "edit"
  /\ conf' = "mutated"
  /\ pc' \in {"edit", "own-conf"}
  /\ UNCHANGED <<script, held, status, record, native, fresh, link, psk, story, botched, troubles>>

OwnConf ==
  /\ pc = "own-conf"
  /\ conf' = "own"
  /\ pc' = Onwards("clients-again")
  /\ UNCHANGED <<script, held, status, record, native, fresh, link, psk, story, botched, troubles>>

Negative == WrongKey \/ Rejected \/ RightKey \/ Edit \/ OwnConf

-----------------------------------------------------------------------------
(***************************************************************************)
(* Recovery, clients, stability.                                           *)
(***************************************************************************)

\* poll, until the system has been ready for as long as it has to be: 30 seconds
\* after an outage, otherwise once.
Poll ==
  /\ pc = "poll"
  /\ held' = Ready
  /\ \/ pc' = pc
     \/ Ready /\ (Kinds = "backhaul-loss" => held) /\ pc' = "clients"
  /\ UNCHANGED <<script, status, record, native, fresh, lab, story, botched, troubles>>

\* A new nonce, fetched from behind the backhaul by the wired client and then by
\* the wireless one, which needs its key and the agent's access point.
Reaches(c) ==
  /\ link = "up"
  /\ c = "wifi" => psk = "good" /\ ap["agent"] = "applied"

\* A clean start prepares the clients first, with their keys.
Client(c) ==
  /\ pc \in {"clients", "clients-again", "probe"}
  /\ c = "wifi" => "wired" \in since
  /\ Reaches(c)
  /\ since' = since \cup {c}
  /\ pc' = IF c = "wired" THEN pc
           ELSE CASE pc = "clients" /\ Kinds = "negative" -> "edit"
                  [] pc = "probe" -> "final"
                  [] OTHER -> "dwell"
  /\ psk' = IF Kinds = "clean" /\ pc = "clients" THEN "good" ELSE psk
  /\ UNCHANGED <<script, held, status, record, native, fresh, link, conf, tape, cleared,
                 botched, troubles>>

\* The dwell of 30 seconds in which the system has to be ready at each sample; the
\* traffic after it is new.
Dwell ==
  /\ pc = "dwell" /\ Ready
  /\ \/ pc' = pc /\ UNCHANGED since
     \/ pc' = "probe" /\ since' = since \ {"wired", "wifi"}
  /\ UNCHANGED <<script, held, status, record, native, fresh, lab, tape, cleared, botched,
                 troubles>>

Final ==
  /\ pc = "final" /\ Ready
  /\ status' = "passed"
  /\ pc' = "collect"
  /\ UNCHANGED <<script, held, record, native, fresh, lab, story, botched, troubles>>

-----------------------------------------------------------------------------
(***************************************************************************)
(* The end of an attempt.                                                  *)
(***************************************************************************)

\* The captures end; tcpdump's result is of no interest.
Collect ==
  /\ pc = "collect"
  /\ tape' = [tape EXCEPT !.on = FALSE]
  /\ proc' = [proc EXCEPT !["capture"] = "none"] /\ logged' = logged \ {"capture"}
  /\ pc' = IF status = "passed" /\ Kinds # "negative" THEN "evidence" ELSE "save"
  /\ UNCHANGED <<script, held, status, disk, summary, policy, ap, up, known, fresh, lab,
                 since, cleared, botched, troubles>>

\* protocol_evidence: the exchange of a clean start, some traffic of the agent's
\* otherwise.
Evidence ==
  /\ pc = "evidence"
  /\ status' = IF IF Kinds = "clean" THEN "handshake" \in tape.holds ELSE tape.holds # {}
               THEN status ELSE "failed"
  /\ pc' = "save"
  /\ UNCHANGED <<script, held, record, native, fresh, lab, story, botched, troubles>>

\* An interruption leaves the record as it was, and ends the invocation.
Save ==
  /\ pc = "save"
  /\ disk' = [disk EXCEPT ![at] = IF status = "interrupted" THEN "running" ELSE status]
  /\ pc' = IF status = "interrupted" \/ Kinds = "negative" THEN "idle" ELSE "summary"
  /\ UNCHANGED <<script, held, status, summary, logged, native, fresh, lab, story, botched,
                 troubles>>

\* summary.json; the first failure is the last attempt.
Summary ==
  /\ pc = "summary"
  /\ summary' = (status = "passed" /\ at = Len(plan))
  /\ IF status = "passed" /\ at < Len(plan)
     THEN at' = at + 1 /\ pc' = Enter(plan, at + 1)
     ELSE pc' = "idle" /\ UNCHANGED at
  /\ UNCHANGED <<plan, mode, node, runs, held, status, disk, logged, native, fresh, lab, story,
                 botched, troubles>>

-----------------------------------------------------------------------------
(***************************************************************************)
(* Failures.                                                               *)
(***************************************************************************)

Trouble == troubles < MaxTroubles /\ troubles' = troubles + 1

Preparing == {"halt", "note", "reset", "attempt"}
Restoring == {"pause", "resume", "restore", "wrong-key", "right-key", "own-conf"}
Ending == {"collect", "evidence", "save", "summary"}

\* Fault: a failure behind the barrier leaves the transport stopped.
HandlerOfOutages(place) ==
  CASE place \in {"cut", "outage"} -> "restore"
    [] place = "rejected" -> "right-key"
    [] place = "edit" -> "own-conf"
    [] OTHER -> "collect"

\* The finally block that an exception meets.
Handler(place) ==
  CASE place \in Barrier -> "resume"
    [] place \in {"cut", "outage"} -> "restore"
    [] place = "rejected" -> "right-key"
    [] place = "edit" -> "own-conf"
    [] OTHER -> "collect"

\* A command fails, a poll runs out of time, a check does not hold; or ctrl-C.
\* The commands of a finally block, and the SIGSTOP and the first disable_network, which
\* no finally block undoes, may have had their effect.  (Any other command that fails
\* after its effect is the command's step, and a failure at the next one.)
Fail ==
  /\ pc \notin Preparing \cup Ending \cup {"idle"} /\ Trouble
  /\ status' \in (IF status = "running" THEN {"failed", "interrupted"} ELSE {status})
  /\ pc' = Handler(pc)
  /\ botched' = (botched \/ pc \in Restoring)
  /\ proc' \in (IF pc = "pause" /\ proc["transport"] = "active"
                THEN {proc, [proc EXCEPT !["transport"] = "paused"]} ELSE {proc})
  /\ psk' \in (IF pc = "wrong-key" THEN {psk, "wrong"} ELSE {psk})
  /\ UNCHANGED <<script, held, record, policy, ap, up, known, fresh, link, conf, story>>

\* An exception of the collection or of the evidence.
FailCollecting ==
  /\ pc \in {"collect", "evidence"} /\ Trouble
  /\ status' \in {"failed", "interrupted"}
  /\ pc' = IF status' = "failed" THEN "save" ELSE "idle"
  /\ UNCHANGED <<script, held, record, native, fresh, lab, story, botched>>

\* The process is killed, or fails outside of an attempt.
Killed ==
  /\ pc # "idle" /\ Trouble
  /\ pc' = "idle"
  /\ botched' = (botched \/ pc \in Barrier \cup Restoring \cup {"outage", "rejected", "edit"})
  /\ UNCHANGED <<script, held, status, record, native, fresh, lab, story>>

\* A native process ends by itself.
Crash(u) ==
  /\ proc[u] = "active" /\ Trouble
  /\ proc' = [proc EXCEPT ![u] = "failed"]
  /\ Gone({u})
  /\ tape' = [tape EXCEPT !.on = @ /\ u # "capture"]
  /\ UNCHANGED <<script, pc, held, status, record, ap, fresh, lab, since, cleared, botched>>

-----------------------------------------------------------------------------
(***************************************************************************)
(* The native peers.                                                       *)
(***************************************************************************)

Carried(u) ==
  /\ proc["transport"] = "active" /\ proc["controller"] = "active" /\ proc[u] = "active"
  /\ u = "agent" => link = "up"

Seen(what) == tape' = IF tape.on THEN [tape EXCEPT !.holds = @ \cup {what}] ELSE tape

Where(u) == IF u = "helper" THEN "controller" ELSE "agent"

\* An agent is configured by the controller: with its policy, or without any.
Join(u) ==
  /\ Carried(u)
  /\ u \notin up \/ (policy /\ ap[Where(u)] # "applied") \/ (u = "agent" /\ policy /\ ~known)
  /\ up' = up \cup {u}
  /\ ap' = [ap EXCEPT ![Where(u)] = IF policy THEN "applied"
                                    ELSE IF @ = "initial" THEN @ ELSE "cleared"]
  /\ cleared' = (cleared \/ (ap[Where(u)] = "applied" /\ ~policy))
  /\ IF u = "agent"
     THEN /\ known' = policy /\ fresh' = TRUE
          /\ since' = since \cup {"contact"} /\ Seen("handshake")
     ELSE UNCHANGED <<known, fresh, since, tape>>
  /\ UNCHANGED <<script, pc, held, status, record, proc, policy, lab, botched, troubles>>

\* The agent's regular messages.
Contact ==
  /\ Carried("agent") /\ "agent" \in up /\ known
  /\ fresh' = TRUE /\ since' = since \cup {"contact"} /\ Seen("traffic")
  /\ UNCHANGED <<script, pc, held, status, record, native, lab, cleared, botched, troubles>>

\* An agent notices that it has lost its controller.
Lapse(u) ==
  /\ u \in up /\ ~Carried(u)
  /\ up' = up \ {u}
  /\ UNCHANGED <<script, pc, held, status, record, proc, policy, ap, known, fresh, lab, story,
                 botched, troubles>>

Peers ==
  \/ Contact
  \/ \E u \in {"helper", "agent"} : Join(u) \/ Lapse(u)

Script ==
  \/ Invoke \/ Halt \/ Note \/ Reset \/ Begin \/ Healthy \/ Captures
  \/ Clean \/ AgentRestart \/ Pause \/ ControllerRestart \/ Resume
  \/ Cut \/ Outage \/ Restore \/ Negative
  \/ Poll \/ (\E c \in {"wired", "wifi"} : Client(c)) \/ Dwell \/ Final
  \/ Collect \/ Evidence \/ Save \/ Summary

Failures == Fail \/ FailCollecting \/ Killed \/ \E u \in Unit : Crash(u)

Next == Script \/ Failures \/ Peers

Spec == Init /\ [][Next]_vars

-----------------------------------------------------------------------------
(***************************************************************************)
(* What must hold.                                                         *)
(***************************************************************************)

\* The state is well typed, and when its summary is written an attempt of a suite is
\* recorded as passed only if, after its disturbance had ended, the agent was heard
\* from and both clients got fresh data, while no access point had lost its
\* configuration on the way, and the capture of this attempt shows the agent; a suite
\* has passed only if each of its planned attempts has.  (The negative controls write
\* no summary: nothing is said of them.)
PassedIsTrue ==
  /\ TypeOK
  /\ pc = "summary" /\ disk[at] = "passed" =>
       /\ since = {"contact", "wired", "wifi"} /\ ~cleared
       /\ tape.holds # {} /\ (Kinds = "clean" => "handshake" \in tape.holds)
  /\ summary => \A i \in 1..Len(plan) : disk[i] = "passed"

\* A native process's abnormal end is on record before systemd forgets it.  (Of the
\* capture's unit nothing is recorded, see Collect.)
ResultsKept ==
  [][\A u \in Unit \ {"capture"} : proc[u] \in Ended /\ proc'[u] = "none" => u \in logged]_vars

\* Whatever an attempt takes away is given back when it ends, however it ends:
\* the transport, the backhaul, the client's key and the agent's file, unless the
\* command that gives it back does not run, a command fails that no finally block
\* undoes, or the script is killed.
Restored ==
  pc \in Ending \cup {"idle"} /\ ~botched =>
    /\ proc["transport"] # "paused" /\ link # "cut"
    /\ psk = "good" /\ conf = "own"
=============================================================================
