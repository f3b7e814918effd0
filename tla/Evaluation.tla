---------------------------- MODULE Evaluation -----------------------------
(***************************************************************************)
(* One run of a scenario on the simulated backend: run in                  *)
(* src/emosa/evaluation/runner.py starts a database and a manager for each *)
(* pod, submits one operation per pod, injects the fault, reconciles,      *)
(* judges, cleans up and seals the record of the run.  Any await may raise *)
(* or be interrupted, and `emosa-lab watch` reads the journal meanwhile.   *)
(*                                                                         *)
(* The faults withhold, reject, partial and lost-reply change what the pod *)
(* does, which is open here for every fault; the runner treats them as     *)
(* "none".                                                                 *)
(***************************************************************************)
EXTENDS Operations, Integers, FiniteSets

CONSTANTS
  Pod,             \* target_allowlist
  Affected,        \* the pod of the scenario's intent, which the fault is for
  Faults,          \* the fault actions that are considered
  ExpectedStates,  \* scenario.expected.state
  ExpectedBy,      \* scenario.expected.commit_attribution
  MaxRaises        \* bound: how many closes raise

FaultActions ==
  {"none", "compete", "guard-conflict", "restart-controller", "restart-server"}

ASSUME EvaluationAssumption ==
  /\ IsFiniteSet(Pod) /\ Affected \in Pod
  /\ Faults \subseteq FaultActions
  /\ ExpectedStates \subseteq State
  /\ ExpectedBy \subseteq {"reply", "unknown", "not_submitted", "any"}
  /\ MaxRaises \in Nat

VARIABLES
  scenario,  \* the fault and the expectation, fixed for the run
  pc,        \* where the runner is
  todo,      \* the pods, or the resources to close, that are left in this loop
  op,        \* the journal's operations, one per pod
  news,      \* which readers of the journal have not read all of its events
  journal,   \* the runner's Store: open, or closed and not open again
  owned,     \* managers, backends, databases: what cleanup will close
  alive,     \* what is running or connected, kept or not
  stray,     \* whether a manager runs whose start failed before it was kept
  result,    \* the record in memory
  record,    \* the record in the journal
  loose,     \* reconciliations that outlive the failure of another pod's
  over,      \* whether the time of the run is over
  watch      \* the watching reader

vars == <<scenario, pc, todo, op, news, journal, owned, alive, stray, result,
          record, loose, over, watch>>
jvars == <<op, news, journal>>
rvars == <<owned, alive, stray>>

Resource == {"manager", "session", "database"} \X Pod

NoOp == [state |-> Absent, by |-> "not_submitted", late |-> FALSE]
NoRecord == [status |-> "none", verdict |-> "inconclusive", cleanup |-> "pending",
             ops |-> [p \in Pod |-> NoOp]]

\* Those who read the events: `emosa-lab watch`, and the export into events.json.
Readers == {"watch", "export"}

Awaits == {"setup", "submit", "stop-manager", "stop-database", "probe",
           "start-database", "start-manager", "feedback", "reconcile", "judge"}

Rows == [Pod -> [state: State \cup {Absent}, late: BOOLEAN,
                 by: {"reply", "unknown", "not_submitted"}]]
Verdicts == {"inconclusive", "blocked", "pass", "fail"}
Statuses == {"running", "completed", "failed", "blocked", "interrupted"}

TypeOK ==
  /\ scenario \in [fault: Faults, state: ExpectedStates, by: ExpectedBy,
                   missing: BOOLEAN]
  /\ pc \in Awaits \cup {"begin", "check", "restart", "cleanup", "ended", "raised",
                       "struck"}
  /\ todo \subseteq Pod \cup Resource
  /\ op \in Rows /\ news \subseteq Readers /\ journal \in {"open", "closed"}
  /\ owned \subseteq Resource /\ alive \subseteq Resource /\ stray \in BOOLEAN
  /\ result \in [status: Statuses, verdict: Verdicts, errors: 0..MaxRaises]
  /\ record \in [status: Statuses \cup {"none"}, verdict: Verdicts, ops: Rows,
                 cleanup: {"pending", "completed", "pending_recovery"}]
  /\ record.status = "running" => record.cleanup = "pending"
  /\ loose \subseteq Pod /\ over \in BOOLEAN
  /\ watch \in [pc: {"status", "events", "ended"}, saw: Statuses]

Init ==
  /\ scenario \in [fault: Faults, state: ExpectedStates, by: ExpectedBy,
                   missing: BOOLEAN]
  /\ pc = "begin" /\ todo = {}
  /\ op = NoRecord.ops /\ news = {} /\ journal = "open"
  /\ owned = {} /\ alive = {} /\ stray = FALSE
  /\ result = [status |-> "running", verdict |-> "inconclusive", errors |-> 0]
  /\ record = NoRecord /\ loose = {} /\ over = FALSE
  /\ watch = [pc |-> "status", saw |-> "running"]

-----------------------------------------------------------------------------
(***************************************************************************)
(* From the first record to the submissions.                               *)
(***************************************************************************)

\* Store.event, and the events of Store.add and Store.save.
Append == news' = Readers

Goto(place, rest) == pc' = place /\ todo' = rest

\* The first save_run; a run that misses a prerequisite is blocked at once.
Begin ==
  /\ pc = "begin"
  /\ record' = [record EXCEPT !.status = "running"]
  /\ IF scenario.missing
     THEN /\ result' = [result EXCEPT !.status = "blocked", !.verdict = "blocked"]
          /\ Append
          /\ Goto("cleanup", {})
     ELSE Goto("setup", Pod) /\ UNCHANGED <<result, news>>
  /\ UNCHANGED <<scenario, op, journal, rvars, loose, over, watch>>

Simulation(p) == {"manager", "session", "database"} \X {p}

\* The next loop starts when this one has been through every pod.
Rest(p, place) ==
  IF todo = {p} THEN Goto(place, Pod) ELSE Goto(pc, todo \ {p})

\* A database, seeded, and a manager that answers.
SetUp(p) ==
  /\ pc = "setup" /\ p \in todo
  /\ owned' = owned \cup Simulation(p)
  /\ alive' = alive \cup Simulation(p)
  /\ Rest(p, "submit")
  /\ UNCHANGED <<scenario, jvars, stray, result, record, loose, over, watch>>

\* READY and the request.
Request(p) ==
  /\ pc = "submit" /\ p \in todo /\ op[p].state = Absent
  /\ \A q \in todo : op[q].state \notin {"REQUESTED", "SUBMITTED"}
  /\ op' = [op EXCEPT ![p].state = "REQUESTED"]
  /\ Append
  /\ UNCHANGED <<scenario, pc, todo, journal, rvars, result, record, loose, over, watch>>

\* Engine.execute plans: the row is refused, needs no write, or is submitted.
Plan(p) ==
  /\ pc = "submit" /\ op[p].state = "REQUESTED"
  /\ \/ /\ \E s \in {"REJECTED", "OBSERVED_APPLIED"} :
             op' = [op EXCEPT ![p].state = s]
        /\ Rest(p, "check")
     \/ /\ op' = [op EXCEPT ![p].state = "SUBMITTED", ![p].by = "unknown"]
        /\ UNCHANGED <<pc, todo>>
  /\ Append
  /\ UNCHANGED <<scenario, journal, rvars, result, record, loose, over, watch>>

\* The submission is answered, or its outcome stays unknown.
Answer(p) ==
  /\ pc = "submit" /\ op[p].state = "SUBMITTED"
  /\ \E s \in TRANSITIONS["SUBMITTED"] :
       op' = [op EXCEPT ![p].state = s,
                        ![p].by = IF s = "CONFIG_COMMITTED" THEN "reply" ELSE @]
  /\ Rest(p, "check")
  /\ Append
  /\ UNCHANGED <<scenario, journal, rvars, result, record, loose, over, watch>>

-----------------------------------------------------------------------------
(***************************************************************************)
(* The fault.                                                              *)
(***************************************************************************)

\* What the handlers make of an exception, and where the finally block starts;
\* they add an event, which fails once more when the journal is closed.
Raise(status, verdict, kept) ==
  /\ result' = [result EXCEPT !.status = status, !.verdict = verdict]
  /\ IF status # "interrupted" /\ journal = "open" THEN Append ELSE UNCHANGED news
  /\ Goto("cleanup", kept)

\* No operation may be applied before the manager has acted.
Check ==
  /\ pc = "check"
  /\ IF \E p \in Pod : op[p].state = "OBSERVED_APPLIED"
     THEN Raise("failed", "fail", owned)
     ELSE /\ Append
          /\ pc' = (CASE scenario.fault = "restart-controller" -> "restart"
                      [] scenario.fault = "restart-server" -> "stop-manager"
                      [] OTHER -> "feedback")
          /\ UNCHANGED <<todo, result>>
  /\ UNCHANGED <<scenario, op, journal, rvars, record, loose, over, watch>>

\* The journal is closed and opened again, and a new engine recovers its rows;
\* if it cannot be opened the run goes on to its handlers without one.
RestartController ==
  /\ pc = "restart"
  /\ \/ /\ op' = [p \in Pod |->
                    IF op[p].state = "SUBMITTED"
                    THEN [op[p] EXCEPT !.state = "INDETERMINATE"] ELSE op[p]]
        /\ Append
        /\ Goto("feedback", Pod)
        /\ UNCHANGED <<journal, result>>
     \/ /\ journal' = "closed"
        /\ result' = [result EXCEPT !.status = "failed", !.verdict = "fail"]
        /\ Goto("cleanup", owned)
        /\ UNCHANGED <<op, news>>
  /\ UNCHANGED <<scenario, rvars, record, loose, over, watch>>

\* One step of the server's restart: what stops, what starts, what is next.
Restarting(place, stops, starts, next) ==
  /\ pc = place /\ pc' = next
  /\ alive' = (alive \ stops) \cup starts
  /\ UNCHANGED <<scenario, todo, jvars, owned, stray, result, record, loose, over, watch>>

Manager == {<<"manager", Affected>>}
Database == {<<"database", Affected>>}

RestartServer ==
  \/ Restarting("stop-manager", Manager, {}, "stop-database")
  \/ Restarting("stop-database", Database, {}, "probe")
  \/ Restarting("probe", {}, {}, "start-database")
  \/ Restarting("start-database", {}, Database, "start-manager")
  \/ Restarting("start-manager", {}, Manager, "feedback")

\* The managers act on what was written; their answers become events, except
\* for a competing write.
Feedback(p) ==
  /\ pc = "feedback" /\ p \in todo
  /\ IF p = Affected /\ scenario.fault \in {"compete", "guard-conflict"}
     THEN UNCHANGED news ELSE Append
  /\ Rest(p, "reconcile")
  /\ UNCHANGED <<scenario, op, journal, rvars, result, record, loose, over, watch>>

-----------------------------------------------------------------------------
(***************************************************************************)
(* Reconciliation and verdict.                                             *)
(***************************************************************************)

\* Engine.reconcile: nothing, the deadline, evidence or a conflict.
Reconciled(o) ==
  {o} \cup
  {[state |-> s, by |-> o.by, late |-> (s = "TIMED_OUT")] :
     s \in IF o.state = "CONFIG_COMMITTED"
           THEN {"OBSERVED_APPLIED", "TIMED_OUT", "OWNERSHIP_CONFLICT"} ELSE {}} \cup
  {[state |-> s, by |-> o.by, late |-> l] :
     s \in IF o.state = "INDETERMINATE" THEN {"OBSERVED_APPLIED", "INDETERMINATE"} ELSE {},
     l \in {o.late, TRUE}}

Pending(rows) ==
  {p \in Pod : rows[p].state \in {"CONFIG_COMMITTED", "INDETERMINATE"} /\ ~rows[p].late}

\* A round of the loop, the last one if nothing is pending or the time is over; what
\* it observes anew is an event also when no row changes.
Round ==
  /\ pc = "reconcile"
  /\ op' \in {f \in [Pod -> UNION {Reconciled(op[p]) : p \in Pod}] :
                \A p \in Pod : f[p] \in Reconciled(op[p])}
  /\ Append \/ (op' = op /\ UNCHANGED news)
  /\ pc' = IF Pending(op') = {} \/ over THEN "judge" ELSE pc
  /\ UNCHANGED <<scenario, todo, journal, rvars, result, record, loose, over, watch>>

\* The clock; the time only matters to the loop (the timeout of the whole run is
\* one of the exceptions below).
Expire ==
  /\ pc = "reconcile" /\ ~over /\ over' = TRUE
  /\ UNCHANGED <<scenario, pc, todo, jvars, rvars, result, record, loose, watch>>

\* Fault: a success after the deadline is a success.
MatchesLate(p) ==
  IF p = Affected
  THEN op[p].state = scenario.state /\ scenario.by \in {"any", op[p].by}
  ELSE op[p].state = "OBSERVED_APPLIED"

\* The expectation is the scenario's for its pod and success for the others.
Matches(p) ==
  LET wanted == IF p = Affected THEN scenario.state ELSE "OBSERVED_APPLIED"
      by == IF p = Affected THEN scenario.by ELSE "any"
  IN  /\ op[p].state = wanted
      /\ by \in {"any", op[p].by}
      /\ ~(wanted = "OBSERVED_APPLIED" /\ op[p].late)

Judge ==
  /\ pc = "judge"
  /\ result' = [result EXCEPT
       !.status = "completed",
       !.verdict = IF \A p \in Pod : Matches(p) THEN "pass" ELSE "fail"]
  /\ Goto("cleanup", owned)
  /\ UNCHANGED <<scenario, jvars, rvars, record, loose, over, watch>>

-----------------------------------------------------------------------------
(***************************************************************************)
(* Failures and interruptions, at any await.                               *)
(***************************************************************************)

\* Fault: a database or a manager is kept when its start has returned.
StartedThenKept ==
  UNION {{[owned |-> {}, alive |-> {<<"database", p>>}],
          [owned |-> {<<"database", p>>}, alive |-> {"database", "manager"} \X {p}]} :
           p \in todo}

\* What a start that does not return leaves behind: a database and a manager are
\* kept before they are started.
Started ==
  UNION {{[owned |-> {}, alive |-> {}],
          [owned |-> {<<"database", p>>}, alive |-> {}],
          [owned |-> {<<"database", p>>}, alive |-> {<<"database", p>>}],
          [owned |-> {"database", "manager"} \X {p}, alive |-> {<<"database", p>>}],
          [owned |-> {"database", "manager"} \X {p},
           alive |-> {"database", "manager"} \X {p}]} : p \in todo}

\* The resources after an await that does not return.
Interrupted ==
  \/ /\ pc = "setup"
     /\ \E s \in Started : owned' = owned \cup s.owned /\ alive' = alive \cup s.alive
     /\ UNCHANGED stray
  \/ /\ pc = "start-database"
     /\ alive' \in {alive, alive \cup Database}
     /\ UNCHANGED <<owned, stray>>
  \/ /\ pc = "start-manager" /\ stray' \in BOOLEAN
     /\ UNCHANGED <<owned, alive>>
  \/ /\ pc \in {"stop-manager", "stop-database"}
     /\ alive' \in {alive, alive \ (IF pc = "stop-manager" THEN Manager ELSE Database)}
     /\ UNCHANGED <<owned, stray>>
  \/ pc \in Awaits \ {"setup", "start-database", "start-manager", "stop-manager",
                      "stop-database"} /\ UNCHANGED rvars

\* An exception: a missing tool, EmosaError, OSError, the run's timeout, others.
\* When one pod's reconciliation raises, gather leaves the others' running.
Fail ==
  /\ pc \in Awaits /\ Interrupted
  /\ \/ Raise("failed", "fail", owned')
     \/ pc \in {"setup", "start-database"} /\ Raise("blocked", "blocked", owned')
  /\ IF pc = "reconcile" THEN loose' \in SUBSET Pod \ {Pod} ELSE UNCHANGED loose
  /\ UNCHANGED <<scenario, op, journal, record, over, watch>>

\* CancelledError or KeyboardInterrupt.
Interrupt ==
  /\ pc \in Awaits /\ Interrupted
  /\ Raise("interrupted", "inconclusive", owned')
  /\ UNCHANGED <<scenario, op, journal, record, loose, over, watch>>

-----------------------------------------------------------------------------
(***************************************************************************)
(* Cleanup and the sealed record.                                          *)
(***************************************************************************)

\* The managers are closed first, then the sessions, then the databases.
NextToClose ==
  LET rank == [manager |-> 1, session |-> 2, database |-> 3]
  IN  CHOOSE r \in todo : \A s \in todo : rank[r[1]] <= rank[s[1]]

\* Fault: an exception of one close ends the cleanup.
CloseGivesUp ==
  /\ pc = "cleanup" /\ todo # {}
  /\ \/ alive' = alive \ {NextToClose} /\ Goto(pc, todo \ {NextToClose})
     \/ alive' = alive /\ Goto("raised", todo)
  /\ UNCHANGED <<scenario, jvars, owned, stray, result, record, loose, over, watch>>

\* One resource is closed, or raises, having been stopped or not, and is noted.
Close ==
  /\ pc = "cleanup" /\ todo # {}
  /\ Goto(pc, todo \ {NextToClose})
  /\ \/ alive' = alive \ {NextToClose} /\ UNCHANGED result
     \/ /\ result.errors < MaxRaises
        /\ result' = [result EXCEPT !.errors = @ + 1]
        /\ alive' \in {alive, alive \ {NextToClose}}
  /\ UNCHANGED <<scenario, jvars, owned, stray, record, loose, over, watch>>

\* Fault: something is awaited between the export and the close of the journal.
LooseUntilClosed(p) ==
  /\ pc \in {"cleanup", "ended"} /\ p \in loose
  /\ \E o \in Reconciled(op[p]) : op' = [op EXCEPT ![p] = o]
  /\ Append \/ (op' = op /\ UNCHANGED news)
  /\ loose' = loose \ {p}
  /\ UNCHANGED <<scenario, pc, todo, journal, rvars, result, record, over, watch>>

\* A reconciliation that was left running ends while the cleanup awaits.
Loose(p) ==
  /\ pc = "cleanup" /\ todo # {} /\ p \in loose
  /\ \E o \in Reconciled(op[p]) : op' = [op EXCEPT ![p] = o]
  /\ Append \/ (op' = op /\ UNCHANGED news)
  /\ loose' = loose \ {p}
  /\ UNCHANGED <<scenario, pc, todo, journal, rvars, result, record, over, watch>>

\* An interruption of the cleanup itself is not caught.
InterruptCleanup ==
  /\ pc = "cleanup" /\ todo # {}
  /\ Goto("struck", todo)
  /\ UNCHANGED <<scenario, jvars, rvars, result, record, loose, over, watch>>

\* The record at the end: cleanup errors take the verdict back; the operations
\* and events are read anew.
Sealed ==
  [status |-> IF result.errors > 0 THEN "failed" ELSE result.status,
   verdict |-> IF result.errors > 0 THEN "inconclusive" ELSE result.verdict,
   cleanup |-> IF result.errors > 0 THEN "pending_recovery" ELSE "completed",
   ops |-> op]

\* The export of the events and the second save_run, which replaces nothing but
\* a running record.
Seal ==
  /\ pc = "cleanup" /\ todo = {} /\ journal = "open"
  /\ record.status = "running"
  /\ record' = Sealed /\ news' = news \ {"export"}
  /\ Goto("ended", {})
  /\ UNCHANGED <<scenario, op, journal, rvars, result, loose, over, watch>>

\* Without a journal the finally block raises when it reads the operations.
Unsealed ==
  /\ pc = "cleanup" /\ todo = {} /\ journal = "closed"
  /\ Goto("raised", {})
  /\ UNCHANGED <<scenario, jvars, rvars, result, record, loose, over, watch>>

-----------------------------------------------------------------------------
(***************************************************************************)
(* emosa-lab watch.                                                        *)
(***************************************************************************)

\* The record is read before the events of the same round.
WatchStatus ==
  /\ watch.pc = "status" /\ record.status # "none"
  /\ watch' = [watch EXCEPT !.saw = record.status, !.pc = "events"]
  /\ UNCHANGED <<scenario, pc, todo, jvars, rvars, result, record, loose, over>>

\* The events since the last round, which a round holds all of (500, at most 32
\* pods); the last round is the one that saw the run ended.
WatchEvents ==
  /\ watch.pc = "events"
  /\ news' = news \ {"watch"}
  /\ watch' = [watch EXCEPT !.pc = IF watch.saw = "running" THEN "status" ELSE "ended"]
  /\ UNCHANGED <<scenario, pc, todo, op, journal, rvars, result, record, loose, over>>

-----------------------------------------------------------------------------

Advance ==
  \/ Begin \/ Check \/ RestartController \/ RestartServer
  \/ Round \/ Judge \/ Fail \/ Close \/ Seal \/ Unsealed
  \/ \E p \in Pod : SetUp(p) \/ Request(p) \/ Plan(p) \/ Answer(p) \/ Feedback(p)

Watch == WatchStatus \/ WatchEvents

Next ==
  \/ Advance \/ (\E p \in Pod : Loose(p)) \/ Expire \/ Interrupt \/ InterruptCleanup \/ Watch

Spec == Init /\ [][Next]_vars

\* Every await of the runner returns or raises within its timeout; time passes.
FairSpec == Spec /\ WF_vars(Advance) /\ WF_vars(Expire)

-----------------------------------------------------------------------------
(***************************************************************************)
(* What must hold.                                                         *)
(***************************************************************************)

\* The state is well typed, and a run is recorded as passed only if the affected pod's
\* operation ended as the scenario expects (which may be undecided), every other's
\* was applied, no success came after its deadline, nothing failed or interrupted the
\* run and every process it started is gone (verdict, handlers and cleanup together).
PassIsEarned ==
  /\ TypeOK
  /\ record.verdict = "pass" =>
       /\ record.status = "completed" /\ record.cleanup = "completed"
       /\ alive = {} /\ ~stray
       /\ \A p \in Pod \ {Affected} :
            op[p] \in [state: {"OBSERVED_APPLIED"}, late: {FALSE}, by: {"reply", "unknown"}]
       /\ op[Affected].state = scenario.state
       /\ op[Affected].state = "OBSERVED_APPLIED" => ~op[Affected].late

\* A record that says its cleanup is complete is right about everything the run
\* had kept for closing, wherever the run failed or was interrupted.  (A manager whose
\* restart fails after its process was spawned is not kept: see stray.)
NothingLeftRunning == record.cleanup = "completed" => alive = {}

\* What a sealed record and its exported events say is what the journal says, then
\* and ever after, also when reconciliations outlive the failure of the run; and a
\* watcher that stops because the run has ended has shown every event of it.
EvidenceSealed ==
  /\ record.status \notin {"none", "running"} => record.ops = op /\ "export" \notin news
  /\ watch.pc = "ended" => "watch" \notin news

\* A run's record is sealed in the end whatever raises or interrupts it, unless
\* an interruption hits the cleanup or the journal cannot be opened again.
RunSettles ==
  <>(record.status \notin {"none", "running"} \/ journal = "closed" \/ pc = "struck")
=============================================================================
