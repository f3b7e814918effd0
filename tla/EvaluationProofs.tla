-------------------------- MODULE EvaluationProofs --------------------------
(***************************************************************************)
(* For any pods, faults and expectations: a record that is sealed tells    *)
(* what has happened, a pass is one, and what was started is closed.       *)
(***************************************************************************)
EXTENDS Evaluation, TLAPS

-----------------------------------------------------------------------------
(***************************************************************************)
(* The inductive invariant.                                                *)
(***************************************************************************)

\* The run is decided, and what follows is the finally block.
After == {"cleanup", "ended", "raised", "struck"}

\* After the submissions, in the order of the run.
Underway == {"restart", "stop-manager", "stop-database", "probe", "start-database",
             "start-manager", "feedback", "reconcile", "judge"}

\* Until the run is decided nothing is known of it, and nothing has got loose; then
\* its status is one of an ended run.
Undecided ==
  /\ pc \notin After =>
       /\ result = [status |-> "running", verdict |-> "inconclusive", errors |-> 0]
       /\ ~stray /\ loose = {}
  /\ pc \in After => result.status # "running"

\* The record is the running one until the journal has the sealed one, which is what
\* the journal would say again at any time.
Recorded ==
  /\ pc = "begin" => record = NoRecord
  /\ pc \notin {"begin", "ended"} => record = [NoRecord EXCEPT !.status = "running"]
  /\ pc = "ended" => record = Sealed /\ "export" \notin news

\* What runs is kept, from the time it is started; what the cleanup has been through
\* does not run, or the error is noted.
Kept ==
  /\ alive \subseteq owned /\ (pc = "begin" => owned = {})
  /\ pc \notin After => todo \subseteq Pod
  /\ pc = "setup" => \A p \in Pod \ todo : Simulation(p) \subseteq owned
  /\ pc \in {"submit", "check"} \cup Underway => \A p \in Pod : Simulation(p) \subseteq owned
  /\ pc = "cleanup" => alive \subseteq todo \/ result.errors > 0
  /\ pc = "ended" => alive = {} \/ result.errors > 0

\* A row that was submitted has an attribution; once the run is past the check, so has
\* one that was applied.
Attributed ==
  /\ \A p \in Pod : op[p].state \in {"SUBMITTED", "CONFIG_COMMITTED", "INDETERMINATE"} =>
       op[p].by # "not_submitted"
  /\ pc \in Underway => \A p \in Pod : op[p].state = "OBSERVED_APPLIED" =>
       op[p].by # "not_submitted"

\* A verdict of pass was right when it was given, and nothing changes afterwards.
Judged ==
  result.verdict = "pass" =>
    /\ result.status = "completed" /\ ~stray /\ loose = {}
    /\ \A p \in Pod : Matches(p)
    /\ \A p \in Pod : op[p].state = "OBSERVED_APPLIED" => op[p].by # "not_submitted"

\* The watcher has seen the end only if there was one.
Watched ==
  /\ watch.pc = "status" => watch.saw = "running"
  /\ watch.saw # "running" => pc = "ended"
  /\ watch.pc = "ended" => pc = "ended" /\ "watch" \notin news

Inv ==
  TypeOK /\ Undecided /\ Recorded /\ Kept /\ Attributed /\ Judged /\ Watched

-----------------------------------------------------------------------------
(***************************************************************************)
(* The types.                                                              *)
(***************************************************************************)

Submits == \E p \in Pod : SetUp(p) \/ Request(p) \/ Plan(p) \/ Answer(p) \/ Feedback(p)

LEMMA NextCases ==
  ASSUME Next
  PROVE  \/ Begin \/ Check \/ RestartController \/ RestartServer \/ Round \/ Judge
         \/ Fail \/ Interrupt \/ Close \/ InterruptCleanup \/ Seal \/ Unsealed
         \/ Submits \/ (\E p \in Pod : Loose(p)) \/ Expire \/ Watch
BY DEF Next, Advance, Submits

LEMMA Bounds == MaxRaises \in Nat /\ Affected \in Pod
BY EvaluationAssumption

\* The parts of the type.
RunType ==
  /\ scenario \in [fault: Faults, state: ExpectedStates, by: ExpectedBy, missing: BOOLEAN]
  /\ pc \in Awaits \cup {"begin", "check", "restart"} \cup After
  /\ todo \subseteq Pod \cup Resource
  /\ news \subseteq Readers /\ journal \in {"open", "closed"}
  /\ loose \subseteq Pod /\ over \in BOOLEAN

ResourceType ==
  owned \subseteq Resource /\ alive \subseteq Resource /\ stray \in BOOLEAN

RecordType ==
  /\ result \in [status: Statuses, verdict: Verdicts, errors: 0..MaxRaises]
  /\ record \in [status: Statuses \cup {"none"}, verdict: Verdicts, ops: Rows,
                 cleanup: {"pending", "completed", "pending_recovery"}]
  /\ record.status = "running" => record.cleanup = "pending"
  /\ watch \in [pc: {"status", "events", "ended"}, saw: Statuses]

LEMMA TypeParts == TypeOK <=> RunType /\ op \in Rows /\ ResourceType /\ RecordType
BY DEF TypeOK, RunType, ResourceType, RecordType, After

LEMMA EmptyRows == NoRecord.ops \in Rows
BY DEF NoRecord, NoOp, Rows, State

LEMMA InitTyped == Init => TypeOK
<1> SUFFICES ASSUME Init PROVE TypeOK
  OBVIOUS
<1>1. op \in Rows
  BY EmptyRows DEF Init
<1>2. RunType /\ ResourceType
  BY DEF Init, RunType, ResourceType
<1>3. result \in [status: Statuses, verdict: Verdicts, errors: 0..MaxRaises]
  BY Bounds DEF Init, Statuses, Verdicts
<1>4. record \in [status: Statuses \cup {"none"}, verdict: Verdicts, ops: Rows,
                  cleanup: {"pending", "completed", "pending_recovery"}]
  BY EmptyRows DEF Init, NoRecord, Verdicts
<1>5. /\ watch \in [pc: {"status", "events", "ended"}, saw: Statuses]
      /\ record.status # "running"
  BY DEF Init, Statuses, NoRecord
<1>6. QED
  BY <1>1, <1>2, <1>3, <1>4, <1>5, TypeParts DEF RecordType

Row == [state: State \cup {Absent}, late: BOOLEAN, by: {"reply", "unknown", "not_submitted"}]

\* A submission is answered, and a reconciliation ends, in a state of the table.
LEMMA AnswersAreStates == TRANSITIONS["SUBMITTED"] \subseteq State
BY DEF TRANSITIONS, State

LEMMA ReconciledType ==
  ASSUME NEW o \in Row, NEW r \in Reconciled(o)
  PROVE  /\ r \in Row /\ r.by = o.by
         /\ r = o \/ o.state \in {"CONFIG_COMMITTED", "INDETERMINATE"}
<1>1. CASE \E s \in {"OBSERVED_APPLIED", "TIMED_OUT", "OWNERSHIP_CONFLICT"} :
             /\ o.state = "CONFIG_COMMITTED"
             /\ r = [state |-> s, by |-> o.by, late |-> (s = "TIMED_OUT")]
  BY <1>1 DEF Row, State
<1>2. CASE \E s \in {"OBSERVED_APPLIED", "INDETERMINATE"}, l \in {o.late, TRUE} :
             /\ o.state = "INDETERMINATE"
             /\ r = [state |-> s, by |-> o.by, late |-> l]
  <2>1. PICK s \in {"OBSERVED_APPLIED", "INDETERMINATE"}, l \in {o.late, TRUE} :
          /\ o.state = "INDETERMINATE"
          /\ r = [state |-> s, by |-> o.by, late |-> l]
    BY <1>2
  <2>2. o.late \in BOOLEAN
    BY DEF Row
  <2>3. l \in BOOLEAN
    BY <2>2, Zenon
  <2>4. s \in State
    BY DEF State
  <2>5. QED
    BY <2>1, <2>3, <2>4 DEF Row
<1>3. CASE r = o
  BY <1>3
<1>4. QED
  BY <1>1, <1>2, <1>3 DEF Reconciled

LEMMA RowsTyped == ASSUME op \in Rows, RunType, Next PROVE op' \in Rows
<1> USE DEF Rows, Row
<1>1. CASE op' = op
  BY <1>1
<1>2. CASE RestartController
  BY <1>2 DEF RestartController, State
<1>3. CASE Round
  <2>1. \A p \in Pod : op'[p] \in Reconciled(op[p])
    BY <1>3 DEF Round
  <2>2. op' \in [Pod -> UNION {Reconciled(op[p]) : p \in Pod}]
    BY <1>3 DEF Round
  <2>3. \A p \in Pod : op'[p] \in Row
    BY <2>1, ReconciledType
  <2>4. QED
    BY <2>2, <2>3
<1>4. ASSUME NEW p \in Pod, Request(p) \/ Plan(p) PROVE op' \in Rows
  BY <1>4 DEF Request, Plan, State
<1>5. ASSUME NEW p \in Pod, Answer(p) PROVE op' \in Rows
  <2>1. PICK s \in TRANSITIONS["SUBMITTED"] :
          op' = [op EXCEPT ![p].state = s,
                           ![p].by = IF s = "CONFIG_COMMITTED" THEN "reply" ELSE @]
    BY <1>5 DEF Answer
  <2>2. PICK b \in {"reply", "unknown", "not_submitted"} :
          op' = [op EXCEPT ![p].state = s, ![p].by = b]
    BY <2>1
  <2>3. s \in State
    BY AnswersAreStates
  <2>4. QED
    BY <2>2, <2>3
<1>6. ASSUME NEW p \in Pod, Loose(p) PROVE op' \in Rows
  <2>1. PICK o \in Reconciled(op[p]) : op' = [op EXCEPT ![p] = o]
    BY <1>6 DEF Loose
  <2>2. QED
    BY <2>1, ReconciledType
<1>7. ASSUME NEW p \in Pod, SetUp(p) \/ Feedback(p) PROVE op' \in Rows
  BY <1>1, <1>7 DEF SetUp, Feedback, jvars
<1>8. CASE Begin \/ Check \/ RestartServer \/ Judge
  BY <1>1, <1>8 DEF Begin, Check, RestartServer, Restarting, Judge, jvars
<1>9. CASE Fail \/ Interrupt \/ Close \/ InterruptCleanup \/ Seal \/ Unsealed
  BY <1>1, <1>9 DEF Fail, Interrupt, Close, InterruptCleanup, Seal, Unsealed, jvars
<1>10. CASE Expire \/ Watch
  BY <1>1, <1>10 DEF Expire, Watch, WatchStatus, WatchEvents, jvars
<1>11. QED
  BY <1>2, <1>3, <1>4, <1>5, <1>6, <1>7, <1>8, <1>9, <1>10, NextCases DEF Submits

\* The next loop is one over all pods, or this one goes on.
LEMMA RestGoes ==
  ASSUME NEW p, NEW place, Rest(p, place)
  PROVE  \/ pc' = place /\ todo' = Pod /\ todo = {p}
         \/ pc' = pc /\ todo' = todo \ {p}
BY DEF Rest, Goto

\* Whatever an await that does not return leaves behind is kept.
LEMMA InterruptedKept ==
  ASSUME TypeOK, Kept, Interrupted
  PROVE  ResourceType' /\ alive' \subseteq owned' /\ pc \in Awaits
<1> USE DEF ResourceType
<1>1. ResourceType /\ alive \subseteq owned
  BY TypeParts DEF Kept
<1>2. CASE pc = "setup"
  <2>1. todo \subseteq Pod
    BY <1>2 DEF Kept, After
  <2>2. PICK s \in Started : owned' = owned \cup s.owned /\ alive' = alive \cup s.alive
    BY <1>2 DEF Interrupted, Awaits
  <2>3. PICK p \in todo :
          s \in {[owned |-> {}, alive |-> {}],
                 [owned |-> {<<"database", p>>}, alive |-> {}],
                 [owned |-> {<<"database", p>>}, alive |-> {<<"database", p>>}],
                 [owned |-> {"database", "manager"} \X {p}, alive |-> {<<"database", p>>}],
                 [owned |-> {"database", "manager"} \X {p},
                  alive |-> {"database", "manager"} \X {p}]}
    BY DEF Started
  <2>4. p \in Pod
    BY <2>1
  <2>5. s.owned \subseteq Resource
    BY <2>3, <2>4 DEF Resource
  <2>6. s.alive \subseteq s.owned
    BY <2>3
  <2>7. stray' = stray
    BY <1>2 DEF Interrupted, Awaits
  <2>8. QED
    BY <1>1, <1>2, <2>2, <2>5, <2>6, <2>7 DEF Awaits
<1>3. CASE pc = "start-database"
  <2>1. Database \subseteq owned /\ Database \subseteq Resource
    BY <1>3, Bounds DEF Kept, Underway, Simulation, Database, Resource
  <2>2. alive' \in {alive, alive \cup Database} /\ UNCHANGED <<owned, stray>>
    BY <1>3 DEF Interrupted, Awaits
  <2>3. QED
    BY <1>1, <1>3, <2>1, <2>2 DEF Awaits
<1>4. CASE pc = "start-manager"
  BY <1>1, <1>4 DEF Interrupted, Awaits
<1>5. CASE pc \in {"stop-manager", "stop-database"}
  <2>1. alive' \subseteq alive /\ UNCHANGED <<owned, stray>>
    BY <1>5 DEF Interrupted, Awaits
  <2>2. QED
    BY <1>1, <1>5, <2>1 DEF Awaits
<1>6. CASE pc \notin {"setup", "start-database", "start-manager", "stop-manager", "stop-database"}
  <2>1. pc \in Awaits /\ UNCHANGED rvars
    BY <1>6 DEF Interrupted
  <2>2. QED
    BY <1>1, <2>1 DEF rvars
<1>7. QED
  BY <1>2, <1>3, <1>4, <1>5, <1>6

LEMMA ResourcesTyped == ASSUME TypeOK, Kept, Next PROVE ResourceType'
<1>1. ResourceType /\ Affected \in Pod
  BY TypeParts, Bounds
<1> USE DEF ResourceType
<1>2. CASE UNCHANGED rvars
  BY <1>1, <1>2 DEF rvars
<1>3. CASE Fail \/ Interrupt
  BY <1>3, InterruptedKept DEF Fail, Interrupt
<1>4. ASSUME NEW p \in Pod, SetUp(p) PROVE ResourceType'
  <2>1. Simulation(p) \subseteq Resource
    BY DEF Simulation, Resource
  <2>2. QED
    BY <1>1, <1>4, <2>1 DEF SetUp
<1>5. CASE RestartServer
  <2>1. Manager \subseteq Resource /\ Database \subseteq Resource
    BY <1>1 DEF Manager, Database, Resource
  <2>2. QED
    BY <1>1, <1>5, <2>1 DEF RestartServer, Restarting
<1>6. CASE Close
  BY <1>1, <1>6 DEF Close
<1>7. ASSUME NEW p \in Pod, Request(p) \/ Plan(p) \/ Answer(p) \/ Feedback(p) \/ Loose(p)
      PROVE  UNCHANGED rvars
  BY <1>7 DEF Request, Plan, Answer, Feedback, Loose
<1>8. CASE Begin \/ Check \/ RestartController \/ Round \/ Judge
  BY <1>2, <1>8 DEF Begin, Check, RestartController, Round, Judge
<1>9. CASE InterruptCleanup \/ Seal \/ Unsealed \/ Expire \/ Watch
  BY <1>2, <1>9 DEF InterruptCleanup, Seal, Unsealed, Expire, Watch, WatchStatus, WatchEvents
<1>10. QED
  BY <1>2, <1>3, <1>4, <1>5, <1>6, <1>7, <1>8, <1>9, NextCases DEF Submits

LEMMA RunTyped == ASSUME TypeOK, Kept, Next PROVE RunType'
<1>1. RunType /\ owned \subseteq Resource
  BY TypeParts DEF ResourceType
<1> USE DEF RunType, Awaits, After
<1>2. CASE Begin
  BY <1>1, <1>2 DEF Begin, Goto, Append, jvars
<1>3. CASE Check
  BY <1>1, <1>3 DEF Check, Raise, Goto, Append
<1>4. CASE RestartController
  BY <1>1, <1>4 DEF RestartController, Goto, Append
<1>5. CASE RestartServer
  BY <1>1, <1>5 DEF RestartServer, Restarting, jvars
<1>6. CASE Round
  BY <1>1, <1>6 DEF Round, Append
<1>7. CASE Judge
  BY <1>1, <1>7 DEF Judge, Goto, jvars
<1>8. CASE Fail \/ Interrupt
  <2>1. owned' \subseteq Resource /\ pc' = "cleanup" /\ todo' = owned'
    BY <1>8, InterruptedKept DEF Fail, Interrupt, Raise, Goto, ResourceType
  <2>2. news' \subseteq Readers /\ loose' \subseteq Pod
    BY <1>1, <1>8 DEF Fail, Interrupt, Raise, Append
  <2>3. UNCHANGED <<scenario, journal, over>>
    BY <1>8 DEF Fail, Interrupt
  <2>4. QED
    BY <1>1, <2>1, <2>2, <2>3
<1>9. CASE Close \/ InterruptCleanup \/ Seal \/ Unsealed
  BY <1>1, <1>9 DEF Close, InterruptCleanup, Seal, Unsealed, Goto, jvars
<1>10. ASSUME NEW p \in Pod, SetUp(p) \/ Feedback(p) PROVE RunType'
  <2>1. pc' \in {pc, "submit", "reconcile"} /\ todo' \subseteq todo \cup Pod
    BY <1>10, RestGoes DEF SetUp, Feedback
  <2>2. QED
    BY <1>1, <1>10, <2>1 DEF SetUp, Feedback, jvars, Append
<1>11. ASSUME NEW p \in Pod, Plan(p) \/ Answer(p) \/ Request(p) PROVE RunType'
  <2>1. pc' \in {pc, "check"} /\ todo' \subseteq todo \cup Pod
    BY <1>11, RestGoes DEF Plan, Answer, Request
  <2>2. QED
    BY <1>1, <1>11, <2>1 DEF Plan, Answer, Request, Append
<1>12. ASSUME NEW p \in Pod, Loose(p) PROVE RunType'
  BY <1>1, <1>12 DEF Loose, Append
<1>13. CASE Expire \/ Watch
  BY <1>1, <1>13 DEF Expire, Watch, WatchStatus, WatchEvents, jvars
<1>14. QED
  BY <1>2, <1>3, <1>4, <1>5, <1>6, <1>7, <1>8, <1>9, <1>10, <1>11, <1>12, <1>13, NextCases
     DEF Submits

LEMMA RecordTyped == ASSUME TypeOK, Undecided, Recorded, Next PROVE RecordType'
<1>1. RecordType /\ op \in Rows /\ MaxRaises \in Nat
  BY TypeParts, Bounds
<1> USE DEF RecordType, Statuses, Verdicts
<1>2. CASE UNCHANGED <<result, record, watch>>
  BY <1>1, <1>2
<1>3. CASE Begin
  <2>1. record' = [record EXCEPT !.status = "running"] /\ record.cleanup = "pending"
    BY <1>3 DEF Begin, Recorded, NoRecord
  <2>2. result' \in [status: Statuses, verdict: Verdicts, errors: 0..MaxRaises]
    BY <1>1, <1>3 DEF Begin
  <2>3. watch' = watch
    BY <1>3 DEF Begin
  <2>4. QED
    BY <1>1, <2>1, <2>2, <2>3
<1>4. CASE Check \/ RestartController \/ Judge
  BY <1>1, <1>4 DEF Check, RestartController, Judge, Raise
<1>5. CASE Fail \/ Interrupt
  BY <1>1, <1>5 DEF Fail, Interrupt, Raise
<1>6. CASE Close
  BY <1>1, <1>6 DEF Close
<1>7. CASE Seal
  <2>1. result.status # "running" /\ record' = Sealed /\ UNCHANGED <<result, watch>>
    BY <1>7 DEF Seal, Undecided, After
  <2>2. Sealed \in [status: Statuses \cup {"none"}, verdict: Verdicts, ops: Rows,
                    cleanup: {"pending", "completed", "pending_recovery"}]
        /\ Sealed.status # "running"
    BY <1>1, <2>1 DEF Sealed
  <2>3. QED
    BY <1>1, <2>1, <2>2
<1>8. CASE RestartServer \/ Round \/ InterruptCleanup \/ Unsealed \/ Expire
  BY <1>2, <1>8 DEF RestartServer, Restarting, Round, InterruptCleanup, Unsealed, Expire
<1>9. CASE Submits \/ \E p \in Pod : Loose(p)
  BY <1>2, <1>9 DEF Submits, SetUp, Request, Plan, Answer, Feedback, Loose
<1>10. CASE WatchStatus
  BY <1>1, <1>10 DEF WatchStatus
<1>11. CASE WatchEvents
  BY <1>1, <1>11 DEF WatchEvents
<1>12. QED
  BY <1>3, <1>4, <1>5, <1>6, <1>7, <1>8, <1>9, <1>10, <1>11, NextCases DEF Watch

LEMMA StepTyped == ASSUME TypeOK, Undecided, Recorded, Kept, Next PROVE TypeOK'
<1>1. TypeOK' <=> RunType' /\ (op \in Rows)' /\ ResourceType' /\ RecordType'
  BY TypeParts, PTL
<1>2. QED
  BY <1>1, TypeParts, RunTyped, RowsTyped, ResourcesTyped, RecordTyped

-----------------------------------------------------------------------------
(***************************************************************************)
(* The record and its readers.                                             *)
(***************************************************************************)

LEMMA InitRest ==
  Init => Undecided /\ Recorded /\ Kept /\ Attributed /\ Judged /\ Watched
<1> SUFFICES ASSUME Init
             PROVE  Undecided /\ Recorded /\ Kept /\ Attributed /\ Judged /\ Watched
  OBVIOUS
<1>1. Undecided /\ Recorded /\ Kept
  BY DEF Init, Undecided, Recorded, Kept, After, Underway
<1>2. \A p \in Pod : op[p].state = "ABSENT"
  BY DEF Init, NoRecord, NoOp, Absent
<1>3. Attributed
  BY <1>2 DEF Init, Attributed, Underway
<1>4. Judged /\ Watched
  BY DEF Init, Judged, Watched
<1>5. QED
  BY <1>1, <1>3, <1>4

\* The steps of the run itself, between its two records.
LEMMA Shape ==
  ASSUME RunType, Next, ~Begin, ~Seal, ~Watch
  PROVE  /\ pc \notin {"begin", "ended"} /\ pc' \notin {"begin", "ended"}
         /\ UNCHANGED <<record, watch, scenario>>
<1> USE DEF After, Awaits
<1>1. CASE Check \/ RestartController \/ Round \/ Judge
  BY <1>1 DEF Check, RestartController, Round, Judge, Raise, Goto
<1>2. CASE RestartServer
  BY <1>2 DEF RestartServer, Restarting
<1>3. CASE Fail \/ Interrupt
  <2>1. pc \in Awaits
    BY <1>3 DEF Fail, Interrupt
  <2>2. QED
    BY <1>3, <2>1 DEF Fail, Interrupt, Raise, Goto
<1>4. CASE Close \/ InterruptCleanup \/ Unsealed \/ Expire
  BY <1>4 DEF Close, InterruptCleanup, Unsealed, Expire, Goto
<1>5. ASSUME NEW p \in Pod, SetUp(p) \/ Request(p) \/ Plan(p) \/ Answer(p) \/ Feedback(p)
      PROVE  /\ pc \notin {"begin", "ended"} /\ pc' \notin {"begin", "ended"}
             /\ UNCHANGED <<record, watch, scenario>>
  BY <1>5, RestGoes DEF SetUp, Request, Plan, Answer, Feedback
<1>6. ASSUME NEW p \in Pod, Loose(p)
      PROVE  /\ pc \notin {"begin", "ended"} /\ pc' \notin {"begin", "ended"}
             /\ UNCHANGED <<record, watch, scenario>>
  BY <1>6 DEF Loose
<1>7. QED
  BY <1>1, <1>2, <1>3, <1>4, <1>5, <1>6, NextCases DEF Submits

LEMMA ReadingKeeps ==
  ASSUME Watch
  PROVE  /\ UNCHANGED <<scenario, pc, todo, op, journal, rvars, result, record, loose, over>>
         /\ news' \subseteq news
BY DEF Watch, WatchStatus, WatchEvents, jvars

LEMMA StepUndecided == ASSUME RunType, RecordType, Undecided, Next PROVE Undecided'
<1> USE DEF Undecided, After
<1>0. result \in [status: Statuses, verdict: Verdicts, errors: 0..MaxRaises]
  BY DEF RecordType
<1>1. CASE Begin
  BY <1>1 DEF Begin, Goto, rvars
<1>2. CASE Check
  BY <1>0, <1>2 DEF Check, Raise, Goto, rvars
<1>13. CASE Judge
  BY <1>0, <1>13 DEF Judge, Goto
<1>3. CASE RestartController
  BY <1>3 DEF RestartController, Goto, rvars
<1>4. CASE RestartServer
  BY <1>4 DEF RestartServer, Restarting
<1>5. CASE Round \/ Expire
  BY <1>5 DEF Round, Expire, rvars
<1>6. CASE Fail \/ Interrupt
  <2>1. pc' = "cleanup" /\ result'.status # "running"
    BY <1>0, <1>6 DEF Fail, Interrupt, Raise, Goto
  <2>2. QED
    BY <2>1
<1>7. CASE Close
  <2>1. pc = "cleanup" /\ pc' = "cleanup" /\ result'.status = result.status
    BY <1>0, <1>7 DEF Close, Goto
  <2>2. QED
    BY <2>1
<1>8. CASE InterruptCleanup \/ Seal \/ Unsealed
  BY <1>8 DEF InterruptCleanup, Seal, Unsealed, Goto
<1>9. ASSUME NEW p \in Pod, SetUp(p) \/ Request(p) \/ Plan(p) \/ Answer(p) \/ Feedback(p)
      PROVE  Undecided'
  <2>1. UNCHANGED <<result, stray, loose>> /\ pc \notin After
    BY <1>9 DEF SetUp, Request, Plan, Answer, Feedback, rvars
  <2>2. pc' \notin After
    BY <1>9, <2>1, RestGoes DEF SetUp, Request, Plan, Answer, Feedback
  <2>3. QED
    BY <2>1, <2>2
<1>10. ASSUME NEW p \in Pod, Loose(p) PROVE Undecided'
  BY <1>10 DEF Loose
<1>11. CASE Watch
  BY <1>11, ReadingKeeps DEF rvars
<1>12. QED
  BY <1>1, <1>2, <1>3, <1>4, <1>5, <1>6, <1>7, <1>8, <1>9, <1>10, <1>11, <1>13,
     NextCases DEF Submits

LEMMA StepRecorded == ASSUME RunType, Recorded, Next PROVE Recorded'
<1>1. CASE Begin
  <2>1. pc = "begin" /\ pc' \notin {"begin", "ended"}
        /\ record' = [record EXCEPT !.status = "running"]
    BY <1>1 DEF Begin, Goto
  <2>2. QED
    BY <2>1 DEF Recorded, NoRecord
<1>2. CASE Seal
  <2>1. pc' = "ended" /\ record' = Sealed /\ news' = news \ {"export"}
        /\ UNCHANGED <<result, op>>
    BY <1>2 DEF Seal, Goto
  <2>2. QED
    BY <2>1 DEF Recorded, Sealed
<1>3. CASE Watch
  <2>1. UNCHANGED <<pc, op, result, record>> /\ news' \subseteq news
    BY <1>3, ReadingKeeps
  <2>2. Sealed' = Sealed /\ NoRecord' = NoRecord
    BY <2>1 DEF Sealed, NoRecord, NoOp
  <2>3. QED
    BY <2>1, <2>2 DEF Recorded
<1>4. CASE ~Begin /\ ~Seal /\ ~Watch
  BY <1>4, Shape DEF Recorded, NoRecord, NoOp
<1>5. QED
  BY <1>1, <1>2, <1>3, <1>4

\* The watcher reads the record before the events, and after the end there are none.
LEMMA StepWatched == ASSUME RunType, Recorded, Undecided, Watched, Next PROVE Watched'
<1>1. CASE WatchStatus
  <2>1. watch.pc = "status" /\ record.status # "none" /\ UNCHANGED <<pc, record>>
        /\ watch' = [watch EXCEPT !.saw = record.status, !.pc = "events"]
    BY <1>1 DEF WatchStatus
  <2>2. record.status # "running" => pc = "ended"
    BY <2>1 DEF Recorded, NoRecord
  <2>3. QED
    BY <2>1, <2>2 DEF Watched
<1>2. CASE WatchEvents
  BY <1>2 DEF WatchEvents, Watched
<1>3. CASE Begin \/ Seal
  BY <1>3 DEF Begin, Seal, Watched
<1>4. CASE ~Begin /\ ~Seal /\ ~Watch
  BY <1>4, Shape DEF Watched
<1>5. QED
  BY <1>1, <1>2, <1>3, <1>4 DEF Watch

-----------------------------------------------------------------------------
(***************************************************************************)
(* What runs is kept.                                                      *)
(***************************************************************************)

\* The steps that start nothing, stop nothing and stay where the run is.
LEMMA KeptStays ==
  ASSUME Kept, UNCHANGED <<pc, owned, alive>>, todo' = todo, result'.errors = result.errors
  PROVE  Kept'
BY DEF Kept, Simulation

LEMMA KeptAtCleanup ==
  ASSUME alive' \subseteq owned', pc' = "cleanup", alive' \subseteq todo'
  PROVE  Kept'
BY DEF Kept, After, Underway

LEMMA StepKept == ASSUME TypeOK, Kept, Next PROVE Kept'
<1> USE DEF After, Underway
<1>1. CASE Begin
  <2>1. owned' = {} /\ alive' = {} /\ owned = {}
    BY <1>1 DEF Begin, Kept, rvars
  <2>2. CASE pc' = "cleanup" /\ todo' = {}
    BY <2>1, <2>2, KeptAtCleanup
  <2>3. CASE pc' = "setup" /\ todo' = Pod
    BY <2>1, <2>3 DEF Kept
  <2>4. QED
    BY <1>1, <2>2, <2>3 DEF Begin, Goto
<1>2. ASSUME NEW p \in Pod, SetUp(p) PROVE Kept'
  <2>1. /\ pc = "setup" /\ p \in todo /\ Rest(p, "submit")
        /\ owned' = owned \cup Simulation(p) /\ alive' = alive \cup Simulation(p)
    BY <1>2 DEF SetUp
  <2>2. alive' \subseteq owned' /\ owned \subseteq owned' /\ todo \subseteq Pod
    BY <2>1 DEF Kept
  <2>3. \A q \in (Pod \ todo) \cup {p} : Simulation(q) \subseteq owned'
    BY <2>1, <2>2 DEF Kept
  <2>4. CASE pc' = "submit" /\ todo' = Pod /\ todo = {p}
    <3>1. \A q \in Pod : Simulation(q) \subseteq owned'
      BY <2>3, <2>4
    <3>2. QED
      BY <2>2, <2>4, <3>1 DEF Kept, Simulation
  <2>5. CASE pc' = "setup" /\ todo' = todo \ {p}
    <3>1. \A q \in Pod \ todo' : Simulation(q) \subseteq owned'
      BY <2>3, <2>5
    <3>2. QED
      BY <2>2, <2>5, <3>1 DEF Kept, Simulation
  <2>6. QED
    BY <2>1, <2>4, <2>5, RestGoes
<1>3. ASSUME NEW p \in Pod, Plan(p) \/ Answer(p) \/ Feedback(p) \/ Request(p) PROVE Kept'
  <2>1. pc \in {"submit", "feedback"} /\ pc' \in {pc, "check", "reconcile"}
    BY <1>3, RestGoes DEF Plan, Answer, Feedback, Request
  <2>2. todo \subseteq Pod /\ (todo' = Pod \/ todo' = todo \/ todo' = todo \ {p})
    BY <1>3, <2>1, RestGoes DEF Plan, Answer, Feedback, Request, Kept
  <2>3. UNCHANGED rvars
    BY <1>3 DEF Plan, Answer, Feedback, Request
  <2>4. QED
    BY <2>1, <2>2, <2>3 DEF Kept, Simulation, rvars
<1>4. CASE Check
  <2>1. CASE pc' = "cleanup" /\ todo' = owned
    BY <1>4, <2>1, KeptAtCleanup DEF Check, rvars, Kept
  <2>2. CASE pc' \in {"restart", "stop-manager", "feedback"} /\ todo' = todo
    BY <1>4, <2>2 DEF Check, rvars, Kept, Simulation
  <2>3. QED
    BY <1>4, <2>1, <2>2 DEF Check, Raise, Goto
<1>5. CASE RestartController
  <2>1. CASE pc' = "cleanup" /\ todo' = owned
    BY <1>5, <2>1, KeptAtCleanup DEF RestartController, rvars, Kept
  <2>2. CASE pc' = "feedback" /\ todo' = Pod
    BY <1>5, <2>2 DEF RestartController, rvars, Kept, Simulation
  <2>3. QED
    BY <1>5, <2>1, <2>2 DEF RestartController, Goto
<1>6. CASE RestartServer
  <2>1. pc \in Underway /\ pc' \in Underway /\ UNCHANGED <<todo, owned>>
    BY <1>6 DEF RestartServer, Restarting
  <2>2. Manager \cup Database \subseteq owned
    BY <2>1, Bounds DEF Kept, Manager, Database, Simulation
  <2>3. alive' \subseteq alive \cup Manager \cup Database
    BY <1>6 DEF RestartServer, Restarting
  <2>4. QED
    BY <2>1, <2>2, <2>3 DEF Kept, Simulation
<1>7. CASE Round
  BY <1>7 DEF Round, Kept, Simulation, rvars
<1>8. CASE Judge
  BY <1>8, KeptAtCleanup DEF Judge, Goto, rvars, Kept
<1>9. CASE Fail \/ Interrupt
  <2>1. pc' = "cleanup" /\ todo' = owned'
    BY <1>9 DEF Fail, Interrupt, Raise, Goto
  <2>2. alive' \subseteq owned'
    BY <1>9, InterruptedKept DEF Fail, Interrupt
  <2>3. QED
    BY <2>1, <2>2, KeptAtCleanup
<1>10. CASE Close
  <2>1. pc = "cleanup" /\ pc' = "cleanup" /\ owned' = owned
        /\ todo' = todo \ {NextToClose} /\ alive' \subseteq alive
    BY <1>10 DEF Close, Goto
  <2>2. alive' \subseteq todo' \/ result'.errors > 0
    <3>1. result \in [status: Statuses, verdict: Verdicts, errors: 0..MaxRaises]
      BY DEF TypeOK
    <3>2. CASE alive' = alive \ {NextToClose} /\ result' = result
      BY <2>1, <3>2 DEF Kept
    <3>3. CASE result' = [result EXCEPT !.errors = @ + 1]
      BY <3>1, <3>3, Bounds
    <3>4. QED
      BY <1>10, <3>2, <3>3 DEF Close
  <2>3. QED
    BY <2>1, <2>2 DEF Kept
<1>11. CASE Seal
  BY <1>11 DEF Seal, Goto, Kept, rvars
<1>12. CASE InterruptCleanup \/ Unsealed
  BY <1>12 DEF InterruptCleanup, Unsealed, Goto, Kept, rvars
<1>13. ASSUME NEW p \in Pod, Loose(p) PROVE Kept'
  BY <1>13, KeptStays DEF Loose, rvars
<1>14. CASE Expire \/ Watch
  BY <1>14, ReadingKeeps, KeptStays DEF Expire, rvars
<1>15. QED
  BY <1>1, <1>2, <1>3, <1>4, <1>5, <1>6, <1>7, <1>8, <1>9, <1>10, <1>11, <1>12, <1>13,
     <1>14, NextCases DEF Submits

-----------------------------------------------------------------------------
(***************************************************************************)
(* The verdict.                                                            *)
(***************************************************************************)

\* The attribution of a row whose write is, or may be, in the database.
AttributedRow(o) ==
  o.state \in {"SUBMITTED", "CONFIG_COMMITTED", "INDETERMINATE"} => o.by # "not_submitted"

\* A reconciliation decides nothing about a row that was never submitted.
LEMMA ReconciledKeeps ==
  ASSUME NEW o \in Row, NEW r \in Reconciled(o), AttributedRow(o)
  PROVE  /\ AttributedRow(r)
         /\ (o.state = "OBSERVED_APPLIED" => o.by # "not_submitted")
              => (r.state = "OBSERVED_APPLIED" => r.by # "not_submitted")
BY ReconciledType DEF AttributedRow

LEMMA StepAttributed == ASSUME TypeOK, Attributed, Next PROVE Attributed'
<1> USE DEF Underway
<1>1. op \in [Pod -> Row]
  BY DEF TypeOK, Rows, Row
<1>2. \A p \in Pod : AttributedRow(op[p])
  BY DEF Attributed, AttributedRow
<1>3. CASE op' = op /\ (pc' \in Underway => pc \in Underway)
  BY <1>3 DEF Attributed
<1>4. CASE Check
  BY <1>4 DEF Check, Raise, Goto, Attributed
<1>5. ASSUME NEW p \in Pod, Request(p) PROVE Attributed'
  <2>1. op' = [op EXCEPT ![p].state = "REQUESTED"] /\ pc' \notin Underway
    BY <1>5 DEF Request
  <2>2. \A q \in Pod : op'[q] = op[q] \/ op'[q].state = "REQUESTED"
    BY <1>1, <2>1 DEF Row
  <2>3. QED
    BY <2>1, <2>2 DEF Attributed
<1>6. ASSUME NEW p \in Pod, Plan(p) PROVE Attributed'
  <2>1. pc' \notin Underway
    BY <1>6, RestGoes DEF Plan
  <2>2. CASE \E s \in {"REJECTED", "OBSERVED_APPLIED"} : op' = [op EXCEPT ![p].state = s]
    <3>1. \A q \in Pod : op'[q] = op[q] \/ op'[q].state \in {"REJECTED", "OBSERVED_APPLIED"}
      BY <1>1, <2>2 DEF Row
    <3>2. QED
      BY <2>1, <3>1 DEF Attributed
  <2>3. CASE op' = [op EXCEPT ![p].state = "SUBMITTED", ![p].by = "unknown"]
    <3>1. \A q \in Pod : op'[q] = op[q] \/ op'[q].by = "unknown"
      BY <1>1, <2>3 DEF Row
    <3>2. QED
      BY <2>1, <3>1 DEF Attributed
  <2>4. QED
    BY <1>6, <2>2, <2>3 DEF Plan
<1>7. ASSUME NEW p \in Pod, Answer(p) PROVE Attributed'
  <2>1. pc' \notin Underway
    BY <1>7, RestGoes DEF Answer
  <2>2. op[p].state = "SUBMITTED" /\ op[p].by # "not_submitted"
    BY <1>7 DEF Answer, Attributed
  <2>3. PICK s : op' = [op EXCEPT ![p].state = s,
                                  ![p].by = IF s = "CONFIG_COMMITTED" THEN "reply" ELSE @]
    BY <1>7 DEF Answer
  <2>4. op'[p].by \in {"reply", op[p].by} /\ \A q \in Pod \ {p} : op'[q] = op[q]
    BY <1>1, <2>3 DEF Row
  <2>5. \A q \in Pod : op'[q] = op[q] \/ op'[q].by # "not_submitted"
    BY <2>2, <2>4
  <2>6. QED
    BY <2>1, <2>5 DEF Attributed
<1>8. CASE RestartController
  <2>1. CASE op' = op /\ pc' = "cleanup"
    BY <2>1 DEF Attributed
  <2>2. CASE op' = [p \in Pod |-> IF op[p].state = "SUBMITTED"
                                  THEN [op[p] EXCEPT !.state = "INDETERMINATE"] ELSE op[p]]
    <3>1. ASSUME NEW p \in Pod, op'[p] # op[p]
          PROVE  op'[p].by = op[p].by /\ op[p].state = "SUBMITTED"
      <4>1. op[p].state = "SUBMITTED" /\ op'[p] = [op[p] EXCEPT !.state = "INDETERMINATE"]
        BY <2>2, <3>1
      <4>2. op[p] \in Row
        BY <1>1
      <4>3. QED
        BY <4>1, <4>2 DEF Row
    <3>2. pc \in Underway
      BY <1>8 DEF RestartController
    <3>3. QED
      BY <3>1, <3>2 DEF Attributed
  <2>3. QED
    BY <1>8, <2>1, <2>2 DEF RestartController, Goto
<1>9. CASE Round
  <2>1. \A p \in Pod : op'[p] \in Reconciled(op[p])
    BY <1>9 DEF Round
  <2>2. pc \in Underway
    BY <1>9 DEF Round
  <2>3. \A p \in Pod : /\ AttributedRow(op'[p])
                       /\ op'[p].state = "OBSERVED_APPLIED" => op'[p].by # "not_submitted"
    BY <1>1, <1>2, <2>1, <2>2, ReconciledKeeps DEF Attributed
  <2>4. QED
    BY <2>3 DEF Attributed, AttributedRow
<1>10. ASSUME NEW p \in Pod, Loose(p) PROVE Attributed'
  <2>1. PICK o \in Reconciled(op[p]) : op' = [op EXCEPT ![p] = o]
    BY <1>10 DEF Loose
  <2>2. AttributedRow(o)
    BY <1>1, <1>2, ReconciledKeeps
  <2>3. \A q \in Pod : AttributedRow(op'[q])
    BY <1>1, <1>2, <2>1, <2>2
  <2>4. pc' \notin Underway
    BY <1>10 DEF Loose
  <2>5. QED
    BY <2>3, <2>4 DEF Attributed, AttributedRow
<1>11. ASSUME NEW p \in Pod, SetUp(p) \/ Feedback(p) PROVE Attributed'
  <2>1. op' = op /\ (pc' \in Underway => pc \in Underway)
    BY <1>11, RestGoes DEF SetUp, Feedback, jvars
  <2>2. QED
    BY <1>3, <2>1
<1>12. CASE Begin \/ RestartServer \/ Judge
  BY <1>3, <1>12 DEF Begin, RestartServer, Restarting, Judge, Goto, jvars
<1>13. CASE Fail \/ Interrupt
  BY <1>3, <1>13 DEF Fail, Interrupt, Raise, Goto
<1>14. CASE Close \/ InterruptCleanup \/ Seal \/ Unsealed
  BY <1>3, <1>14 DEF Close, InterruptCleanup, Seal, Unsealed, Goto, jvars
<1>15. CASE Expire \/ Watch
  BY <1>3, <1>15, ReadingKeeps DEF Expire, jvars
<1>16. QED
  BY <1>4, <1>5, <1>6, <1>7, <1>8, <1>9, <1>10, <1>11, <1>12, <1>13, <1>14, <1>15,
     NextCases DEF Submits

LEMMA StepJudged ==
  ASSUME TypeOK, Undecided, Attributed, Judged, Next
  PROVE  Judged'
<1> USE DEF After, Underway
<1>0. result \in [status: Statuses, verdict: Verdicts, errors: 0..MaxRaises]
  BY DEF TypeOK
<1>1. CASE result'.verdict # "pass"
  BY <1>1 DEF Judged
<1>2. CASE UNCHANGED <<scenario, op, stray, loose>> /\ result'.verdict = result.verdict
           /\ result'.status = result.status
  BY <1>2 DEF Judged, Matches
<1>3. ASSUME pc \notin After, result' = result PROVE Judged'
  BY <1>1, <1>3 DEF Undecided
<1>4. CASE Begin
  BY <1>0, <1>1, <1>3, <1>4 DEF Begin
<1>5. CASE Check \/ RestartController
  BY <1>0, <1>1, <1>3, <1>5 DEF Check, RestartController, Raise
<1>6. CASE RestartServer \/ Round
  BY <1>3, <1>6 DEF RestartServer, Restarting, Round
<1>7. ASSUME NEW p \in Pod, SetUp(p) \/ Request(p) \/ Plan(p) \/ Answer(p) \/ Feedback(p)
      PROVE  Judged'
  BY <1>3, <1>7 DEF SetUp, Request, Plan, Answer, Feedback
<1>8. CASE Judge
  <2>1. pc = "judge" /\ UNCHANGED <<scenario, op, stray, loose>>
    BY <1>8 DEF Judge, jvars, rvars
  <2>2. ~stray /\ loose = {}
    BY <2>1 DEF Undecided
  <2>3. result'.status = "completed"
        /\ (result'.verdict = "pass" => \A p \in Pod : Matches(p))
    BY <1>0, <1>8 DEF Judge
  <2>4. \A p \in Pod : op[p].state = "OBSERVED_APPLIED" => op[p].by # "not_submitted"
    BY <2>1 DEF Attributed
  <2>5. QED
    BY <2>1, <2>2, <2>3, <2>4 DEF Judged, Matches
<1>9. CASE Fail \/ Interrupt
  <2>1. result'.verdict \in {"fail", "blocked", "inconclusive"}
    BY <1>0, <1>9 DEF Fail, Interrupt, Raise
  <2>2. QED
    BY <1>1, <2>1
<1>10. CASE Close
  <2>1. UNCHANGED <<scenario, op, stray, loose>>
    BY <1>10 DEF Close, jvars
  <2>2. result'.verdict = result.verdict /\ result'.status = result.status
    BY <1>0, <1>10 DEF Close
  <2>3. QED
    BY <1>2, <2>1, <2>2
<1>11. CASE InterruptCleanup \/ Seal \/ Unsealed
  BY <1>2, <1>11 DEF InterruptCleanup, Seal, Unsealed, jvars, rvars
<1>12. ASSUME NEW p \in Pod, Loose(p) PROVE Judged'
  <2>1. loose # {} /\ result' = result
    BY <1>12 DEF Loose
  <2>2. QED
    BY <1>1, <2>1 DEF Judged
<1>13. CASE Expire \/ Watch
  BY <1>2, <1>13, ReadingKeeps DEF Expire, jvars, rvars
<1>14. QED
  BY <1>4, <1>5, <1>6, <1>7, <1>8, <1>9, <1>10, <1>11, <1>12, <1>13, NextCases DEF Submits

-----------------------------------------------------------------------------
(***************************************************************************)
(* The theorems.                                                           *)
(***************************************************************************)

LEMMA StutterInv == ASSUME Inv, UNCHANGED vars PROVE Inv'
<1>1. /\ UNCHANGED <<scenario, pc, todo, op, news, journal, owned, alive, stray>>
      /\ UNCHANGED <<result, record, loose, over, watch>>
  BY DEF vars, jvars, rvars
<1>2. TypeOK'
  BY <1>1 DEF Inv, TypeOK
<1>3. Undecided' /\ Kept' /\ Attributed'
  BY <1>1 DEF Inv, Undecided, Kept, Simulation, Attributed
<1>4. Recorded'
  BY <1>1 DEF Inv, Recorded, NoRecord, NoOp, Sealed
<1>5. Judged' /\ Watched'
  BY <1>1 DEF Inv, Judged, Matches, Watched
<1>6. QED
  BY <1>2, <1>3, <1>4, <1>5 DEF Inv

\* Every step of the run, of its failures and of its watcher keeps the invariant.
THEOREM Invariance == Spec => []Inv
<1>1. Init => Inv
  BY InitTyped, InitRest DEF Inv
<1>2. Inv /\ [Next]_vars => Inv'
  <2>1. ASSUME Inv, Next PROVE Inv'
    <3>1. RunType /\ RecordType
      BY <2>1, TypeParts DEF Inv
    <3>2. TypeOK' /\ Kept'
      BY <2>1, StepTyped, StepKept DEF Inv
    <3>3. Undecided' /\ Recorded' /\ Watched'
      BY <2>1, <3>1, StepUndecided, StepRecorded, StepWatched DEF Inv
    <3>4. Attributed' /\ Judged'
      BY <2>1, StepAttributed, StepJudged DEF Inv
    <3>5. QED
      BY <3>2, <3>3, <3>4 DEF Inv
  <2>2. QED
    BY <2>1, StutterInv
<1>3. QED
  BY <1>1, <1>2, PTL DEF Spec

\* A record that says something is the sealed one.
LEMMA SaidAtTheEnd ==
  ASSUME Inv, \/ record.verdict = "pass" \/ record.cleanup = "completed"
              \/ record.status \notin {"none", "running"}
  PROVE  pc = "ended" /\ record = Sealed /\ "export" \notin news
BY DEF Inv, Recorded, NoRecord

\* A record of the journal that says its cleanup is complete is right about what the run
\* had kept for closing: no such manager, session or database is left, whatever raised
\* or interrupted the run (cleanup and the finally block of run).  The process of a
\* manager's restart that failed was not kept, and may be left.
THEOREM CleanupIsComplete == Spec => []NothingLeftRunning
<1>1. Inv => NothingLeftRunning
  <2> SUFFICES ASSUME Inv, record.cleanup = "completed" PROVE alive = {}
    BY DEF NothingLeftRunning
  <2>1. pc = "ended" /\ record = Sealed
    BY SaidAtTheEnd
  <2>2. ~(result.errors > 0)
    BY <2>1 DEF Sealed
  <2>3. QED
    BY <2>1, <2>2 DEF Inv, Kept
<1>2. QED
  BY <1>1, Invariance, PTL

\* The sealed record and the exported events stay what the journal says, and a watcher
\* that has seen the end has shown every event (run's last save_run, watch).
THEOREM EvidenceStays == Spec => []EvidenceSealed
<1>1. Inv => EvidenceSealed
  <2> SUFFICES ASSUME Inv PROVE EvidenceSealed
    OBVIOUS
  <2>1. record.status \notin {"none", "running"} => record.ops = op /\ "export" \notin news
    BY SaidAtTheEnd DEF Sealed
  <2>2. watch.pc = "ended" => "watch" \notin news
    BY DEF Inv, Watched
  <2>3. QED
    BY <2>1, <2>2 DEF EvidenceSealed
<1>2. QED
  BY <1>1, Invariance, PTL

\* A run that is recorded as passed met every expectation, with no success after its
\* deadline, was not failed or interrupted, and has left nothing running (evaluate, the
\* handlers and cleanup).
THEOREM PassesAreEarned == Spec => []PassIsEarned
<1>1. Inv => PassIsEarned
  <2> SUFFICES ASSUME Inv PROVE PassIsEarned
    OBVIOUS
  <2>1. TypeOK /\ op \in [Pod -> Row]
    BY DEF Inv, TypeOK, Rows, Row
  <2>2. ASSUME record.verdict = "pass"
        PROVE  /\ record.status = "completed" /\ record.cleanup = "completed"
               /\ alive = {} /\ ~stray
               /\ \A p \in Pod \ {Affected} :
                    op[p] \in [state: {"OBSERVED_APPLIED"}, late: {FALSE}, by: {"reply", "unknown"}]
               /\ op[Affected].state = scenario.state
               /\ op[Affected].state = "OBSERVED_APPLIED" => ~op[Affected].late
    <3>1. pc = "ended" /\ record = Sealed
      BY <2>2, SaidAtTheEnd
    <3>2. ~(result.errors > 0) /\ result.verdict = "pass"
      BY <2>2, <3>1 DEF Sealed
    <3>3. record.status = "completed" /\ record.cleanup = "completed" /\ ~stray
      BY <3>1, <3>2 DEF Inv, Judged, Sealed
    <3>4. alive = {}
      BY <3>1, <3>2 DEF Inv, Kept
    <3>5. /\ \A p \in Pod : Matches(p)
          /\ \A p \in Pod : op[p].state = "OBSERVED_APPLIED" => op[p].by # "not_submitted"
      BY <3>2 DEF Inv, Judged
    <3>6. ASSUME NEW p \in Pod \ {Affected}
          PROVE  op[p] \in [state: {"OBSERVED_APPLIED"}, late: {FALSE}, by: {"reply", "unknown"}]
      <4>1. op[p].state = "OBSERVED_APPLIED" /\ ~op[p].late
        BY <3>5, <3>6 DEF Matches
      <4>2. op[p] \in Row /\ op[p].by # "not_submitted"
        BY <2>1, <3>5, <4>1
      <4>3. QED
        BY <4>1, <4>2 DEF Row
    <3>7. /\ op[Affected].state = scenario.state
          /\ op[Affected].state = "OBSERVED_APPLIED" => ~op[Affected].late
      BY <3>5, Bounds DEF Matches
    <3>8. QED
      BY <3>3, <3>4, <3>6, <3>7
  <2>3. QED
    BY <2>1, <2>2 DEF PassIsEarned
<1>2. QED
  BY <1>1, Invariance, PTL
=============================================================================
