------------------------------- MODULE Engine -------------------------------
(***************************************************************************)
(* The reconciliation engine for one pod: the durable operation journal,   *)
(* the coroutines that execute and reconcile operations on the event loop, *)
(* the OVSDB session below them and the pod's database, which an           *)
(* independent manager and a competing writer also change                  *)
(* (reconcile.py, store.py, app.py, opensync/mapping.py).                  *)
(*                                                                         *)
(* A handler runs on one event loop, so an action is the code between two  *)
(* awaits.  A session job runs on one FIFO worker and its completion is    *)
(* delivered in order, so a job and the resumption of the coroutine that   *)
(* awaits it form one action.  Every journal write is a synchronous        *)
(* commit: a handler that commits twice has a "cut" variant in which the   *)
(* process dies between the two.                                           *)
(***************************************************************************)
EXTENDS Operations, Integers, Sequences

CONSTANTS
  MaxOperations,  \* the journal's operation budget (Store.max_operations)
  Value,          \* the configurations an intent can ask for
  None,           \* no State row / no intent yet
  Hazards,        \* which of the events below can occur
  MaxStops,       \* bound: stops of the process
  MaxGeneration,  \* bound: connections lost while generation is below it
  MaxForeign,     \* bound: writes of the competing writer
  MaxLag          \* bound: row versions not yet drained by the session

\* cut       the process dies between two commits of one handler
\* overflow  a monitor update is refused while a reply is awaited
\* refuse    a job fails with another EmosaError, a transaction is aborted
\* rpcerror  the server answers a request with a JSON-RPC error
\* secret    a secret reference no longer resolves
\* quiesce   the operator quiesces the service
HazardNames ==
  {"cut", "overflow", "refuse", "rpcerror", "secret", "quiesce"}

ASSUME EngineAssumption ==
  /\ MaxOperations \in Nat \ {0}
  /\ Value # {} /\ None \notin Value
  /\ Hazards \subseteq HazardNames
  /\ {MaxStops, MaxGeneration, MaxForeign, MaxLag} \subseteq Nat

\* Journal rows in insertion (rowid) order.
Op == 1..MaxOperations

VARIABLES
  \* the journal: what survives the process
  state, target, attempts, attribution, elapsed, evidence, conflict,
  \* the process: what a stop loses
  up, quiesced, busy, tasks, pc, pinned, known,
  \* the session and the pod
  link, generation, rows, wire, guard, sends, foreign,
  \* time, and the number of stops so far
  due, stops

rowVars     == <<target, attempts, attribution, elapsed, evidence>>
journalVars == <<state, rowVars, conflict>>
taskVars    == <<busy, tasks, pc, pinned>>
processVars == <<up, quiesced, taskVars, known>>
sessionVars == <<link, generation, rows>>
wireVars    == <<wire, guard, sends, foreign>>
clockVars   == <<due, stops>>
vars == <<journalVars, processVars, sessionVars, wireVars, clockVars>>

\* A version of the pod's rows: the Config row, the manager's State row and
\* the operation whose transaction made this version (0: none).
Version ==
  [cfg: Value \cup {None}, st: Value \cup {None}, by: 0..MaxOperations]

\* rows[1] is the session's cache, the last one is what the server holds and
\* those between are updates the session has not drained.
Server == rows[Len(rows)]

Advance(k) == rows' = SubSeq(rows, k, Len(rows))

\* The server commits a new version; while disconnected nothing is cached.
Publish(v) == rows' = IF link THEN Append(rows, v) ELSE <<v>>

JournalType ==
  /\ state \in [Op -> State \cup {Absent}]
  /\ target \in [Op -> Value \cup {None}]
  /\ attempts \in [Op -> Nat]
  /\ attribution \in [Op -> {"not_submitted", "unknown", "reply"}]
  /\ elapsed \in [Op -> BOOLEAN]
  /\ evidence \in [Op -> {"none", "noop", "applied", "late"}]
  /\ conflict \in BOOLEAN

ProcessType ==
  /\ up \in BOOLEAN /\ quiesced \in BOOLEAN /\ busy \in BOOLEAN
  /\ tasks \subseteq Op
  /\ pc \in [Op -> {"idle", "planning", "submitting", "awaiting"}]
  /\ pinned \in [Op -> Nat]
  /\ known \in BOOLEAN
  /\ due \subseteq Op /\ stops \in Nat

PodType ==
  /\ link \in BOOLEAN
  /\ generation \in Nat
  /\ rows \in Seq(Version) /\ rows # <<>>
  /\ wire \in [Op -> {"unsent", "sent", "committed", "refused", "aborted"}]
  /\ guard \in [Op -> Value \cup {None}]
  /\ sends \in [Op -> Nat]
  /\ foreign \in Nat

\* The type of every variable; whatever is drained or lost, a version of the
\* pod's rows is left (the session's cache is replaced, never emptied).
TypeOK == JournalType /\ ProcessType /\ PodType

Init ==
  /\ state = [o \in Op |-> Absent]
  /\ target = [o \in Op |-> None]
  /\ attempts = [o \in Op |-> 0]
  /\ attribution = [o \in Op |-> "not_submitted"]
  /\ elapsed = [o \in Op |-> FALSE]
  /\ evidence = [o \in Op |-> "none"]
  /\ conflict = FALSE
  /\ up = TRUE /\ quiesced = FALSE /\ busy = FALSE
  /\ tasks = {}
  /\ pc = [o \in Op |-> "idle"]
  /\ pinned = [o \in Op |-> 0]
  /\ known = FALSE /\ link = FALSE
  /\ generation = 0
  /\ \E v \in Value, s \in Value \cup {None} :
       rows = <<[cfg |-> v, st |-> s, by |-> 0]>>
  /\ wire = [o \in Op |-> "unsent"]
  /\ guard = [o \in Op |-> None]
  /\ sends = [o \in Op |-> 0]
  /\ foreign = 0
  /\ due = {}
  /\ stops = 0

-----------------------------------------------------------------------------
(***************************************************************************)
(* Stopping, restarting and recovering the process.                        *)
(***************************************************************************)

\* The process is gone: tasks, busy marks, the quiesce flag and the session
\* with it.  A transaction already handed to the server may still run.
Die ==
  /\ stops < MaxStops
  /\ stops' = stops + 1
  /\ up' = FALSE /\ quiesced' = FALSE /\ busy' = FALSE /\ known' = FALSE
  /\ tasks' = {}
  /\ pc' = [o \in Op |-> "idle"]
  /\ pinned' = [o \in Op |-> 0]
  /\ link' = FALSE /\ generation' = 0 /\ rows' = <<Server>>
  /\ UNCHANGED <<wireVars, due>>

\* A crash, or Application.close, which cancels every task at its await.
Stop == up /\ Die /\ UNCHANGED journalVars

\* Fault: recovery queues what may have been sent again.
RecoverResends(o) ==
  /\ ~up
  /\ state[o] = "SUBMITTED"
  /\ state' = [state EXCEPT ![o] = "REQUESTED"]
  /\ UNCHANGED <<rowVars, conflict, processVars, sessionVars, wireVars,
                 clockVars>>

\* Engine.recover for one journal row: what may have been sent is unknown,
\* what was validated but not sent is withdrawn.
Recover(o) ==
  /\ ~up
  /\ \/ /\ state[o] = "SUBMITTED"
        /\ state' = [state EXCEPT ![o] = "INDETERMINATE"]
        /\ attribution' = [attribution EXCEPT ![o] = "unknown"]
     \/ /\ state[o] = "VALIDATED"
        /\ state' = [state EXCEPT ![o] = "CANCELLED"]
        /\ UNCHANGED attribution
  /\ UNCHANGED <<target, attempts, elapsed, evidence, conflict, processVars,
                 sessionVars, wireVars, clockVars>>

\* Tasks start only once recover has been through the whole journal.
Start ==
  /\ ~up
  /\ \A o \in Op : state[o] \notin {"SUBMITTED", "VALIDATED"}
  /\ up' = TRUE
  /\ UNCHANGED <<journalVars, quiesced, taskVars, known, sessionVars,
                 wireVars, clockVars>>

-----------------------------------------------------------------------------
(***************************************************************************)
(* Requests of the local client.                                           *)
(***************************************************************************)

\* Fault: only the running operation occupies the pod.
OccupiedWhileRunning(o) == quiesced \/ busy

\* The scope already has an operation that is not finished.
Occupied(o) == quiesced \/ busy \/ \E p \in Op \ {o} : state[p] \in ACTIVE

\* Store.add: the journal takes rows in order, up to its budget.
Inserts(o, v) ==
  /\ up
  /\ state[o] = Absent
  /\ \A p \in Op : p < o => state[p] # Absent
  /\ target' = [target EXCEPT ![o] = v]
  /\ UNCHANGED <<attempts, attribution, elapsed, evidence>>

\* component.submit with a new idempotency key: the row is inserted, refused
\* at once if the pod is occupied or in conflict, and a task is spawned.
Request(o, v) ==
  /\ Inserts(o, v)
  /\ state' = [state EXCEPT ![o] =
                 IF Occupied(o) \/ conflict THEN "REJECTED" ELSE "REQUESTED"]
  /\ tasks' = tasks \cup {o}
  /\ UNCHANGED <<conflict, up, quiesced, busy, pc, pinned, known, sessionVars,
                 wireVars, clockVars>>

\* The process dies after the insert and before the refusal is saved.
RequestCut(o, v) ==
  /\ "cut" \in Hazards
  /\ Inserts(o, v)
  /\ state' = [state EXCEPT ![o] = "REQUESTED"]
  /\ Die
  /\ UNCHANGED conflict

\* component.submit with a known key: request returns the old row and the
\* handler spawns execute for it again.
Retry(o) ==
  /\ up
  /\ state[o] # Absent
  /\ o \notin tasks
  /\ tasks' = tasks \cup {o}
  /\ UNCHANGED <<journalVars, up, quiesced, busy, pc, pinned, known,
                 sessionVars, wireVars, clockVars>>

\* Fault: a cancellation is accepted as long as the operation is active.
CancelAnyActive(o) ==
  /\ up
  /\ state[o] \in ACTIVE
  /\ state' = [state EXCEPT ![o] = "CANCELLED"]
  /\ UNCHANGED <<rowVars, conflict, processVars, sessionVars, wireVars,
                 clockVars>>

\* operation.cancel: the table allows it only before a write was prepared.
Cancel(o) ==
  /\ up
  /\ state[o] \in State
  /\ "CANCELLED" \in TRANSITIONS[state[o]]
  /\ state' = [state EXCEPT ![o] = "CANCELLED"]
  /\ UNCHANGED <<rowVars, conflict, processVars, sessionVars, wireVars,
                 clockVars>>

Quiesce ==
  /\ "quiesce" \in Hazards
  /\ up /\ ~quiesced
  /\ quiesced' = TRUE
  /\ UNCHANGED <<journalVars, up, taskVars, known, sessionVars, wireVars,
                 clockVars>>

-----------------------------------------------------------------------------
(***************************************************************************)
(* Engine.execute, from its start to the submission.                       *)
(***************************************************************************)

\* Fault: the busy mark outlives the coroutine.
FinishStaysBusy(o, s) ==
  /\ state' = [state EXCEPT ![o] = s]
  /\ pc' = [pc EXCEPT ![o] = "idle"]
  /\ pinned' = [pinned EXCEPT ![o] = 0]
  /\ UNCHANGED busy

\* The coroutine of o ends with its row in state s and frees the pod.
Finish(o, s) ==
  /\ state' = [state EXCEPT ![o] = s]
  /\ pc' = [pc EXCEPT ![o] = "idle"]
  /\ pinned' = [pinned EXCEPT ![o] = 0]
  /\ busy' = FALSE

\* Fault: execute trusts the ownership check its request made.
BeginUnderConflict(o) ==
  /\ up /\ o \in tasks
  /\ tasks' = tasks \ {o}
  /\ IF state[o] # "REQUESTED" \/ busy
     THEN UNCHANGED <<busy, pc>>
     ELSE busy' = TRUE /\ pc' = [pc EXCEPT ![o] = "planning"]
  /\ UNCHANGED <<journalVars, up, quiesced, pinned, known, sessionVars,
                 wireVars, clockVars>>

\* The scheduled task runs up to its first await: only a requested row is
\* executed, only one at a time, and not under an ownership conflict.
Begin(o) ==
  /\ up /\ o \in tasks
  /\ tasks' = tasks \ {o}
  /\ \/ /\ state[o] # "REQUESTED" \/ busy
        /\ UNCHANGED <<state, busy, pc, pinned>>
     \/ /\ state[o] = "REQUESTED" /\ ~busy
        /\ conflict \/ "secret" \in Hazards
        /\ Finish(o, "REJECTED")
     \/ /\ state[o] = "REQUESTED" /\ ~busy /\ ~conflict
        /\ busy' = TRUE
        /\ pc' = [pc EXCEPT ![o] = "planning"]
        /\ UNCHANGED <<state, pinned>>
  /\ UNCHANGED <<rowVars, conflict, up, quiesced, known, sessionVars,
                 wireVars, clockVars>>

\* A plan or snapshot job can refuse: no connection, no State row, a budget
\* or a representation that is not qualified.
Refusable ==
  ~link \/ "refuse" \in Hazards \/ \E k \in DOMAIN rows : rows[k].st = None

\* Planning raises EmosaError: the coroutine's own copy of the row, read when
\* it started, is saved as rejected.
PlanRefused(o) ==
  /\ pc[o] = "planning"
  /\ Refusable
  /\ Finish(o, "REJECTED")
  /\ UNCHANGED <<rowVars, conflict, up, quiesced, tasks, known, sessionVars,
                 wireVars, clockVars>>

\* Planning raises ConnectionError or TimeoutError, which execute does not
\* catch there: the task ends and the row stays as it is.
PlanLost(o) ==
  /\ pc[o] = "planning"
  /\ ~link
  /\ Finish(o, state[o])
  /\ UNCHANGED <<rowVars, conflict, up, quiesced, tasks, known, sessionVars,
                 wireVars, clockVars>>

\* Both jobs of planning succeed and leave rows[k] in the cache.
Planned(o, k) ==
  /\ pc[o] = "planning"
  /\ link /\ rows[k].st # None
  /\ Advance(k)
  /\ known' = TRUE
  /\ UNCHANGED <<target, elapsed, conflict, up, quiesced, tasks, link,
                 generation, wireVars, clockVars>>

\* The row was cancelled while planning was awaited.
PlanWithdrawn(o) ==
  /\ \E k \in DOMAIN rows : Planned(o, k)
  /\ state[o] # "REQUESTED"
  /\ Finish(o, state[o])
  /\ UNCHANGED <<attempts, attribution, evidence>>

\* Config and fresh State already are what the intent asks for.
PlanNoop(o) ==
  /\ \E k \in DOMAIN rows :
       /\ Planned(o, k)
       /\ rows[k].cfg = target[o] /\ rows[k].st = target[o]
  /\ state[o] = "REQUESTED"
  /\ Finish(o, "OBSERVED_APPLIED")
  /\ evidence' = [evidence EXCEPT ![o] = "noop"]
  /\ UNCHANGED <<attempts, attribution>>

\* The attempt and the session generation it is bound to are committed to the
\* journal before anything is sent.
PlanSubmit(o) ==
  /\ \E k \in DOMAIN rows :
       /\ Planned(o, k)
       /\ ~(rows[k].cfg = target[o] /\ rows[k].st = target[o])
  /\ state[o] = "REQUESTED"
  /\ state' = [state EXCEPT ![o] = "SUBMITTED"]
  /\ attempts' = [attempts EXCEPT ![o] = @ + 1]
  /\ attribution' = [attribution EXCEPT ![o] = "unknown"]
  /\ pinned' = [pinned EXCEPT ![o] = generation]
  /\ pc' = [pc EXCEPT ![o] = "submitting"]
  /\ UNCHANGED <<evidence, busy>>

\* The secret stops resolving after the row was saved as validated: the task
\* ends and nothing moves the row on.
PlanStuck(o) ==
  /\ "secret" \in Hazards
  /\ \E k \in DOMAIN rows : Planned(o, k)
  /\ state[o] = "REQUESTED"
  /\ Finish(o, "VALIDATED")
  /\ UNCHANGED <<attempts, attribution, evidence>>

\* The process dies between the VALIDATED and the SUBMITTED commit.
PlanCut(o) ==
  /\ "cut" \in Hazards
  /\ pc[o] = "planning"
  /\ link /\ state[o] = "REQUESTED"
  /\ \E k \in DOMAIN rows : rows[k].st # None
  /\ state' = [state EXCEPT ![o] = "VALIDATED"]
  /\ Die
  /\ UNCHANGED <<rowVars, conflict>>

-----------------------------------------------------------------------------
(***************************************************************************)
(* OpenSyncBackend.submit and what execute makes of its answer.            *)
(***************************************************************************)

\* The rest of execute's state is untouched by the way a submission ends.
Settles(o, s) ==
  /\ Finish(o, s)
  /\ UNCHANGED <<target, attempts, elapsed, evidence, up, quiesced, tasks,
                 known, generation, wireVars, clockVars>>

\* Plan or snapshot fail inside submit, or the session is lost before the
\* request is written: the engine cannot tell and records it as unknown.
SubmitUnsure(o) ==
  /\ pc[o] = "submitting"
  /\ Refusable
  /\ Settles(o, "INDETERMINATE")
  /\ UNCHANGED <<attribution, conflict, link, rows>>

\* Nothing was sent: another session generation than the attempt's, or the
\* session is not ready or refuses the job.
SubmitUnready(o) ==
  /\ pc[o] = "submitting"
  /\ ~link \/ generation # pinned[o] \/ "refuse" \in Hazards
  /\ Settles(o, "FAILED")
  /\ UNCHANGED <<attribution, conflict, link, rows>>

\* An error answer to the resynchronisation that precedes the send has the
\* code of a failed guard: it is taken for a competing writer.
SubmitMisread(o) ==
  /\ "rpcerror" \in Hazards
  /\ pc[o] = "submitting" /\ link
  /\ conflict' = TRUE
  /\ Settles(o, "OWNERSHIP_CONFLICT")
  /\ UNCHANGED <<attribution, link, rows>>

\* The guarded transaction is written to the session the attempt is bound to.
\* Submit plans anew, and reads the values its wait operations name after that.
Send(o) ==
  /\ pc[o] = "submitting"
  /\ link /\ generation = pinned[o]
  /\ \E k \in DOMAIN rows :
       /\ \E j \in 1..k : rows[j].st # None
       /\ Advance(k)
       /\ guard' = [guard EXCEPT ![o] = rows[k].cfg]
  /\ known' = TRUE
  /\ wire' = [wire EXCEPT ![o] = "sent"]
  /\ sends' = [sends EXCEPT ![o] = @ + 1]
  /\ pc' = [pc EXCEPT ![o] = "awaiting"]
  /\ UNCHANGED <<journalVars, up, quiesced, busy, tasks, pinned, link,
                 generation, foreign, clockVars>>

\* The connection the request went out on is still the current one.
SameSession(o) == link /\ generation = pinned[o]

\* The reply of a commit: the server sent the update of the row before it, so
\* the cache holds the adapter's own write by then.
AnswerCommitted(o) ==
  /\ pc[o] = "awaiting" /\ SameSession(o)
  /\ wire[o] = "committed"
  /\ \E k \in DOMAIN rows :
       /\ \E j \in 1..k : rows[j].by = o
       /\ Advance(k)
  /\ attribution' = [attribution EXCEPT ![o] = "reply"]
  /\ Settles(o, "CONFIG_COMMITTED")
  /\ UNCHANGED <<conflict, link>>

\* The guard did not hold, or the request was answered by an error, which has
\* the same code by the time submit sees it: the conflict is durable before the row is.
AnswerRefused(o) ==
  /\ pc[o] = "awaiting" /\ SameSession(o)
  /\ wire[o] = "refused"
  /\ conflict' = TRUE
  /\ Settles(o, "OWNERSHIP_CONFLICT")
  /\ UNCHANGED <<attribution, link, rows>>

AnswerRefusedCut(o) ==
  /\ "cut" \in Hazards
  /\ pc[o] = "awaiting" /\ SameSession(o)
  /\ wire[o] = "refused"
  /\ conflict' = TRUE
  /\ Die
  /\ UNCHANGED <<state, rowVars>>

\* The server aborted the transaction for another reason.
AnswerAborted(o) ==
  /\ pc[o] = "awaiting" /\ SameSession(o)
  /\ wire[o] = "aborted"
  /\ Settles(o, "FAILED")
  /\ UNCHANGED <<attribution, conflict, link, rows>>

\* Fault: the loss of a reply counts as a failure.
AnswerLostFails(o) ==
  /\ pc[o] = "awaiting"
  /\ link' = (link /\ generation # pinned[o])
  /\ rows' = IF link' THEN rows ELSE <<Server>>
  /\ Settles(o, "FAILED")
  /\ UNCHANGED <<attribution, conflict>>

\* The session changed under the request, or its deadline passed and the
\* session is invalidated: no reply will ever be matched.
AnswerLost(o) ==
  /\ pc[o] = "awaiting"
  /\ link' = (link /\ generation # pinned[o])
  /\ rows' = IF link' THEN rows ELSE <<Server>>
  /\ Settles(o, "INDETERMINATE")
  /\ UNCHANGED <<attribution, conflict>>

\* The results of the commit are not what submit expects: a count, or their number.
AnswerUnclear(o) ==
  /\ pc[o] = "awaiting" /\ SameSession(o)
  /\ wire[o] = "committed"
  /\ \E k \in DOMAIN rows :
       /\ \E j \in 1..k : rows[j].by = o
       /\ Advance(k)
  /\ Settles(o, "INDETERMINATE")
  /\ UNCHANGED <<attribution, conflict, link>>

\* An update or a message that breaks a limit arrives before the reply: the
\* session raises NOT_READY, which submit maps to a rejected transaction.
AnswerOverflow(o) ==
  /\ "overflow" \in Hazards
  /\ pc[o] = "awaiting" /\ SameSession(o)
  /\ link' = FALSE
  /\ rows' = <<Server>>
  /\ Settles(o, "FAILED")
  /\ UNCHANGED <<attribution, conflict>>

-----------------------------------------------------------------------------
(***************************************************************************)
(* Engine.reconcile, one round of the refresh task.                        *)
(***************************************************************************)

\* Fault: superseded operations are judged as well.
CurrentAny(o) == state[o] \in Tracked

\* The newest operation that can own the pod's configuration.
Current(o) ==
  /\ state[o] \in Tracked
  /\ \A p \in Op : p > o => state[p] \notin Superseding

\* What the deadline alone does to the current operation.
Overdue(o) == o \in due /\ state[o] \in {"CONFIG_COMMITTED", "INDETERMINATE"}

\* Fault: the deadline is flagged and nothing more.
AfterDeadlineNever(o) == state[o]

AfterDeadline(o) ==
  IF o \in due /\ state[o] = "CONFIG_COMMITTED" THEN "TIMED_OUT" ELSE state[o]

\* A ready snapshot shows a configuration this operation does not want ...
Drifted(o, row) ==
  /\ row.st # None /\ row.cfg # target[o]
  /\ state[o] \in {"CONFIG_COMMITTED", "OBSERVED_APPLIED", "TIMED_OUT"}

\* ... or the one it wants, applied, for the first time.
Applied(o, row) ==
  /\ row.cfg = target[o] /\ row.st = target[o]
  /\ evidence[o] = "none"

\* Fault: late evidence turns a timeout into success.
JudgeLateApplies(o, row) ==
  /\ elapsed' = [elapsed EXCEPT ![o] = @ \/ Overdue(o)]
  /\ conflict' = (conflict \/ Drifted(o, row))
  /\ evidence' = [evidence EXCEPT ![o] =
       IF ~Applied(o, row) THEN @ ELSE IF elapsed'[o] THEN "late" ELSE "applied"]
  /\ state' = [state EXCEPT ![o] =
       IF Applied(o, row) THEN "OBSERVED_APPLIED" ELSE AfterDeadline(o)]
  /\ UNCHANGED <<target, attempts, attribution>>

\* The deadline comes first; evidence that arrives later is kept beside the
\* verdict and does not replace it.
Judge(o, row) ==
  /\ elapsed' = [elapsed EXCEPT ![o] = @ \/ Overdue(o)]
  /\ conflict' = (conflict \/ Drifted(o, row))
  /\ evidence' = [evidence EXCEPT ![o] =
       IF ~Applied(o, row) THEN @ ELSE IF elapsed'[o] THEN "late" ELSE "applied"]
  /\ state' = [state EXCEPT ![o] =
       LET s == AfterDeadline(o)
       IN  IF Drifted(o, row) /\ s = "CONFIG_COMMITTED" THEN "OWNERSHIP_CONFLICT"
           ELSE IF Applied(o, row) /\ s # "TIMED_OUT" THEN "OBSERVED_APPLIED"
           ELSE s]
  /\ UNCHANGED <<target, attempts, attribution>>

\* The session is lost but an older snapshot exists: it comes back marked not
\* ready, and only the deadline is judged.  The same holds for a row whose
\* secret no longer resolves.
JudgeDeadline(o) ==
  /\ elapsed' = [elapsed EXCEPT ![o] = @ \/ Overdue(o)]
  /\ state' = [state EXCEPT ![o] = AfterDeadline(o)]
  /\ UNCHANGED <<target, attempts, attribution, evidence, conflict>>

\* The session's worker is free unless a transaction awaits its reply.
WorkerFree == \A o \in Op : pc[o] # "awaiting"

\* A round with a live session, which leaves rows[k] in the cache.
Observe ==
  /\ up /\ WorkerFree /\ link
  /\ \E k \in DOMAIN rows :
       /\ Advance(k)
       /\ \/ \E o \in Op : Current(o) /\ Judge(o, rows[k])
          \/ \E o \in Op : /\ "secret" \in Hazards
                           /\ Current(o) /\ JudgeDeadline(o)
          \/ (\A o \in Op : ~Current(o)) /\ UNCHANGED journalVars
  /\ known' = TRUE
  /\ UNCHANGED <<up, quiesced, taskVars, link, generation, wireVars,
                 clockVars>>

\* A round without one.  Before the first snapshot of this process the job
\* raises and the round changes nothing.
ObserveBlind ==
  /\ up /\ WorkerFree /\ ~link /\ known
  /\ \E o \in Op : Current(o) /\ JudgeDeadline(o)
  /\ UNCHANGED <<processVars, sessionVars, wireVars, clockVars>>

\* The process dies after the conflict is durable and before the row is.
ObserveCut ==
  /\ "cut" \in Hazards
  /\ up /\ WorkerFree /\ link
  /\ \E o \in Op, k \in DOMAIN rows : Current(o) /\ Drifted(o, rows[k])
  /\ conflict' = TRUE
  /\ Die
  /\ UNCHANGED <<state, rowVars>>

-----------------------------------------------------------------------------
(***************************************************************************)
(* The session's connection, the pod's server, its manager, a competing    *)
(* writer, and time.                                                       *)
(***************************************************************************)

\* The session connects and its monitor delivers the current rows.
Connect ==
  /\ up /\ ~link
  /\ link' = TRUE
  /\ generation' = generation + 1
  /\ UNCHANGED <<journalVars, processVars, rows, wireVars, clockVars>>

\* Fault: losing the connection empties the cache.
DisconnectClears ==
  /\ link /\ generation < MaxGeneration
  /\ link' = FALSE
  /\ rows' = <<>>
  /\ UNCHANGED <<journalVars, processVars, generation, wireVars, clockVars>>

Disconnect ==
  /\ link /\ generation < MaxGeneration
  /\ link' = FALSE
  /\ rows' = <<Server>>
  /\ UNCHANGED <<journalVars, processVars, generation, wireVars, clockVars>>

\* ovsdb-server runs a request it received, however late: the guard and the
\* update are one atomic transaction.
Execute(o) ==
  /\ wire[o] = "sent"
  /\ \/ /\ guard[o] = Server.cfg
        /\ Publish([Server EXCEPT !.cfg = target[o], !.by = o])
        /\ wire' = [wire EXCEPT ![o] = "committed"]
     \/ /\ guard[o] # Server.cfg \/ "rpcerror" \in Hazards
        /\ wire' = [wire EXCEPT ![o] = "refused"]
        /\ UNCHANGED rows
     \/ /\ "refuse" \in Hazards
        /\ wire' = [wire EXCEPT ![o] = "aborted"]
        /\ UNCHANGED rows
  /\ guard' = [guard EXCEPT ![o] = None]
  /\ UNCHANGED <<journalVars, processVars, link, generation, sends, foreign,
                 clockVars>>

\* The pod's manager publishes what its driver runs: the configuration, one it
\* read earlier or applied in part, or no linked State row at all.
Manage(s) ==
  /\ Len(rows) < MaxLag
  /\ s # Server.st
  /\ Publish([Server EXCEPT !.st = s, !.by = 0])
  /\ UNCHANGED <<journalVars, processVars, link, generation, wireVars,
                 clockVars>>

\* Another client of the same database changes the configuration.
Compete(v) ==
  /\ Len(rows) < MaxLag /\ foreign < MaxForeign
  /\ v # Server.cfg
  /\ Publish([Server EXCEPT !.cfg = v, !.by = 0])
  /\ foreign' = foreign + 1
  /\ UNCHANGED <<journalVars, processVars, link, generation, wire, guard,
                 sends, clockVars>>

\* The deadline of o passes; before its commit or its unknown outcome nothing
\* looks at the clock.
Elapse(o) ==
  /\ state[o] \in {"CONFIG_COMMITTED", "INDETERMINATE"} /\ o \notin due
  /\ due' = due \cup {o}
  /\ UNCHANGED <<journalVars, processVars, sessionVars, wireVars, stops>>

-----------------------------------------------------------------------------

Plan(o) ==
  \/ PlanRefused(o) \/ PlanLost(o) \/ PlanWithdrawn(o) \/ PlanNoop(o)
  \/ PlanSubmit(o) \/ PlanStuck(o)

Submit(o) ==
  \/ SubmitUnsure(o) \/ SubmitUnready(o) \/ SubmitMisread(o) \/ Send(o)

Answer(o) ==
  \/ AnswerCommitted(o) \/ AnswerRefused(o) \/ AnswerAborted(o)
  \/ AnswerLost(o) \/ AnswerUnclear(o) \/ AnswerOverflow(o)

Client(o) ==
  \/ \E v \in Value : Request(o, v) \/ RequestCut(o, v)
  \/ Retry(o) \/ Cancel(o)

Coroutine(o) ==
  \/ Begin(o) \/ Plan(o) \/ PlanCut(o)
  \/ Submit(o) \/ Answer(o) \/ AnswerRefusedCut(o)

Refresh == Observe \/ ObserveBlind \/ ObserveCut

Pod ==
  \/ \E o \in Op : Execute(o) \/ Elapse(o)
  \/ \E s \in Value \cup {None} : Manage(s)
  \/ \E v \in Value : Compete(v)

Next ==
  \/ \E o \in Op : Client(o) \/ Coroutine(o) \/ Recover(o)
  \/ Refresh \/ Quiesce \/ Stop \/ Start \/ Connect \/ Disconnect \/ Pod

Spec == Init /\ [][Next]_vars

\* The event loop runs every task it holds, every session job ends within the
\* session's timeouts, the refresh task repeats, the session keeps connecting,
\* a stopped service is started again and clocks advance.
Fairness ==
  /\ \A o \in Op :
       /\ WF_vars(Begin(o)) /\ WF_vars(Plan(o)) /\ WF_vars(Submit(o))
       /\ WF_vars(Answer(o)) /\ WF_vars(Recover(o)) /\ WF_vars(Elapse(o))
  /\ WF_vars(Observe \/ ObserveBlind)
  /\ WF_vars(Connect) /\ WF_vars(Start)

FairSpec == Spec /\ Fairness

-----------------------------------------------------------------------------
(***************************************************************************)
(* What must hold.                                                         *)
(***************************************************************************)

\* A transaction reaches the pod at most once for an operation, whatever
\* retries of its key, lost replies, stops and restarts happen (execute
\* leaves a row that is not REQUESTED alone, recover never resends).
SentAtMostOnce == \A o \in Op : sends[o] <= 1

\* What was handed to the pod is covered by a durable attempt and can no
\* longer be rejected, cancelled or taken for unsent (the SUBMITTED row is
\* committed before the send, and nothing overwrites it with an older copy).
SentIsDurable ==
  \A o \in Op : sends[o] > 0 => attempts[o] = 1 /\ state[o] \notin Unsent

\* At most one operation of the pod is between its attempt and its answer,
\* and while the process runs that operation has a coroutine that will
\* settle it (busy is released on every way out of execute).
SoleSubmitter ==
  /\ \A o, p \in Op : state[o] = "SUBMITTED" /\ state[p] = "SUBMITTED" => o = p
  /\ \A o \in Op : up =>
       (state[o] = "SUBMITTED" <=> pc[o] \in {"submitting", "awaiting"})

\* The journal attributes a commit to the adapter only if the server did
\* commit the adapter's transaction.
AttributionIsTrue ==
  \A o \in Op : attribution[o] = "reply" => wire[o] = "committed"

\* An operation that is recorded as failed, rejected, cancelled or as a no-op
\* has not changed the pod and never will.
NegativeVerdictIsFinal ==
  \A o \in Op :
    \/ state[o] \in {"FAILED", "REJECTED", "CANCELLED"}
    \/ evidence[o] = "noop"
    => wire[o] \notin {"sent", "committed"}

\* One operation occupies the pod at a time (zero queue capacity).
OneActive ==
  \A o, p \in Op : state[o] \in ACTIVE /\ state[p] \in ACTIVE => o = p

\* Only a competing writer makes the adapter record a conflict: its own
\* writes, early, late or unacknowledged, never look like somebody else's.
ConflictHasCause == conflict => foreign > 0

\* Once a conflict is durable and the running operation is through, nothing
\* is sent any more and no operation starts, across retries and restarts.
ConflictFreezes ==
  [][conflict /\ ~busy => conflict' /\ ~busy' /\ sends' = sends]_vars

\* Every durable change of state is one the transition table allows (a
\* handler that validates and submits without an await takes two of them),
\* except that a withdrawn operation may change the way in which it was
\* withdrawn: execute saves the row it read before its awaits.
WriteFollowsTable ==
  [][\A o \in Op : state[o] \in State /\ state'[o] # state[o] =>
       \/ state'[o] \in TRANSITIONS[state[o]]
       \/ state[o] = "REQUESTED" /\ state'[o] \in TRANSITIONS["VALIDATED"]
       \/ {state[o], state'[o]} \subseteq {"REJECTED", "CANCELLED"}]_vars

\* A verdict on the deadline stays: only an acknowledged commit times out, and
\* evidence that arrives later is marked late and never turns the timeout into
\* success; an applied row always carries the evidence it was judged by.
DeadlineVerdictStays ==
  /\ \A o \in Op : state[o] = "TIMED_OUT" => elapsed[o] /\ attribution[o] = "reply"
  /\ \A o \in Op : evidence[o] = "late" => elapsed[o]
  /\ \A o \in Op : state[o] = "OBSERVED_APPLIED" =>
       evidence[o] = IF attempts[o] = 0 THEN "noop"
                     ELSE IF elapsed[o] THEN "late" ELSE "applied"

\* A submission gets an answer or an admission of ignorance, and a commit is
\* eventually confirmed by the pod, timed out or contested, even if the
\* process stops or loses its session in between.
OutcomeResolves ==
  \A o \in Op :
    /\ state[o] = "SUBMITTED" ~> state[o] # "SUBMITTED"
    /\ state[o] = "CONFIG_COMMITTED" ~>
         state[o] \in {"OBSERVED_APPLIED", "TIMED_OUT", "OWNERSHIP_CONFLICT"}

\* The pod does not stay busy for ever.
BusyReleased == busy ~> ~busy
=============================================================================
