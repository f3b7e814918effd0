# EMOSA: TLA+ models and proofs

EMOSA is a Python service between an EasyMesh-style controller and OpenSync
pods.  A request to change the SSID and key of one existing BSS becomes a
durable *operation*; the service turns it into one guarded OVSDB transaction on
the pod's Config rows and then watches the pod's State rows until they show the
change, a deadline passes or somebody else interferes.  Around it the repository
has the WSC messages of the EasyMesh side, simulated pods, an evaluation runner
and laboratories of containers and virtual radios.  This directory models the
parts whose correctness depends on the order of events, checks them with TLC and
proves nearly all of the safety properties with TLAPS.

    tlc -workers 2 -config EngineSafety.cfg MCEngine.tla     # one run
    tlapm EngineProofs.tla                                   # the proofs

`PROJECT.json` lists every run with its properties, every definition with the
source lines it stands for, the mutated definitions that show each property can
fail, the hazards and the findings.

## 1. Inventory

| Part | State it keeps | Operations | Talks to | What is hard |
| --- | --- | --- | --- | --- |
| Operation lifecycle `model.py`, `operations.py` | state of an operation | the transition table | engine | a table is only as good as the code that goes through it |
| Engine `reconcile.py` | busy pods, last observations; the operation rows through the journal | request, retry, cancel, plan, execute, reconcile, recover, wait | journal, backend | coroutines interleave at every await; the process can stop between two commits; the outcome of a transaction may never be known |
| Journal `store.py` | operations, events, runs, ownership in SQLite | add, save, event, conflict, save_run | engine, runner | single writer, budget, event window, immutable runs |
| Mapping `opensync/mapping.py` | last snapshot, fault hooks | snapshot, inventory, plan, submit | session | error mapping decides what the journal claims; guard built from an earlier snapshot |
| Session `opensync/session.py` | connection, generation, monitored copy, slots | snapshot, transact, reconnect, close | ovsdb-server | losses, deadlines, late replies, refused updates, cancelled callers |
| Schema `opensync/schema.py` | none | decode and validate rows | session, mapping | data only |
| Service `app.py` | status cache, inventories, tasks | start, refresh, handle, close | all of the above | two awaits per refresh round, shutdown order |
| Agent directory `agents.py` | last observation and failure per pod | observe, invalidate, view | service | what may be called fresh |
| Local API `local_api.py` | client count, connections | start, one request per client, close | clients | client budget, stale socket, shutdown with clients |
| Model backend `backends/mock.py` | an in-memory pod | as the mapping | engine, runner | must behave as the mapping does |
| Simulated pod `simulation/manager.py`, `database.py` | processes, State rows | apply, partial, compete | ovsdb-server | acts at any moment |
| Radio manager `simulation/radio.py`, `deploy/radio-manager/` | last applied Config | the cycle snapshot, apply, observe, publish | ovsdb-server, hostapd | Config, radio and manager change or fail inside a cycle |
| WSC `wsc*.py` | transcript of an M1 | build M1, authenticate M2, payload set | none | order of the checks before anything is returned |
| Evaluation `evaluation/` | run record, artifacts | run a scenario, clean up, report | engine, simulation | verdict and record under failure and interruption |
| Qualification `qualification.py` | one report | collect, read only | session | partial failure |
| Radio laboratories `deploy/hwsim/lab.py`, `deploy/peer-baseline/setup.py` | ownership record, networks, containers, one kernel module and its radios | setup, finish-setup, smoke, cleanup | LXD, kernel, hostapd | scripts die between any two commands; several checkouts use the same names and one module |
| Baseline measurements `deploy/peer-baseline/run.py`, `negative.py`, `node.py`, `observer.py` | result of an attempt, summary, units of systemd, barrier, backhaul, keys | clean start, restarts, outage, negative controls, collection | native controller and agent | what was disturbed must be put back; a stale observation is no recovery |
| Other deployments, scripts, examples | containers, files | scripted walks over the same service | LXD, hostapd | as above |

Everything in the service runs on one asyncio event loop, except the worker
thread of each session.  The journal is written synchronously.  A pod has one
session, one refresh task and at most one executing operation; pods share the
journal and the loop but no state of a protocol, so one pod is modelled.

What makes each part correct:

* **Engine**: nothing is sent twice; what is sent was journalled before; a
  verdict is true and stays; a conflict stops further writes; a submission is
  always settled; the pod is never left busy.
* **Session**: the copy has no gap while it is called ready; an answer belongs
  to its request; a transaction pinned to a generation is sent on it or not at
  all; every job ends.
* **Directory**: what is shown as fresh is recent, and status, inventory and agent agree.
* **Radio manager**: State is what the radio does, never the request; a lasting
  Config is applied.
* **Evaluation**: a passing verdict is earned, a sealed record is true and final,
  cleanup reaches everything, a watcher misses nothing.
* **Local API**: a listening process is reachable, the client budget returns, the
  store outlives its users, a page of events has no hole, closing ends.
* **WSC**: nothing is interpreted before all of a set is authenticated, and what
  is interpreted is what the registrar meant for this M1.
* **Laboratories**: an interrupted setup leaves a record of what it made, cleanup
  deletes its own and only that, a result is backed by its capture.
* **Baseline**: a passed attempt recovered after its own disturbance; whatever
  was taken away is put back; the ends of processes are recorded before they are
  forgotten.

## 2. Modules

| Module | Models | State and actions |
| --- | --- | --- |
| `Operations` | `model.py`, `operations.py` | states and the transition table, shared by the engine modules |
| `Engine` | `reconcile.py` with the parts of `store.py`, `app.py`, `mapping.py`, `session.py` it drives, and the pod | journal rows (`state`, `attempts`, `attribution`, ...), process (`busy`, `tasks`, `pc`), session and server rows (`rows`), transactions (`wire`, `guard`, `sends`) |
| `EngineLedger` | - | the inductive invariant, a definition the runs check and the proofs use |
| `WriteOnce`, `EngineWriteOnce` | - | the abstract promise of a journal row about its write, and the refinement mapping from the engine |
| `Session` | `session.py` | `wire` (one connection with both directions), `session`, `worker` (where `_pump` is), `task` (each job), `db` (the server) |
| `Directory` | `app.py` refresh and inventory, `agents.py`, `mapping.py` snapshot | `loop` (the refresh round), `last`, `cache`, `inventory`, `agent`, a clock |
| `Radio` | `simulation/radio.py`, `deploy/radio-manager` | `cycle`, `applied`, `live` (hostapd), `config` and `state` rows, `late` (publications given up that may still run) |
| `Evaluation` | `evaluation/runner.py`, the watch command of `evaluation/cli.py`, with `simulation/database.py` and `store.py` | `pc` and `todo` (where `run` is), `op` (journal rows), `owned`, `alive`, `stray` (processes), `result` and `record` (the record in memory and in the journal), `news` (who has not read all events) |
| `Service` | `local_api.py`, start and end of `app.py`, the lock and the event window of `store.py` | `st` (how far a process is), `lock`, `path` (whose socket file), `tasks`, `clients` (the counter) against `conn` (the connections, with what is left unread), `top`, `kept`, `cursor`, `given` (events and the last page) |
| `Wsc` | `wsc.py`, `wsc_messages.py`, `wsc_radio.py` | `exchange` (the transcript), `sent` (payloads on the network), `meant` (what the registrar answered), `result` (what was decoded); attributes, keys and tags are symbolic |
| `Labs` | `deploy/hwsim/lab.py`, `deploy/peer-baseline/setup.py` | `pc`, `n` (where a script is), `file` (the record), `host` (owner of each resource), `module`, `radio`, `eth0`, `daemon`, `linked`, `capture`, `check`, `passed` (smoke) |
| `Baseline` | `deploy/peer-baseline/run.py`, `negative.py`, `node.py`, `observer.py` | `pc`, `status`, `disk`, `summary` (the records), `proc`, `logged` (units and their recorded ends), `policy`, `ap`, `up`, `known`, `fresh` (what a reading reports), `link`, `psk`, `conf` (what is disturbed), `tape`, `since` (what proves recovery) |
| `EngineProofs` | - | the theorems about the engine: types and ledger; what a step can do to an operation and to the rows |
| `SessionProofs`, `DirectoryProofs`, `ServiceProofs`, `EvaluationProofs`, `WscProofs`, `LabsProofs`, `BaselineProofs` | - | the theorems about the module of that name; that about `Radio` is in `DirectoryProofs` |
| `MCEngine`, `MCSession`, `MCDirectory`, `MCRadio`, `MCEvaluation`, `MCService`, `MCWsc`, `MCLabs`, `MCBaseline` | - | the modules TLC is started on |

### How an action corresponds to the code

*One event loop.*  An action of `Engine` or `Directory` is the code from one
await to the next.  A session job runs on a single FIFO worker and completions
are delivered in order, so in `Engine` a job and the resumption of its coroutine
are one action; `Session` takes the job apart and shows what that rests on
(`TrueReply`, `NoGap`, `ViewsAdvance`, `PinHonoured`).

*Commits.*  Every `store.save` is a synchronous SQLite commit.  A handler that
commits once is one action.  A handler that commits twice has a second action,
`RequestCut`, `PlanCut`, `AnswerRefusedCut`, `ObserveCut`, in which the process
dies between the two; they need `"cut" \in Hazards`.

*Stops.*  `Stop` ends the process between two actions: coroutines, tasks and
`busy` are lost, the journal stays.  A graceful stop cancels the coroutines while
a transaction may already be in the worker; that is the same as the send
followed by the stop.  `Recover` is one row of `Engine.recover`, so that a stop
can interrupt it.

*The server* is ordered: it executes requests in the order of their arrival
and sends the updates of a commit before its reply.  A connection that breaks
loses any suffix of what was under way in either direction, and the server may
still run a transaction whose client is gone.

*A run.*  `Evaluation` has one action per await of `run`, and `Fail` and `Interrupt`
for each of them; what an interrupted start or stop leaves behind is
`Interrupted`.  The operations move as the engine lets them (`Answer`, `Reconciled`).
`asyncio.gather` does not wait for the other pods when one reconciliation
raises; those go on as `Loose` while the cleanup awaits.  A manager that is
started for a restart is kept only when its start has returned: if it does not,
`stray` says that the process may live until its pipe is closed.  The events are
counted by their readers only: `news` names those that have not read all.  The
runner's own death, and failures of the files it writes after the last await,
are left out, as are `--once` and the timeout of watch, which promise nothing.

*A process of the service.*  `Service` has one action per await of `LocalServer` and
`Application.close`.  A request is what its handler does to this state: `Submit`,
`QuiesceCall`, `Poll`, `Suspend` (it awaits: operation.wait and plan, until `Resume`, or
the drain of its answer, until `Drain`); every other method answers as
`Expire` does.  A handled connection ends with its answer `flushing`, or `unread` when
the answer does not fit into the socket's buffer; it is then closed only after the
client reads or leaves.  Python 3.13, which the project requires, removes the socket file when
a server closes, and `wait_closed` returns when the connections are gone; that is
why `Stop` clears `path` and `Sweep` waits for `Of(s) = {}`.  Operations and
the refresh are tasks that write events (`Work`), or end; what they do is in `Engine`.

*The radio manager.*  A cycle is one action per await: the policy is read (`ReadPolicy`),
then the rows.  A publication whose reply is lost was lost itself, was run, or is in
`late` and runs before the server is restarted.  A helper in the radio's container
that goes on after the driver's timeout has killed its client is left out.

*A session.*  A message that breaks the limits, an update, a reply or the initial rows,
ends the connection in the same way; the optional failure is `"overflow"`.

*WSC.*  One call of `decode_radio_payloads` is one action; what precedes it makes
the payloads that can arrive: the registrar answers any M1 that exists, the network
keeps, repeats, reorders, mixes, truncates and changes payloads.  Keys, tags and
ciphertexts are the terms they are computed from, so that a tag is verified exactly
if nothing it covers was changed and both sides derived the same keys.

*A laboratory.*  `Labs` has one action per command that changes the host or the
record.  The reads a script starts with are one step, `Setup`, `Cleanup`, `Smoke`; what
changes between them and a later command is met by that command.  `Fail` is a
failing, expired or killed command; the script ends where it is.  Every checkout
has its own record and all use the same names.

*An attempt.*  `Baseline` has one action per command that changes what is
disturbed, and one per poll.  The reads of one readiness check are one step.
`Fail` takes every place of the script to the handler that its `try` and `finally` blocks
give it; `Killed` takes it nowhere.  A command that fails after it took effect is the step
followed by the failure at the next place, where the same handlers apply; two do not
fit and are excluded: SIGSTOP and the wrong key (`botched`), and the launch of the capture unit,
which then stays behind.  The native controller and agent are external:
they join, make contact and lapse as `run.py` has to expect.

*Left out.*  The hooks `drop_next_reply`, `discard_reply` and
`before_transaction` exist for tests; what they provoke is modelled as a lost
reply and as a competing writer.  The TLS pin is one more reason for which a
connection is given up.  Formatting, redaction, JSON schemas, identifiers and
the columns of the mapping are data.

### Optional failures

`Hazards` is a constant of `Engine` and `Session`.  An action that needs a failure
the run is not about names it in its guard.  The proofs hold for every
`Hazards`; a run says which it includes.

## 3. Runs

| Run | Question | Bounds, and why they are enough |
| --- | --- | --- |
| `EngineSafety` | do all safety properties hold with stops, losses, a competing writer, refused jobs and a vanished secret, and does the engine implement `WriteOnce`? | two operations (the second may wait, retry, supersede the first), two values (symmetric), one stop, one foreign write, two undrained versions (one own, one foreign); a session is lost together with the reply or the deadline it was waiting for, by itself in `EngineLiveness`; the optional failures are in `EngineLiveness` and in the theorems, which hold for any number of generations |
| `EngineLiveness` | do submissions settle, commits resolve, pods become free, and do `TypeOK` and `Ledger` survive, with every optional failure? | one operation: progress of one does not depend on another's, `busy` aside, which is released unconditionally |
| `SessionSafety` | do views only advance, is a pin honoured, is an unknown outcome followed by a resynchronisation, does the budget hold? | three jobs, of which two can be queued behind one another, two connections, two commits |
| `SessionFailures` | is the copy without a gap and are answers true, with refused updates and error replies, and do jobs and closing end? | two jobs, two connections, two commits: an update can be refused with another one behind it; the server may be silent or unreachable and closing may come at any time |
| `Directory` | is what is fresh recent, do the views agree except while an inventory is awaited, is a returning pod shown again? | two connections, two changes of the rows, freshness of one tick out of three |
| `Radio` | is State ever an echo of the request, does it follow the radio, is Config applied? | two settings, two faults and three writes inside the cycles, any number of late publications |
| `Evaluation` | is a passing verdict earned, a sealed record true and final, cleanup complete, does the run settle, does a watcher see all? | two pods, so that one can fail while the other reconciles or waits for its cleanup; the three faults that change the runner's path (a competing write, a restart of the controller, a restart of a server); a success and a timeout expected; one close that raises (the first decides the verdict) |
| `Labs` | does a record know what a setup made, is it true after cleanup, is a passed smoke run backed by its capture, does cleanup spare the others? | two checkouts (symmetric) that compete for every name, the baseline that competes for the module, one failure, which leaves a laboratory half made for its cleanup and its neighbour to find; the theorems hold for any number of both |
| `Baseline` | has a passed attempt recovered after its disturbance, is everything put back, are ends recorded? | a suite with one attempt of each kind, or single invocations, on either backhaul, three invocations one after the other, two troubles: one in an attempt, one in its recovery or the next attempt |
| `Service` | do lock, socket file, budget and store stay consistent between processes and clients, are pages of events whole, and does closing end? | two processes of one configuration and three starts (one is killed, one closes, one starts), two clients for a budget of one, a window of two events of three, pages of one |
| `Wsc` | is a result what the registrar meant, and is a whole legitimate answer accepted? | two exchanges, two answers from twelve plans (legitimate ones, and each way in which one is not), one damaged payload, sets of up to three with a limit of two |

One more run, `FailedButSent`, expects a violation; it is the finding of section 5.
Every property of a passing run has a mutant of a mapped definition, the `Fault:`
operators beside their originals, that makes TLC report it.  The type invariant of
a module other than `Engine` is a conjunct of its first property.

`CHECK_DEADLOCK FALSE` is given where the system may stop: a session that is
closed, a run that is sealed and watched to its end, a laboratory whose setup was
killed and can only be inspected by hand, measurements and processes whose
starts are used up, and a decoded payload set.

### Fairness

* `Engine`: the loop runs each ready coroutine, a session job ends within its
  timeouts (`Session` checks that, as `JobsEnd`), the refresh task repeats every 50 ms,
  the session keeps reconnecting with backoff, the service manager restarts a
  stopped service, clocks advance.  Nothing is assumed of requests, competing
  writers, the pod's manager or stops.
* `Session`: the worker thread runs and its clock advances; the loop runs done
  callbacks.  Nothing is assumed of the server, the network or callers.
* `Directory`: the refresh task runs.  `Radio`: the manager's loop goes on after
  every exception, as `serve` does.
* `Service`: the loop runs what is ready, timers fire (a request's timeout, the
  deadline of operation.wait and plan, the five seconds of a drain), what the kernel
  can take is written, and what is cancelled ends.  Nothing is assumed of clients, not even
  that they read.  An answer of the default `local_frame_bytes`, 64 KiB, fits into a usual socket buffer
  (208 KiB) and leaves nothing unread; `config.schema.json` allows 1 MiB, which may.
  `CloseEnds` therefore has one exception: a client that for ever neither
  reads such an answer nor leaves.
* `Evaluation`: every await of the runner returns or raises within its timeout, and
  its time passes.  Nothing is assumed of interruptions or the watcher.

## 4. Proofs

TLC checks a few operations, jobs, clients, checkouts or payloads; the theorems hold for any
number of them, any bounds and, where a module has them, any set of hazards.  What
they assume of the constants is the `ASSUME` of the module they are about (bounds are
naturals, `None` is no value, a name is not an owner, `Client` and `Checkout` are
finite).  A hypothesis beyond that is an assumption of the theorem and listed here.

| Theorem | States, for the property it is about |
| --- | --- |
| `TypeCorrect` | every variable of the engine keeps its type (`TypeOK`) |
| `LedgerHolds` | `Ledger` is an invariant, under every hazard |
| `AtMostOnce`, `DurableBeforeSend` | no operation is sent twice, and none before its attempt is durable (`SentAtMostOnce`) |
| `OneSubmitter`, `TrueAttribution`, `VerdictStays` | parts of `Ledger` that a reader may want by themselves |
| `NegativeIsFinal` | `NegativeVerdictIsFinal`, if `NoOverflow` |
| `EngineIsWriteOnce` | `ImplementsWriteOnce`, the refinement, if `NoOverflow` |
| `OneOccupant` | `OneActive`, if `NoCut` |
| `TableFollowed`, `ConflictStops` | the action properties `WriteFollowsTable` and `ConflictFreezes`, under every hazard |
| `OnlyOthersConflict` | `ConflictHasCause`, if `NoCut`, `NoOverflow` and `NoRpcError` |
| `BudgetKept` | `WithinBudget`: types of the session, and its pool never holds more jobs than the budget |
| `WrittenWherePinned` | `PinHonoured`, if `NoOverflow` |
| `RepliesAreTrue`, `ResyncFollows`, `ViewsNeverGoBack`, `NothingMissed` | `TrueReply`, `ResyncAfterUnknown`, `ViewsAdvance`, `NoGap`, under every hazard |
| `FreshMeansRecent`, `ViewsDoAgree` | `FreshIsRecent`, `ViewsAgree` |
| `SocketFound`, `StoreHeld`, `BudgetExact`, `PagesHaveNoHole` | `PathLeadsToServer`, `StoreOutlivesUsers`, `BudgetReturned`, `PagesAreWhole` |
| `StateIsGenuine` | `Genuine`, types and action property |
| `ResultsAreMeant`, `WholeAnswersAreAccepted` | `ResultIsMeant`, `WholeIsAccepted`, if `Symbolic` |
| `CleanupIsComplete`, `EvidenceStays`, `PassesAreEarned` | `NothingLeftRunning`, `EvidenceSealed`, `PassIsEarned` |
| `IntentIsRecorded`, `RecordsAreTrue`, `OthersSpared` | `IntentRecorded`, `RecordIsTrue`, `SparesTheOthers` |
| `AllRestored`, `EndsOnRecord`, `PassesAreTrue` | `Restored`, `ResultsKept`, `PassedIsTrue` |

### The hypotheses

Each but the last names one failure, and the property is false with it:

* `NoOverflow` - no message is refused while a reply is awaited.  With it a transaction
  that was sent is reported as not ready: the finding `FailedButSent`.  `PinHonoured` says
  of such a job that nothing was written.
* `NoCut` - the process does not stop between two commits of one handler.  With it a row
  stays active that should have been refused (section 5), and `OneActive` with it.
* `NoRpcError` - no request is answered by an error of JSON-RPC, which the code takes for a
  guard that did not hold.
* `Symbolic` - what no sender wrote is neither a tag nor a ciphertext.  It is no failure but the
  meaning of the constant `Noise`, which TLC has as a model value, unequal to everything; it ranges over all
  keys and data, so that no `ASSUME` of `Wsc` can say it.  `SymbolicIsPossible` proves that such a
  value exists.

`ConflictHasCause` needs the first three: a second active row would write against the guard of
the first, and a write that was reported as not made looks like somebody else's.

### The engine

No property is inductive by itself.  `SentAtMostOnce` needs to know that a coroutine about
to send has not sent before, which needs that only one coroutine executes an operation
and that a retry finds a row that is no longer `REQUESTED`; that needs that a row with an
attempt never returns to a state before it, which in turn needs that `cancel` and a
refused plan cannot touch a submitted row, although both save copies.  `Ledger` says all of
it at once:

* `OneCoroutine` - where a coroutine is tells in which states its row can be;
* `AttemptFirst` - attempts, sends and the wire are in step;
* `Attributed` - attribution agrees with state and server;
* `EvidenceFits` - recorded evidence agrees with verdict and deadline.

`EngineProofs` first proves the types action by action, then that each action preserves
`Ledger`, one lemma per handler and one step per conjunct the handler can disturb.

It then sorts the steps once more, by what they can do to one operation: it
enters, declines, claims an attempt, sends, reports a verdict, lands on the server, is judged,
or nothing a reader could tell.  The lemma that these are all there are (`OneMoves`) carries
the refinement of `WriteOnce`, one abstract action per kind of move, and the transition
table.  `Untouched` strengthens `NegativeVerdictIsFinal` by the conflicts whose write was refused;
`Serial` says that whoever is inserted behind an active operation is refused.

Last it proves `Calm`.  A version bears the name of the operation that made it.  While
nobody else has written: a guard that may still be evaluated holds, or its late execution
changes nothing; the configuration changes only with the one write that is
unresolved, and once; and every version not yet drained has the configuration of the latest
operation that was committed.  The steps are sorted by what they do to the rows, of which the
session drains some from the front and the server adds one at the end.

### The session

`SessionProofs` has four layers.  *Jobs*: the types; the pool's budget is the number of jobs that
hold a slot; the thread runs one job, the oldest, which writes its transaction once and to the
connection of the day; past connecting there is a connection that is not given up.  *Talk*: at
most one request or reply is under way, none when the next request is written, and it
belongs to what the worker waits for; a transaction is in one place, on the wire, left to the
server or run; a reply and an outcome say what became of it; after an unknown outcome its
connection is given up.  *Views*: nobody has been told of a version that a ready copy
has not reached; updates come in order, only to a subscriber, after the initial rows, which show
all that has been told; and the update of a commit comes before its reply.  *Whole*: no version
is sent twice on a connection; and on one that is in use the updates under way are exactly what a
ready copy lacks, or what initial rows that are under way lack.  Initial rows establish this because a
connection is subscribed to once and nothing precedes them; a commit adds its update; an update
that is read moves the copy; and whatever else takes one away, a refusal, a deadline or a loss, also
unmarks the copy or the connection.

### The directory, the processes, the radio

`DirectoryProofs` carries the time at which every version of the rows was last to be seen, and
where in its round the refresh task is: from the end of a round to the next status, status and agent are
of one snapshot; within a round the status is the one that the round holds; and an agent
that is fresh is at any time the inventory that is served.

`ServiceProofs` needs that the lock is held by exactly the process that is not off, that only a process
that serves or waits for its connections has any, that only one that has been up has tasks,
and that the counter is the number of connections being handled.  For the pages: what is kept has no
gap above the oldest event kept, so the next `limit` of it after a cursor are consecutive.

`StateIsGenuine`, about `Radio`, needs two facts of a cycle: what the radio runs while the cycle looks, the radio has run since
its snapshot, because nothing but the cycle itself ever starts it; and what the cycle applies
is within the profile.  Both stay with a publication that was given up, whose guard
then lets it run only on the Config it speaks of.

### The payload sets

`WscProofs` begins with the attributes.  A payload that `M2` makes has each required field once, the others
where its Bss says so, and its tag last and nowhere else; its encrypted part says what was meant exactly when
the checks of `decode_radio_payloads` pass (`BodyShape`, `M2Shape`, `ConfigShape`, `MeaningOf`).  They say it of answers of
any length, because what a sequence has of one kind is told of each piece it is joined from.

The inductive invariant is short.  `Traceable`: every payload on the network `Descends` from one that the
registrar made, that is, it has some first attributes of it, each as it was or noise.  That is kept by any
number of damages to the same payload.  `Answered` says that the answers are what the registrar makes of their
plans, `Pending` that nothing is decoded before the last step.

`OnlyWholeVerifies` is the heart of `ResultIsMeant`.  A payload that verifies ends with a tag.  The one it descends
from has a tag only at its end, so nothing is cut off; the tag is not noise, so it is the original one, and
it covers the M1 and every attribute before it: they are the original ones too, and the M1 is the current one.
That the payloads of a set are different follows from their nonces.

For `WholeIsAccepted` the checks are gone through one by one.  As many payloads as the answer has, which are
together all of its payloads, are each of them once (`Permuted`, by the cardinality of a surjection): hence no
nonce is repeated, and no index that is one.

### The runs, the laboratories, the measurements

`EvaluationProofs` says of each place of the run what is known there: before the decision
there is no verdict and nothing is loose (`Undecided`); the journal has the running record until it
has the one that would be sealed again (`Recorded`); what is alive is among what the cleanup
will close, and during the cleanup among what it has still to close, unless an error is noted (`Kept`); a
row that is or may be in the database has an attribution, so that from the check on an applied one has
(`Attributed`); a verdict of pass was right when it was given, and no reconciliation is loose that
could change it (`Judged`); the watcher has seen an end only if there was one (`Watched`).  A single
`Loose` step after the seal, or a resource that is started before it is kept, breaks them, as the mutants show.

`LabsProofs` follows two things.  Where a script is tells what its record has at least; and what a
cleanup has still to delete is its own, what it has been past is not, since nobody else can
create a name that exists.  For the last, a profile that has no marker yet needs a
setup that was interrupted, whose cleanup cannot get past it.  `RecordIsTrue` needs of a smoke run
that it has both containers for itself, which their marks say as long as it runs, and
that the association and the pings went through the capture before they were recorded.

`BaselineProofs` follows a script with handlers.  `Returned` ties each thing that is taken away to the
places from which the script gives it back; `Written` says which processes have ended, and which ends are
on record, before the command that makes systemd forget them.  For `PassedIsTrue` the argument is
that nothing is heard of the agent between the disturbance and the first new contact (`Heard`: the agent
is stopped, its backhaul is cut, or the controller does not know it), that all readings after it are
therefore new, and that an access point that has lost its configuration cannot get it back
without a policy, of which there is none until the next attempt (`Lasting`).  `StartingClean`, `StartingAgain` and
`StartingController` establish this for the kinds of attempts, `Recovering` and `Recovered` carry it to the record.

Every invariant was checked by TLC before it was proved, on the constants of the run of its
module: `Untouched`, `Serial` and `Calm` on those of `EngineSafety`, with the hazards their theorems allow,
one at a time; `Jobs`, `Talk`, `Views` and `Whole` of the session on those of its runs; the invariants of the
other modules on those of their runs.  They are no runs of their own, because the theorems
say more.

### Only model-checked

* Liveness: `OutcomeResolves`, `BusyReleased`, `JobsEnd`, `AgentReturns`, `Follows`, `RunSettles`, `CloseEnds`.
  Fairness and `ENABLED` are beyond the prover.

Every safety property of a passing run, invariant or action property, is stated by a theorem.

## 5. Findings

`FailedButSent` - a monitor update, or a message that breaks the limits, that is refused while
the reply is awaited makes a transaction that was sent, and may commit, a failed one
(`mapping.py:336`); a lost reply is never proof of failure, the requirements say.
`NegativeVerdictIsFinal` and `ImplementsWriteOnce` therefore hold only without `"overflow"`.

Three more divergences from the documents are known and limit what the properties say; no
run repeats them:

* A plan that is refused after its operation was cancelled saves the row it read before
  (`reconcile.py:116`): CANCELLED becomes REJECTED, which the table forbids, although
  all transitions are to pass its guards (`operations.py:1`).  `WriteFollowsTable` exempts this
  change of the way in which an operation was withdrawn, and so would not show it becoming
  worse; a stale copy saved over any other state it does show.
* A conflict recorded while an operation is being planned does not stop its submission
  (`reconcile.py:91`); the requirements let a conflict prevent further writes (`requirements.md:1069`).  The
  guard names the values that the competing writer has left.  `ConflictFreezes` says what
  does hold: once the running operation is through, nothing is sent any more and no operation
  starts.  Nothing is stated of the operation that is running.
* A stop between the insert of a row and its refusal (`reconcile.py:66`) leaves a second
  active operation; recovery leaves it alone, and a retry of its key sends it while the
  first one is unresolved.  `OneActive` therefore holds only without `"cut"`, and is false
  with it.

Worth knowing besides:

* An operation whose planning is interrupted by `ConnectionError` stays REQUESTED
  and occupies its pod until its key is retried.
* A JSON-RPC error in answer to a transaction has the code of a guard that did not
  hold, so it is recorded as an ownership conflict though nobody else wrote;
  `ConflictHasCause` therefore holds only without `"rpcerror"`.
* After a reconnection the inventory of the earlier connection is returned with
  `fresh: true` from the new status until the inventory is fetched anew, and for
  as long as that fetch takes; `ViewsAgree` speaks of the time from the end of a round to the
  next status, and of a fresh agent at any time.
* An interruption that hits the cleanup of a run is not caught: its record stays
  `running` with cleanup `pending`, and what was not yet closed is not.  The same
  record remains when the journal cannot be opened again in `restart-controller`.
  `RunSettles` excludes these two.
* A radio that ends while its Config counts as applied stays down until a restart
  (the lab's documentation restarts the manager for that reason, and `Follows`
  excludes exactly this case).
* `lab.py` looks for the module and the names before it creates anything (`:104`), and
  `modprobe` (`:191`) succeeds when somebody else loaded the module meanwhile: the radios
  are then the other laboratory's, contrary to the comment at `:190`, and the record
  claims the module.  `SparesTheOthers` therefore speaks of names, which `lxc`
  refuses to create twice, and `RecordIsTrue` of a module that the record knows of.  A stop between `:191` and `:193` leaves a module that
  cleanup does not remove.  `cleanup` unloads the module its record claims without asking whose
  radios it has by then (`:411`).
* The baseline's setup records containers and networks after it has created them (`setup.py:105`);
  `IntentRecorded` speaks of the names of `lab.py` only.
* A cleanup of `lab.py` that is interrupted cannot be run again: the resources it has
  deleted no longer have its owner.
* `run.py` sends SIGSTOP before the `try` that sends SIGCONT (`:76`).  If the command
  fails after the signal was delivered, the transport stays stopped; `botched` marks
  this, as it marks a restoring command that fails, and `Restored` excludes it.  It also marks
  a key changed in part: `negative.py:16` disables the network before the `try` that restores it.
* A negative control is judged by what it provokes; the controls write
  no summary, so `PassedIsTrue` says nothing of them.
* `fresh_after` is taken at `:550`, before the restart it should prove; a contact between
  the two counts as fresh, and the evidence of a restart accepts any frame of the
  agent, also one from before it (`:720`).  `PassedIsTrue` holds because `stop` makes the agent
  lapse and readiness needs it to join again.
* The end of the capture's unit is not recorded (`:750`); `ResultsKept` leaves it out.
* `wait_closed` (`local_api.py:105`, `:110`) has no timeout: with `local_frame_bytes` near its
  maximum, a client that leaves its answer unread keeps a closing process alive for as
  long as it stays; `CloseEnds` excepts exactly this.
* A manager spawned by a start that then fails is not among what the cleanup closes
  (`runner.py:296`); `NothingLeftRunning` excludes it as `stray`.
* Two configurations that name one `socket_path` have two locks; the second start
  takes the socket file of a process that does not answer in time.  `Service` is about
  one configuration.
* A handler cancelled between `local_api.py:47` and its `try` would not give its place
  back; nothing cancels handlers before the process ends.
* The WSC component has no replay protection within the life of an M1, and accepts a
  subset or a mixture of several answers to the same M1; `doc/protocol` leaves the
  completeness of a set to its caller.  `ResultIsMeant` says what is left: each payload is
  one the registrar made for this M1, undamaged and only once.

## 6. Not modelled

* `opensync/schema.py`, `capabilities.py`, `config.py`, `secrets.py`, `clock.py`, `errors.py`,
  `evaluation/evidence.py`, `qualification.py`: functions from data to data or single
  reads; they have no order to get wrong.  What they refuse is a choice of the
  models.
* `backends/mock.py`: an in-memory pod whose coroutines never suspend; every order it
  allows is one of `Engine`'s.
* `cli.py`, `evaluation/lxd.py`, `simulation/connecting_pod.py`, `scripts/`, `examples/`: they walk one
  sequence and keep nothing.
* `deploy/radio-manager/run.py`, `deploy/native/check-path.py`, `deploy/peer/controller.py`: scripted
  experiments over the modelled service and manager; their resources are acquired
  and released in the way of `Baseline`, with other commands.
* Of `evaluation/runner.py` the gates and the model backend; of `deploy/peer-baseline` the
  installation of packages.

## 7. Plan

Done: everything listed in section 2, and the theorems of section 4.  Left is what no tool at hand can prove, the
liveness properties, and the parts of section 6.
