------------------------------ MODULE Session -------------------------------
(***************************************************************************)
(* OvsSession (src/emosa/opensync/session.py): one worker thread keeps a   *)
(* monitored copy of a pod's rows over a connection that comes and goes,   *)
(* and runs the jobs the event loop hands it, first in, first out.  An     *)
(* action is one round of _pump, or what the worker does between two; the  *)
(* event loop, the server and the network act in between.  A version of    *)
(* the monitored rows is a number that grows with every commit.            *)
(***************************************************************************)
EXTENDS Integers, Sequences, FiniteSets, SequencesExt

CONSTANTS
  MaxJobs,        \* bound: jobs handed to the session
  RequestLimit,   \* request_limit, the jobs it holds at a time
  MaxGeneration,  \* bound: connections
  MaxVersion,     \* bound: commits
  Hazards         \* which of the failures below can occur

\* overflow  a message breaks the limit, or rows break the row limit or the schema
\* refuse    a request is answered by an error, or the schema is not qualified
SessionHazards == {"overflow", "refuse"}

ASSUME SessionAssumption ==
  /\ {MaxJobs, RequestLimit} \subseteq Nat \ {0}
  /\ {MaxGeneration, MaxVersion} \subseteq Nat
  /\ Hazards \subseteq SessionHazards

\* Jobs in the order in which they are handed to the pool.
Job == 1..MaxJobs

VARIABLES
  db,       \* the server: version, transactions run, and those it may still run
  wire,     \* the connection, with what is under way in both directions
  session,  \* the session object
  worker,   \* where the thread is, and in which job
  task,     \* each job, as its future and its caller see it
  inflight  \* slots taken

vars == <<db, wire, session, worker, task, inflight>>

Request == [ask: {"schema", "monitor", "transact"}, job: Job]
Message == [tell: {"update", "schema", "monitor", "committed", "refused", "error"},
            version: Nat]
NoWire  == [up |-> FALSE, broken |-> FALSE, condemned |-> FALSE,
            subscribed |-> FALSE, out |-> <<>>, in |-> <<>>]

Outcome == {"none", "view", "committed", "refused", "unready", "error", "unknown",
            "reconnecting"}

\* The jobs that hold a slot.
Held == {j \in Job : task[j].phase \in {"queued", "running", "ended"}}

WireType ==
  /\ wire \in [up: BOOLEAN, broken: BOOLEAN, condemned: BOOLEAN,
               subscribed: BOOLEAN, out: Seq(Request), in: Seq(Message)]
  /\ wire.up \/ wire = NoWire

WorkerType ==
  /\ worker \in [stage: {"idle", "connect", "schema", "monitor", "drain", "reply",
                         "closed"}, job: 0..MaxJobs]
  /\ worker.job = 0 <=> worker.stage \in {"idle", "closed"}

Future == [phase: {"new", "queued", "running", "ended", "delivered"},
           kind: {"snapshot", "transact", "reconnect"}, awaited: BOOLEAN,
           pin: Nat, sentOn: Nat, generation: Nat, version: Nat, outcome: Outcome]

TaskType == task \in [Job -> Future]

TypeOK ==
  /\ db \in [version: Nat, applied: SUBSET Job, late: SUBSET Job]
  /\ WireType /\ WorkerType /\ TaskType
  /\ session \in [generation: Nat, ready: BOOLEAN, monitor: Nat, cache: Nat,
                  stopping: BOOLEAN]
  /\ inflight = Cardinality(Held)

Init ==
  /\ db = [version |-> 0, applied |-> {}, late |-> {}]
  /\ wire = NoWire
  /\ session = [generation |-> 0, ready |-> FALSE, monitor |-> 0, cache |-> 0,
                stopping |-> FALSE]
  /\ worker = [stage |-> "idle", job |-> 0]
  /\ task = [j \in Job |-> [phase |-> "new", kind |-> "snapshot", awaited |-> FALSE,
                            pin |-> 0, sentOn |-> 0, generation |-> 0, version |-> 0,
                            outcome |-> "none"]]
  /\ inflight = 0

-----------------------------------------------------------------------------
(***************************************************************************)
(* The event loop: snapshot, transact, reconnect and close.                *)
(***************************************************************************)

\* _work: a job takes a slot, if one is free and the session is open.  A
\* transaction may be bound to a generation seen earlier.
Work(j, k, g) ==
  /\ ~session.stopping /\ inflight < RequestLimit
  /\ task[j].phase = "new" /\ \A i \in 1..(j - 1) : task[i].phase # "new"
  /\ g <= session.generation /\ (k # "transact" => g = 0)
  /\ task' = [task EXCEPT ![j].phase = "queued", ![j].kind = k, ![j].pin = g,
                          ![j].awaited = TRUE]
  /\ inflight' = inflight + 1
  /\ UNCHANGED <<db, wire, session, worker>>

\* Fault: a cancelled caller takes its slot along.
AbandonReleases(j) ==
  /\ task[j].awaited
  /\ task' = [task EXCEPT ![j].awaited = FALSE]
  /\ inflight' = inflight - 1
  /\ UNCHANGED <<db, wire, session, worker>>

\* The caller is cancelled; its job is shielded and keeps the slot.
Abandon(j) ==
  /\ task[j].awaited
  /\ task' = [task EXCEPT ![j].awaited = FALSE]
  /\ UNCHANGED <<db, wire, session, worker, inflight>>

\* The done callback runs on the loop: the slot is free again.
Done(j) ==
  /\ task[j].phase = "ended"
  /\ task' = [task EXCEPT ![j].phase = "delivered"]
  /\ inflight' = inflight - 1
  /\ UNCHANGED <<db, wire, session, worker>>

\* close raises the flag the worker polls ...
Close ==
  /\ ~session.stopping
  /\ session' = [session EXCEPT !.stopping = TRUE]
  /\ UNCHANGED <<db, wire, worker, task, inflight>>

-----------------------------------------------------------------------------
(***************************************************************************)
(* The worker: the parts its actions are made of.                          *)
(***************************************************************************)

Stage(s) == worker.stage \in s
Waiting  == Stage({"schema", "monitor", "reply"})
Goto(s)  == worker' = [worker EXCEPT !.stage = s]

\* The job ends with this outcome and the worker is free.
Ended(t, out) == [t EXCEPT !.phase = "ended", !.outcome = out, !.awaited = FALSE]

End(out) ==
  /\ task' = [task EXCEPT ![worker.job] = Ended(@, out)]
  /\ worker' = [stage |-> "idle", job |-> 0]

\* The transactions on the wire, which the server may run when it is gone.
OnTheWire == {r.job : r \in {o \in Range(wire.out) : o.ask = "transact"}}

\* The connection c after a request; on a broken one it goes nowhere.
Send(c, r) == IF c.broken THEN c
              ELSE [c EXCEPT !.out = Append(@, [ask |-> r, job |-> worker.job])]

\* Fault: a change of the connection leaves the copy in use.
ForgottenKeepsReady == [session EXCEPT !.monitor = 0]

\* A change of the connection, or _invalidate: the copy counts no more.
Forgotten == [session EXCEPT !.ready = FALSE, !.monitor = 0]

\* Fault: nothing is marked and the connection stays in use.
Disregard == UNCHANGED <<session, wire>>

\* _invalidate: the connection, if there is one, is to be replaced.
Invalidate ==
  /\ session' = Forgotten
  /\ wire' = [wire EXCEPT !.condemned = wire.up]

\* Whoever awaits a reply on a lost connection learns nothing about it.
Loss == IF Waiting THEN "unknown" ELSE "unready"

\* Fault: an update that arrives while a reply is awaited is dropped.
AppliedWhileIdle(m) ==
  IF session.monitor # 0 /\ ~Waiting THEN m.version ELSE session.cache

\* An update of the current monitor replaces the copy.
Applied(m) == IF session.monitor # 0 THEN m.version ELSE session.cache

\* Fault: any reply to a transaction counts as its success.
VerdictAny(m) == "committed"

Verdict(m) == m.tell

\* Fault: the generation a transaction is bound to is not compared.
BoundElsewhereNever(j) == FALSE

\* The transaction was prepared for another connection.
BoundElsewhere(j) == task[j].pin \notin {0, session.generation}

-----------------------------------------------------------------------------
(***************************************************************************)
(* The worker: taking jobs, connecting, pumping.                           *)
(***************************************************************************)

\* The worker takes the oldest job; reconnect needs no more than a mark.
Take(j) ==
  /\ Stage({"idle"})
  /\ task[j].phase = "queued" /\ \A i \in 1..(j - 1) : task[i].phase # "queued"
  /\ IF task[j].kind = "reconnect"
     THEN /\ Invalidate
          /\ task' = [task EXCEPT ![j] = Ended(@, "reconnecting")]
          /\ UNCHANGED worker
     ELSE /\ task' = [task EXCEPT ![j].phase = "running"]
          /\ worker' = [stage |-> "connect", job |-> j]
          /\ UNCHANGED <<session, wire>>
  /\ UNCHANGED <<db, inflight>>

\* ... and its last job closes the connection once the others are through.
Shutdown ==
  /\ session.stopping /\ Stage({"idle"})
  /\ \A j \in Job : task[j].phase # "queued"
  /\ Goto("closed")
  /\ wire' = NoWire
  /\ db' = [db EXCEPT !.late = @ \cup OnTheWire]
  /\ UNCHANGED <<session, task, inflight>>

\* A connection comes up: a new generation.
Connect ==
  /\ Stage({"connect"}) /\ ~session.stopping
  /\ ~wire.up /\ session.generation < MaxGeneration
  /\ wire' = [NoWire EXCEPT !.up = TRUE]
  /\ session' = [Forgotten EXCEPT !.generation = @ + 1]
  /\ UNCHANGED <<db, worker, task, inflight>>

\* The session notices that its connection is gone, or leaves one it gave up.
Lose ==
  /\ Waiting \/ Stage({"connect", "drain"})
  /\ wire.broken \/ wire.condemned
  /\ wire' = NoWire
  /\ db' = [db EXCEPT !.late = @ \cup OnTheWire]
  /\ session' = Forgotten
  /\ IF Stage({"connect"}) THEN UNCHANGED <<worker, task>> ELSE End(Loss)
  /\ UNCHANGED inflight

\* _connected and _sync: an outdated copy is fetched anew, a current one drained.
Connected ==
  /\ Stage({"connect"}) /\ ~session.stopping
  /\ wire.up /\ ~wire.condemned
  /\ IF session.ready THEN Goto("drain") /\ UNCHANGED wire
     ELSE Goto("schema") /\ wire' = Send(wire, "schema")
  /\ UNCHANGED <<db, session, task, inflight>>

\* No connection within the timeout, or the session is closing.
GiveUp ==
  /\ Stage({"connect"}) /\ (session.stopping \/ ~wire.up)
  /\ End("unready")
  /\ session' = [session EXCEPT !.ready = @ /\ task[worker.job].kind = "transact"]
  /\ UNCHANGED <<db, wire, inflight>>

\* The next message of the connection is m.
Reads(m) ==
  /\ wire.up /\ ~wire.condemned
  /\ wire.in # <<>> /\ m = Head(wire.in)
Read == [wire EXCEPT !.in = Tail(@)]

\* _update, whatever the worker is waiting for.  A message that breaks a limit, initial
\* rows or an update that cannot be taken leave a gap, for which the connection and
\* the job are given up.
Update(m) ==
  /\ Waiting \/ Stage({"drain"})
  /\ Reads(m)
  /\ \/ /\ m.tell = "update"
        /\ session' = [session EXCEPT !.cache = Applied(m)]
        /\ wire' = Read
        /\ UNCHANGED <<worker, task>>
     \/ /\ "overflow" \in Hazards
        /\ session' = Forgotten
        /\ wire' = [Read EXCEPT !.condemned = TRUE]
        /\ End("unready")
  /\ UNCHANGED <<db, inflight>>

SchemaReply(m) ==
  /\ Stage({"schema"}) /\ Reads(m) /\ m.tell = "schema"
  /\ session' = [session EXCEPT !.monitor = session.generation]
  /\ wire' = Send(Read, "monitor")
  /\ Goto("monitor")
  /\ UNCHANGED <<db, task, inflight>>

\* The initial rows of the monitor: from here on the cache is a copy.
MonitorReply(m) ==
  /\ Stage({"monitor"}) /\ Reads(m) /\ m.tell = "monitor"
  /\ session' = [session EXCEPT !.cache = m.version, !.ready = TRUE]
  /\ wire' = Read
  /\ Goto("drain")
  /\ UNCHANGED <<db, task, inflight>>

\* An error reply, or a schema that is not qualified.
ErrorReply(m) ==
  /\ Waiting /\ Reads(m)
  /\ m.tell = "error" \/ ("refuse" \in Hazards /\ m.tell = "schema")
  /\ wire' = Read
  /\ End("error")
  /\ UNCHANGED <<db, session, inflight>>

TransactReply(m) ==
  /\ Stage({"reply"}) /\ Reads(m) /\ m.tell \in {"committed", "refused"}
  /\ wire' = Read
  /\ task' = [task EXCEPT ![worker.job] =
                [Ended(@, Verdict(m)) EXCEPT !.version = m.version]]
  /\ worker' = [stage |-> "idle", job |-> 0]
  /\ UNCHANGED <<db, session, inflight>>

\* Fault: only the requests of a resynchronisation have a deadline.
ExpireSyncOnly ==
  /\ Stage({"schema", "monitor"})
  /\ Invalidate
  /\ End("unknown")
  /\ UNCHANGED <<db, inflight>>

\* The reply's deadline passes and the connection is given up with the request,
\* or the session closes.
Expire ==
  /\ Waiting
  /\ Invalidate \/ (session.stopping /\ UNCHANGED <<session, wire>>)
  /\ End("unknown")
  /\ UNCHANGED <<db, inflight>>

-----------------------------------------------------------------------------
(***************************************************************************)
(* The worker: _snapshot and _transact, once the draining has ended because*)
(* nothing is queued or its bound is reached.                              *)
(***************************************************************************)

Drained(k) ==
  /\ Stage({"drain"}) /\ session.ready /\ ~wire.condemned
  /\ task[worker.job].kind = k

Snapshot ==
  /\ Drained("snapshot")
  /\ task' = [task EXCEPT ![worker.job] =
                [Ended(@, "view") EXCEPT !.generation = session.generation,
                                         !.version = session.cache]]
  /\ worker' = [stage |-> "idle", job |-> 0]
  /\ UNCHANGED <<db, wire, session, inflight>>

\* A transaction bound elsewhere is not sent; nor is one the connection refuses.
NotSent ==
  /\ Drained("transact")
  /\ \/ BoundElsewhere(worker.job) /\ End("unready")
     \/ ~BoundElsewhere(worker.job) /\ wire.broken /\ End("unknown")
  /\ UNCHANGED <<db, wire, session, inflight>>

Transact ==
  /\ Drained("transact") /\ ~BoundElsewhere(worker.job)
  /\ wire' = Send(wire, "transact")
  /\ task' = [task EXCEPT ![worker.job].sentOn = session.generation]
  /\ Goto("reply")
  /\ UNCHANGED <<db, session, inflight>>

-----------------------------------------------------------------------------
(***************************************************************************)
(* The server and the network.                                             *)
(***************************************************************************)

Msg(t, v) == [tell |-> t, version |-> v]

\* The next version, which a subscribed client is told of.
Commit(ran) ==
  /\ db.version < MaxVersion
  /\ db' = [version |-> db.version + 1, applied |-> db.applied \cup ran,
            late |-> db.late \ ran]
Told == IF wire.subscribed /\ ~wire.broken
        THEN Append(wire.in, Msg("update", db.version + 1)) ELSE wire.in

\* The server answers the oldest request; updates precede a commit's reply.
Serve ==
  /\ wire.up /\ ~wire.broken /\ wire.out # <<>>
  /\ LET asked == Head(wire.out).ask
         ran == Head(wire.out).job
         answers(in) == wire' = [wire EXCEPT !.out = Tail(@), !.in = in,
                                             !.subscribed = @ \/ asked = "monitor"]
     IN  \/ /\ asked = "schema" /\ answers(Append(wire.in, Msg("schema", 0)))
            /\ UNCHANGED db
         \/ /\ asked = "monitor"
            /\ answers(Append(wire.in, Msg("monitor", db.version)))
            /\ UNCHANGED db
         \/ /\ asked = "transact" /\ Commit({ran})
            /\ answers(Append(Told, Msg("committed", db.version + 1)))
         \/ /\ asked = "transact" /\ answers(Append(wire.in, Msg("refused", 0)))
            /\ UNCHANGED db
         \/ /\ "refuse" \in Hazards
            /\ wire' = [wire EXCEPT !.out = Tail(@), !.in = Append(@, Msg("error", 0))]
            /\ UNCHANGED db
  /\ UNCHANGED <<session, worker, task, inflight>>

\* Another client commits, or a transaction runs whose client is gone.
Write ==
  /\ \E ran \in {{}} \cup {{j} : j \in db.late} : Commit(ran)
  /\ wire' = [wire EXCEPT !.in = Told]
  /\ UNCHANGED <<session, worker, task, inflight>>

\* The connection breaks; what is under way in either direction may be lost.
Break ==
  /\ wire.up /\ ~wire.broken
  /\ \E n \in 0..Len(wire.in) :
       wire' = [wire EXCEPT !.broken = TRUE, !.out = <<>>, !.in = SubSeq(@, 1, n)]
  /\ db' = [db EXCEPT !.late = @ \cup OnTheWire]
  /\ UNCHANGED <<session, worker, task, inflight>>

-----------------------------------------------------------------------------

Loop ==
  \/ \E j \in Job, g \in 0..MaxGeneration :
       \E k \in {"snapshot", "transact", "reconnect"} : Work(j, k, g)
  \/ \E j \in Job : Abandon(j) \/ Done(j)
  \/ Close

Pump(m) ==
  Update(m) \/ SchemaReply(m) \/ MonitorReply(m) \/ ErrorReply(m) \/ TransactReply(m)

Worker ==
  \/ \E j \in Job : Take(j)
  \/ \E m \in Range(wire.in) : Pump(m)
  \/ Lose \/ Connect \/ Connected \/ GiveUp \/ Expire
  \/ Snapshot \/ NotSent \/ Transact \/ Shutdown

Next == Loop \/ Worker \/ Serve \/ Write \/ Break

Spec == Init /\ [][Next]_vars

\* The worker thread runs and its clock advances, the loop runs its callbacks.
\* Nothing is assumed of the server, the network or the callers.
Fairness == WF_vars(Worker) /\ \A j \in Job : WF_vars(Done(j))

FairSpec == Spec /\ Fairness

-----------------------------------------------------------------------------
(***************************************************************************)
(* What must hold.                                                         *)
(***************************************************************************)

\* While the session calls its copy ready, the copy and the updates queued
\* behind it are the server's versions without a gap (resynchronisation after
\* every loss, refused update and expired reply).
NoGap ==
  session.ready /\ wire.up /\ ~wire.broken =>
    LET updates == {i \in DOMAIN wire.in : wire.in[i].tell = "update"}
    IN  /\ wire.subscribed /\ session.cache <= db.version
        /\ {wire.in[i].version : i \in updates} = (session.cache + 1)..db.version
        /\ \A i, k \in updates : i < k => wire.in[i].version < wire.in[k].version

\* A snapshot never shows less than an earlier snapshot or an earlier commit's
\* reply had already told, across updates, losses and resynchronisations.
ViewsAdvance ==
  \A j \in Job : \A i \in 1..(j - 1) :
    task[j].outcome = "view" /\ task[i].outcome \in {"view", "committed"} =>
      /\ task[i].version <= task[j].version
      /\ task[i].generation <= task[j].generation

\* A transaction bound to a generation is written to that connection or to
\* none, however often the session reconnects before its turn comes; and to none
\* if its job reports the session as not ready.
PinHonoured ==
  \A j \in Job : task[j].sentOn # 0 =>
    task[j].pin \in {0, task[j].sentOn} /\ task[j].outcome # "unready"

\* The result of a transaction is its own: committed only if the server
\* committed it, refused only if it never will.
TrueReply ==
  \A j \in Job :
    /\ task[j].outcome = "committed" => j \in db.applied
    /\ task[j].outcome = "refused" => j \notin db.applied \cup db.late

\* After a transaction without an answer the session does not call a copy ready
\* before it has synchronised a later connection, so that its effect, if it had
\* one before the loss, is in every later snapshot.
ResyncAfterUnknown ==
  \A j \in Job :
    task[j].outcome = "unknown" /\ task[j].sentOn # 0 /\ session.ready =>
      session.generation > task[j].sentOn \/ session.stopping

\* The session is well typed, and the pool never holds more jobs than the budget,
\* whoever gives up waiting.
WithinBudget ==
  /\ TypeOK
  /\ Cardinality(Held) <= RequestLimit

\* Every job ends, also if the server is silent or never reachable, and so does
\* closing, whatever is queued before it.
JobsEnd ==
  /\ \A j \in Job : task[j].phase = "queued" ~> task[j].phase = "delivered"
  /\ session.stopping ~> worker.stage = "closed"
=============================================================================
