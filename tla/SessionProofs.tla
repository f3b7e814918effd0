---------------------------- MODULE SessionProofs ---------------------------
(***************************************************************************)
(* Session, for any number of jobs, connections and commits: the budget of *)
(* jobs, the connection a transaction is bound to, the truth of replies,   *)
(* the resynchronisation after an unknown outcome, the order of views, and *)
(* that no version is missed.                                              *)
(***************************************************************************)
EXTENDS Session, FiniteSetTheorems, SequenceTheorems, TLAPS

\* No message breaks the limits while a reply is awaited: submit takes what the
\* session then reports for a refusal to send.
NoOverflow == "overflow" \notin Hazards

\* TypeOK, but for the slots, which Budget counts.
Typed ==
  /\ db \in [version: Nat, applied: SUBSET Job, late: SUBSET Job]
  /\ WireType /\ WorkerType /\ TaskType
  /\ session \in [generation: Nat, ready: BOOLEAN, monitor: Nat, cache: Nat,
                  stopping: BOOLEAN]

Budget == inflight = Cardinality(Held) /\ inflight <= RequestLimit

-----------------------------------------------------------------------------
(***************************************************************************)
(* The inductive invariant: the jobs and the worker.                       *)
(***************************************************************************)

Over == {"ended", "delivered"}

\* The thread runs one job, the oldest; a job has an outcome when it is over.
OneRuns ==
  /\ worker.job # 0 => task[worker.job].phase = "running"
  /\ \A j \in Job : task[j].phase = "running" => j = worker.job
  /\ \A j \in Job : task[j].outcome # "none" => task[j].phase \in Over
  /\ \A i, j \in Job : i < j =>
       /\ task[i].phase = "new" => task[j].phase = "new"
       /\ task[i].phase \in {"queued", "running"} => task[j].phase \in {"new", "queued"}

\* A transaction is written once, by the job that runs, to the connection of the
\* day and to no other than it is bound to.
SentOnce ==
  /\ \A j \in Job : task[j].sentOn # 0 =>
       /\ task[j].sentOn <= session.generation
       /\ task[j].pin \in {0, task[j].sentOn}
       /\ task[j].phase \in Over \/ (worker.stage = "reply" /\ worker.job = j)
  /\ worker.stage = "reply" => task[worker.job].sentOn = session.generation

\* Past connecting there is a connection that is not given up, and from draining
\* on a copy to work with.
Connects ==
  /\ wire.up \/ session.ready => session.generation > 0
  /\ worker.stage \in {"schema", "monitor", "drain", "reply"} =>
       wire.up /\ ~wire.condemned
  /\ worker.stage \in {"drain", "reply"} => session.ready
  /\ session.ready \/ worker.stage = "monitor" => session.monitor # 0

-----------------------------------------------------------------------------
(***************************************************************************)
(* The inductive invariant: the requests and their replies.                *)
(***************************************************************************)

IsReply(m) == m.tell # "update"

NoReply == \A i \in DOMAIN wire.in : ~IsReply(wire.in[i])

\* At most one request or reply is under way ...
AtMostOne ==
  /\ Len(wire.out) \in 0..1
  /\ wire.broken => wire.out = <<>>
  /\ \A i \in DOMAIN wire.in : IsReply(wire.in[i]) =>
       /\ wire.out = <<>>
       /\ \A k \in DOMAIN wire.in : IsReply(wire.in[k]) => k = i

Quiet == wire.out = <<>> /\ NoReply

\* ... and none when the next request is written.
Between ==
  \/ worker.stage = "drain"
  \/ worker.stage \in {"idle", "connect"} /\ ~wire.condemned /\ ~session.stopping

OneAsked == AtMostOne /\ (Between => Quiet)

\* What is under way belongs to what the worker waits for.
Asks == [schema |-> "schema", monitor |-> "monitor", reply |-> "transact"]

Fitting ==
  worker.stage \in DOMAIN Asks =>
    /\ \A i \in DOMAIN wire.out :
         wire.out[i] = [ask |-> Asks[worker.stage], job |-> worker.job]
    /\ \A i \in DOMAIN wire.in : IsReply(wire.in[i]) =>
         wire.in[i].tell \in
           {"error"} \cup (IF worker.stage = "reply" THEN {"committed", "refused"}
                           ELSE {Asks[worker.stage]})

\* A transaction is in one place at a time: on the wire, left to the server, or run.
OnePlace ==
  /\ \A j \in db.applied \cup db.late \cup OnTheWire : task[j].sentOn # 0
  /\ db.applied \cap db.late = {}
  /\ (db.applied \cup db.late) \cap OnTheWire = {}

\* A reply says what became of the transaction, and so does an outcome.
Told_(j, tell) ==
  /\ tell = "committed" => j \in db.applied
  /\ tell = "refused" => j \notin db.applied \cup db.late \cup OnTheWire

TrueTelling ==
  /\ worker.stage = "reply" => \A i \in DOMAIN wire.in :
       IsReply(wire.in[i]) => Told_(worker.job, wire.in[i].tell)
  /\ \A j \in Job : Told_(j, task[j].outcome)

\* After an unknown outcome its connection is given up.
GivenUp ==
  \A j \in Job :
    task[j].outcome = "unknown" /\ task[j].sentOn # 0 =>
      \/ session.generation > task[j].sentOn \/ session.stopping
      \/ ~session.ready /\ (~wire.up \/ wire.condemned)

-----------------------------------------------------------------------------
(***************************************************************************)
(* The inductive invariant: the versions.                                  *)
(***************************************************************************)

Seen(j) == task[j].outcome \in {"view", "committed"}

\* Nobody has been told of a version that does not exist, or in a ready session of
\* one that its copy has not reached.
ToldOf ==
  /\ \A j \in Job :
       /\ task[j].generation <= session.generation
       /\ Seen(j) => /\ task[j].version <= db.version
                     /\ session.ready => task[j].version <= session.cache
  /\ session.ready => session.cache <= db.version

\* Updates come only to a subscriber, in order.
InOrder ==
  \A i \in DOMAIN wire.in :
    /\ wire.in[i].version <= db.version
    /\ ~IsReply(wire.in[i]) =>
         /\ wire.subscribed
         /\ \A k \in DOMAIN wire.in : i < k /\ ~IsReply(wire.in[k]) =>
              wire.in[i].version <= wire.in[k].version

\* A connection is subscribed to once, and then its copy is ready unless the initial
\* rows are still under way.
Subscribes ==
  /\ worker.stage \in {"idle", "connect"} /\ wire.subscribed /\ ~wire.condemned
       /\ ~session.stopping => session.ready
  /\ session.ready /\ wire.up => wire.subscribed
  /\ worker.stage = "schema" => ~wire.subscribed
  /\ worker.stage = "monitor" =>
       /\ wire.out # <<>> => ~wire.subscribed
       /\ \A i \in DOMAIN wire.in : /\ wire.in[i].tell = "error" => ~wire.subscribed
                                    /\ wire.in[i].tell = "monitor" => wire.subscribed

\* The initial rows come before every update and show all that has been told.
InitialRows ==
  worker.stage = "monitor" =>
    \A i \in DOMAIN wire.in : wire.in[i].tell = "monitor" =>
      /\ \A k \in DOMAIN wire.in : ~IsReply(wire.in[k]) =>
           i < k /\ wire.in[i].version <= wire.in[k].version
      /\ \A j \in Job : Seen(j) => task[j].version <= wire.in[i].version

\* Updates lead on from the copy, and the one of a commit comes before its reply.
LeadOn ==
  session.ready =>
    \A i \in DOMAIN wire.in :
      /\ ~IsReply(wire.in[i]) => session.cache <= wire.in[i].version
      /\ wire.in[i].tell = "committed" =>
           \/ wire.in[i].version <= session.cache
           \/ \E k \in DOMAIN wire.in : /\ k < i /\ ~IsReply(wire.in[k])
                                        /\ wire.in[i].version <= wire.in[k].version

-----------------------------------------------------------------------------
(***************************************************************************)
(* Sequences.                                                              *)
(***************************************************************************)

LEMMA NoWireType == NoWire.out \in Seq(Request) /\ NoWire.in \in Seq(Message)
BY EmptySeq DEF NoWire

LEMMA TailType ==
  ASSUME NEW S, NEW s \in Seq(S), s # <<>>
  PROVE  Head(s) \in S /\ Tail(s) \in Seq(S)
BY HeadTailProperties

LEMMA PrefixType ==
  ASSUME NEW S, NEW s \in Seq(S), NEW n \in 0..Len(s)
  PROVE  SubSeq(s, 1, n) \in Seq(S)
<1>1. Len(s) \in Nat /\ \A i \in 1..Len(s) : s[i] \in S
  BY LenProperties
<1>2. \A i \in 1..n : s[i] \in S
  BY <1>1
<1>3. QED
  BY <1>1, <1>2, SubSeqProperties

LEMMA MsgType ==
  ASSUME NEW t \in {"update", "schema", "monitor", "committed", "refused", "error"},
         NEW v \in Nat
  PROVE  Msg(t, v) \in Message
BY DEF Msg, Message

-----------------------------------------------------------------------------
(***************************************************************************)
(* Types.                                                                  *)
(***************************************************************************)

LEMMA SendType ==
  ASSUME WireType, wire.up, worker.job \in Job,
         NEW r \in {"schema", "monitor", "transact"},
         NEW in \in Seq(Message)
  PROVE  LET c == Send([wire EXCEPT !.in = in], r)
         IN  c.up /\ c \in [up: BOOLEAN, broken: BOOLEAN, condemned: BOOLEAN,
                            subscribed: BOOLEAN, out: Seq(Request), in: Seq(Message)]
<1>1. [ask |-> r, job |-> worker.job] \in Request
  BY DEF Request
<1>2. Append(wire.out, [ask |-> r, job |-> worker.job]) \in Seq(Request)
  BY <1>1 DEF WireType
<1>3. QED
  BY <1>2 DEF Send, WireType

LEMMA InvalidateType ==
  ASSUME Typed, Invalidate
  PROVE  WireType' /\ session' \in [generation: Nat, ready: BOOLEAN, monitor: Nat,
                                     cache: Nat, stopping: BOOLEAN]
<1>1. wire.up = FALSE => wire.condemned = FALSE
  BY DEF Typed, WireType, NoWire
<1>2. wire' \in [up: BOOLEAN, broken: BOOLEAN, condemned: BOOLEAN,
                 subscribed: BOOLEAN, out: Seq(Request), in: Seq(Message)]
  BY DEF Typed, Invalidate, WireType
<1>3. wire.up = FALSE => wire' = NoWire
  BY <1>1 DEF Typed, Invalidate, WireType, NoWire
<1>4. wire'.up = wire.up
  BY DEF Typed, Invalidate, WireType
<1>5. QED
  BY <1>2, <1>3, <1>4 DEF Typed, Invalidate, Forgotten, WireType

LEMMA EndedType ==
  ASSUME NEW t \in Future, NEW out \in Outcome PROVE Ended(t, out) \in Future
BY DEF Future, Ended

LEMMA EndType ==
  ASSUME Typed, worker.job \in Job, NEW out \in Outcome, End(out)
  PROVE  WorkerType' /\ TaskType'
<1>1. Ended(task[worker.job], out) \in Future
  BY EndedType DEF Typed, TaskType
<1>2. TaskType'
  BY <1>1 DEF Typed, TaskType, End
<1>3. WorkerType'
  BY SessionAssumption DEF End, WorkerType
<1>4. QED
  BY <1>2, <1>3

LEMMA JobOfStage ==
  ASSUME Typed, worker.stage \notin {"idle", "closed"} PROVE worker.job \in Job
BY SessionAssumption DEF Typed, WorkerType, Job

\* What the event loop leaves alone.
LEMMA LoopLeaves ==
  ASSUME Typed, Loop \/ UNCHANGED vars
  PROVE  /\ UNCHANGED <<db, wire, worker>>
         /\ session' = [session EXCEPT !.stopping = session'.stopping]
         /\ session'.stopping = session.stopping \/ session'.stopping
<1>1. session = [session EXCEPT !.stopping = session.stopping]
  BY DEF Typed
<1>2. ASSUME NEW j \in Job, NEW g, NEW k, Work(j, k, g)
      PROVE  UNCHANGED <<db, wire, worker, session>>
  BY <1>2 DEF Work
<1>3. ASSUME NEW j \in Job, Abandon(j) \/ Done(j)
      PROVE  UNCHANGED <<db, wire, worker, session>>
  BY <1>3 DEF Abandon, Done
<1>4. CASE Close
  BY <1>4 DEF Typed, Close
<1>5. CASE UNCHANGED vars
  BY <1>1, <1>5 DEF vars
<1>6. QED
  BY <1>1, <1>2, <1>3, <1>4, <1>5 DEF Loop

LEMMA LoopType ==
  ASSUME Typed, Loop PROVE Typed'
<1>1. ASSUME NEW j \in Job, NEW g \in 0..MaxGeneration,
             NEW k \in {"snapshot", "transact", "reconnect"}, Work(j, k, g)
      PROVE Typed'
  <2>1. g \in Nat
    BY SessionAssumption
  <2>. DEFINE t == [task[j] EXCEPT !.phase = "queued", !.kind = k, !.pin = g,
                                   !.awaited = TRUE]
  <2>4. t \in Future
    <3>1. task[j] \in Future /\ k \in {"snapshot", "transact", "reconnect"}
      BY DEF Typed, TaskType
    <3>2. QED
      BY <2>1, <3>1 DEF Future
  <2>5. task' = [task EXCEPT ![j] = t]
    BY <1>1 DEF Typed, Work, TaskType
  <2>2. TaskType'
    BY <2>4, <2>5 DEF Typed, TaskType
  <2>3. QED
    BY <1>1, <2>2 DEF Typed, Work, WireType, WorkerType
<1>2. ASSUME NEW j \in Job, Abandon(j) PROVE Typed'
  <2>. DEFINE t == [task[j] EXCEPT !.awaited = FALSE]
  <2>3. t \in Future
    BY DEF Typed, TaskType, Future
  <2>4. task' = [task EXCEPT ![j] = t]
    BY <1>2 DEF Typed, Abandon, TaskType
  <2>1. TaskType'
    BY <2>3, <2>4 DEF Typed, TaskType
  <2>2. QED
    BY <1>2, <2>1 DEF Typed, Abandon, WireType, WorkerType
<1>3. ASSUME NEW j \in Job, Done(j) PROVE Typed'
  <2>. DEFINE t == [task[j] EXCEPT !.phase = "delivered"]
  <2>3. t \in Future
    BY DEF Typed, TaskType, Future
  <2>4. task' = [task EXCEPT ![j] = t]
    BY <1>3 DEF Typed, Done, TaskType
  <2>1. TaskType'
    BY <2>3, <2>4 DEF Typed, TaskType
  <2>2. QED
    BY <1>3, <2>1 DEF Typed, Done, WireType, WorkerType
<1>4. CASE Close
  BY <1>4 DEF Typed, Close, WireType, WorkerType, TaskType
<1>5. QED
  BY <1>1, <1>2, <1>3, <1>4 DEF Loop

LEMMA ReadType ==
  ASSUME Typed, NEW m, Reads(m)
  PROVE  /\ m \in Message /\ wire.up /\ ~wire.condemned
         /\ Tail(wire.in) \in Seq(Message)
         /\ Read \in [up: BOOLEAN, broken: BOOLEAN, condemned: BOOLEAN,
                      subscribed: BOOLEAN, out: Seq(Request), in: Seq(Message)]
         /\ Read.up
<1>1. m \in Message /\ Tail(wire.in) \in Seq(Message)
  BY TailType DEF Typed, WireType, Reads
<1>2. QED
  BY <1>1 DEF Typed, WireType, Reads, Read

LEMMA LateType ==
  ASSUME Typed
  PROVE  /\ OnTheWire \subseteq Job
         /\ [db EXCEPT !.late = @ \cup OnTheWire]
              \in [version: Nat, applied: SUBSET Job, late: SUBSET Job]
<1>1. \A r \in Range(wire.out) : r \in Request
  BY LenProperties DEF Typed, WireType, Range
<1>2. OnTheWire \subseteq Job
  BY <1>1 DEF OnTheWire, Request
<1>3. QED
  BY <1>2 DEF Typed

\* The worker, but for what it reads.
LEMMA WorkerStepType ==
  ASSUME Typed, Connects, Worker, ~(\E m \in Range(wire.in) : Pump(m))
  PROVE  Typed'
<1>1. ASSUME NEW j \in Job, Take(j) PROVE Typed'
  <2>1. CASE task[j].kind = "reconnect"
    <3>1. Ended(task[j], "reconnecting") \in Future
      BY EndedType DEF Typed, TaskType, Outcome
    <3>2. TaskType'
      BY <1>1, <2>1, <3>1 DEF Typed, Take, TaskType
    <3>3. Invalidate /\ UNCHANGED <<db, worker>>
      BY <1>1, <2>1 DEF Take
    <3>4. QED
      BY <3>2, <3>3, InvalidateType DEF Typed, WorkerType
  <2>2. CASE task[j].kind # "reconnect"
    <3>1. TaskType'
      BY <1>1, <2>2 DEF Typed, Take, TaskType, Future
    <3>2. WorkerType'
      BY <1>1, <2>2, SessionAssumption DEF Take, WorkerType, Job
    <3>3. QED
      BY <1>1, <2>2, <3>1, <3>2 DEF Typed, Take, WireType
  <2>3. QED
    BY <2>1, <2>2
<1>2. CASE Shutdown
  BY <1>2, NoWireType, LateType
     DEF Typed, Shutdown, WireType, WorkerType, TaskType, Goto, Stage, NoWire
<1>3. CASE Connect
  <2>1. WireType'
    BY <1>3, NoWireType DEF Connect, WireType, NoWire
  <2>2. session' = [session EXCEPT !.ready = FALSE, !.monitor = 0,
                                   !.generation = session.generation + 1]
    BY <1>3 DEF Typed, Connect, Forgotten
  <2>3. session' \in [generation: Nat, ready: BOOLEAN, monitor: Nat, cache: Nat,
                      stopping: BOOLEAN]
    <3>1. session.generation + 1 \in Nat
      BY DEF Typed
    <3>2. QED
      BY <2>2, <3>1 DEF Typed
  <2>4. QED
    BY <1>3, <2>1, <2>3 DEF Typed, Connect, WorkerType, TaskType
<1>4. CASE Lose
  <2>1. WireType' /\ db' = [db EXCEPT !.late = @ \cup OnTheWire] /\ session' = Forgotten
    BY <1>4, NoWireType DEF Lose, WireType, NoWire
  <2>2. WorkerType' /\ TaskType'
    <3>1. CASE Stage({"connect"})
      BY <1>4, <3>1 DEF Typed, Lose, WorkerType, TaskType
    <3>2. CASE ~Stage({"connect"})
      <4>1. worker.job \in Job /\ Loss \in Outcome
        BY <1>4, JobOfStage DEF Lose, Waiting, Stage, Loss, Outcome
      <4>2. QED
        BY <1>4, <3>2, <4>1, EndType DEF Lose
    <3>3. QED
      BY <3>1, <3>2
  <2>3. QED
    BY <2>1, <2>2, LateType DEF Typed, Forgotten
<1>5. CASE Connected
  <2>1. CASE session.ready
    BY <1>5, <2>1
       DEF Typed, Connected, Goto, Stage, WireType, WorkerType, TaskType
  <2>2. CASE ~session.ready
    <3>1. worker.job \in Job /\ wire.up
      BY <1>5, JobOfStage DEF Connected, Stage
    <3>2. wire = [wire EXCEPT !.in = wire.in] /\ wire.in \in Seq(Message)
      BY DEF Typed, WireType
    <3>3. WireType'
      BY <1>5, <2>2, <3>1, <3>2, SendType DEF Typed, Connected, WireType
    <3>4. QED
      BY <1>5, <2>2, <3>3 DEF Typed, Connected, Goto, Stage, WorkerType, TaskType
  <2>3. QED
    BY <2>1, <2>2
<1>6. CASE GiveUp
  <2>1. worker.job \in Job /\ End("unready")
    BY <1>6, JobOfStage DEF GiveUp, Stage
  <2>2. WorkerType' /\ TaskType'
    BY <2>1, EndType DEF Outcome
  <2>3. QED
    BY <1>6, <2>1, <2>2 DEF Typed, GiveUp, WireType, TaskType, Future
<1>7. CASE Expire
  <2>1. WorkerType' /\ TaskType'
    BY <1>7, EndType, JobOfStage DEF Expire, Waiting, Stage, Outcome
  <2>2. QED
    BY <1>7, <2>1, InvalidateType DEF Typed, Expire, WireType
<1>8. CASE Snapshot
  <2>. DEFINE t == [Ended(task[worker.job], "view") EXCEPT
                      !.generation = session.generation, !.version = session.cache]
  <2>1. worker.job \in Job
    BY <1>8, JobOfStage DEF Snapshot, Drained, Stage
  <2>2. Ended(task[worker.job], "view") \in Future
    BY <2>1, EndedType DEF Typed, TaskType, Outcome
  <2>3. t \in Future
    BY <2>2 DEF Typed, Future
  <2>4. TaskType'
    BY <1>8, <2>1, <2>3 DEF Typed, Snapshot, TaskType
  <2>5. QED
    BY <1>8, <2>4, SessionAssumption DEF Typed, Snapshot, WireType, WorkerType
<1>9. CASE NotSent
  <2>1. WorkerType' /\ TaskType'
    BY <1>9, EndType, JobOfStage DEF NotSent, Drained, Stage, Outcome
  <2>2. QED
    BY <1>9, <2>1 DEF Typed, NotSent, WireType
<1>10. CASE Transact
  <2>1. worker.job \in Job /\ wire.up
    BY <1>10, JobOfStage DEF Transact, Drained, Stage, Connects
  <2>2. wire = [wire EXCEPT !.in = wire.in] /\ wire.in \in Seq(Message)
    BY DEF Typed, WireType
  <2>3. WireType'
    BY <1>10, <2>1, <2>2, SendType DEF Typed, Transact, WireType
  <2>4. TaskType'
    BY <1>10, <2>1 DEF Typed, Transact, TaskType, Future
  <2>5. QED
    BY <1>10, <2>1, <2>3, <2>4
       DEF Typed, Transact, Goto, WorkerType, Drained, Stage, Job
<1>11. QED
  BY <1>1, <1>2, <1>3, <1>4, <1>5, <1>6, <1>7, <1>8, <1>9, <1>10 DEF Worker

LEMMA PumpType ==
  ASSUME Typed, NEW m \in Range(wire.in), Pump(m) PROVE Typed'
<1>0. worker.job \in Job
  BY JobOfStage
     DEF Pump, Update, SchemaReply, MonitorReply, ErrorReply, TransactReply, Waiting,
         Stage
<1>1. CASE Update(m)
  <2>1. wire.up /\ m \in Message /\ Read.up /\ WireType'
    BY <1>1, ReadType DEF Update, WireType
  <2>2. CASE session' = [session EXCEPT !.cache = Applied(m)] /\ UNCHANGED <<worker, task>>
    BY <1>1, <2>1, <2>2
       DEF Typed, Update, WorkerType, TaskType, Applied, Message
  <2>3. CASE session' = Forgotten /\ End("unready")
    <3>1. WorkerType' /\ TaskType'
      BY <1>0, <2>3, EndType DEF Outcome
    <3>2. QED
      BY <1>1, <2>1, <2>3, <3>1 DEF Typed, Update, Forgotten
  <2>4. QED
    BY <1>1, <2>2, <2>3 DEF Update
<1>2. CASE SchemaReply(m)
  <2>1. wire.up /\ Read = [wire EXCEPT !.in = Tail(wire.in)]
        /\ Tail(wire.in) \in Seq(Message)
    BY <1>2, ReadType DEF SchemaReply, Read
  <2>2. WireType'
    BY <1>0, <1>2, <2>1, SendType DEF Typed, SchemaReply, WireType
  <2>3. QED
    BY <1>0, <1>2, <2>2
       DEF Typed, SchemaReply, Goto, Stage, WorkerType, TaskType, Job
<1>3. CASE MonitorReply(m)
  <2>1. WireType' /\ m \in Message
    BY <1>3, ReadType DEF MonitorReply, WireType
  <2>2. QED
    BY <1>0, <1>3, <2>1
       DEF Typed, MonitorReply, Goto, Stage, WorkerType, TaskType, Job, Message
<1>4. CASE ErrorReply(m)
  <2>1. WireType'
    BY <1>4, ReadType DEF ErrorReply, WireType
  <2>2. WorkerType' /\ TaskType'
    BY <1>0, <1>4, EndType DEF ErrorReply, Outcome
  <2>3. QED
    BY <1>4, <2>1, <2>2 DEF Typed, ErrorReply
<1>5. CASE TransactReply(m)
  <2>1. WireType' /\ m \in Message /\ m.tell \in Outcome
    BY <1>5, ReadType DEF TransactReply, WireType, Outcome
  <2>2. Ended(task[worker.job], Verdict(m)) \in Future
    BY <1>0, <2>1, EndedType DEF Typed, TaskType, Verdict
  <2>3. [Ended(task[worker.job], Verdict(m)) EXCEPT !.version = m.version] \in Future
    BY <2>1, <2>2 DEF Future, Message
  <2>4. TaskType'
    BY <1>0, <1>5, <2>3 DEF Typed, TransactReply, TaskType
  <2>5. QED
    BY <1>5, <2>1, <2>4, SessionAssumption DEF Typed, TransactReply, WorkerType
<1>6. QED
  BY <1>1, <1>2, <1>3, <1>4, <1>5 DEF Pump

LEMMA ToldType ==
  ASSUME Typed
  PROVE  /\ Told \in Seq(Message)
         /\ \A ran \in SUBSET Job : Commit(ran) =>
              db' \in [version: Nat, applied: SUBSET Job, late: SUBSET Job]
<1>1. db.version \in Nat /\ wire.in \in Seq(Message)
  BY DEF Typed, WireType
<1>2. Msg("update", db.version + 1) \in Message
  BY <1>1, MsgType
<1>3. Told \in Seq(Message)
  BY <1>1, <1>2, AppendProperties DEF Told
<1>4. QED
  BY <1>3 DEF Typed, Commit

\* The server and the network.
LEMMA ServerType ==
  ASSUME Typed, Serve \/ Write \/ Break PROVE Typed'
<1>. DEFINE Wires == [up: BOOLEAN, broken: BOOLEAN, condemned: BOOLEAN,
                      subscribed: BOOLEAN, out: Seq(Request), in: Seq(Message)]
<1>1. CASE Serve
  <2>1. wire \in Wires /\ wire.up /\ wire.in \in Seq(Message) /\ db.version \in Nat
    BY <1>1 DEF Typed, Serve, WireType
  <2>2. /\ Head(wire.out) \in Request /\ Head(wire.out).job \in Job
        /\ Tail(wire.out) \in Seq(Request)
    <3>1. wire.out \in Seq(Request) /\ wire.out # <<>>
      BY <1>1 DEF Typed, Serve, WireType
    <3>2. Head(wire.out) \in Request /\ Tail(wire.out) \in Seq(Request)
      BY <3>1, TailType
    <3>3. QED
      BY <3>2 DEF Request
  <2>3. \A in \in Seq(Message), sub \in BOOLEAN :
          [wire EXCEPT !.out = Tail(@), !.in = in, !.subscribed = sub] \in Wires
    BY <2>1, <2>2
  <2>4. \A t \in {"schema", "monitor", "committed", "refused", "error"} :
          \A v \in Nat, in \in Seq(Message) : Append(in, Msg(t, v)) \in Seq(Message)
    BY MsgType, AppendProperties
  <2>5. wire' \in Wires /\ wire'.up
    <3>1. Told \in Seq(Message) /\ db.version + 1 \in Nat /\ 0 \in Nat
      BY <2>1, ToldType
    <3>2. wire.subscribed \in BOOLEAN /\ TRUE \in BOOLEAN
      BY <2>1
    <3>3. \E in \in Seq(Message), sub \in BOOLEAN :
            wire' = [wire EXCEPT !.out = Tail(@), !.in = in, !.subscribed = sub]
      <4>1. CASE wire' = [wire EXCEPT !.out = Tail(@),
                                     !.in = Append(@, Msg("error", 0))]
        <5>1. wire' = [wire EXCEPT !.out = Tail(@), !.in = Append(@, Msg("error", 0)),
                                   !.subscribed = wire.subscribed]
          BY <2>1, <4>1
        <5>2. QED
          BY <2>1, <2>4, <3>1, <3>2, <5>1
      <4>2. CASE wire' # [wire EXCEPT !.out = Tail(@),
                                     !.in = Append(@, Msg("error", 0))]
        BY <1>1, <2>1, <2>4, <3>1, <3>2, <4>2 DEF Serve
      <4>3. QED
        BY <4>1, <4>2
    <3>4. QED
      BY <2>1, <2>3, <3>3
  <2>6. db' \in [version: Nat, applied: SUBSET Job, late: SUBSET Job]
    BY <1>1, <2>2, ToldType DEF Typed, Serve
  <2>7. QED
    BY <1>1, <2>5, <2>6 DEF Typed, Serve, WireType, WorkerType, TaskType
<1>2. CASE Write
  <2>1. db' \in [version: Nat, applied: SUBSET Job, late: SUBSET Job]
    BY <1>2, ToldType DEF Typed, Write
  <2>2. wire' \in Wires
    BY <1>2, ToldType DEF Typed, Write, WireType
  <2>3. wire.up => wire'.up
    BY <1>2 DEF Typed, Write, WireType
  <2>4. ~wire.up => wire' = NoWire
    <3>1. ASSUME ~wire.up PROVE wire = NoWire /\ Told = wire.in
      BY <3>1 DEF Typed, WireType, NoWire, Told
    <3>2. [wire EXCEPT !.in = wire.in] = wire
      BY DEF Typed, WireType
    <3>3. QED
      BY <1>2, <3>1, <3>2 DEF Write
  <2>5. QED
    BY <1>2, <2>1, <2>2, <2>3, <2>4 DEF Typed, Write, WireType, WorkerType, TaskType
<1>3. CASE Break
  <2>1. /\ wire.in \in Seq(Message)
        /\ \A n \in 0..Len(wire.in) : SubSeq(wire.in, 1, n) \in Seq(Message)
    BY PrefixType DEF Typed, WireType
  <2>2. wire' \in Wires /\ wire'.up
    <3>1. PICK n \in 0..Len(wire.in) :
            wire' = [wire EXCEPT !.broken = TRUE, !.out = <<>>,
                                 !.in = SubSeq(wire.in, 1, n)]
      BY <1>3 DEF Break
    <3>2. SubSeq(wire.in, 1, n) \in Seq(Message) /\ wire.up
      BY <1>3, <2>1 DEF Break
    <3>3. QED
      BY <3>1, <3>2, EmptySeq DEF Typed, WireType
  <2>3. UNCHANGED <<session, worker, task>>
        /\ db' = [db EXCEPT !.late = @ \cup OnTheWire]
    BY <1>3 DEF Break
  <2>4. QED
    BY <2>2, <2>3, LateType DEF Typed, WireType, WorkerType, TaskType
<1>4. QED
  BY <1>1, <1>2, <1>3

LEMMA StepType == ASSUME Typed, Connects, [Next]_vars PROVE Typed'
<1>1. CASE UNCHANGED vars
  BY <1>1 DEF Typed, vars, WireType, WorkerType, TaskType
<1>2. QED
  BY <1>1, LoopType, WorkerStepType, PumpType, ServerType DEF Next, Worker

-----------------------------------------------------------------------------
(***************************************************************************)
(* Jobs.                                                                   *)
(***************************************************************************)

SameView(j) ==
  task'[j].version = task[j].version /\ task'[j].generation = task[j].generation

\* The worker's job is over, with this outcome.
Ends(out) ==
  /\ worker.job \in Job /\ worker' = [stage |-> "idle", job |-> 0]
  /\ \A j \in Job \ {worker.job} : task'[j] = task[j]
  /\ task'[worker.job].phase = "ended" /\ task'[worker.job].outcome = out
  /\ task'[worker.job].pin = task[worker.job].pin
  /\ task'[worker.job].sentOn = task[worker.job].sentOn
  /\ out \notin {"view", "committed", "refused"} => SameView(worker.job)

\* ... for which there is a reason.
Grounds(out) ==
  /\ out = "view" => Snapshot
  /\ out = "unknown" => Lose \/ Expire \/ worker.stage = "drain"
  /\ out \in {"committed", "refused"} =>
       \E m \in Range(wire.in) : TransactReply(m) /\ m.tell = out

\* The oldest queued job is taken, and a reconnect is over at once.
Takes(j) ==
  /\ worker.stage = "idle"
  /\ task[j].phase = "queued" /\ \A i \in 1..(j - 1) : task[i].phase # "queued"
  /\ \A i \in Job \ {j} : task'[i] = task[i]
  /\ task'[j].pin = task[j].pin /\ task'[j].sentOn = task[j].sentOn /\ SameView(j)
  /\ \/ /\ task'[j].phase = "ended" /\ task'[j].outcome = "reconnecting"
        /\ UNCHANGED worker
     \/ /\ task'[j].phase = "running" /\ task'[j].outcome = task[j].outcome
        /\ worker' = [stage |-> "connect", job |-> j]

\* The stages of a job follow each other.
Follows(s) ==
  CASE s = "schema" -> {"connect"}
    [] s = "monitor" -> {"schema"}
    [] s = "drain" -> {"connect", "monitor"}
    [] s = "closed" -> {"idle"}
    [] OTHER -> {}

Proceeds ==
  /\ UNCHANGED task /\ worker'.job = worker.job
  /\ worker.stage \in Follows(worker'.stage)

Writes ==
  /\ Transact /\ worker.stage = "drain" /\ worker.job \in Job
  /\ worker'.stage = "reply" /\ worker'.job = worker.job
  /\ \A j \in Job \ {worker.job} : task'[j] = task[j]
  /\ task'[worker.job].phase = task[worker.job].phase
  /\ task'[worker.job].pin = task[worker.job].pin
  /\ task'[worker.job].outcome = task[worker.job].outcome
  /\ task'[worker.job].sentOn = session.generation
  /\ SameView(worker.job)

LEMMA EndEnds ==
  ASSUME Typed, worker.job \in Job, NEW out, End(out) PROVE Ends(out)
BY DEF Typed, TaskType, Future, End, Ended, Ends, SameView

\* A step of the worker, as its job sees it.
LEMMA WorkerMoves ==
  ASSUME Typed, Worker
  PROVE  \/ UNCHANGED <<worker, task>>
         \/ Proceeds
         \/ \E j \in Job : Takes(j)
         \/ \E out \in Outcome \ {"none", "unready"} : Ends(out) /\ Grounds(out)
         \/ Ends("unready") /\ (worker.stage = "reply" => "overflow" \in Hazards)
         \/ Writes
<1>1. ASSUME NEW j \in Job, Take(j) PROVE Takes(j)
  <2>1. CASE task[j].kind = "reconnect"
    <3>1. /\ worker.stage = "idle" /\ UNCHANGED worker
          /\ task[j].phase = "queued" /\ \A i \in 1..(j - 1) : task[i].phase # "queued"
          /\ task' = [task EXCEPT ![j] = Ended(task[j], "reconnecting")]
      BY <1>1, <2>1 DEF Take, Stage
    <3>2. task[j] \in Future /\ task' = [task EXCEPT ![j] = task'[j]]
          /\ task'[j] = Ended(task[j], "reconnecting")
      BY <3>1 DEF Typed, TaskType
    <3>3. QED
      BY <3>1, <3>2 DEF Typed, TaskType, Future, Takes, Ended, SameView
  <2>2. CASE task[j].kind # "reconnect"
    BY <1>1, <2>2 DEF Typed, TaskType, Future, Take, Takes, Stage, SameView
  <2>3. QED
    BY <2>1, <2>2
<1>2. worker.stage \notin {"idle", "closed"} => worker.job \in Job
  BY JobOfStage
<1>3. CASE Shutdown
  BY <1>3 DEF Typed, WorkerType, Shutdown, Goto, Stage, Proceeds, Follows
<1>4. CASE Connect
  BY <1>4 DEF Connect
<1>5. CASE Lose
  <2>1. CASE Stage({"connect"})
    BY <1>5, <2>1 DEF Lose
  <2>2. CASE ~Stage({"connect"})
    <3>1. worker.job \in Job /\ End(Loss)
      BY <1>2, <1>5, <2>2 DEF Lose, Stage, Waiting
    <3>2. Ends(Loss) /\ (Loss = "unknown" \/ (Loss = "unready" /\ ~Waiting))
      BY <3>1, EndEnds DEF Loss
    <3>3. QED
      BY <1>5, <3>2 DEF Outcome, Waiting, Stage, Grounds
  <2>3. QED
    BY <2>1, <2>2
<1>6. CASE Connected
  <2>1. CASE session.ready
    BY <1>6, <2>1 DEF Typed, WorkerType, Connected, Goto, Stage, Proceeds, Follows
  <2>2. CASE ~session.ready
    BY <1>6, <2>2 DEF Typed, WorkerType, Connected, Goto, Stage, Proceeds, Follows
  <2>3. QED
    BY <2>1, <2>2
<1>7. CASE GiveUp
  <2>1. End("unready") /\ worker.stage = "connect"
    BY <1>7 DEF GiveUp, Stage
  <2>2. QED
    BY <1>2, <2>1, EndEnds
<1>8. CASE Expire
  <2>1. Ends("unknown")
    BY <1>2, <1>8, EndEnds DEF Expire, Waiting, Stage
  <2>2. QED
    BY <1>8, <2>1 DEF Outcome, Grounds
<1>9. CASE Snapshot
  <2>1. Ends("view")
    BY <1>2, <1>9
       DEF Typed, TaskType, Future, Snapshot, Drained, Stage, Ended, Ends
  <2>2. QED
    BY <1>9, <2>1 DEF Outcome, Grounds
<1>10. CASE NotSent
  <2>1. worker.stage = "drain" /\ (End("unready") \/ End("unknown"))
    BY <1>10 DEF NotSent, Drained, Stage
  <2>2. worker.stage = "drain" /\ (Ends("unready") \/ Ends("unknown"))
    BY <1>2, <2>1, EndEnds
  <2>3. QED
    BY <2>2 DEF Outcome, Grounds
<1>11. CASE Transact
  BY <1>2, <1>11
     DEF Typed, TaskType, Future, WorkerType, Transact, Drained, Stage, Goto, Writes,
         SameView
<1>12. ASSUME NEW m \in Range(wire.in), Update(m) PROVE
         \/ UNCHANGED <<worker, task>>
         \/ Ends("unready") /\ "overflow" \in Hazards
  BY <1>2, <1>12, EndEnds DEF Update, Waiting, Stage
<1>13. ASSUME NEW m \in Range(wire.in), SchemaReply(m) \/ MonitorReply(m) PROVE Proceeds
  BY <1>13 DEF Typed, WorkerType, SchemaReply, MonitorReply, Goto, Stage, Proceeds,
               Follows
<1>14. ASSUME NEW m \in Range(wire.in), ErrorReply(m) PROVE Ends("error")
  BY <1>2, <1>14, EndEnds DEF ErrorReply, Waiting, Stage
<1>15. ASSUME NEW m \in Range(wire.in), TransactReply(m)
       PROVE Ends(m.tell) /\ m.tell \in {"committed", "refused"}
  BY <1>2, <1>15
     DEF Typed, TaskType, Future, TransactReply, Verdict, Stage, Ended, Ends
<1>16. ASSUME NEW m \in Range(wire.in), Pump(m)
       PROVE \/ UNCHANGED <<worker, task>>
             \/ Proceeds
             \/ \E out \in Outcome \ {"none", "unready"} : Ends(out) /\ Grounds(out)
             \/ Ends("unready") /\ "overflow" \in Hazards
  BY <1>12, <1>13, <1>14, <1>15, <1>16 DEF Pump, Outcome, Grounds
<1>17. QED
  BY <1>1, <1>3, <1>4, <1>5, <1>6, <1>7, <1>8, <1>9, <1>10, <1>11, <1>16 DEF Worker

LEMMA SameHeld ==
  ASSUME Budget, inflight' = inflight,
         \A j \in Job : task'[j].phase \in {"queued", "running", "ended"}
                          <=> task[j].phase \in {"queued", "running", "ended"}
  PROVE  Budget'
<1>1. Held' = Held
  BY DEF Held
<1>2. QED
  BY <1>1 DEF Budget

LEMMA FiniteHeld == IsFiniteSet(Held) /\ Cardinality(Held) \in Nat
<1>1. IsFiniteSet(Job)
  BY FS_Interval, SessionAssumption DEF Job
<1>2. QED
  BY <1>1, FS_Subset, FS_CardinalityType DEF Held

\* A slot is taken and given back with the job it is for, whoever waits for it.
LEMMA StepBudget ==
  ASSUME Typed, OneRuns, Budget, [Next]_vars PROVE Budget'
<1>1. ASSUME NEW j \in Job, NEW g \in 0..MaxGeneration,
             NEW k \in {"snapshot", "transact", "reconnect"}, Work(j, k, g)
      PROVE Budget'
  <2>1. j \notin Held /\ Held' = Held \cup {j}
    BY <1>1 DEF Work, Held, Typed, TaskType, Future
  <2>2. Cardinality(Held') = Cardinality(Held) + 1
    BY <2>1, FiniteHeld, FS_AddElement
  <2>3. inflight' = inflight + 1 /\ inflight < RequestLimit /\ RequestLimit \in Nat
    BY <1>1, SessionAssumption DEF Work
  <2>4. QED
    BY <2>2, <2>3, FiniteHeld DEF Budget
<1>2. ASSUME NEW j \in Job, Abandon(j) PROVE Budget'
  BY <1>2, SameHeld DEF Abandon, Typed, TaskType, Future
<1>3. ASSUME NEW j \in Job, Done(j) PROVE Budget'
  <2>1. j \in Held /\ Held' = Held \ {j}
    BY <1>3 DEF Done, Held, Typed, TaskType, Future
  <2>2. Cardinality(Held') = Cardinality(Held) - 1
    BY <2>1, FiniteHeld, FS_RemoveElement
  <2>3. inflight' = inflight - 1 /\ RequestLimit \in Nat
    BY <1>3, SessionAssumption DEF Done
  <2>4. QED
    BY <2>2, <2>3, FiniteHeld DEF Budget
<1>4. CASE Worker
  <2>1. inflight' = inflight
    BY <1>4 DEF Worker, Pump, Take, Shutdown, Connect, Lose, Connected, GiveUp, Expire,
                Snapshot, NotSent, Transact, Update, SchemaReply, MonitorReply,
                ErrorReply, TransactReply
  <2>2. ASSUME NEW j \in Job
        PROVE task'[j].phase \in {"queued", "running", "ended"}
                <=> task[j].phase \in {"queued", "running", "ended"}
    <3>1. \A out : Ends(out) =>
            \/ task'[j] = task[j]
            \/ task[j].phase = "running" /\ task'[j].phase = "ended"
      BY SessionAssumption DEF Ends, OneRuns, Job
    <3>2. QED
      BY <1>4, <3>1, WorkerMoves DEF Proceeds, Takes, Writes
  <2>3. QED
    BY <2>1, <2>2, SameHeld
<1>5. CASE Close \/ Serve \/ Write \/ Break \/ UNCHANGED vars
  BY <1>5, SameHeld DEF Close, Serve, Write, Break, vars
<1>6. QED
  BY <1>1, <1>2, <1>3, <1>4, <1>5 DEF Next, Loop

\* Jobs run one at a time, in the order in which they were handed over.
LEMMA StepOneRuns ==
  ASSUME Typed, OneRuns, [Next]_vars PROVE OneRuns'
<1>. \A i, j \in Job : i < j => i \in 1..(j - 1)
  BY SessionAssumption DEF Job
<1>. \A i, j \in Job : i < j => i # j /\ ~(j < i)
  BY SessionAssumption DEF Job
<1>. worker.job # 0 => worker.job \in Job
  BY SessionAssumption DEF Typed, WorkerType, Job
<1>1. ASSUME NEW j \in Job, NEW g \in 0..MaxGeneration,
             NEW k \in {"snapshot", "transact", "reconnect"}, Work(j, k, g)
      PROVE OneRuns'
  <2>1. /\ UNCHANGED worker /\ \A i \in Job \ {j} : task'[i] = task[i]
        /\ task'[j].phase = "queued" /\ task'[j].outcome = task[j].outcome
        /\ task[j].phase = "new" /\ \A i \in 1..(j - 1) : task[i].phase # "new"
    BY <1>1 DEF Work, Typed, TaskType, Future
  <2>2. QED
    BY <2>1 DEF OneRuns, Over
<1>2. ASSUME NEW j \in Job, Abandon(j) \/ Done(j) PROVE OneRuns'
  <2>1. /\ UNCHANGED worker /\ \A i \in Job \ {j} : task'[i] = task[i]
        /\ task'[j].outcome = task[j].outcome
        /\ \/ task'[j].phase = task[j].phase
           \/ task[j].phase = "ended" /\ task'[j].phase = "delivered"
    BY <1>2 DEF Abandon, Done, Typed, TaskType, Future
  <2>2. QED
    BY <2>1 DEF OneRuns, Over
<1>3. CASE Worker
  <2>1. ASSUME NEW j \in Job, Takes(j) PROVE OneRuns'
    <3>1. worker.job = 0
      BY <2>1 DEF Typed, WorkerType, Takes
    <3>2. QED
      BY <2>1, <3>1, SessionAssumption DEF Takes, OneRuns, Over, Job
  <2>2. ASSUME NEW out \in Outcome, Ends(out) PROVE OneRuns'
    BY <2>2, SessionAssumption DEF Ends, OneRuns, Over, Job
  <2>3. CASE Proceeds \/ Writes \/ UNCHANGED <<worker, task>>
    BY <2>3 DEF Proceeds, Writes, OneRuns
  <2>4. QED
    BY <1>3, <2>1, <2>2, <2>3, WorkerMoves DEF Outcome
<1>4. CASE Close \/ Serve \/ Write \/ Break \/ UNCHANGED vars
  BY <1>4 DEF Close, Serve, Write, Break, vars, OneRuns
<1>5. QED
  BY <1>1, <1>2, <1>3, <1>4 DEF Next, Loop

-----------------------------------------------------------------------------
(***************************************************************************)
(* The connection a transaction is written to.                             *)
(***************************************************************************)

LEMMA StepConnects ==
  ASSUME Typed, Connects, [Next]_vars PROVE Connects'
<1>. USE DEF Connects
<1>1. CASE Loop
  <2>1. /\ UNCHANGED <<wire, worker>> /\ session'.ready = session.ready
        /\ session'.generation = session.generation /\ session'.monitor = session.monitor
    BY <1>1, LoopLeaves DEF Typed
  <2>2. QED
    BY <2>1
<1>2. ASSUME NEW j \in Job, Take(j) PROVE Connects'
  <2>1. CASE task[j].kind = "reconnect"
    BY <1>2, <2>1 DEF Typed, WireType, Take, Stage, Invalidate, Forgotten
  <2>2. CASE task[j].kind # "reconnect"
    BY <1>2, <2>2 DEF Typed, Take, Stage
  <2>3. QED
    BY <2>1, <2>2
<1>3. CASE Shutdown
  BY <1>3 DEF Typed, WorkerType, Shutdown, Goto, Stage, NoWire
<1>4. CASE Connect
  BY <1>4 DEF Typed, Connect, Stage, Forgotten, NoWire
<1>5. CASE Lose
  <2>1. wire' = NoWire /\ session' = Forgotten
        /\ (worker'.stage = "idle" \/ worker'.stage = "connect")
    BY <1>5 DEF Lose, End, Stage
  <2>2. QED
    BY <2>1 DEF Typed, NoWire, Forgotten
<1>6. CASE Connected
  BY <1>6 DEF Typed, WireType, WorkerType, Connected, Goto, Send, Stage
<1>7. CASE GiveUp
  BY <1>7 DEF Typed, GiveUp, End, Stage
<1>8. CASE Expire
  BY <1>8 DEF Typed, WireType, Expire, Invalidate, Forgotten, End
<1>9. CASE Snapshot \/ NotSent
  BY <1>9 DEF Typed, Snapshot, NotSent, End
<1>10. CASE Transact
  BY <1>10 DEF Typed, WireType, WorkerType, Transact, Drained, Goto, Send, Stage
<1>11. ASSUME NEW m \in Range(wire.in), Pump(m) PROVE Connects'
  <2>1. CASE Update(m)
    <3>1. CASE session' = [session EXCEPT !.cache = Applied(m)] /\ wire' = Read
               /\ UNCHANGED worker
      BY <3>1 DEF Typed, WireType, Read
    <3>2. CASE session' = Forgotten /\ worker' = [stage |-> "idle", job |-> 0]
               /\ wire' = [Read EXCEPT !.condemned = TRUE]
      BY <3>2 DEF Typed, WireType, Read, Forgotten
    <3>3. QED
      BY <2>1, <3>1, <3>2 DEF Update, End
  <2>2. CASE SchemaReply(m)
    BY <1>11, <2>2
       DEF Typed, WireType, WorkerType, SchemaReply, Goto, Send, Stage, Reads, Read
  <2>3. CASE MonitorReply(m)
    BY <1>11, <2>3
       DEF Typed, WireType, WorkerType, MonitorReply, Goto, Stage, Reads, Read
  <2>4. CASE ErrorReply(m) \/ TransactReply(m)
    BY <1>11, <2>4 DEF Typed, WireType, ErrorReply, TransactReply, End, Read
  <2>5. QED
    BY <1>11, <2>1, <2>2, <2>3, <2>4 DEF Pump
<1>12. CASE Serve
  BY <1>12 DEF Typed, WireType, Serve
<1>13. CASE Write
  BY <1>13 DEF Typed, WireType, Write
<1>14. CASE Break
  BY <1>14 DEF Typed, WireType, Break
<1>15. CASE UNCHANGED vars
  BY <1>15 DEF vars
<1>16. QED
  BY <1>1, <1>2, <1>3, <1>4, <1>5, <1>6, <1>7, <1>8, <1>9, <1>10, <1>11, <1>12, <1>13,
     <1>14, <1>15 DEF Next, Worker

LEMMA WorkerLeaves ==
  ASSUME Typed, Worker, ~Connect
  PROVE  /\ session'.generation = session.generation
         /\ session'.stopping = session.stopping
<1>1. ASSUME session' = Forgotten \/ UNCHANGED session
      PROVE  /\ session'.generation = session.generation
             /\ session'.stopping = session.stopping
  BY <1>1 DEF Typed, Forgotten
<1>2. ASSUME NEW j \in Job, Take(j) PROVE session' = Forgotten \/ UNCHANGED session
  BY <1>2 DEF Take, Invalidate
<1>3. CASE Lose \/ Connected \/ Snapshot \/ NotSent \/ Transact \/ Shutdown
  BY <1>1, <1>3 DEF Lose, Connected, Snapshot, NotSent, Transact, Shutdown
<1>4. CASE Expire
  BY <1>1, <1>4 DEF Expire, Invalidate
<1>5. CASE GiveUp
  BY <1>5 DEF Typed, GiveUp
<1>6. ASSUME NEW m \in Range(wire.in), Update(m) \/ SchemaReply(m) \/ MonitorReply(m)
      PROVE  /\ session'.generation = session.generation
             /\ session'.stopping = session.stopping
  <2>1. CASE Update(m)
    BY <1>1, <2>1 DEF Typed, Update
  <2>2. CASE SchemaReply(m)
    BY <2>2 DEF Typed, SchemaReply
  <2>3. CASE MonitorReply(m)
    BY <2>3 DEF Typed, MonitorReply
  <2>4. QED
    BY <1>6, <2>1, <2>2, <2>3
<1>7. ASSUME NEW m \in Range(wire.in), ErrorReply(m) \/ TransactReply(m)
      PROVE  UNCHANGED session
  BY <1>7 DEF ErrorReply, TransactReply
<1>8. QED
  BY <1>1, <1>2, <1>3, <1>4, <1>5, <1>6, <1>7 DEF Worker, Pump

LEMMA Generations ==
  ASSUME Typed, [Next]_vars
  PROVE  /\ session.generation \in Nat /\ session'.generation \in Nat
         /\ session.stopping => session'.stopping
         /\ session'.generation = session.generation
            \/ (/\ worker.stage = "connect" /\ UNCHANGED <<worker, task>>
                /\ session'.generation = session.generation + 1)
<1>1. session.generation \in Nat
  BY DEF Typed
<1>2. CASE Connect
  BY <1>1, <1>2 DEF Typed, Connect, Stage, Forgotten
<1>3. CASE Loop \/ UNCHANGED vars
  BY <1>1, <1>3, LoopLeaves DEF Typed
<1>4. CASE Serve \/ Write \/ Break
  BY <1>1, <1>4 DEF Serve, Write, Break
<1>5. CASE Worker /\ ~Connect
  BY <1>1, <1>5, WorkerLeaves
<1>6. QED
  BY <1>2, <1>3, <1>4, <1>5 DEF Next

\* What the event loop, the server and the network leave alone.
LEMMA OthersLeave ==
  ASSUME Typed, Loop \/ Serve \/ Write \/ Break \/ UNCHANGED vars
  PROVE  /\ UNCHANGED worker
         /\ session' = [session EXCEPT !.stopping = session'.stopping]
         /\ \A j \in Job :
              /\ task'[j].sentOn = task[j].sentOn
              /\ task'[j].outcome = task[j].outcome
              /\ task'[j].version = task[j].version
              /\ task'[j].generation = task[j].generation
              /\ \/ task'[j].phase = task[j].phase /\ task'[j].pin = task[j].pin
                 \/ task[j].phase = "new" /\ task'[j].phase = "queued"
                 \/ /\ task[j].phase = "ended" /\ task'[j].phase = "delivered"
                    /\ task'[j].pin = task[j].pin
<1>2. CASE Loop
  <2>1. UNCHANGED worker /\ session' = [session EXCEPT !.stopping = session'.stopping]
    BY <1>2, LoopLeaves
  <2>2. ASSUME NEW j \in Job, NEW g \in 0..MaxGeneration,
               NEW k \in {"snapshot", "transact", "reconnect"}, Work(j, k, g)
        PROVE /\ \A i \in Job \ {j} : task'[i] = task[i]
              /\ task'[j].sentOn = task[j].sentOn /\ task'[j].outcome = task[j].outcome
              /\ task'[j].version = task[j].version
              /\ task'[j].generation = task[j].generation
              /\ task[j].phase = "new" /\ task'[j].phase = "queued"
    BY <2>2 DEF Work, Typed, TaskType, Future
  <2>3. ASSUME NEW j \in Job, Abandon(j) \/ Done(j)
        PROVE /\ \A i \in Job \ {j} : task'[i] = task[i]
              /\ task'[j].sentOn = task[j].sentOn /\ task'[j].outcome = task[j].outcome
              /\ task'[j].version = task[j].version
              /\ task'[j].generation = task[j].generation
              /\ task'[j].pin = task[j].pin
              /\ \/ task'[j].phase = task[j].phase
                 \/ task[j].phase = "ended" /\ task'[j].phase = "delivered"
    <3>1. CASE Abandon(j)
      BY <3>1 DEF Abandon, Typed, TaskType, Future
    <3>2. CASE Done(j)
      BY <3>2 DEF Done, Typed, TaskType, Future
    <3>3. QED
      BY <2>3, <3>1, <3>2
  <2>4. CASE Close
    BY <2>1, <2>4 DEF Close
  <2>5. QED
    BY <1>2, <2>1, <2>2, <2>3, <2>4 DEF Loop
<1>3. CASE Serve \/ Write \/ Break \/ UNCHANGED vars
  BY <1>3 DEF Typed, Serve, Write, Break, vars
<1>4. QED
  BY <1>2, <1>3

LEMMA StepSentOnce ==
  ASSUME Typed, OneRuns, SentOnce, Connects, [Next]_vars PROVE SentOnce'
<1>. worker.job # 0 => worker.job \in Job
  BY SessionAssumption DEF Typed, WorkerType, Job
<1>. \A j \in Job : j # 0
  BY DEF Job
<1>. /\ session.generation \in Nat /\ session'.generation \in Nat
     /\ \A j \in Job : task[j].sentOn \in Nat
  BY Generations DEF Typed, TaskType, Future
<1>1. \A j \in Job : task[j].phase \in {"new", "queued"} => task[j].sentOn = 0
  BY DEF OneRuns, SentOnce, Over
<1>2. CASE Loop \/ Serve \/ Write \/ Break \/ UNCHANGED vars
  BY <1>1, <1>2, OthersLeave DEF Typed, SentOnce, Over, WorkerType
<1>3. CASE Worker
  <2>1. CASE UNCHANGED <<worker, task>>
    BY <2>1, Generations DEF SentOnce
  <2>2. CASE session'.generation = session.generation /\ Proceeds
    BY <2>2 DEF Proceeds, Follows, SentOnce
  <2>3. ASSUME NEW j \in Job, Takes(j), session'.generation = session.generation
        PROVE SentOnce'
    BY <1>1, <2>3 DEF Takes, SentOnce, Over
  <2>4. ASSUME NEW out, Ends(out), session'.generation = session.generation
        PROVE SentOnce'
    BY <2>4 DEF Ends, SentOnce, Over
  <2>5. CASE session'.generation = session.generation /\ Writes
    BY <2>5 DEF Writes, Transact, BoundElsewhere, SentOnce, Connects
  <2>6. QED
    BY <1>3, <2>1, <2>2, <2>3, <2>4, <2>5, WorkerMoves, Generations
<1>4. QED
  BY <1>2, <1>3 DEF Next

\* A job that is reported as not ready has written nothing, if no update breaks the
\* limits while its reply is awaited.
LEMMA StepPin ==
  ASSUME NoOverflow, Typed, OneRuns, SentOnce, Connects, PinHonoured, [Next]_vars
  PROVE  PinHonoured'
<1>. worker.job # 0 => worker.job \in Job
  BY SessionAssumption DEF Typed, WorkerType, Job
<1>1. SentOnce'
  BY StepSentOnce
<1>2. ASSUME NEW j \in Job, task'[j].sentOn # 0 PROVE task'[j].outcome # "unready"
  <2>1. CASE Loop \/ Serve \/ Write \/ Break \/ UNCHANGED vars
    BY <1>2, <2>1, OthersLeave DEF PinHonoured
  <2>2. CASE Worker
    <3>1. CASE UNCHANGED <<worker, task>> \/ Proceeds
      BY <1>2, <3>1 DEF Proceeds, PinHonoured
    <3>2. ASSUME NEW i \in Job, Takes(i) PROVE task'[j].outcome # "unready"
      <4>1. task[i].outcome = "none"
        BY <3>2 DEF Takes, OneRuns, Over
      <4>2. QED
        BY <1>2, <3>2, <4>1 DEF Takes, PinHonoured
    <3>3. ASSUME NEW out \in Outcome \ {"none", "unready"}, Ends(out)
          PROVE task'[j].outcome # "unready"
      BY <1>2, <3>3 DEF Ends, PinHonoured
    <3>4. CASE Ends("unready") /\ (worker.stage = "reply" => "overflow" \in Hazards)
      <4>1. task[worker.job].sentOn = 0
        BY NoOverflow, <3>4 DEF Ends, NoOverflow, SentOnce, OneRuns, Over, Job
      <4>2. QED
        BY <1>2, <3>4, <4>1 DEF Ends, PinHonoured
    <3>5. CASE Writes
      <4>1. task[worker.job].outcome = "none"
        BY <3>5 DEF Writes, OneRuns, Over, Job
      <4>2. QED
        BY <1>2, <3>5, <4>1 DEF Writes, PinHonoured
    <3>6. QED
      BY <2>2, <3>1, <3>2, <3>3, <3>4, <3>5, WorkerMoves
  <2>3. QED
    BY <2>1, <2>2 DEF Next
<1>3. QED
  BY <1>1, <1>2 DEF SentOnce, PinHonoured

Jobs == Typed /\ Budget /\ OneRuns /\ SentOnce /\ Connects

LEMMA InitJobs == Init => Jobs /\ PinHonoured
<1>. SUFFICES ASSUME Init PROVE Jobs /\ PinHonoured
  OBVIOUS
<1>. USE DEF Init
<1>1. Typed
  <2>1. WireType /\ WorkerType
    BY NoWireType, SessionAssumption DEF WireType, WorkerType, NoWire
  <2>2. TaskType
    BY DEF TaskType, Future, Outcome
  <2>3. QED
    BY <2>1, <2>2 DEF Typed
<1>2. Budget
  <2>1. Held = {}
    BY DEF Held
  <2>2. QED
    BY <2>1, FS_EmptySet, SessionAssumption DEF Budget
<1>3. QED
  BY <1>1, <1>2 DEF Jobs, OneRuns, SentOnce, Connects, PinHonoured, NoWire

LEMMA StepJobs == ASSUME Jobs, [Next]_vars PROVE Jobs'
BY StepType, StepBudget, StepOneRuns, StepSentOnce, StepConnects DEF Jobs

\* The session is well typed and the pool never holds more jobs than the budget,
\* for any number of jobs, connections and commits and with all failures: a caller
\* that gives up does not give its job's slot away.
THEOREM BudgetKept == Spec => []WithinBudget
<1>1. Jobs => WithinBudget
  BY DEF Jobs, Typed, Budget, WithinBudget, TypeOK
<1>2. QED
  BY <1>1, InitJobs, StepJobs, PTL DEF Spec

\* A transaction is written to the connection it is bound to or to none, and to none
\* if its job reports the session as not ready. The hypothesis is needed for the
\* latter: a message that breaks the limits ends a job that awaits a reply so.
THEOREM WrittenWherePinned ==
  ASSUME NoOverflow PROVE Spec => []PinHonoured
<1>1. Jobs /\ PinHonoured /\ [Next]_vars => (Jobs /\ PinHonoured)'
  BY NoOverflow, StepJobs, StepPin DEF Jobs
<1>2. QED
  BY <1>1, InitJobs, PTL DEF Spec

-----------------------------------------------------------------------------
(***************************************************************************)
(* Messages and requests under way.                                        *)
(***************************************************************************)

LEMMA Domains ==
  ASSUME Typed
  PROVE  /\ wire.in \in Seq(Message) /\ wire.out \in Seq(Request)
         /\ Len(wire.in) \in Nat /\ DOMAIN wire.in = 1..Len(wire.in)
         /\ Len(wire.out) \in Nat /\ DOMAIN wire.out = 1..Len(wire.out)
         /\ \A i \in DOMAIN wire.in : wire.in[i] \in Message
         /\ \A i \in DOMAIN wire.out : wire.out[i] \in Request
         /\ wire.out = <<>> <=> Len(wire.out) = 0
<1>1. wire.in \in Seq(Message) /\ wire.out \in Seq(Request)
  BY DEF Typed, WireType
<1>2. QED
  BY <1>1, LenProperties, EmptySeq, ElementOfSeq

\* Reading moves what is left by one place.
LEMMA Reading ==
  ASSUME Typed, NEW m, Reads(m)
  PROVE  LET rest == Tail(wire.in)
         IN  /\ 1 \in DOMAIN wire.in /\ m = wire.in[1] /\ m \in Message
             /\ rest \in Seq(Message) /\ Len(rest) = Len(wire.in) - 1
             /\ \A i \in DOMAIN rest :
                  i \in Nat \ {0} /\ i + 1 \in DOMAIN wire.in /\ rest[i] = wire.in[i + 1]
<1>1. wire.in # <<>> /\ m = Head(wire.in)
  BY DEF Reads
<1>2. Len(wire.in) \in Nat \ {0}
  BY <1>1, Domains, EmptySeq
<1>3. Head(wire.in) = wire.in[1]
  BY <1>1, Domains
<1>4. /\ Tail(wire.in) \in Seq(Message) /\ Len(Tail(wire.in)) = Len(wire.in) - 1
      /\ \A i \in 1..Len(Tail(wire.in)) : Tail(wire.in)[i] = wire.in[i + 1]
  BY <1>1, Domains, HeadTailProperties
<1>5. DOMAIN Tail(wire.in) = 1..(Len(wire.in) - 1)
  BY <1>4, LenProperties
<1>6. QED
  BY <1>1, <1>2, <1>3, <1>4, <1>5, Domains

LEMMA Appending ==
  ASSUME NEW in \in Seq(Message), NEW m \in Message
  PROVE  LET more == Append(in, m)
         IN  /\ more \in Seq(Message) /\ Len(in) \in Nat /\ Len(more) = Len(in) + 1
             /\ DOMAIN in = 1..Len(in) /\ DOMAIN more = 1..(Len(in) + 1)
             /\ \A i \in DOMAIN in : i < Len(in) + 1 /\ more[i] = in[i]
             /\ more[Len(in) + 1] = m
<1>1. Len(in) \in Nat /\ DOMAIN in = 1..Len(in)
  BY LenProperties
<1>2. /\ Append(in, m) \in Seq(Message) /\ Len(Append(in, m)) = Len(in) + 1
      /\ \A i \in 1..Len(in) : Append(in, m)[i] = in[i]
      /\ Append(in, m)[Len(in) + 1] = m
  BY AppendProperties
<1>3. DOMAIN Append(in, m) = 1..(Len(in) + 1)
  BY <1>2, LenProperties
<1>4. QED
  BY <1>1, <1>2, <1>3

LEMMA Cutting ==
  ASSUME Typed, NEW n \in 0..Len(wire.in)
  PROVE  LET left == SubSeq(wire.in, 1, n)
         IN  left \in Seq(Message) /\ DOMAIN left \subseteq DOMAIN wire.in
             /\ \A i \in DOMAIN left :
                  /\ left[i] = wire.in[i]
                  /\ \A k \in DOMAIN wire.in : k < i => k \in DOMAIN left
<1>1. \A i \in 1..n : wire.in[i] \in Message
  BY Domains
<1>2. n \in Int /\ n = n - 1 + 1 /\ (1 > n => n = 0)
  BY Domains
<1>3. /\ SubSeq(wire.in, 1, n) \in Seq(Message) /\ Len(SubSeq(wire.in, 1, n)) = n
      /\ \A i \in 1..n : SubSeq(wire.in, 1, n)[i] = wire.in[i]
  BY <1>1, <1>2, Domains, SubSeqProperties
<1>4. DOMAIN SubSeq(wire.in, 1, n) = 1..n
  BY <1>3, LenProperties
<1>5. QED
  BY <1>3, <1>4, Domains

\* The oldest request is the only one.
LEMMA OnlyRequest ==
  ASSUME Typed, Len(wire.out) \in 0..1, wire.out # <<>>
  PROVE  /\ Tail(wire.out) = <<>> /\ DOMAIN wire.out = {1}
         /\ Head(wire.out) = wire.out[1] /\ wire.out[1] \in Request
<1>0. Len(wire.out) \in Nat /\ Len(wire.out) # 0
  BY Domains
<1>1. Len(wire.out) = 1
  <2>1. \A n \in Nat : n <= 1 /\ n # 0 => n = 1
    OBVIOUS
  <2>2. QED
    BY <1>0, <2>1
<1>2. Tail(wire.out) \in Seq(Request) /\ Len(Tail(wire.out)) = 0
  BY <1>1, Domains, HeadTailProperties
<1>3. QED
  BY <1>1, <1>2, Domains, EmptySeq

\* A request that is written when none is under way.
LEMMA Sending ==
  ASSUME WireType, worker.job \in Job, NEW r \in {"schema", "monitor", "transact"},
         NEW in, wire.out = <<>>
  PROVE  LET c == Send([wire EXCEPT !.in = in], r)
         IN  /\ c.in = in /\ c.condemned = wire.condemned /\ c.broken = wire.broken
             /\ c.subscribed = wire.subscribed /\ c.up = wire.up
             /\ c.out = IF wire.broken THEN <<>> ELSE <<[ask |-> r, job |-> worker.job]>>
<1>. DEFINE asked == [ask |-> r, job |-> worker.job]
<1>1. Append(<<>>, asked) = <<asked>>
  OBVIOUS
<1>2. QED
  BY <1>1 DEF WireType, Send

LEMMA OneRequest ==
  ASSUME NEW r PROVE Len(<<r>>) = 1 /\ DOMAIN <<r>> = {1} /\ <<r>>[1] = r /\ <<r>> # <<>>
OBVIOUS

-----------------------------------------------------------------------------
(***************************************************************************)
(* One request or reply at a time.                                         *)
(***************************************************************************)

LEMMA UpdateRead ==
  ASSUME Typed, AtMostOne, NEW m, Reads(m),
         wire'.out = wire.out, wire'.broken = wire.broken, wire'.in = Tail(wire.in)
  PROVE  AtMostOne' /\ (Quiet => Quiet')
<1>1. \A i \in DOMAIN wire'.in : /\ i \in Nat \ {0} /\ i + 1 \in DOMAIN wire.in
                                 /\ wire'.in[i] = wire.in[i + 1]
  BY Reading
<1>2. \A i, k \in Nat : i + 1 = k + 1 => i = k
  OBVIOUS
<1>3. QED
  BY <1>1, <1>2 DEF AtMostOne, Quiet, NoReply, IsReply

LEMMA ReplyRead ==
  ASSUME Typed, AtMostOne, NEW m, Reads(m), IsReply(m)
  PROVE  /\ wire.out = <<>>
         /\ \A i \in DOMAIN Tail(wire.in) : ~IsReply(Tail(wire.in)[i])
<1>1. /\ 1 \in DOMAIN wire.in /\ m = wire.in[1]
      /\ \A i \in DOMAIN Tail(wire.in) : /\ i \in Nat \ {0} /\ i + 1 \in DOMAIN wire.in
                                         /\ Tail(wire.in)[i] = wire.in[i + 1]
  BY Reading
<1>2. \A i \in Nat \ {0} : i + 1 # 1
  OBVIOUS
<1>3. QED
  BY <1>1, <1>2 DEF AtMostOne, IsReply

\* A request is written when nothing is under way, and that is what is awaited.
LEMMA RequestWritten ==
  ASSUME Typed, worker.job \in Job, NEW s \in DOMAIN Asks, NEW in,
         wire.out = <<>>, wire.broken \in BOOLEAN,
         \A i \in DOMAIN in : ~IsReply(in[i]),
         wire' = Send([wire EXCEPT !.in = in], Asks[s]),
         worker'.stage = s, worker'.job = worker.job
  PROVE  OneAsked' /\ Fitting'
<1>1. Asks[s] \in {"schema", "monitor", "transact"}
  BY DEF Asks
<1>2. /\ wire'.in = in /\ wire'.broken = wire.broken
      /\ wire'.out = IF wire.broken THEN <<>>
                     ELSE <<[ask |-> Asks[s], job |-> worker.job]>>
  <2>. DEFINE c == Send([wire EXCEPT !.in = in], Asks[s])
  <2>1. WireType
    BY DEF Typed
  <2>2. /\ c.in = in /\ c.broken = wire.broken
        /\ c.out = IF wire.broken THEN <<>>
                   ELSE <<[ask |-> Asks[s], job |-> worker.job]>>
    BY <1>1, <2>1, Sending
  <2>3. wire' = c
    OBVIOUS
  <2>. HIDE DEF c
  <2>4. QED
    BY <2>2, <2>3
<1>3. Len(<<>>) = 0 /\ DOMAIN <<>> = {}
  OBVIOUS
<1>4. AtMostOne' /\ Fitting'
  <2>1. CASE wire.broken
    BY <1>2, <1>3, <2>1 DEF AtMostOne, Fitting
  <2>2. CASE ~wire.broken
    <3>. DEFINE r == [ask |-> Asks[s], job |-> worker.job]
    <3>1. wire'.out = <<r>>
      BY <1>2, <2>2
    <3>2. Len(wire'.out) = 1 /\ DOMAIN wire'.out = {1} /\ wire'.out[1] = r
      BY <3>1, OneRequest
    <3>. HIDE DEF r
    <3>3. AtMostOne'
      <4>1. \A i \in DOMAIN wire'.in : ~IsReply(wire'.in[i])
        BY <1>2
      <4>2. ~wire'.broken /\ Len(wire'.out) \in 0..1
        BY <1>2, <2>2, <3>2
      <4>3. QED
        BY <4>1, <4>2 DEF AtMostOne, IsReply
    <3>4. QED
      BY <1>2, <3>2, <3>3 DEF Fitting, r
  <2>3. QED
    BY <2>1, <2>2
<1>5. ~Between'
  BY DEF Between, Asks
<1>6. QED
  BY <1>4, <1>5 DEF OneAsked

LEMMA Emptied ==
  ASSUME wire'.out = <<>>, wire'.in = <<>> PROVE AtMostOne' /\ Quiet' /\ Fitting'
<1>1. Len(<<>>) = 0 /\ DOMAIN <<>> = {}
  OBVIOUS
<1>2. QED
  BY <1>1 DEF AtMostOne, Quiet, NoReply, Fitting

\* Only a change of these can disturb what is under way.
LEMMA SameConversation ==
  ASSUME OneAsked, UNCHANGED <<wire, worker>>,
         session'.stopping = session.stopping \/ session'.stopping
  PROVE  OneAsked' /\ (Fitting => Fitting')
BY DEF OneAsked, AtMostOne, Between, Quiet, NoReply, Fitting, IsReply

LEMMA WorkerConversation ==
  ASSUME Typed, Connects, OneAsked, Fitting, Worker PROVE OneAsked' /\ Fitting'
<1>. worker.stage \notin {"idle", "closed"} => worker.job \in Job
  BY JobOfStage
<1>. wire.broken \in BOOLEAN
  BY DEF Typed, WireType
<1>1. ASSUME NEW j \in Job, Take(j) PROVE OneAsked' /\ Fitting'
  <2>1. wire'.in = wire.in /\ wire'.out = wire.out /\ wire'.broken = wire.broken
        /\ (Between' => Between) /\ worker'.stage \in {"idle", "connect"}
    <3>1. CASE task[j].kind = "reconnect"
      <4>1. ~wire.up => ~wire.condemned
        BY DEF Typed, WireType, NoWire
      <4>2. /\ wire' = [wire EXCEPT !.condemned = wire.up] /\ session' = Forgotten
            /\ worker' = worker /\ worker.stage = "idle"
        BY <1>1, <3>1 DEF Take, Invalidate, Stage
      <4>3. QED
        BY <4>1, <4>2 DEF Typed, WireType, Forgotten, Between
    <3>2. CASE task[j].kind # "reconnect"
      BY <1>1, <3>2 DEF Typed, Take, Between, Stage
    <3>3. QED
      BY <3>1, <3>2
  <2>2. QED
    BY <2>1 DEF OneAsked, AtMostOne, Quiet, NoReply, IsReply, Fitting, Asks
<1>2. CASE Shutdown \/ Connect
  <2>1. wire'.out = <<>> /\ wire'.in = <<>>
    BY <1>2 DEF Shutdown, Connect, NoWire
  <2>2. QED
    BY <2>1, Emptied DEF OneAsked
<1>3. CASE Lose
  <2>1. wire'.out = <<>> /\ wire'.in = <<>>
    BY <1>3 DEF Lose, NoWire
  <2>2. QED
    BY <2>1, Emptied DEF OneAsked
<1>4. CASE Connected
  <2>1. Quiet /\ worker.stage = "connect"
    BY <1>4 DEF Connected, OneAsked, Between, Stage
  <2>2. CASE session.ready
    BY <1>4, <2>1, <2>2
       DEF Typed, WorkerType, Connected, Goto, OneAsked, AtMostOne, Between, Quiet,
           NoReply, IsReply, Fitting, Asks
  <2>3. CASE ~session.ready
    <3>1. wire' = Send([wire EXCEPT !.in = wire.in], "schema")
      <4>1. [wire EXCEPT !.in = wire.in] = wire
        BY DEF Typed, WireType
      <4>2. QED
        BY <1>4, <2>3, <4>1 DEF Connected
    <3>2. worker'.stage = "schema" /\ worker'.job = worker.job
      BY <1>4, <2>3 DEF Typed, WorkerType, Connected, Goto
    <3>3. Asks["schema"] = "schema" /\ "schema" \in DOMAIN Asks
      BY DEF Asks
    <3>4. wire.out = <<>> /\ \A i \in DOMAIN wire.in : ~IsReply(wire.in[i])
      BY <2>1 DEF Quiet, NoReply
    <3>5. QED
      BY <2>1, <3>1, <3>2, <3>3, <3>4, RequestWritten
  <2>4. QED
    BY <2>2, <2>3
<1>5. CASE GiveUp
  BY <1>5 DEF Typed, GiveUp, End, Stage, OneAsked, AtMostOne, Between, Quiet, NoReply,
              IsReply, Fitting, Asks
<1>6. CASE Expire
  <2>1. wire'.in = wire.in /\ wire'.out = wire.out /\ wire'.broken = wire.broken
        /\ (wire'.condemned \/ session'.stopping) /\ worker'.stage = "idle"
    BY <1>6 DEF Typed, WireType, Expire, Invalidate, Forgotten, Connects, Waiting,
                Stage, End
  <2>2. QED
    BY <2>1 DEF OneAsked, AtMostOne, Between, Quiet, NoReply, IsReply, Fitting, Asks
<1>7. CASE Snapshot \/ NotSent
  <2>1. UNCHANGED wire /\ worker.stage = "drain" /\ worker'.stage = "idle"
    BY <1>7 DEF Snapshot, NotSent, Drained, Stage, End
  <2>2. QED
    BY <2>1 DEF OneAsked, AtMostOne, Between, Quiet, NoReply, IsReply, Fitting, Asks
<1>8. CASE Transact
  <2>1. Quiet /\ worker.stage = "drain"
    BY <1>8 DEF Transact, Drained, Stage, OneAsked, Between
  <2>2. wire' = Send([wire EXCEPT !.in = wire.in], "transact")
    <3>1. [wire EXCEPT !.in = wire.in] = wire
      BY DEF Typed, WireType
    <3>2. QED
      BY <1>8, <3>1 DEF Transact
  <2>3. worker'.stage = "reply" /\ worker'.job = worker.job
    BY <1>8 DEF Typed, WorkerType, Transact, Goto
  <2>4. Asks["reply"] = "transact" /\ "reply" \in DOMAIN Asks
    BY DEF Asks
  <2>5. wire.out = <<>> /\ \A i \in DOMAIN wire.in : ~IsReply(wire.in[i])
    BY <2>1 DEF Quiet, NoReply
  <2>6. QED
    BY <2>1, <2>2, <2>3, <2>4, <2>5, RequestWritten
<1>9. ASSUME NEW m \in Range(wire.in), Update(m) PROVE OneAsked' /\ Fitting'
  <2>1. Reads(m) /\ wire.up /\ ~wire.condemned
    BY <1>9 DEF Update, Reads
  <2>2. wire'.out = wire.out /\ wire'.broken = wire.broken /\ wire'.in = Tail(wire.in)
    BY <1>9 DEF Typed, WireType, Update, Read
  <2>3. AtMostOne' /\ (Quiet => Quiet')
    BY <2>1, <2>2, UpdateRead DEF OneAsked
  <2>4. \A i \in DOMAIN wire'.in : i + 1 \in DOMAIN wire.in /\ wire'.in[i] = wire.in[i + 1]
    BY <2>1, <2>2, Reading
  <2>5. CASE UNCHANGED worker /\ session'.stopping = session.stopping /\ wire' = Read
    <3>1. Between' => Between
      BY <2>1, <2>5 DEF Between
    <3>2. Fitting'
      BY <2>2, <2>4, <2>5 DEF Fitting, IsReply
    <3>3. QED
      BY <2>3, <3>1, <3>2 DEF OneAsked
  <2>6. CASE worker'.stage = "idle" /\ wire'.condemned
    BY <2>3, <2>6 DEF OneAsked, Between, Fitting, Asks
  <2>7. QED
    <3>1. \/ UNCHANGED worker /\ wire' = Read
             /\ session' = [session EXCEPT !.cache = Applied(m)]
          \/ wire' = [Read EXCEPT !.condemned = TRUE] /\ End("unready")
      BY <1>9 DEF Update
    <3>2. ASSUME wire' = [Read EXCEPT !.condemned = TRUE], End("unready")
          PROVE worker'.stage = "idle" /\ wire'.condemned
      BY <3>2 DEF Typed, WireType, Read, End
    <3>3. session' = [session EXCEPT !.cache = Applied(m)]
            => session'.stopping = session.stopping
      BY DEF Typed
    <3>4. QED
      BY <2>5, <2>6, <3>1, <3>2, <3>3
<1>10. ASSUME NEW m \in Range(wire.in), SchemaReply(m) PROVE OneAsked' /\ Fitting'
  <2>1. Reads(m) /\ IsReply(m)
    BY <1>10 DEF SchemaReply, IsReply
  <2>2. wire.out = <<>> /\ \A i \in DOMAIN Tail(wire.in) : ~IsReply(Tail(wire.in)[i])
    BY <2>1, ReplyRead DEF OneAsked
  <2>3. wire' = Send([wire EXCEPT !.in = Tail(wire.in)], "monitor")
    BY <1>10 DEF SchemaReply, Read
  <2>4. worker'.stage = "monitor" /\ worker'.job = worker.job /\ worker.job \in Job
    BY <1>10 DEF Typed, WorkerType, SchemaReply, Goto, Stage
  <2>5. Asks["monitor"] = "monitor" /\ "monitor" \in DOMAIN Asks
    BY DEF Asks
  <2>6. QED
    BY <2>2, <2>3, <2>4, <2>5, RequestWritten
<1>11. ASSUME NEW m \in Range(wire.in),
              MonitorReply(m) \/ ErrorReply(m) \/ TransactReply(m)
       PROVE OneAsked' /\ Fitting'
  <2>1. Reads(m) /\ IsReply(m)
    BY <1>11 DEF MonitorReply, ErrorReply, TransactReply, IsReply
  <2>2. wire.out = <<>> /\ \A i \in DOMAIN Tail(wire.in) : ~IsReply(Tail(wire.in)[i])
    BY <2>1, ReplyRead DEF OneAsked
  <2>3. wire'.in = Tail(wire.in) /\ wire'.out = <<>> /\ worker'.stage \in {"idle", "drain"}
    <3>1. wire' = Read /\ (worker'.stage \in {"idle", "drain"})
      BY <1>11
         DEF Typed, WorkerType, MonitorReply, ErrorReply, TransactReply, Goto, End
    <3>2. QED
      BY <2>2, <3>1 DEF Typed, WireType, Read
  <2>4. Len(<<>>) \in 0..1
    OBVIOUS
  <2>5. AtMostOne' /\ Quiet'
    BY <2>2, <2>3, <2>4 DEF AtMostOne, Quiet, NoReply, IsReply
  <2>6. QED
    BY <2>3, <2>5 DEF OneAsked, Fitting, Asks
<1>12. QED
  BY <1>1, <1>2, <1>3, <1>4, <1>5, <1>6, <1>7, <1>8, <1>9, <1>10, <1>11
     DEF Worker, Pump

\* What the server answers: perhaps an update, then the reply.
Answers(base, reply) ==
  /\ wire'.in = Append(base, reply) /\ reply \in Message /\ IsReply(reply)
  /\ base \in {wire.in, Told}

Kept == db' = db /\ wire'.subscribed = wire.subscribed

LEMMA Served ==
  ASSUME Typed, AtMostOne, Serve
  PROVE  LET r == wire.out[1]
         IN  /\ wire.up /\ ~wire.broken /\ wire.out # <<>> /\ wire.out[1] \in Request
             /\ DOMAIN wire.out = {1}
             /\ wire'.out = <<>> /\ wire'.up = wire.up /\ wire'.broken = wire.broken
             /\ wire'.condemned = wire.condemned
             /\ UNCHANGED <<session, worker, task>>
             /\ \/ Answers(wire.in, Msg("error", 0)) /\ Kept
                \/ r.ask = "schema" /\ Answers(wire.in, Msg("schema", 0)) /\ Kept
                \/ /\ r.ask = "monitor" /\ Answers(wire.in, Msg("monitor", db.version))
                   /\ db' = db /\ wire'.subscribed
                \/ /\ r.ask = "transact" /\ Commit({r.job})
                   /\ Answers(Told, Msg("committed", db.version + 1))
                   /\ wire'.subscribed = wire.subscribed
                \/ r.ask = "transact" /\ Answers(wire.in, Msg("refused", 0)) /\ Kept
<1>. DEFINE r == wire.out[1]
<1>1. /\ wire.up /\ ~wire.broken /\ wire.out # <<>> /\ wire.out[1] \in Request
      /\ DOMAIN wire.out = {1} /\ Tail(wire.out) = <<>> /\ Head(wire.out) = r
      /\ UNCHANGED <<session, worker, task>>
  BY OnlyRequest DEF Serve, AtMostOne
<1>2. db.version \in Nat /\ db.version + 1 \in Nat
  BY DEF Typed
<1>3. \A t \in {"schema", "monitor", "committed", "refused", "error"}, v \in Nat :
        Msg(t, v) \in Message /\ IsReply(Msg(t, v)) /\ Msg(t, v).tell = t
  BY MsgType DEF Msg, IsReply
<1>4. \/ wire' = [wire EXCEPT !.out = <<>>, !.in = Append(wire.in, Msg("error", 0))]
         /\ db' = db
      \/ \E in : /\ wire' = [wire EXCEPT !.out = <<>>, !.in = in,
                              !.subscribed = wire.subscribed \/ r.ask = "monitor"]
                 /\ \/ r.ask = "schema" /\ in = Append(wire.in, Msg("schema", 0))
                       /\ db' = db
                    \/ r.ask = "monitor" /\ in = Append(wire.in, Msg("monitor", db.version))
                       /\ db' = db
                    \/ r.ask = "transact" /\ Commit({r.job})
                       /\ in = Append(Told, Msg("committed", db.version + 1))
                    \/ r.ask = "transact" /\ in = Append(wire.in, Msg("refused", 0))
                       /\ db' = db
  <2>. HIDE DEF r
  <2>1. QED
    BY <1>1 DEF Serve
<1>5. CASE wire' = [wire EXCEPT !.out = <<>>, !.in = Append(wire.in, Msg("error", 0))]
           /\ db' = db
  <2>1. /\ wire'.out = <<>> /\ wire'.up = wire.up /\ wire'.broken = wire.broken
        /\ wire'.condemned = wire.condemned /\ Kept
        /\ wire'.in = Append(wire.in, Msg("error", 0))
    BY <1>5 DEF Typed, WireType, Kept
  <2>2. Answers(wire.in, Msg("error", 0))
    BY <1>3, <2>1 DEF Answers
  <2>3. QED
    BY <1>1, <1>3, <2>1, <2>2
<1>6. ASSUME NEW in,
             wire' = [wire EXCEPT !.out = <<>>, !.in = in,
                                  !.subscribed = wire.subscribed \/ r.ask = "monitor"]
      PROVE /\ wire'.out = <<>> /\ wire'.up = wire.up /\ wire'.broken = wire.broken
            /\ wire'.condemned = wire.condemned /\ wire'.in = in
            /\ r.ask = "monitor" => wire'.subscribed
            /\ r.ask # "monitor" => wire'.subscribed = wire.subscribed
  BY <1>6 DEF Typed, WireType
<1>. HIDE DEF r
<1>7. ASSUME NEW in,
             wire' = [wire EXCEPT !.out = <<>>, !.in = in,
                                  !.subscribed = wire.subscribed \/ r.ask = "monitor"],
             \/ r.ask = "schema" /\ in = Append(wire.in, Msg("schema", 0)) /\ db' = db
             \/ /\ r.ask = "monitor" /\ in = Append(wire.in, Msg("monitor", db.version))
                /\ db' = db
             \/ /\ r.ask = "transact" /\ Commit({r.job})
                /\ in = Append(Told, Msg("committed", db.version + 1))
             \/ r.ask = "transact" /\ in = Append(wire.in, Msg("refused", 0)) /\ db' = db
      PROVE  \/ r.ask = "schema" /\ Answers(wire.in, Msg("schema", 0)) /\ Kept
             \/ /\ r.ask = "monitor" /\ Answers(wire.in, Msg("monitor", db.version))
                /\ db' = db /\ wire'.subscribed
             \/ /\ r.ask = "transact" /\ Commit({r.job})
                /\ Answers(Told, Msg("committed", db.version + 1))
                /\ wire'.subscribed = wire.subscribed
             \/ r.ask = "transact" /\ Answers(wire.in, Msg("refused", 0)) /\ Kept
  BY <1>2, <1>3, <1>6, <1>7 DEF Answers, Kept
<1>8. QED
  BY <1>1, <1>4, <1>5, <1>6, <1>7 DEF r

\* What is added to a sequence of messages, and where.
LEMMA Answered ==
  ASSUME Typed, NEW base, NEW reply, Answers(base, reply)
  PROVE  \E last \in DOMAIN wire'.in :
           /\ wire'.in[last] = reply
           /\ DOMAIN wire.in \subseteq DOMAIN wire'.in /\ last \notin DOMAIN wire.in
           /\ DOMAIN wire'.in \subseteq Nat
           /\ \A i \in DOMAIN wire.in : wire'.in[i] = wire.in[i] /\ i < last
           /\ \A i \in DOMAIN wire'.in \ DOMAIN wire.in :
                \/ i = last
                \/ /\ base # wire.in /\ wire.subscribed /\ i < last
                   /\ wire'.in[i] = Msg("update", db.version + 1)
                   /\ \A k \in DOMAIN wire.in : k < i
           /\ base # wire.in => \E i \in DOMAIN wire'.in : 
                i < last /\ wire'.in[i] = Msg("update", db.version + 1)
<1>1. wire.in \in Seq(Message) /\ Len(wire.in) \in Nat /\ DOMAIN wire.in = 1..Len(wire.in)
  BY Domains
<1>. DEFINE n == Len(wire.in)
            u == Msg("update", db.version + 1)
<1>2. u \in Message
  BY MsgType DEF Typed
<1>3. CASE base = wire.in
  <2>1. /\ DOMAIN wire'.in = 1..(n + 1) /\ wire'.in[n + 1] = reply
        /\ \A i \in DOMAIN wire.in : wire'.in[i] = wire.in[i]
    BY <1>1, <1>3, Appending DEF Answers
  <2>. HIDE DEF u
  <2>2. QED
    BY <1>1, <1>3, <2>1
<1>4. CASE base # wire.in
  <2>1. base = Append(wire.in, u) /\ wire.subscribed
    BY <1>4 DEF Answers, Told
  <2>2. /\ base \in Seq(Message) /\ Len(base) = n + 1
        /\ base[n + 1] = u /\ DOMAIN base = 1..(n + 1)
        /\ \A i \in DOMAIN wire.in : base[i] = wire.in[i]
    BY <1>1, <1>2, <2>1, Appending
  <2>3. /\ DOMAIN wire'.in = 1..(n + 1 + 1) /\ wire'.in[n + 1 + 1] = reply
        /\ \A i \in 1..(n + 1) : wire'.in[i] = base[i]
    BY <2>2, Appending DEF Answers
  <2>4. n \in Nat /\ n + 1 + 1 \in 1..(n + 1 + 1) /\ 1..n \subseteq 1..(n + 1 + 1)
        /\ n + 1 + 1 \notin 1..n /\ n + 1 \in 1..(n + 1) /\ n + 1 \in 1..(n + 1 + 1)
    BY <1>1
  <2>5. \A i \in 1..(n + 1 + 1) \ 1..n : i = n + 1 + 1 \/ i = n + 1
    BY <1>1
  <2>6. \A i \in 1..n : i < n + 1 /\ i < n + 1 + 1 /\ i \in 1..(n + 1)
    BY <1>1
  <2>7. wire'.in[n + 1] = u /\ \A i \in 1..n : wire'.in[i] = wire.in[i]
    BY <1>1, <2>2, <2>3, <2>4, <2>6
  <2>8. DOMAIN wire'.in \subseteq Nat
    BY <2>3
  <2>9. n + 1 < n + 1 + 1
    BY <1>1
  <2>. n + 1 + 1 \in DOMAIN wire'.in
    BY <2>3, <2>4
  <2>. WITNESS n + 1 + 1 \in DOMAIN wire'.in
  <2>. HIDE DEF u, n
  <2>10. QED
    BY <1>1, <1>4, <2>1, <2>2, <2>3, <2>4, <2>5, <2>6, <2>7, <2>8, <2>9 DEF u, n
<1>5. QED
  BY <1>3, <1>4

LEMMA Writing ==
  ASSUME Typed, Write
  PROVE  /\ wire'.out = wire.out /\ wire'.broken = wire.broken /\ wire'.up = wire.up
         /\ wire'.condemned = wire.condemned /\ wire'.subscribed = wire.subscribed
         /\ UNCHANGED <<session, worker, task>>
         /\ DOMAIN wire.in \subseteq DOMAIN wire'.in
         /\ \A i \in DOMAIN wire.in : wire'.in[i] = wire.in[i]
         /\ \A i \in DOMAIN wire'.in \ DOMAIN wire.in :
              /\ wire.subscribed /\ wire'.in[i] = Msg("update", db.version + 1)
              /\ \A k \in DOMAIN wire.in : k < i
              /\ \A k \in DOMAIN wire'.in \ DOMAIN wire.in : k = i
         /\ DOMAIN wire'.in \subseteq Nat
         /\ db'.version = db.version + 1 /\ db.version \in Nat
<1>1. wire' = [wire EXCEPT !.in = Told] /\ UNCHANGED <<session, worker, task>>
      /\ db'.version = db.version + 1
  BY DEF Typed, Write, Commit
<1>2. wire'.in = Told /\ db.version \in Nat
  BY <1>1 DEF Typed, WireType
<1>3. wire.in \in Seq(Message) /\ Len(wire.in) \in Nat /\ DOMAIN wire.in = 1..Len(wire.in)
  BY Domains
<1>4. CASE Told = wire.in
  BY <1>1, <1>2, <1>4 DEF Typed, WireType
<1>5. CASE Told # wire.in
  <2>. DEFINE n == Len(wire.in)
              u == Msg("update", db.version + 1)
  <2>1. u \in Message
    BY MsgType DEF Typed
  <2>2. Told = Append(wire.in, u) /\ wire.subscribed
    BY <1>5 DEF Told
  <2>3. /\ DOMAIN wire'.in = 1..(n + 1) /\ wire'.in[n + 1] = u
        /\ \A i \in DOMAIN wire.in : wire'.in[i] = wire.in[i]
    BY <1>2, <1>3, <2>1, <2>2, Appending
  <2>. HIDE DEF u
  <2>4. 1..n \subseteq 1..(n + 1) /\ (\A i \in 1..(n + 1) \ 1..n : i = n + 1)
        /\ (\A i \in 1..n : i < n + 1) /\ 1..(n + 1) \subseteq Nat
    BY <1>3
  <2>5. wire'.out = wire.out /\ wire'.broken = wire.broken /\ wire'.up = wire.up
        /\ wire'.condemned = wire.condemned /\ wire'.subscribed = wire.subscribed
    BY <1>1 DEF Typed, WireType
  <2>6. QED
    BY <1>1, <1>2, <1>3, <2>2, <2>3, <2>4, <2>5 DEF u
<1>6. QED
  BY <1>4, <1>5

LEMMA Breaking ==
  ASSUME Typed, Break
  PROVE  /\ wire.up /\ ~wire.broken
         /\ wire'.out = <<>> /\ wire'.broken /\ wire'.up = wire.up
         /\ wire'.condemned = wire.condemned /\ wire'.subscribed = wire.subscribed
         /\ UNCHANGED <<session, worker, task>>
         /\ DOMAIN wire'.in \subseteq DOMAIN wire.in
         /\ \A i \in DOMAIN wire'.in :
              /\ wire'.in[i] = wire.in[i]
              /\ \A k \in DOMAIN wire.in : k < i => k \in DOMAIN wire'.in
         /\ db' = [db EXCEPT !.late = @ \cup OnTheWire]
<1>1. PICK n \in 0..Len(wire.in) :
        wire' = [wire EXCEPT !.broken = TRUE, !.out = <<>>, !.in = SubSeq(@, 1, n)]
  BY DEF Break
<1>2. /\ wire'.out = <<>> /\ wire'.broken /\ wire'.up = wire.up
      /\ wire'.condemned = wire.condemned /\ wire'.subscribed = wire.subscribed
      /\ wire'.in = SubSeq(wire.in, 1, n)
  BY <1>1 DEF Typed, WireType
<1>3. /\ DOMAIN wire'.in \subseteq DOMAIN wire.in
      /\ \A i \in DOMAIN wire'.in :
           /\ wire'.in[i] = wire.in[i]
           /\ \A k \in DOMAIN wire.in : k < i => k \in DOMAIN wire'.in
  BY <1>2, Cutting
<1>4. QED
  BY <1>2, <1>3 DEF Break

LEMMA ServerConversation ==
  ASSUME Typed, OneAsked, Fitting, Serve \/ Write \/ Break PROVE OneAsked' /\ Fitting'
<1>0. Len(<<>>) \in 0..1 /\ DOMAIN <<>> = {}
  OBVIOUS
<1>1. CASE Serve
  <2>1. /\ wire.out # <<>> /\ ~wire.broken /\ wire'.out = <<>> /\ 1 \in DOMAIN wire.out
        /\ wire'.condemned = wire.condemned /\ UNCHANGED <<session, worker>>
        /\ \E base, reply :
             /\ Answers(base, reply)
             /\ \/ reply.tell = "error"
                \/ wire.out[1].ask \in {"schema", "monitor"}
                   /\ reply.tell = wire.out[1].ask
                \/ wire.out[1].ask = "transact" /\ reply.tell \in {"committed", "refused"}
    BY <1>1, Served DEF OneAsked, Msg
  <2>2. \A i \in DOMAIN wire.in : ~IsReply(wire.in[i])
    BY <2>1 DEF OneAsked, AtMostOne
  <2>3. PICK base, reply :
          /\ Answers(base, reply)
          /\ \/ reply.tell = "error"
             \/ wire.out[1].ask \in {"schema", "monitor"} /\ reply.tell = wire.out[1].ask
             \/ wire.out[1].ask = "transact" /\ reply.tell \in {"committed", "refused"}
    BY <2>1
  <2>4. PICK last \in DOMAIN wire'.in :
          /\ wire'.in[last] = reply
          /\ \A i \in DOMAIN wire.in : wire'.in[i] = wire.in[i]
          /\ \A i \in DOMAIN wire'.in \ DOMAIN wire.in :
               i = last \/ wire'.in[i] = Msg("update", db.version + 1)
    BY <2>3, Answered
  <2>5. ASSUME NEW i \in DOMAIN wire'.in, IsReply(wire'.in[i]) PROVE i = last
    BY <2>2, <2>4, <2>5 DEF IsReply, Msg
  <2>6. AtMostOne'
    BY <1>0, <2>1, <2>5 DEF AtMostOne, IsReply
  <2>7. ~Between /\ ~Between'
    BY <2>1 DEF OneAsked, Between, Quiet
  <2>8. Fitting'
    <3>1. ASSUME worker.stage \in DOMAIN Asks, NEW i \in DOMAIN wire'.in,
                 IsReply(wire'.in[i])
          PROVE  wire'.in[i].tell \in
                   {"error"} \cup (IF worker.stage = "reply" THEN {"committed", "refused"}
                                   ELSE {Asks[worker.stage]})
      <4>1. wire'.in[i] = reply
        BY <2>4, <2>5, <3>1
      <4>2. wire.out[1].ask = Asks[worker.stage]
        BY <2>1, <3>1 DEF Fitting
      <4>3. worker.stage \in {"schema", "monitor", "reply"}
        BY <3>1 DEF Asks
      <4>4. QED
        BY <2>3, <4>1, <4>2, <4>3 DEF Asks
    <3>2. QED
      BY <1>0, <2>1, <3>1 DEF Fitting, IsReply
  <2>9. QED
    BY <2>6, <2>7, <2>8 DEF OneAsked
<1>2. CASE Write
  <2>1. \A i \in DOMAIN wire'.in : IsReply(wire'.in[i]) =>
          i \in DOMAIN wire.in /\ wire'.in[i] = wire.in[i]
    BY <1>2, Writing DEF IsReply, Msg
  <2>2. wire'.out = wire.out /\ wire'.broken = wire.broken /\ UNCHANGED <<session, worker>>
        /\ wire'.condemned = wire.condemned
    BY <1>2, Writing
  <2>3. QED
    BY <2>1, <2>2 DEF OneAsked, AtMostOne, Between, Quiet, NoReply, IsReply, Fitting
<1>3. CASE Break
  <2>1. /\ wire'.out = <<>> /\ wire'.condemned = wire.condemned
        /\ UNCHANGED <<session, worker>>
        /\ \A i \in DOMAIN wire'.in : i \in DOMAIN wire.in /\ wire'.in[i] = wire.in[i]
    BY <1>3, Breaking
  <2>2. QED
    BY <1>0, <2>1
       DEF OneAsked, AtMostOne, Between, Quiet, NoReply, IsReply, Fitting
<1>4. QED
  BY <1>1, <1>2, <1>3

LEMMA StepConversation ==
  ASSUME Typed, Connects, OneAsked, Fitting, [Next]_vars PROVE OneAsked' /\ Fitting'
<1>1. CASE Loop \/ UNCHANGED vars
  <2>1. UNCHANGED <<wire, worker>>
        /\ (session'.stopping = session.stopping \/ session'.stopping)
    BY <1>1, LoopLeaves
  <2>2. QED
    BY <2>1, SameConversation
<1>2. QED
  BY <1>1, WorkerConversation, ServerConversation DEF Next

-----------------------------------------------------------------------------
(***************************************************************************)
(* Where a transaction is, and what is said about it.                      *)
(***************************************************************************)

LEMMA WirePlaces ==
  /\ wire.out = <<>> => OnTheWire = {}
  /\ DOMAIN wire.out = {1} =>
       OnTheWire = IF wire.out[1].ask = "transact" THEN {wire.out[1].job} ELSE {}
<1>1. Range(<<>>) = {}
  BY DEF Range
<1>2. DOMAIN wire.out = {1} => Range(wire.out) = {wire.out[1]}
  BY DEF Range
<1>3. QED
  BY <1>1, <1>2 DEF OnTheWire

LEMMA SentStays ==
  ASSUME Typed, OneRuns, SentOnce, Connects, [Next]_vars
  PROVE  \A j \in Job : task[j].sentOn # 0 => task'[j].sentOn # 0
<1>1. CASE Worker
  <2>1. CASE Writes
    <3>1. session.generation > 0 /\ session.generation \in Nat
      BY <2>1, Generations DEF Writes, Connects
    <3>2. session.generation # 0
      BY <3>1
    <3>3. QED
      BY <2>1, <3>2 DEF Writes
  <2>2. QED
    BY <1>1, <2>1, WorkerMoves DEF Proceeds, Takes, Ends
<1>2. QED
  BY <1>1, OthersLeave DEF Next

\* What happens to the places when a request or the connection comes or goes.
PlacesKept == UNCHANGED <<OnTheWire, db>>
PlacesLeft == OnTheWire' = {} /\ db' = [db EXCEPT !.late = @ \cup OnTheWire]
PlaceRun   ==
  \E ran \in SUBSET (db.late \cup OnTheWire) :
    /\ db' = [version |-> db.version + 1, applied |-> db.applied \cup ran,
              late |-> db.late \ ran]
    /\ OnTheWire' \in {OnTheWire, {}} /\ ran \cap OnTheWire' = {}
    /\ ran \cap db.late = {} \/ ran \cap OnTheWire = {}
PlaceTaken ==
  /\ Writes /\ OnTheWire = {} /\ OnTheWire' \in {{}, {worker.job}} /\ UNCHANGED db

LEMMA PlaceMoves ==
  ASSUME Typed, Connects, OneAsked, OnePlace, [Next]_vars
  PROVE  PlacesKept \/ PlacesLeft \/ PlaceRun \/ PlaceTaken
         \/ (OnTheWire' = {} /\ UNCHANGED db)
<1>. worker.stage \notin {"idle", "closed"} => worker.job \in Job
  BY JobOfStage
<1>1. ASSUME UNCHANGED db, wire'.out = wire.out PROVE PlacesKept
  BY <1>1 DEF PlacesKept, OnTheWire
<1>2. ASSUME wire'.out = <<>> PROVE OnTheWire' = {}
  BY <1>2 DEF OnTheWire, Range
<1>3. CASE Loop \/ UNCHANGED vars
  <2>1. UNCHANGED <<wire, db>>
    BY <1>3, LoopLeaves
  <2>2. QED
    BY <1>1, <2>1
<1>4. CASE Shutdown \/ Lose \/ Break
  <2>1. wire'.out = <<>> /\ db' = [db EXCEPT !.late = @ \cup OnTheWire]
    BY <1>4, Breaking DEF Shutdown, Lose, NoWire
  <2>2. QED
    BY <1>2, <2>1 DEF PlacesLeft
<1>5. CASE Connect
  <2>1. wire'.out = <<>> /\ UNCHANGED db
    BY <1>5 DEF Connect, NoWire
  <2>2. QED
    BY <1>2, <2>1
<1>6. CASE (\E j \in Job : Take(j)) \/ GiveUp \/ Expire \/ Snapshot \/ NotSent
           \/ (\E m \in Range(wire.in) : Pump(m) /\ ~SchemaReply(m))
  <2>1. UNCHANGED db
    BY <1>6 DEF Take, GiveUp, Expire, Snapshot, NotSent, Pump, Update, MonitorReply,
                ErrorReply, TransactReply
  <2>2. wire'.out = wire.out
    BY <1>6 DEF Typed, WireType, Take, Invalidate, GiveUp, Expire, Snapshot, NotSent,
                Pump, Update, MonitorReply, ErrorReply, TransactReply, Read
  <2>3. QED
    BY <1>1, <2>1, <2>2
<1>7. ASSUME NEW r \in {"schema", "monitor"}, worker.job \in Job, NEW in, UNCHANGED db,
             wire.out = <<>>, wire' = Send([wire EXCEPT !.in = in], r)
      PROVE  OnTheWire' = {}
  <2>1. wire'.out = IF wire.broken THEN <<>>
                    ELSE <<[ask |-> r, job |-> worker.job]>>
    <3>1. WireType /\ r \in {"schema", "monitor", "transact"}
      BY DEF Typed
    <3>2. QED
      BY <1>7, <3>1, Sending
  <2>2. CASE wire.broken
    BY <1>2, <2>1, <2>2
  <2>3. CASE ~wire.broken
    <3>. DEFINE asked == [ask |-> r, job |-> worker.job]
    <3>1. DOMAIN wire'.out = {1} /\ wire'.out[1] = asked
      BY <2>1, <2>3, OneRequest
    <3>2. Range(wire'.out) = {asked} /\ asked.ask # "transact"
      BY <3>1 DEF Range
    <3>3. QED
      BY <3>2 DEF OnTheWire
  <2>4. QED
    BY <2>2, <2>3
<1>8. CASE Connected
  <2>1. UNCHANGED db /\ Quiet /\ worker.stage = "connect"
    BY <1>8 DEF Connected, OneAsked, Between, Stage
  <2>2. CASE session.ready
    BY <1>1, <1>8, <2>1, <2>2 DEF Connected
  <2>3. CASE ~session.ready
    <3>1. wire' = Send([wire EXCEPT !.in = wire.in], "schema")
      <4>1. [wire EXCEPT !.in = wire.in] = wire
        BY DEF Typed, WireType
      <4>2. QED
        BY <1>8, <2>3, <4>1 DEF Connected
    <3>2. QED
      BY <1>7, <2>1, <3>1 DEF Quiet
  <2>4. QED
    BY <2>2, <2>3
<1>9. ASSUME NEW m \in Range(wire.in), SchemaReply(m) PROVE OnTheWire' = {} /\ UNCHANGED db
  <2>1. Reads(m) /\ IsReply(m) /\ UNCHANGED db /\ worker.job \in Job
    BY <1>9 DEF SchemaReply, IsReply, Stage
  <2>2. wire.out = <<>>
    BY <2>1, ReplyRead DEF OneAsked
  <2>3. wire' = Send([wire EXCEPT !.in = Tail(wire.in)], "monitor")
    BY <1>9 DEF SchemaReply, Read
  <2>4. QED
    BY <1>7, <2>1, <2>2, <2>3
<1>10. CASE Transact
  <2>1. UNCHANGED db /\ Quiet /\ worker.stage = "drain" /\ worker.job \in Job
    BY <1>10 DEF Transact, Drained, Stage, OneAsked, Between
  <2>2. Writes
    BY <1>10, <2>1
       DEF Typed, TaskType, Future, WorkerType, Transact, Goto, Writes, SameView
  <2>3. wire' = Send([wire EXCEPT !.in = wire.in], "transact")
    <3>1. [wire EXCEPT !.in = wire.in] = wire
      BY DEF Typed, WireType
    <3>2. QED
      BY <1>10, <3>1 DEF Transact
  <2>4. wire'.out = IF wire.broken THEN <<>>
                    ELSE <<[ask |-> "transact", job |-> worker.job]>>
    BY <2>1, <2>3, Sending DEF Typed, Quiet
  <2>5. OnTheWire = {}
    BY <2>1, WirePlaces DEF Quiet
  <2>6. CASE wire.broken
    BY <1>2, <2>1, <2>2, <2>4, <2>5, <2>6 DEF PlaceTaken
  <2>7. CASE ~wire.broken
    <3>. DEFINE asked == [ask |-> "transact", job |-> worker.job]
    <3>1. DOMAIN wire'.out = {1} /\ wire'.out[1] = asked
      BY <2>4, <2>7, OneRequest
    <3>2. Range(wire'.out) = {asked} /\ asked.ask = "transact" /\ asked.job = worker.job
      BY <3>1 DEF Range
    <3>. HIDE DEF asked
    <3>3. OnTheWire' = {worker.job}
      BY <3>2 DEF OnTheWire
    <3>4. QED
      BY <2>1, <2>2, <2>5, <3>3 DEF PlaceTaken
  <2>8. QED
    BY <2>6, <2>7
<1>11. CASE Serve
  <2>1. /\ OnTheWire' = {}
        /\ UNCHANGED db \/ (/\ wire.out[1].ask = "transact" /\ Commit({wire.out[1].job})
                            /\ OnTheWire = {wire.out[1].job})
    BY <1>2, <1>11, Served, WirePlaces DEF OneAsked, Kept
  <2>2. CASE UNCHANGED db
    BY <2>1, <2>2
  <2>3. CASE Commit({wire.out[1].job}) /\ OnTheWire = {wire.out[1].job}
    <3>1. {wire.out[1].job} \cap db.late = {}
      BY <2>3 DEF OnePlace
    <3>2. QED
      BY <2>1, <2>3, <3>1 DEF Commit, PlaceRun
  <2>4. QED
    BY <2>1, <2>2, <2>3
<1>12. CASE Write
  <2>1. OnTheWire' = OnTheWire
    BY <1>12, Writing DEF OnTheWire
  <2>2. PICK ran \in {{}} \cup {{j} : j \in db.late} : Commit(ran)
    BY <1>12 DEF Write
  <2>3. ran \subseteq db.late /\ ran \cap OnTheWire = {}
    BY <2>2 DEF OnePlace
  <2>4. QED
    BY <2>1, <2>2, <2>3 DEF Commit, PlaceRun
<1>13. QED
  BY <1>3, <1>4, <1>5, <1>6, <1>8, <1>9, <1>10, <1>11, <1>12 DEF Next, Worker

LEMMA StepOnePlace ==
  ASSUME Typed, OneRuns, SentOnce, Connects, OneAsked, OnePlace, [Next]_vars
  PROVE  OnePlace'
<1>. /\ OnTheWire \subseteq Job /\ db.applied \subseteq Job /\ db.late \subseteq Job
     /\ db = [version |-> db.version, applied |-> db.applied, late |-> db.late]
  BY LateType DEF Typed
<1>1. \A j \in Job : task[j].sentOn # 0 => task'[j].sentOn # 0
  BY SentStays
<1>2. CASE PlacesKept \/ PlacesLeft \/ (OnTheWire' = {} /\ UNCHANGED db)
  BY <1>1, <1>2 DEF OnePlace, PlacesKept, PlacesLeft
<1>3. CASE PlaceRun
  BY <1>1, <1>3 DEF OnePlace, PlaceRun
<1>4. CASE PlaceTaken
  <2>1. task[worker.job].sentOn = 0
    BY <1>4 DEF PlaceTaken, Writes, SentOnce, OneRuns, Over, Job
  <2>2. task'[worker.job].sentOn # 0
    <3>1. session.generation > 0 /\ session.generation \in Nat
      BY <1>4, Generations DEF PlaceTaken, Writes, Connects
    <3>2. session.generation # 0
      BY <3>1
    <3>3. QED
      BY <1>4, <3>2 DEF PlaceTaken, Writes
  <2>3. worker.job \notin db.applied \cup db.late
    BY <2>1 DEF OnePlace
  <2>4. QED
    BY <1>1, <1>4, <2>2, <2>3 DEF OnePlace, PlaceTaken
<1>5. QED
  BY <1>2, <1>3, <1>4, PlaceMoves

\* What has been said of a transaction stays true.
LEMMA TruthStays ==
  ASSUME Typed, Connects, OneAsked, OnePlace, [Next]_vars, NEW j \in Job, NEW tell,
         Told_(j, tell), Writes => j # worker.job \/ tell # "refused"
  PROVE  Told_(j, tell)'
<1>. /\ OnTheWire \subseteq Job /\ db.applied \subseteq Job /\ db.late \subseteq Job
     /\ db = [version |-> db.version, applied |-> db.applied, late |-> db.late]
  BY LateType DEF Typed
<1>1. CASE PlacesKept \/ PlacesLeft \/ (OnTheWire' = {} /\ UNCHANGED db)
  BY <1>1 DEF Told_, PlacesKept, PlacesLeft
<1>2. CASE PlaceRun
  BY <1>2 DEF Told_, PlaceRun
<1>3. CASE PlaceTaken
  BY <1>3 DEF Told_, PlaceTaken
<1>4. QED
  BY <1>1, <1>2, <1>3, PlaceMoves

\* A reply to a transaction arrives while the worker waits for it ...
LEMMA RepliesAwaited ==
  ASSUME Typed, OneAsked, [Next]_vars, worker'.stage = "reply",
         NEW i \in DOMAIN wire'.in, IsReply(wire'.in[i])
  PROVE  worker.stage = "reply" /\ UNCHANGED worker /\ ~Writes /\ worker.job \in Job
<1>1. ~Writes
  <2>1. SUFFICES ASSUME Writes PROVE FALSE
    OBVIOUS
  <2>2. NoReply
    BY <2>1 DEF Writes, OneAsked, Between, Quiet
  <2>3. wire'.in = wire.in
    BY <2>1 DEF Typed, WireType, Writes, Transact, Send
  <2>4. QED
    BY <2>2, <2>3 DEF NoReply, IsReply
<1>2. UNCHANGED worker
  <2>1. CASE Worker
    BY <1>1, <2>1, WorkerMoves DEF Proceeds, Follows, Takes, Ends
  <2>2. QED
    BY <2>1, OthersLeave DEF Next
<1>3. QED
  BY <1>1, <1>2, JobOfStage

\* ... and tells what the server did.
LEMMA NewReply ==
  ASSUME Typed, OneAsked, Fitting, OnePlace, [Next]_vars,
         worker.stage = "reply", UNCHANGED worker,
         NEW i \in DOMAIN wire'.in, IsReply(wire'.in[i]),
         ~(\E k \in DOMAIN wire.in : wire'.in[i] = wire.in[k])
  PROVE  /\ wire'.in[i].tell = "committed" => worker.job \in db'.applied
         /\ wire'.in[i].tell = "refused" =>
              worker.job \notin db'.applied \cup db'.late \cup OnTheWire'
<1>1. Serve
  <2>1. CASE Loop \/ UNCHANGED vars
    BY <2>1, LoopLeaves
  <2>2. CASE Write
    BY <2>2, Writing DEF IsReply, Msg
  <2>3. CASE Break
    BY <2>3, Breaking
  <2>4. ASSUME NEW m \in Range(wire.in), Update(m) PROVE FALSE
    <3>1. Reads(m) /\ wire'.in = Tail(wire.in)
      BY <2>4 DEF Typed, WireType, Update, Read
    <3>2. QED
      BY <3>1, Reading
  <2>5. CASE Worker
    <3>1. PICK m \in Range(wire.in) : Update(m)
      <4>1. worker.stage = "reply" /\ worker' # [stage |-> "idle", job |-> 0]
        OBVIOUS
      <4>2. ~Lose /\ ~Expire
        BY <4>1 DEF Lose, Expire, Stage, End
      <4>3. \A m \in Range(wire.in) : ~ErrorReply(m) /\ ~TransactReply(m)
        BY <4>1 DEF ErrorReply, TransactReply, End
      <4>4. QED
        BY <2>5, <4>1, <4>2, <4>3 DEF Worker, Pump, Take, Shutdown, Connect, Connected,
           GiveUp, Snapshot, NotSent, Transact, SchemaReply, MonitorReply, Stage, Drained
    <3>2. QED
      BY <2>4, <3>1
  <2>6. QED
    BY <2>1, <2>2, <2>3, <2>5 DEF Next
<1>2. wire'.out = <<>> /\ OnTheWire' = {}
  BY <1>1, Served DEF OneAsked, OnTheWire, Range
<1>3. /\ 1 \in DOMAIN wire.out
      /\ \E base, reply :
           /\ Answers(base, reply)
           /\ \/ reply.tell \notin {"committed", "refused"}
              \/ wire.out[1].ask = "transact" /\ reply.tell = "committed"
                 /\ Commit({wire.out[1].job})
              \/ /\ wire.out[1].ask = "transact" /\ reply.tell = "refused"
                 /\ UNCHANGED db
  BY <1>1, Served DEF OneAsked, Msg, Kept
<1>4. PICK base, reply :
        /\ Answers(base, reply)
        /\ \/ reply.tell \notin {"committed", "refused"}
           \/ wire.out[1].ask = "transact" /\ reply.tell = "committed"
              /\ Commit({wire.out[1].job})
           \/ wire.out[1].ask = "transact" /\ reply.tell = "refused" /\ UNCHANGED db
  BY <1>3
<1>5. wire'.in[i] = reply
  BY <1>4, Answered DEF IsReply, Msg
<1>6. wire.out[1] = [ask |-> "transact", job |-> worker.job]
  BY <1>3 DEF Fitting, Asks
<1>7. worker.job \in OnTheWire
  BY <1>3, <1>6 DEF OnTheWire, Range
<1>8. QED
  BY <1>2, <1>4, <1>5, <1>6, <1>7 DEF Commit, OnePlace

LEMMA StepTrueTelling ==
  ASSUME Typed, OneRuns, SentOnce, Connects, OneAsked, Fitting, OnePlace, TrueTelling,
         [Next]_vars
  PROVE  TrueTelling'
<1>. worker.stage \notin {"idle", "closed"} => worker.job \in Job
  BY JobOfStage
<1>. \A j \in Job : j # 0
  BY DEF Job
<1>0. Writes => task[worker.job].outcome = "none" /\ worker.stage = "drain"
  BY DEF Writes, OneRuns, Over
<1>1. ASSUME NEW j \in Job PROVE Told_(j, task[j].outcome)'
  <2>1. CASE task'[j].outcome = task[j].outcome
    <3>1. Told_(j, task[j].outcome)
      BY DEF TrueTelling
    <3>2. Writes => j # worker.job \/ task[j].outcome # "refused"
      BY <1>0
    <3>. DEFINE o == task[j].outcome
    <3>. HIDE DEF o
    <3>3. QED
      BY <2>1, <3>1, <3>2, TruthStays DEF Told_, o
  <2>2. CASE task'[j].outcome # task[j].outcome
    <3>1. CASE task'[j].outcome \notin {"committed", "refused"}
      BY <3>1 DEF Told_
    <3>2. CASE task'[j].outcome \in {"committed", "refused"}
      <4>1. Worker
        BY <2>2, OthersLeave DEF Next
      <4>0. task[j].outcome # task'[j].outcome => ~Takes(j)
        BY <3>2 DEF Takes
      <4>2. PICK m \in Range(wire.in) : TransactReply(m) /\ j = worker.job
                                          /\ task'[j].outcome = m.tell
        BY <2>2, <3>2, <4>1, WorkerMoves DEF Proceeds, Takes, Ends, Writes, Grounds
      <4>3. \E i \in DOMAIN wire.in : m = wire.in[i]
        BY DEF Range
      <4>4. Told_(j, m.tell)
        BY <4>2, <4>3 DEF TransactReply, Stage, TrueTelling, IsReply
      <4>5. UNCHANGED <<db, OnTheWire>>
        BY <4>2 DEF Typed, WireType, TransactReply, Read, OnTheWire
      <4>6. QED
        BY <4>2, <4>4, <4>5 DEF Told_
    <3>3. QED
      BY <3>1, <3>2
  <2>3. QED
    BY <2>1, <2>2
<1>2. ASSUME worker'.stage = "reply", NEW i \in DOMAIN wire'.in, IsReply(wire'.in[i])
      PROVE  Told_(worker.job, wire.in[i].tell)'
  <2>1. worker.stage = "reply" /\ UNCHANGED worker /\ ~Writes /\ worker.job \in Job
    BY <1>2, RepliesAwaited
  <2>2. CASE \E k \in DOMAIN wire.in : wire'.in[i] = wire.in[k]
    <3>1. PICK k \in DOMAIN wire.in : wire'.in[i] = wire.in[k]
      BY <2>2
    <3>2. Told_(worker.job, wire.in[k].tell)
      BY <1>2, <2>1, <3>1 DEF TrueTelling
    <3>. DEFINE j == worker.job
                t == wire.in[k].tell
    <3>3. j \in Job /\ Told_(j, t) /\ j = worker'.job /\ wire'.in[i].tell = t
      BY <2>1, <3>1, <3>2
    <3>. HIDE DEF j, t
    <3>4. QED
      BY <2>1, <3>3, TruthStays DEF Told_
  <2>3. CASE ~(\E k \in DOMAIN wire.in : wire'.in[i] = wire.in[k])
    BY <1>2, <2>1, <2>3, NewReply DEF Told_
  <2>4. QED
    BY <2>2, <2>3
<1>3. QED
  BY <1>1, <1>2 DEF TrueTelling, IsReply, Told_
-----------------------------------------------------------------------------
(***************************************************************************)
(* The resynchronisation after an unknown outcome.                         *)
(***************************************************************************)

\* A connection that is given up is not used again.
LEMMA StaysGivenUp ==
  ASSUME Typed, Connects, [Next]_vars, ~session.ready, ~wire.up \/ wire.condemned
  PROVE  Connect \/ (~session'.ready /\ (~wire'.up \/ wire'.condemned))
<1>1. CASE Loop \/ UNCHANGED vars
  BY <1>1, LoopLeaves DEF Typed
<1>2. CASE Serve
  <2>1. wire'.condemned = wire.condemned /\ wire'.up = wire.up /\ UNCHANGED session
    BY <1>2 DEF Typed, WireType, Serve
  <2>2. QED
    BY <2>1
<1>3. CASE Write \/ Break
  BY <1>3, Writing, Breaking
<1>4. ASSUME NEW j \in Job, Take(j)
      PROVE  ~session'.ready /\ (~wire'.up \/ wire'.condemned)
  <2>1. CASE task[j].kind = "reconnect"
    BY <1>4, <2>1 DEF Typed, WireType, Take, Invalidate, Forgotten
  <2>2. CASE task[j].kind # "reconnect"
    BY <1>4, <2>2 DEF Take
  <2>3. QED
    BY <2>1, <2>2
<1>5. CASE Shutdown \/ Lose
  <2>1. ~wire'.up /\ (session' = session \/ session' = Forgotten)
    BY <1>5 DEF Shutdown, Lose, NoWire
  <2>2. QED
    BY <2>1 DEF Typed, Forgotten
<1>6. CASE GiveUp \/ Snapshot \/ NotSent
  BY <1>6 DEF Typed, GiveUp, Snapshot, NotSent
<1>7. CASE Expire
  BY <1>7 DEF Typed, WireType, Expire, Invalidate, Forgotten
<1>8. ~Connected /\ ~Transact /\ \A m \in Range(wire.in) : ~Pump(m)
  BY DEF Connected, Transact, Drained, Pump, Update, SchemaReply, MonitorReply,
         ErrorReply, TransactReply, Reads
<1>9. QED
  BY <1>1, <1>2, <1>3, <1>4, <1>5, <1>6, <1>7, <1>8 DEF Next, Worker

LEMMA StepGivenUp ==
  ASSUME Typed, OneRuns, SentOnce, Connects, GivenUp, [Next]_vars
  PROVE  GivenUp'
<1>. worker.stage \notin {"idle", "closed"} => worker.job \in Job
  BY JobOfStage
<1>. \A j \in Job : j # 0 /\ task[j].sentOn \in Nat
  BY DEF Job, Typed, TaskType, Future
<1>1. /\ session.generation \in Nat /\ session'.generation \in Nat
      /\ session'.generation >= session.generation
  <2>1. \A g \in Nat : g >= g /\ g + 1 >= g
    OBVIOUS
  <2>2. QED
    BY <2>1, Generations
<1>2. session.stopping => session'.stopping
  BY Generations
<1>3. SUFFICES ASSUME NEW j \in Job, task'[j].outcome = "unknown", task'[j].sentOn # 0
      PROVE  \/ session'.generation > task'[j].sentOn \/ session'.stopping
             \/ ~session'.ready /\ (~wire'.up \/ wire'.condemned)
  BY DEF GivenUp
<1>4. CASE task[j].outcome = "unknown"
  <2>1. task'[j].sentOn = task[j].sentOn
    <3>1. CASE Worker
      BY <1>4, <3>1, WorkerMoves DEF Proceeds, Takes, Ends, Writes, OneRuns, Over
    <3>2. QED
      BY <3>1, OthersLeave DEF Next
  <2>2. CASE session.generation > task[j].sentOn
    <3>1. \A g, h, n \in Nat : g > n /\ h >= g => h > n
      OBVIOUS
    <3>2. QED
      BY <1>1, <2>1, <2>2, <3>1
  <2>3. CASE session.stopping
    BY <1>2, <2>3
  <2>4. CASE ~session.ready /\ (~wire.up \/ wire.condemned)
    <3>1. CASE Connect
      <4>1. session'.generation = session.generation + 1
        BY <3>1 DEF Typed, Connect, Forgotten
      <4>2. task[j].sentOn <= session.generation
        BY <1>3, <2>1 DEF SentOnce
      <4>3. \A n, g \in Nat : n <= g => g + 1 > n
        OBVIOUS
      <4>4. QED
        BY <1>1, <2>1, <4>1, <4>2, <4>3
    <3>2. QED
      BY <2>4, <3>1, StaysGivenUp
  <2>5. QED
    BY <1>3, <1>4, <2>1, <2>2, <2>3, <2>4 DEF GivenUp
<1>5. CASE task[j].outcome # "unknown"
  <2>1. Worker
    BY <1>3, <1>5, OthersLeave DEF Next
  <2>2. Ends("unknown") /\ Grounds("unknown") /\ j = worker.job
    BY <1>3, <1>5, <2>1, WorkerMoves DEF Proceeds, Takes, Ends, Writes
  <2>3. worker.stage # "drain"
    BY <1>3, <2>2 DEF Ends, SentOnce, OneRuns, Over
  <2>4. CASE Lose
    BY <2>4 DEF Typed, Lose, NoWire, Forgotten
  <2>5. CASE Expire
    BY <2>5 DEF Typed, WireType, Expire, Invalidate, Forgotten
  <2>6. QED
    BY <2>2, <2>3, <2>4, <2>5 DEF Grounds
<1>6. QED
  BY <1>4, <1>5

Talk == OneAsked /\ Fitting /\ OnePlace /\ TrueTelling /\ GivenUp

LEMMA InitTalk == Init => Talk
<1>. SUFFICES ASSUME Init PROVE Talk
  OBVIOUS
<1>1. wire.out = <<>> /\ wire.in = <<>> /\ Len(<<>>) \in 0..1 /\ DOMAIN <<>> = {}
  BY DEF Init, NoWire
<1>2. OnTheWire = {}
  BY <1>1, WirePlaces
<1>3. QED
  BY <1>1, <1>2 DEF Init, Talk, OneAsked, AtMostOne, Quiet, NoReply, Fitting, OnePlace,
     TrueTelling, Told_, GivenUp

LEMMA StepTalk == ASSUME Jobs, Talk, [Next]_vars PROVE Talk'
BY StepConversation, StepOnePlace, StepTrueTelling, StepGivenUp DEF Jobs, Talk

\* What a transaction's job reports is what the server did with that transaction,
\* whatever connections are lost and replies are late.
THEOREM RepliesAreTrue == Spec => []TrueReply
<1>1. Talk => TrueReply
  BY DEF Talk, TrueTelling, Told_, TrueReply
<1>2. QED
  BY <1>1, InitJobs, StepJobs, InitTalk, StepTalk, PTL DEF Spec

\* After a transaction without an answer no copy counts as ready before a later
\* connection has been synchronised.
THEOREM ResyncFollows == Spec => []ResyncAfterUnknown
<1>1. Talk => ResyncAfterUnknown
  BY DEF Talk, GivenUp, ResyncAfterUnknown
<1>2. QED
  BY <1>1, InitJobs, StepJobs, InitTalk, StepTalk, PTL DEF Spec

-----------------------------------------------------------------------------
(***************************************************************************)
(* The versions.                                                           *)
(***************************************************************************)

\* What the worker does to what it is told.
LEMMA WorkerReads ==
  ASSUME Typed, Worker
  PROVE  /\ db'.version = db.version
         /\ \/ wire'.in = wire.in /\ wire'.subscribed = wire.subscribed
            \/ wire'.in = <<>> /\ ~wire'.subscribed /\ (Shutdown \/ Connect \/ Lose)
            \/ \E m \in Range(wire.in) :
                 /\ Pump(m) /\ Reads(m) /\ wire'.in = Tail(wire.in)
                 /\ wire'.subscribed = wire.subscribed
<1>1. db'.version = db.version
  BY DEF Typed, Worker, Pump, Take, Shutdown, Lose, Connect, Connected, GiveUp, Expire,
     Snapshot, NotSent, Transact, Update, SchemaReply, MonitorReply, ErrorReply,
     TransactReply
<1>2. CASE Shutdown \/ Connect \/ Lose
  <2>1. wire'.in = <<>> /\ ~wire'.subscribed
    BY <1>2 DEF Shutdown, Connect, Lose, NoWire
  <2>2. QED
    BY <1>1, <1>2, <2>1
<1>3. ASSUME NEW m \in Range(wire.in), Pump(m)
      PROVE  Reads(m) /\ wire'.in = Tail(wire.in) /\ wire'.subscribed = wire.subscribed
  <2>1. CASE SchemaReply(m)
    BY <2>1 DEF Typed, WireType, SchemaReply, Read, Send
  <2>2. CASE ~SchemaReply(m)
    BY <1>3, <2>2 DEF Typed, WireType, Pump, Update, MonitorReply, ErrorReply,
                      TransactReply, Read
  <2>3. QED
    BY <2>1, <2>2
<1>4. CASE (\E j \in Job : Take(j)) \/ Connected \/ GiveUp \/ Expire \/ Snapshot
           \/ NotSent \/ Transact
  <2>1. wire'.in = wire.in /\ wire'.subscribed = wire.subscribed
    BY <1>4 DEF Typed, WireType, Take, Invalidate, Connected, Send, GiveUp, Expire,
                Snapshot, NotSent, Transact
  <2>2. QED
    BY <1>1, <2>1
<1>5. QED
  BY <1>1, <1>2, <1>3, <1>4 DEF Worker

\* The server's version only grows, and what it says is no newer.
LEMMA ServerVersions ==
  ASSUME Typed, [Next]_vars
  PROVE  /\ db.version \in Nat /\ db'.version \in Nat /\ db.version <= db'.version
         /\ \A v \in Nat : v <= db.version => v <= db'.version
<1>1. db.version \in Nat /\ db'.version \in {db.version, db.version + 1}
  <2>1. CASE Worker
    BY <2>1, WorkerReads DEF Typed
  <2>2. CASE Loop \/ UNCHANGED vars
    BY <2>2, LoopLeaves DEF Typed
  <2>3. CASE Serve \/ Write \/ Break
    <3>1. \A ran : Commit(ran) => db'.version = db.version + 1
      BY DEF Commit
    <3>2. db' = db \/ db' = [db EXCEPT !.late = @ \cup OnTheWire] \/ \E ran : Commit(ran)
      BY <2>3 DEF Serve, Write, Break
    <3>3. QED
      BY <3>1, <3>2 DEF Typed
  <2>4. QED
    BY <2>1, <2>2, <2>3 DEF Next
<1>2. QED
  BY <1>1

LEMMA ServedVersions ==
  ASSUME Typed, AtMostOne, Serve
  PROVE  \E base, reply :
           /\ Answers(base, reply) /\ reply.version <= db'.version
           /\ base # wire.in => db'.version = db.version + 1
           /\ wire.subscribed => wire'.subscribed
           /\ reply.tell = "committed" => reply.version = db.version + 1 /\ base = Told
           /\ reply.tell = "monitor" => /\ reply.version = db.version /\ wire'.subscribed
                                        /\ base = wire.in
           /\ reply.tell # "monitor" => wire'.subscribed = wire.subscribed
<1>1. /\ db.version \in Nat /\ 0 <= db.version /\ db.version <= db.version
      /\ db.version + 1 <= db.version + 1
  BY DEF Typed
<1>2. Commit({wire.out[1].job}) => db'.version = db.version + 1
  BY DEF Commit
<1>3. \A t, v : Msg(t, v).tell = t /\ Msg(t, v).version = v
  BY DEF Msg
<1>4. QED
  BY <1>1, <1>2, <1>3, Served DEF Kept

LEMMA StepInOrder ==
  ASSUME Typed, OneAsked, InOrder, [Next]_vars PROVE InOrder'
<1>. /\ db.version \in Nat /\ db'.version \in Nat /\ db.version <= db'.version
     /\ \A v \in Nat : v <= db.version => v <= db'.version
  BY ServerVersions
<1>. \A i \in DOMAIN wire.in : wire.in[i].version \in Nat /\ i \in Nat
  BY Domains DEF Message
<1>1. ASSUME wire'.in = wire.in, wire'.subscribed = wire.subscribed PROVE InOrder'
  BY <1>1 DEF InOrder, IsReply
<1>2. ASSUME wire'.in = <<>> PROVE InOrder'
  BY <1>2 DEF InOrder
<1>3. ASSUME NEW m, Reads(m), wire'.in = Tail(wire.in), wire'.subscribed = wire.subscribed
      PROVE  InOrder'
  <2>1. \A i \in DOMAIN wire'.in : i \in Nat /\ i + 1 \in DOMAIN wire.in
                                   /\ wire'.in[i] = wire.in[i + 1]
    BY <1>3, Reading
  <2>2. \A i, k \in Nat : i < k => i + 1 < k + 1
    OBVIOUS
  <2>3. QED
    BY <1>3, <2>1, <2>2 DEF InOrder, IsReply
<1>4. CASE Worker
  BY <1>1, <1>2, <1>3, <1>4, WorkerReads
<1>5. CASE Loop \/ UNCHANGED vars
  BY <1>1, <1>5, LoopLeaves
<1>6. CASE Break
  BY <1>6, Breaking DEF InOrder, IsReply
<1>7. CASE Write
  <2>1. Msg("update", db.version + 1).version = db.version + 1
    BY DEF Msg
  <2>2. \A v \in Nat : v <= db.version => v <= db.version + 1
    OBVIOUS
  <2>3. /\ DOMAIN wire.in \subseteq DOMAIN wire'.in /\ wire'.subscribed = wire.subscribed
        /\ \A i \in DOMAIN wire.in : wire'.in[i] = wire.in[i]
        /\ \A i \in DOMAIN wire'.in \ DOMAIN wire.in :
             /\ wire.subscribed /\ wire'.in[i] = Msg("update", db.version + 1)
             /\ \A k \in DOMAIN wire.in : k < i /\ ~(i < k)
             /\ \A k \in DOMAIN wire'.in \ DOMAIN wire.in : k = i /\ ~(i < k)
        /\ db'.version = db.version + 1
    <3>1. DOMAIN wire'.in \subseteq Nat /\ \A i, k \in Nat : k < i => ~(i < k)
      BY <1>7, Writing
    <3>2. \A i \in Nat : ~(i < i)
      OBVIOUS
    <3>3. QED
      BY <1>7, <3>1, <3>2, Writing
  <2>4. QED
    BY <2>1, <2>2, <2>3 DEF InOrder, IsReply
<1>8. CASE Serve
  <2>1. PICK base, reply :
          /\ Answers(base, reply) /\ reply.version <= db'.version
          /\ base # wire.in => db'.version = db.version + 1
          /\ wire.subscribed => wire'.subscribed
    BY <1>8, ServedVersions DEF OneAsked
  <2>2. PICK last \in DOMAIN wire'.in :
           /\ wire'.in[last] = reply /\ IsReply(reply)
           /\ DOMAIN wire'.in \subseteq Nat
           /\ \A i \in DOMAIN wire.in : wire'.in[i] = wire.in[i]
           /\ \A i \in DOMAIN wire'.in \ DOMAIN wire.in :
                \/ i = last
                \/ /\ base # wire.in /\ wire.subscribed
                   /\ wire'.in[i] = Msg("update", db.version + 1)
                   /\ \A k \in DOMAIN wire.in : k < i
    <3>1. IsReply(reply)
      BY <2>1 DEF Answers
    <3>2. QED
      BY <2>1, <3>1, Answered
  <2>3. Msg("update", db.version + 1).version = db.version + 1
    BY DEF Msg
  <2>4. ASSUME NEW i \in DOMAIN wire'.in
        PROVE  /\ wire'.in[i].version <= db'.version
               /\ ~IsReply(wire'.in[i]) => wire'.subscribed
    <3>1. db.version + 1 <= db.version + 1
      OBVIOUS
    <3>2. QED
      BY <2>1, <2>2, <2>3, <3>1 DEF InOrder
  <2>5. ASSUME NEW i \in DOMAIN wire'.in, NEW k \in DOMAIN wire'.in, i < k,
               ~IsReply(wire'.in[i]), ~IsReply(wire'.in[k])
        PROVE  wire'.in[i].version <= wire'.in[k].version
    <3>1. i \in Nat /\ k \in Nat /\ ~(k < i)
      <4>1. \A m, n \in Nat : m < n => ~(n < m)
        OBVIOUS
      <4>2. QED
        BY <2>2, <2>5, <4>1
    <3>2. i # last /\ k # last
      BY <2>2, <2>5
    <3>3. CASE i \in DOMAIN wire.in /\ k \in DOMAIN wire.in
      BY <2>2, <2>5, <3>3 DEF InOrder
    <3>4. CASE i \in DOMAIN wire.in /\ k \notin DOMAIN wire.in
      <4>1. \A v \in Nat : v <= db.version => v <= db.version + 1
        OBVIOUS
      <4>2. QED
        BY <2>2, <2>3, <3>2, <3>4, <4>1 DEF InOrder
    <3>5. CASE i \notin DOMAIN wire.in
      <4>1. k \notin DOMAIN wire.in
        BY <2>2, <3>1, <3>2, <3>5
      <4>2. wire'.in[i] = wire'.in[k]
        BY <2>2, <3>2, <3>5, <4>1
      <4>3. wire'.in[i].version \in Nat /\ \A v \in Nat : v <= v
        BY <2>2, <2>3, <3>2, <3>5
      <4>4. QED
        BY <4>2, <4>3
    <3>6. QED
      BY <3>3, <3>4, <3>5
  <2>6. QED
    BY <2>4, <2>5 DEF InOrder, IsReply
<1>9. QED
  BY <1>4, <1>5, <1>6, <1>7, <1>8 DEF Next

\* What is left of the messages at a stage that waits for the initial rows.
Unsubscribed ==
  worker.stage = "monitor" =>
    /\ wire.out # <<>> => ~wire.subscribed
    /\ \A i \in DOMAIN wire.in : /\ wire.in[i].tell = "error" => ~wire.subscribed
                                 /\ wire.in[i].tell = "monitor" => wire.subscribed

\* The other parts of Subscribes.
Subscribed ==
  /\ worker.stage \in {"idle", "connect"} /\ wire.subscribed /\ ~wire.condemned
       /\ ~session.stopping => session.ready
  /\ session.ready /\ wire.up => wire.subscribed
  /\ worker.stage = "schema" => ~wire.subscribed

LEMMA SubscribesParts == Subscribes <=> Subscribed /\ Unsubscribed
BY DEF Subscribes, Subscribed, Unsubscribed

LEMMA WorkerSubscribed ==
  ASSUME Typed, Connects, OneAsked, Fitting, Subscribes, Worker PROVE Subscribed'
<1>. wire.subscribed \in BOOLEAN /\ (~wire.up => ~wire.subscribed /\ ~wire.condemned)
  BY DEF Typed, WireType, NoWire
<1>. USE DEF Subscribed
<1>1. ASSUME NEW j \in Job, Take(j) PROVE Subscribed'
  <2>1. CASE task[j].kind = "reconnect"
    <3>1. wire' = [wire EXCEPT !.condemned = wire.up] /\ session' = Forgotten
          /\ worker' = worker /\ worker.stage = "idle"
      BY <1>1, <2>1 DEF Take, Invalidate, Stage
    <3>2. QED
      BY <3>1 DEF Typed, WireType, Forgotten
  <2>2. CASE task[j].kind # "reconnect"
    BY <1>1, <2>2 DEF Take, Stage, Subscribes
  <2>3. QED
    BY <2>1, <2>2
<1>2. CASE Shutdown
  BY <1>2 DEF Shutdown, NoWire, Goto, Typed, WorkerType
<1>3. CASE Connect
  BY <1>3 DEF Typed, Connect, NoWire, Forgotten, Stage
<1>4. CASE Lose
  <2>1. wire' = NoWire /\ session' = Forgotten
        /\ (worker'.stage = "idle" \/ worker'.stage = "connect")
    BY <1>4 DEF Lose, End, Stage
  <2>2. QED
    BY <2>1 DEF Typed, NoWire, Forgotten
<1>5. CASE Connected
  <2>1. /\ wire'.subscribed = wire.subscribed /\ wire'.up = wire.up /\ UNCHANGED session
        /\ worker'.stage = IF session.ready THEN "drain" ELSE "schema"
        /\ worker.stage = "connect" /\ ~wire.condemned /\ ~session.stopping
    BY <1>5 DEF Typed, WireType, WorkerType, Connected, Goto, Send, Stage
  <2>2. QED
    BY <2>1 DEF Subscribes
<1>6. CASE GiveUp
  <2>1. /\ wire' = wire /\ worker.stage = "connect" /\ worker'.stage = "idle"
        /\ session'.stopping = session.stopping /\ (session'.ready => session.ready)
        /\ session.stopping \/ ~wire.up
    BY <1>6 DEF Typed, GiveUp, End, Stage
  <2>2. QED
    BY <2>1 DEF Subscribes
<1>7. CASE Expire
  <2>1. /\ wire'.subscribed = wire.subscribed /\ wire'.up = wire.up /\ wire.up
        /\ worker'.stage = "idle" /\ (session'.ready => session.ready)
        /\ session'.stopping \/ wire'.condemned
    BY <1>7 DEF Typed, WireType, Expire, Invalidate, Forgotten, End, Connects, Waiting,
                Stage
  <2>2. QED
    BY <2>1 DEF Subscribes
<1>8. CASE Snapshot \/ NotSent \/ Transact
  <2>1. /\ wire'.subscribed = wire.subscribed /\ wire'.up = wire.up /\ UNCHANGED session
        /\ session.ready /\ worker'.stage \in {"idle", "reply"}
    BY <1>8 DEF Typed, WireType, WorkerType, Snapshot, NotSent, Transact, Drained, End,
                Goto, Send
  <2>2. QED
    BY <2>1 DEF Subscribes
<1>9. ASSUME NEW m \in Range(wire.in), Update(m) PROVE Subscribed'
  <2>1. CASE session' = [session EXCEPT !.cache = Applied(m)] /\ wire' = Read
             /\ UNCHANGED worker
    BY <2>1 DEF Typed, WireType, Read, Subscribes
  <2>2. CASE session' = Forgotten /\ worker' = [stage |-> "idle", job |-> 0]
             /\ wire' = [Read EXCEPT !.condemned = TRUE]
    BY <2>2 DEF Typed, WireType, Read, Forgotten
  <2>3. QED
    BY <1>9, <2>1, <2>2 DEF Update, End
<1>10. ASSUME NEW m \in Range(wire.in), SchemaReply(m) PROVE Subscribed'
  <2>1. /\ wire'.subscribed = wire.subscribed /\ wire'.up = wire.up
        /\ session'.ready = session.ready /\ worker'.stage = "monitor"
    BY <1>10 DEF Typed, WireType, WorkerType, SchemaReply, Read, Send, Goto
  <2>2. QED
    BY <2>1 DEF Subscribes
<1>11. ASSUME NEW m \in Range(wire.in), MonitorReply(m) PROVE Subscribed'
  <2>1. wire.subscribed
    BY <1>11, Reading DEF MonitorReply, Stage, Subscribes
  <2>2. wire'.subscribed = wire.subscribed /\ worker'.stage = "drain"
    BY <1>11 DEF Typed, WireType, WorkerType, MonitorReply, Read, Goto
  <2>3. QED
    BY <2>1, <2>2
<1>12. ASSUME NEW m \in Range(wire.in), ErrorReply(m) PROVE Subscribed'
  <2>1. /\ wire'.subscribed = wire.subscribed /\ wire'.up = wire.up
        /\ wire'.condemned = wire.condemned /\ UNCHANGED session /\ worker'.stage = "idle"
        /\ worker.stage \in {"schema", "monitor", "reply"} /\ Reads(m)
        /\ m.tell \in {"error", "schema"} /\ IsReply(m)
    BY <1>12 DEF Typed, WireType, ErrorReply, Read, End, Waiting, Stage, IsReply
  <2>2. 1 \in DOMAIN wire.in /\ m = wire.in[1]
    BY <2>1, Reading
  <2>3. CASE worker.stage = "monitor"
    <3>1. m.tell = "error"
      BY <2>1, <2>2, <2>3 DEF Fitting, Asks
    <3>2. QED
      BY <2>1, <2>2, <2>3, <3>1 DEF Subscribes
  <2>4. CASE worker.stage = "schema"
    BY <2>1, <2>4 DEF Subscribes
  <2>5. CASE worker.stage = "reply"
    BY <2>1, <2>5 DEF Subscribes, Connects
  <2>6. QED
    BY <2>1, <2>3, <2>4, <2>5
<1>13. ASSUME NEW m \in Range(wire.in), TransactReply(m) PROVE Subscribed'
  <2>1. /\ wire'.subscribed = wire.subscribed /\ wire'.up = wire.up /\ UNCHANGED session
        /\ worker'.stage = "idle" /\ worker.stage = "reply"
    BY <1>13 DEF Typed, WireType, TransactReply, Read, Stage
  <2>2. QED
    BY <2>1 DEF Subscribes, Connects
<1>14. QED
  BY <1>1, <1>2, <1>3, <1>4, <1>5, <1>6, <1>7, <1>8, <1>9, <1>10, <1>11, <1>12, <1>13
     DEF Worker, Pump

\* An update that is read while the initial rows are awaited.
AwaitsRows(m) ==
  /\ worker.stage = "monitor" /\ UNCHANGED <<worker, task>> /\ Reads(m)
  /\ wire'.in = Tail(wire.in) /\ wire'.out = wire.out
  /\ wire'.subscribed = wire.subscribed

LEMMA AtMonitor ==
  ASSUME Typed, Worker, worker'.stage = "monitor"
  PROVE  \E m \in Range(wire.in) : AwaitsRows(m) \/ SchemaReply(m)
<1>1. \/ worker.stage = "monitor" /\ UNCHANGED <<worker, task>>
      \/ worker.stage = "schema" /\ worker'.stage = "monitor"
  BY WorkerMoves DEF Proceeds, Follows, Takes, Ends, Writes
<1>2. worker' # [stage |-> "idle", job |-> 0]
  OBVIOUS
<1>3. ~Lose /\ ~Expire /\ \A m \in Range(wire.in) : ~ErrorReply(m) /\ ~TransactReply(m)
  BY <1>1, <1>2 DEF Lose, Expire, ErrorReply, TransactReply, Stage, End
<1>4. PICK m \in Range(wire.in) : Update(m) \/ SchemaReply(m) \/ MonitorReply(m)
  BY <1>1, <1>3 DEF Worker, Pump, Take, Shutdown, Connect, Connected, GiveUp, Snapshot,
                    NotSent, Transact, Stage, Drained
<1>5. CASE Update(m)
  <2>1. wire' = Read /\ UNCHANGED <<worker, task>> /\ Reads(m)
    BY <1>2, <1>5 DEF Update, End
  <2>2. QED
    BY <1>1, <2>1 DEF Typed, WireType, Read, AwaitsRows
<1>6. CASE MonitorReply(m)
  BY <1>6 DEF Typed, WorkerType, MonitorReply, Goto
<1>7. QED
  BY <1>4, <1>5, <1>6

LEMMA WorkerUnsubscribed ==
  ASSUME Typed, Connects, OneAsked, Fitting, Subscribes, Worker PROVE Unsubscribed'
<1>1. SUFFICES ASSUME worker'.stage = "monitor" PROVE Unsubscribed'
  BY DEF Unsubscribed
<1>2. CASE \E m \in Range(wire.in) : AwaitsRows(m)
  BY <1>1, <1>2, Reading DEF AwaitsRows, Subscribes, Unsubscribed
<1>3. CASE \E m \in Range(wire.in) : SchemaReply(m)
  <2>1. PICK m \in Range(wire.in) : SchemaReply(m)
    BY <1>3
  <2>2. /\ ~wire'.subscribed /\ wire'.in = Tail(wire.in) /\ Reads(m) /\ IsReply(m)
    BY <2>1 DEF Typed, WireType, SchemaReply, Read, Send, Stage, Subscribes, IsReply
  <2>3. \A i \in DOMAIN wire'.in : ~IsReply(wire'.in[i])
    BY <2>2, ReplyRead DEF OneAsked
  <2>4. QED
    BY <2>2, <2>3 DEF Unsubscribed, IsReply
<1>4. QED
  BY <1>1, <1>2, <1>3, AtMonitor
LEMMA StepSubscribes ==
  ASSUME Typed, Connects, OneAsked, Fitting, InOrder, Subscribes, [Next]_vars
  PROVE  Subscribes'
<1>1. CASE Worker
  BY <1>1, WorkerSubscribed, WorkerUnsubscribed, SubscribesParts
     DEF Subscribes, Subscribed, Unsubscribed
<1>2. CASE Loop \/ UNCHANGED vars
  <2>1. UNCHANGED <<wire, worker>> /\ session'.ready = session.ready
        /\ (session.stopping => session'.stopping)
    BY <1>2, LoopLeaves DEF Typed
  <2>2. QED
    BY <2>1 DEF Subscribes
<1>3. CASE Write
  <2>1. \A i \in DOMAIN wire'.in : wire'.in[i].tell \in {"error", "monitor"} =>
          i \in DOMAIN wire.in /\ wire'.in[i] = wire.in[i]
    BY <1>3, Writing DEF Msg
  <2>2. QED
    BY <1>3, <2>1, Writing DEF Subscribes
<1>4. CASE Break
  BY <1>4, Breaking DEF Subscribes
<1>5. CASE Serve
  <2>1. wire.out # <<>> /\ wire'.out = <<>> /\ wire'.condemned = wire.condemned
        /\ wire'.up = wire.up /\ UNCHANGED <<session, worker>>
    BY <1>5, Served DEF OneAsked
  <2>2. PICK base, reply :
          /\ Answers(base, reply)
          /\ wire.subscribed => wire'.subscribed
          /\ reply.tell = "monitor" => wire'.subscribed
          /\ reply.tell # "monitor" => wire'.subscribed = wire.subscribed
    BY <1>5, ServedVersions DEF OneAsked
  <2>3. PICK last \in DOMAIN wire'.in :
          /\ wire'.in[last] = reply
          /\ \A i \in DOMAIN wire.in : wire'.in[i] = wire.in[i]
          /\ \A i \in DOMAIN wire'.in \ DOMAIN wire.in :
               i = last \/ wire'.in[i] = Msg("update", db.version + 1)
    BY <2>2, Answered
  <2>4. ~Between
    BY <2>1 DEF OneAsked, Quiet
  <2>5. \A i \in DOMAIN wire.in : ~IsReply(wire.in[i])
    BY <2>1 DEF OneAsked, AtMostOne
  <2>6. worker.stage = "schema" => reply.tell # "monitor"
    <3>1. Fitting' /\ IsReply(reply)
      BY <1>5, <2>2, ServerConversation DEF Answers
    <3>2. QED
      BY <2>1, <2>3, <3>1 DEF Fitting, Asks, IsReply
  <2>7. Subscribed'
    BY <2>1, <2>2, <2>4, <2>6 DEF Subscribed, Subscribes, Between
  <2>8. Unsubscribed'
    <3>1. ASSUME NEW i \in DOMAIN wire'.in, wire'.in[i].tell \in {"error", "monitor"}
          PROVE  i = last
      BY <2>3, <2>5, <3>1 DEF IsReply, Msg
    <3>2. QED
      BY <2>1, <2>2, <2>3, <3>1 DEF Unsubscribed, Subscribes
  <2>9. QED
    BY <2>7, <2>8, SubscribesParts DEF Subscribes, Subscribed, Unsubscribed
<1>6. QED
  BY <1>1, <1>2, <1>3, <1>4, <1>5 DEF Next

\* How a job comes to tell of a version.
LEMMA NewlySeen ==
  ASSUME Typed, [Next]_vars, NEW j \in Job
  PROVE  \/ /\ task'[j].generation = task[j].generation
            /\ Seen(j)' => Seen(j) /\ task'[j].version = task[j].version
            /\ task'[j].outcome = "view" => task[j].outcome = "view"
         \/ /\ Snapshot /\ j = worker.job /\ task'[j].outcome = "view"
            /\ task'[j].version = session.cache
            /\ task'[j].generation = session.generation
         \/ /\ j = worker.job /\ task'[j].outcome \in {"committed", "refused"}
            /\ task'[j].generation = task[j].generation
            /\ \E m \in Range(wire.in) :
                 TransactReply(m) /\ m.tell = task'[j].outcome /\ task'[j].version = m.version
<1>. worker.stage \notin {"idle", "closed"} => worker.job \in Job
  BY JobOfStage
<1>1. CASE Loop \/ Serve \/ Write \/ Break \/ UNCHANGED vars
  BY <1>1, OthersLeave DEF Seen
<1>2. CASE Worker
  <2>1. CASE UNCHANGED <<worker, task>> \/ Proceeds \/ Writes
    BY <2>1 DEF Proceeds, Writes, SameView, Seen
  <2>2. ASSUME NEW i \in Job, Takes(i)
        PROVE  /\ task'[j].generation = task[j].generation
               /\ Seen(j)' => Seen(j) /\ task'[j].version = task[j].version
               /\ task'[j].outcome = "view" => task[j].outcome = "view"
    BY <2>2 DEF Takes, SameView, Seen
  <2>3. ASSUME NEW out \in Outcome, Ends(out), Grounds(out) \/ out = "unready"
        PROVE  \/ /\ task'[j].generation = task[j].generation
                  /\ Seen(j)' => Seen(j) /\ task'[j].version = task[j].version
                  /\ task'[j].outcome = "view" => task[j].outcome = "view"
               \/ out = "view" /\ Snapshot /\ j = worker.job
               \/ /\ j = worker.job /\ out \in {"committed", "refused"}
                  /\ \E m \in Range(wire.in) : TransactReply(m) /\ m.tell = out
    <3>1. CASE j # worker.job
      BY <2>3, <3>1 DEF Ends, Seen
    <3>2. CASE out \notin {"view", "committed", "refused"}
      BY <2>3, <3>1, <3>2 DEF Ends, SameView, Seen
    <3>3. QED
      BY <2>3, <3>1, <3>2 DEF Grounds
  <2>4. CASE Snapshot /\ j = worker.job
    BY <2>4 DEF Typed, TaskType, Future, Snapshot, Ended
  <2>5. ASSUME NEW m \in Range(wire.in), TransactReply(m), j = worker.job
        PROVE  /\ task'[j].outcome = m.tell /\ task'[j].version = m.version
               /\ task'[j].generation = task[j].generation
               /\ m.tell \in {"committed", "refused"}
    BY <2>5 DEF Typed, TaskType, Future, TransactReply, Ended, Verdict
  <2>6. "unready" \in Outcome
    BY DEF Outcome
  <2>7. QED
    BY <1>2, <2>1, <2>2, <2>3, <2>4, <2>5, <2>6, WorkerMoves
<1>3. QED
  BY <1>1, <1>2 DEF Next

LEMMA StepInitialRows ==
  ASSUME Typed, OneAsked, Fitting, ToldOf, InOrder, Subscribes, InitialRows, [Next]_vars
  PROVE  InitialRows'
<1>. \A i \in DOMAIN wire.in : wire.in[i].version \in Nat /\ i \in Nat
  BY Domains DEF Message
<1>1. SUFFICES ASSUME worker'.stage = "monitor" PROVE InitialRows'
  BY DEF InitialRows
<1>3. ASSUME Loop \/ Serve \/ Write \/ Break \/ UNCHANGED vars
      PROVE  worker.stage = "monitor" /\ \A j \in Job : Seen(j)' =>
               Seen(j) /\ task'[j].version = task[j].version
  BY <1>1, <1>3, OthersLeave DEF Seen
<1>4. CASE Loop \/ UNCHANGED vars
  <2>1. UNCHANGED wire
    BY <1>4, LoopLeaves
  <2>2. QED
    BY <1>3, <1>4, <2>1 DEF InitialRows, IsReply
<1>5. CASE Break
  BY <1>3, <1>5, Breaking DEF InitialRows, IsReply
<1>6. CASE Write
  <2>1. Msg("update", db.version + 1).version = db.version + 1
        /\ Msg("update", db.version + 1).tell = "update"
    BY DEF Msg
  <2>2. \A v \in Nat : v <= db.version => v <= db.version + 1
    BY ServerVersions
  <2>3. QED
    BY <1>3, <1>6, <2>1, <2>2, Writing DEF InitialRows, IsReply, InOrder
<1>7. CASE Serve
  <2>1. wire.out # <<>> /\ \A i \in DOMAIN wire.in : ~IsReply(wire.in[i])
    BY <1>7, Served DEF OneAsked, AtMostOne
  <2>2. ~wire.subscribed /\ DOMAIN wire.in = {}
    BY <1>3, <1>7, <2>1 DEF Subscribes, InOrder
  <2>3. PICK base, reply :
          /\ Answers(base, reply)
          /\ reply.tell = "monitor" => reply.version = db.version /\ base = wire.in
    BY <1>7, ServedVersions DEF OneAsked
  <2>4. PICK last \in DOMAIN wire'.in :
          /\ wire'.in[last] = reply
          /\ \A i \in DOMAIN wire'.in \ DOMAIN wire.in :
               i = last \/ (base # wire.in /\ wire'.in[i] = Msg("update", db.version + 1))
    BY <2>3, Answered
  <2>5. IsReply(reply)
    BY <2>3 DEF Answers
  <2>6. ASSUME NEW i \in DOMAIN wire'.in, wire'.in[i].tell = "monitor"
        PROVE  /\ wire'.in[i] = reply
               /\ \A k \in DOMAIN wire'.in : IsReply(wire'.in[k])
    BY <2>2, <2>3, <2>4, <2>5, <2>6 DEF Msg
  <2>7. QED
    BY <1>3, <1>7, <2>3, <2>6 DEF InitialRows, IsReply, ToldOf
<1>8. CASE Worker
  <2>1. PICK m \in Range(wire.in) : AwaitsRows(m) \/ SchemaReply(m)
    BY <1>1, <1>8, AtMonitor
  <2>2. CASE AwaitsRows(m)
    <3>1. \A i \in DOMAIN wire'.in : i \in Nat /\ i + 1 \in DOMAIN wire.in
                                     /\ wire'.in[i] = wire.in[i + 1]
      BY <2>2, Reading DEF AwaitsRows
    <3>2. worker.stage = "monitor" /\ \A j \in Job : Seen(j)' =>
               Seen(j) /\ task'[j].version = task[j].version
      BY <2>2 DEF AwaitsRows, Seen
    <3>3. \A i, k \in Nat : i + 1 < k + 1 => i < k
      OBVIOUS
    <3>4. QED
      BY <3>1, <3>2, <3>3 DEF InitialRows, IsReply
  <2>3. CASE SchemaReply(m)
    <3>1. Reads(m) /\ IsReply(m) /\ wire'.in = Tail(wire.in)
      BY <2>3 DEF Typed, WireType, SchemaReply, Read, Send, IsReply
    <3>2. \A i \in DOMAIN wire'.in : ~IsReply(wire'.in[i])
      BY <3>1, ReplyRead DEF OneAsked
    <3>3. QED
      BY <3>2 DEF InitialRows, IsReply
  <2>4. QED
    BY <2>1, <2>2, <2>3
<1>9. QED
  BY <1>4, <1>5, <1>6, <1>7, <1>8 DEF Next

\* How a session comes to have a copy, and how the copy changes.
LEMMA ReadyMoves ==
  ASSUME Typed, Connects, [Next]_vars, session'.ready
  PROVE  \/ session.ready /\ session'.cache = session.cache
         \/ \E m \in Range(wire.in) :
              /\ session.ready /\ Update(m) /\ session'.cache = m.version
         \/ \E m \in Range(wire.in) : MonitorReply(m) /\ session'.cache = m.version
<1>1. CASE Loop \/ Serve \/ Write \/ Break \/ UNCHANGED vars
  BY <1>1, OthersLeave DEF Typed
<1>2. ASSUME NEW j \in Job, Take(j) PROVE session.ready /\ session'.cache = session.cache
  <2>1. session' = session \/ session' = Forgotten
    BY <1>2 DEF Take, Invalidate
  <2>2. QED
    BY <2>1 DEF Typed, Forgotten
<1>3. CASE Connect \/ Lose \/ Expire
  <2>1. session' = session \/ session' = Forgotten
        \/ session' = [Forgotten EXCEPT !.generation = @ + 1]
    BY <1>3 DEF Connect, Lose, Expire, Invalidate
  <2>2. QED
    BY <2>1 DEF Typed, Forgotten
<1>4. CASE Shutdown \/ Connected \/ GiveUp \/ Snapshot \/ NotSent \/ Transact
  BY <1>4 DEF Typed, Shutdown, Connected, GiveUp, Snapshot, NotSent, Transact
<1>5. ASSUME NEW m \in Range(wire.in), Update(m)
      PROVE  session.ready /\ session'.cache = m.version
  <2>1. session' = [session EXCEPT !.cache = Applied(m)] \/ session' = Forgotten
    BY <1>5 DEF Update
  <2>2. session.ready /\ session'.cache = Applied(m)
    BY <2>1 DEF Typed, Forgotten
  <2>3. QED
    BY <2>2 DEF Connects, Applied
<1>6. ASSUME NEW m \in Range(wire.in), MonitorReply(m) PROVE session'.cache = m.version
  BY <1>6 DEF Typed, MonitorReply
<1>7. ASSUME NEW m \in Range(wire.in), SchemaReply(m) \/ ErrorReply(m) \/ TransactReply(m)
      PROVE  session.ready /\ session'.cache = session.cache
  BY <1>7 DEF Typed, SchemaReply, ErrorReply, TransactReply
<1>8. QED
  BY <1>1, <1>2, <1>3, <1>4, <1>5, <1>6, <1>7 DEF Next, Worker, Pump

LEMMA StepToldOf ==
  ASSUME Typed, Connects, ToldOf, InOrder, InitialRows, LeadOn, [Next]_vars
  PROVE  ToldOf'
<1>. /\ db.version \in Nat /\ db'.version \in Nat
     /\ \A v \in Nat : v <= db.version => v <= db'.version
  BY ServerVersions
<1>. /\ session.cache \in Nat /\ session.generation \in Nat
     /\ \A j \in Job : task[j].version \in Nat /\ task[j].generation \in Nat
  BY DEF Typed, TaskType, Future
<1>. /\ \A u, v, w \in Nat : u <= v /\ v <= w => u <= w
     /\ \A v \in Nat : v <= v
  OBVIOUS
<1>1. ASSUME NEW m, Reads(m)
      PROVE  m = wire.in[1] /\ 1 \in DOMAIN wire.in /\ m.version \in Nat
             /\ m.version <= db.version
  BY <1>1, Reading DEF InOrder, Message
<1>2. ASSUME NEW j \in Job PROVE task'[j].generation <= session'.generation
  <2>1. session.generation <= session'.generation /\ session'.generation \in Nat
    BY Generations
  <2>2. task'[j].generation \in {task[j].generation, session.generation}
    BY NewlySeen
  <2>3. QED
    BY <2>1, <2>2 DEF ToldOf
<1>3. ASSUME NEW j \in Job, Seen(j)' PROVE task'[j].version <= db'.version
  <2>1. CASE Seen(j) /\ task'[j].version = task[j].version
    BY <2>1 DEF ToldOf
  <2>2. CASE Snapshot /\ task'[j].version = session.cache
    BY <2>2 DEF Snapshot, Drained, ToldOf
  <2>3. ASSUME NEW m \in Range(wire.in), TransactReply(m), task'[j].version = m.version
        PROVE  task'[j].version <= db'.version
    BY <1>1, <2>3 DEF TransactReply
  <2>4. QED
    BY <1>3, <2>1, <2>2, <2>3, NewlySeen
<1>4. CASE session'.ready
  <2>1. CASE session.ready /\ session'.cache = session.cache
    <3>1. session'.cache <= db'.version
      BY <2>1 DEF ToldOf
    <3>2. ASSUME NEW j \in Job, Seen(j)' PROVE task'[j].version <= session'.cache
      <4>1. ASSUME NEW m \in Range(wire.in), TransactReply(m), m.tell = task'[j].outcome,
                   task'[j].version = m.version
            PROVE  m.version <= session.cache
        <5>1. m.tell = "committed" /\ m = wire.in[1] /\ 1 \in DOMAIN wire.in
          BY <1>1, <3>2, <4>1 DEF TransactReply, Seen
        <5>2. ~(\E k \in DOMAIN wire.in : k < 1)
          BY Domains
        <5>3. QED
          BY <2>1, <5>1, <5>2 DEF LeadOn
      <4>2. QED
        BY <2>1, <3>2, <4>1, NewlySeen DEF ToldOf
    <3>3. QED
      BY <1>2, <1>3, <3>1, <3>2 DEF ToldOf, Seen
  <2>2. ASSUME NEW m \in Range(wire.in), session.ready, Update(m),
               session'.cache = m.version
        PROVE  ToldOf'
    <3>1. /\ m = wire.in[1] /\ 1 \in DOMAIN wire.in /\ m.version \in Nat
          /\ m.version <= db.version /\ ~IsReply(m)
      <4>1. session' # Forgotten
        BY <1>4 DEF Typed, Forgotten
      <4>2. QED
        BY <1>1, <2>2, <4>1 DEF Update, IsReply
    <3>2. session.cache <= m.version
      BY <2>2, <3>1 DEF LeadOn
    <3>3. ASSUME NEW j \in Job, Seen(j)' PROVE task'[j].version <= session'.cache
      <4>1. session' # Forgotten
        BY <1>4 DEF Typed, Forgotten
      <4>2. Seen(j) /\ task'[j].version = task[j].version
        BY <2>2, <3>3, <4>1 DEF Update, Seen
      <4>3. QED
        BY <2>2, <3>1, <3>2, <4>2 DEF ToldOf
    <3>4. QED
      BY <1>2, <1>3, <2>2, <3>1, <3>3 DEF ToldOf, Seen
  <2>3. ASSUME NEW m \in Range(wire.in), MonitorReply(m), session'.cache = m.version
        PROVE  ToldOf'
    <3>1. /\ m = wire.in[1] /\ 1 \in DOMAIN wire.in /\ m.version \in Nat
          /\ m.version <= db.version /\ m.tell = "monitor" /\ worker.stage = "monitor"
          /\ UNCHANGED task
      BY <1>1, <2>3 DEF MonitorReply, Stage
    <3>2. \A j \in Job : Seen(j) => task[j].version <= m.version
      BY <3>1 DEF InitialRows
    <3>3. QED
      BY <1>2, <1>3, <2>3, <3>1, <3>2 DEF ToldOf, Seen
  <2>4. QED
    BY <1>4, <2>1, <2>2, <2>3, ReadyMoves
<1>5. CASE ~session'.ready
  BY <1>2, <1>3, <1>5 DEF ToldOf, Seen
<1>6. QED
  BY <1>4, <1>5

LEMMA StepLeadOn ==
  ASSUME Typed, Connects, OneAsked, Fitting, ToldOf, InOrder, Subscribes, InitialRows,
         LeadOn, [Next]_vars
  PROVE  LeadOn'
<1>. SUFFICES ASSUME session'.ready PROVE LeadOn'
  BY DEF LeadOn
<1>. /\ session.cache \in Nat /\ db.version \in Nat
     /\ \A i \in DOMAIN wire.in : wire.in[i].version \in Nat /\ i \in Nat
  BY Domains DEF Typed, Message
<1>. /\ \A u, v, w \in Nat : u <= v /\ v <= w => u <= w
     /\ \A i, k \in Nat : k < i => k + 1 < i + 1
     /\ \A i, k \in Nat : k + 1 < i + 1 => k < i
     /\ \A v \in Nat : v <= v
  OBVIOUS
<1>1. ASSUME session.ready, session'.cache = session.cache, wire'.in = wire.in
      PROVE  LeadOn'
  BY <1>1 DEF LeadOn, IsReply
<1>2. ASSUME wire'.in = <<>> PROVE LeadOn'
  BY <1>2 DEF LeadOn
<1>3. CASE Loop \/ UNCHANGED vars
  <2>1. session.ready /\ session'.cache = session.cache
    BY <1>3, OthersLeave DEF Typed
  <2>2. wire' = wire
    BY <1>3, LoopLeaves
  <2>3. QED
    BY <1>1, <2>1, <2>2
<1>4. CASE Break
  <2>1. session.ready /\ session'.cache = session.cache
    BY <1>4, OthersLeave DEF Typed
  <2>2. QED
    BY <1>4, <2>1, Breaking, SMTT(30) DEF LeadOn, IsReply
<1>5. Msg("update", db.version + 1).version = db.version + 1
      /\ ~IsReply(Msg("update", db.version + 1))
      /\ Msg("update", db.version + 1).tell = "update"
  BY DEF Msg, IsReply
<1>6. session.ready => session.cache <= db.version + 1
  <2>1. \A v, w \in Nat : v <= w => v <= w + 1
    OBVIOUS
  <2>2. QED
    BY <2>1 DEF ToldOf
<1>7. CASE Write
  <2>1. session.ready /\ session'.cache = session.cache
    BY <1>7, OthersLeave DEF Typed
  <2>2. QED
    BY <1>5, <1>6, <1>7, <2>1, Writing DEF LeadOn, IsReply
<1>8. CASE Serve
  <2>1. session.ready /\ session'.cache = session.cache
    BY <1>8, OthersLeave DEF Typed
  <2>2. wire.subscribed /\ ~wire.broken /\ wire.out # <<>>
    BY <1>8, <2>1, Served DEF OneAsked, Subscribes
  <2>3. PICK base, reply :
          /\ Answers(base, reply)
          /\ reply.tell = "committed" => reply.version = db.version + 1 /\ base = Told
    BY <1>8, ServedVersions DEF OneAsked
  <2>4. Told # wire.in
    <3>1. Told = Append(wire.in, Msg("update", db.version + 1))
      BY <2>2 DEF Told
    <3>2. Msg("update", db.version + 1) \in Message
      BY MsgType
    <3>3. Len(Told) = Len(wire.in) + 1 /\ Len(wire.in) \in Nat
      BY <3>1, <3>2, Domains, Appending
    <3>4. \A n \in Nat : n # n + 1
      OBVIOUS
    <3>5. QED
      BY <3>3, <3>4
  <2>5. PICK last \in DOMAIN wire'.in :
          /\ wire'.in[last] = reply
          /\ DOMAIN wire.in \subseteq DOMAIN wire'.in
          /\ \A i \in DOMAIN wire.in : wire'.in[i] = wire.in[i]
          /\ \A i \in DOMAIN wire'.in \ DOMAIN wire.in :
               i = last \/ wire'.in[i] = Msg("update", db.version + 1)
          /\ base # wire.in => \E i \in DOMAIN wire'.in : 
                i < last /\ wire'.in[i] = Msg("update", db.version + 1)
    BY <2>3, Answered
  <2>6. IsReply(reply)
    BY <2>3 DEF Answers
  <2>7. ASSUME NEW i \in DOMAIN wire'.in
        PROVE  /\ ~IsReply(wire'.in[i]) => session.cache <= wire'.in[i].version
               /\ wire'.in[i].tell = "committed" =>
                    \/ wire'.in[i].version <= session.cache
                    \/ \E k \in DOMAIN wire'.in :
                         /\ k < i /\ ~IsReply(wire'.in[k])
                         /\ wire'.in[i].version <= wire'.in[k].version
    <3>1. CASE i \in DOMAIN wire.in
      BY <2>1, <2>5, <3>1 DEF LeadOn
    <3>2. CASE i \notin DOMAIN wire.in /\ i # last
      BY <1>5, <1>6, <2>1, <2>5, <3>2
    <3>3. CASE i = last
      <4>1. db.version + 1 <= db.version + 1
        OBVIOUS
      <4>2. QED
        BY <1>5, <2>3, <2>4, <2>5, <2>6, <3>3, <4>1
    <3>4. QED
      BY <3>1, <3>2, <3>3
  <2>8. QED
    BY <2>1, <2>7 DEF LeadOn, IsReply
<1>9. CASE Worker
  <2>1. ASSUME NEW m \in Range(wire.in), Update(m) PROVE LeadOn'
    <3>1. session.ready /\ session'.cache = m.version
      <4>1. session' = [session EXCEPT !.cache = Applied(m)] \/ session' = Forgotten
        BY <2>1 DEF Update
      <4>2. session.ready /\ session'.cache = Applied(m)
        BY <4>1 DEF Typed, Forgotten
      <4>3. QED
        BY <4>2 DEF Connects, Applied
    <3>2. /\ m = wire.in[1] /\ 1 \in DOMAIN wire.in /\ ~IsReply(m)
          /\ \A i \in DOMAIN wire'.in : /\ i \in Nat \ {0} /\ i + 1 \in DOMAIN wire.in
                                        /\ wire'.in[i] = wire.in[i + 1]
      <4>1. Reads(m) /\ wire'.in = Tail(wire.in) /\ ~IsReply(m)
        <5>1. session' # Forgotten
          BY DEF Typed, Forgotten
        <5>2. QED
          BY <2>1, <5>1 DEF Typed, WireType, Update, Read, IsReply
      <4>2. QED
        BY <4>1, Reading
    <3>3. session.cache <= m.version
      BY <3>1, <3>2 DEF LeadOn
    <3>4. ASSUME NEW i \in DOMAIN wire'.in, ~IsReply(wire'.in[i])
          PROVE  m.version <= wire'.in[i].version
      <4>1. \A n \in Nat \ {0} : 1 < n + 1
        OBVIOUS
      <4>2. QED
        BY <3>2, <3>4, <4>1 DEF InOrder
    <3>5. ASSUME NEW i \in DOMAIN wire'.in, wire'.in[i].tell = "committed"
          PROVE  \/ wire'.in[i].version <= m.version
                 \/ \E k \in DOMAIN wire'.in :
                      /\ k < i /\ ~IsReply(wire'.in[k])
                      /\ wire'.in[i].version <= wire'.in[k].version
      <4>1. CASE wire.in[i + 1].version <= session.cache
        BY <3>2, <3>3, <4>1
      <4>2. ASSUME NEW k \in DOMAIN wire.in, k < i + 1, ~IsReply(wire.in[k]),
                   wire.in[i + 1].version <= wire.in[k].version, k # 1
            PROVE  /\ k - 1 \in DOMAIN wire'.in /\ k - 1 < i
                   /\ wire'.in[k - 1] = wire.in[k]
        <5>1. /\ DOMAIN wire'.in = 1..(Len(wire.in) - 1) /\ Len(wire.in) \in Nat
              /\ DOMAIN wire.in = 1..Len(wire.in)
          <6>1. Reads(m) /\ wire'.in = Tail(wire.in)
            BY <2>1 DEF Typed, WireType, Update, Read
          <6>2. wire'.in \in Seq(Message) /\ Len(wire'.in) = Len(wire.in) - 1
            BY <6>1, Reading
          <6>3. QED
            BY <6>2, Domains, LenProperties
        <5>2. \A n \in Nat : \A c \in 1..n, d \in 1..(n - 1) : c < d + 1 /\ c # 1 =>
                c - 1 \in 1..(n - 1) /\ c - 1 < d /\ c - 1 + 1 = c
          OBVIOUS
        <5>3. k - 1 \in DOMAIN wire'.in /\ k - 1 < i /\ k - 1 + 1 = k
          BY <4>2, <5>1, <5>2
        <5>4. QED
          BY <3>2, <5>3
      <4>3. QED
        BY <3>1, <3>2, <3>5, <4>1, <4>2 DEF LeadOn
    <3>6. QED
      BY <3>1, <3>4, <3>5 DEF LeadOn, IsReply
  <2>2. ASSUME NEW m \in Range(wire.in), MonitorReply(m) PROVE LeadOn'
    <3>1. /\ Reads(m) /\ IsReply(m) /\ wire'.in = Tail(wire.in) /\ m.tell = "monitor"
          /\ session'.cache = m.version /\ worker.stage = "monitor"
      BY <2>2 DEF Typed, WireType, MonitorReply, Read, Stage, IsReply
    <3>2. \A i \in DOMAIN wire'.in : ~IsReply(wire'.in[i])
      BY <3>1, ReplyRead DEF OneAsked
    <3>3. /\ m = wire.in[1] /\ 1 \in DOMAIN wire.in
          /\ \A i \in DOMAIN wire'.in : /\ i + 1 \in DOMAIN wire.in
                                        /\ wire'.in[i] = wire.in[i + 1]
      BY <3>1, Reading
    <3>4. QED
      BY <3>1, <3>2, <3>3 DEF LeadOn, InitialRows, IsReply
  <2>3. CASE ~(\E m \in Range(wire.in) : Update(m) \/ MonitorReply(m))
    <3>1. session.ready /\ session'.cache = session.cache
      BY <2>3, ReadyMoves
    <3>2. CASE wire'.in = wire.in \/ wire'.in = <<>>
      BY <1>1, <1>2, <3>1, <3>2
    <3>3. ASSUME NEW m \in Range(wire.in), Pump(m), Reads(m), wire'.in = Tail(wire.in)
          PROVE  LeadOn'
      <4>1. IsReply(m)
        BY <2>3, <3>3 DEF Pump, SchemaReply, ErrorReply, TransactReply, IsReply
      <4>2. \A i \in DOMAIN wire'.in : ~IsReply(wire'.in[i])
        BY <3>3, <4>1, ReplyRead DEF OneAsked
      <4>3. \A i \in DOMAIN wire'.in : i + 1 \in DOMAIN wire.in
                                       /\ wire'.in[i] = wire.in[i + 1]
        BY <3>3, Reading
      <4>4. QED
        BY <3>1, <4>2, <4>3 DEF LeadOn, IsReply
    <3>4. QED
      BY <1>9, <3>2, <3>3, WorkerReads
  <2>4. QED
    BY <2>1, <2>2, <2>3
<1>10. QED
  BY <1>3, <1>4, <1>7, <1>8, <1>9 DEF Next

LEMMA StepViews ==
  ASSUME Typed, OneRuns, ToldOf, ViewsAdvance, [Next]_vars PROVE ViewsAdvance'
<1>. /\ session.cache \in Nat /\ session.generation \in Nat
     /\ \A j \in Job : task[j].version \in Nat /\ task[j].generation \in Nat
  BY DEF Typed, TaskType, Future
<1>. SUFFICES ASSUME NEW j \in Job, NEW i \in 1..(j - 1),
                     task'[j].outcome = "view", Seen(i)'
              PROVE  /\ task'[i].version <= task'[j].version
                     /\ task'[i].generation <= task'[j].generation
  BY DEF ViewsAdvance, Seen
<1>1. i \in Job /\ i < j
  BY SessionAssumption DEF Job
<1>2. CASE task[j].outcome = "view" /\ task'[j].version = task[j].version
           /\ task'[j].generation = task[j].generation
  \* What j shows it showed before, when the jobs before it were over.
  <2>1. task[i].phase \notin {"new", "queued", "running"}
    BY <1>1, <1>2 DEF OneRuns, Over
  <2>2. ~(i = worker.job)
    BY <1>1, <2>1, SessionAssumption DEF OneRuns, Job
  <2>3. Seen(i) /\ UNCHANGED <<task[i].version, task[i].generation>>
    BY <1>1, <2>2, NewlySeen
  <2>4. QED
    BY <1>2, <2>3 DEF ViewsAdvance, Seen
<1>3. CASE Snapshot /\ j = worker.job /\ task'[j].version = session.cache
           /\ task'[j].generation = session.generation
  <2>1. i # worker.job
    BY <1>1, <1>3 DEF Job
  <2>2. Seen(i) /\ task'[i].version = task[i].version
        /\ task'[i].generation = task[i].generation
    BY <1>1, <2>1, NewlySeen
  <2>3. session.ready
    BY <1>3 DEF Snapshot, Drained
  <2>4. QED
    BY <1>1, <1>3, <2>2, <2>3 DEF ToldOf
<1>4. QED
  BY <1>2, <1>3, NewlySeen DEF Seen

Views == ToldOf /\ InOrder /\ Subscribes /\ InitialRows /\ LeadOn /\ ViewsAdvance

LEMMA InitViews == Init => Views
<1>. SUFFICES ASSUME Init PROVE Views
  OBVIOUS
<1>1. DOMAIN wire.in = {} /\ worker.stage = "idle" /\ ~wire.subscribed
      /\ ~session.ready /\ db.version = 0 /\ session.generation = 0
  BY DEF Init, NoWire
<1>2. \A j \in Job : task[j].outcome = "none" /\ task[j].generation = 0
  BY DEF Init
<1>3. 0 <= 0
  OBVIOUS
<1>4. QED
  BY <1>1, <1>2, <1>3 DEF Views, ToldOf, Seen, InOrder, Subscribes, InitialRows, LeadOn,
     ViewsAdvance

LEMMA StepVersions == ASSUME Jobs, Talk, Views, [Next]_vars PROVE Views'
BY StepToldOf, StepInOrder, StepSubscribes, StepInitialRows, StepLeadOn, StepViews
   DEF Jobs, Talk, Views

\* A snapshot never shows less than an earlier snapshot or an earlier commit's reply
\* has already told, for any number of jobs, connections and commits and with all
\* failures: updates precede the reply of their commit, and a copy that missed one is
\* not shown before the initial rows of a later connection have replaced it.
THEOREM ViewsNeverGoBack == Spec => []ViewsAdvance
<1>1. Views => ViewsAdvance
  BY DEF Views
<1>2. QED
  BY <1>1, InitJobs, StepJobs, InitTalk, StepTalk, InitViews, StepVersions, PTL DEF Spec

-----------------------------------------------------------------------------
(***************************************************************************)
(* No gap: what the copy lacks is under way.                               *)
(***************************************************************************)

\* No version is sent twice on a connection.
Distinct ==
  \A i, k \in DOMAIN wire.in :
    i # k /\ ~IsReply(wire.in[i]) /\ ~IsReply(wire.in[k]) =>
      wire.in[i].version # wire.in[k].version

\* The updates under way make a copy of version v complete, and repeat none of it.
Completes(v) ==
  /\ \A i \in DOMAIN wire.in : ~IsReply(wire.in[i]) => wire.in[i].version # v
  /\ \A u \in Nat : v < u /\ u <= db.version =>
       \E i \in DOMAIN wire.in : ~IsReply(wire.in[i]) /\ wire.in[i].version = u

\* They complete the copy of a ready session, and initial rows that are under way.
Whole ==
  wire.up /\ ~wire.broken =>
    /\ session.ready => Completes(session.cache)
    /\ worker.stage = "monitor" =>
         \A i \in DOMAIN wire.in :
           wire.in[i].tell = "monitor" => Completes(wire.in[i].version)

LEMMA UpdateMsg ==
  ASSUME Typed
  PROVE  LET u == Msg("update", db.version + 1)
         IN  u \in Message /\ ~IsReply(u) /\ u.version = db.version + 1
BY MsgType DEF Typed, Msg, IsReply

\* A subscriber is told of every commit.
LEMMA ToldLast ==
  ASSUME Typed, wire.subscribed, ~wire.broken
  PROVE  LET n == Len(wire.in)
         IN  /\ n \in Nat /\ DOMAIN Told = 1..(n + 1) /\ DOMAIN wire.in = 1..n
             /\ Told[n + 1] = Msg("update", db.version + 1)
             /\ Told \in Seq(Message) /\ Len(Told) = n + 1
<1>1. Told = Append(wire.in, Msg("update", db.version + 1))
  BY DEF Told
<1>2. QED
  BY <1>1, UpdateMsg, Domains, Appending

\* What is new on the wire after a step of the server.
LEMMA Growing ==
  ASSUME Typed, OneAsked, Serve \/ Write
  PROVE  /\ DOMAIN wire.in \subseteq DOMAIN wire'.in
         /\ \A i \in DOMAIN wire.in : wire'.in[i] = wire.in[i]
         /\ db'.version \in {db.version, db.version + 1}
         /\ \A i \in DOMAIN wire'.in \ DOMAIN wire.in : ~IsReply(wire'.in[i]) =>
              /\ wire'.in[i].version = db.version + 1
              /\ \A k \in DOMAIN wire'.in \ DOMAIN wire.in :
                   ~IsReply(wire'.in[k]) => k = i
         /\ db'.version # db.version /\ wire.subscribed /\ ~wire.broken =>
              \E i \in DOMAIN wire'.in :
                ~IsReply(wire'.in[i]) /\ wire'.in[i].version = db.version + 1
<1>. DEFINE n == Len(wire.in)
<1>1. n \in Nat /\ DOMAIN wire.in = 1..n /\ wire.in \in Seq(Message) /\ n + 1 \in 1..(n + 1)
  BY Domains
<1>2. CASE Write
  <2>1. ASSUME wire.subscribed, ~wire.broken
        PROVE  n + 1 \in DOMAIN wire'.in
               /\ wire'.in[n + 1] = Msg("update", db.version + 1)
    <3>1. wire'.in = Told
      BY <1>2 DEF Write, Typed, WireType
    <3>2. QED
      BY <1>1, <2>1, <3>1, ToldLast
  <2>. HIDE DEF n
  <2>2. QED
    BY <1>2, <2>1, Writing, UpdateMsg
<1>3. CASE Serve
  <2>1. AtMostOne
    BY DEF OneAsked
  <2>2. PICK base, reply :
          /\ Answers(base, reply)
          /\ \/ db'.version = db.version
             \/ db'.version = db.version + 1 /\ base = Told
    <3>1. Commit({wire.out[1].job}) => db'.version = db.version + 1
      BY DEF Commit
    <3>2. QED
      BY <1>3, <2>1, <3>1, Served DEF Kept
  <2>3. IsReply(reply)
    BY <2>2 DEF Answers
  <2>4. PICK last \in DOMAIN wire'.in :
          /\ wire'.in[last] = reply
          /\ DOMAIN wire.in \subseteq DOMAIN wire'.in
          /\ \A i \in DOMAIN wire.in : wire'.in[i] = wire.in[i]
          /\ \A i \in DOMAIN wire'.in \ DOMAIN wire.in :
               \/ i = last
               \/ /\ base # wire.in /\ wire.subscribed
                  /\ wire'.in[i] = Msg("update", db.version + 1)
          /\ base # wire.in => \E i \in DOMAIN wire'.in :
               i < last /\ wire'.in[i] = Msg("update", db.version + 1)
    BY <2>2, Answered
  <2>5. ASSUME NEW i \in DOMAIN wire'.in \ DOMAIN wire.in, ~IsReply(wire'.in[i])
        PROVE  wire'.in[i].version = db.version + 1 /\ i = n + 1
    <3>1. base # wire.in /\ wire'.in[i] = Msg("update", db.version + 1)
      BY <2>3, <2>4, <2>5
    <3>2. base = Told /\ base # wire.in
      BY <2>2, <3>1 DEF Answers
    <3>3. wire.subscribed /\ ~wire.broken
      BY <3>2 DEF Told
    <3>4. base \in Seq(Message) /\ Len(base) = n + 1
      BY <3>2, <3>3, ToldLast
    <3>5. DOMAIN wire'.in = 1..(n + 1 + 1) /\ wire'.in[n + 1 + 1] = reply
      BY <2>2, <3>4, Appending DEF Answers
    <3>6. i \in 1..(n + 1 + 1) /\ i \notin 1..n /\ i # n + 1 + 1
      BY <1>1, <2>3, <2>5, <3>5
    <3>. HIDE DEF n
    <3>7. i = n + 1
      BY <1>1, <3>6
    <3>8. QED
      BY <3>1, <3>7, UpdateMsg
  <2>6. ASSUME db'.version # db.version, wire.subscribed, ~wire.broken
        PROVE  base # wire.in
    <3>1. base = Told
      BY <2>2, <2>6
    <3>2. Len(Told) = n + 1 /\ n # n + 1
      BY <1>1, <2>6, ToldLast
    <3>3. QED
      BY <3>1, <3>2
  <2>. HIDE DEF n
  <2>7. QED
    BY <2>2, <2>4, <2>5, <2>6, UpdateMsg
<1>4. QED
  BY <1>2, <1>3

\* What is left of the messages when one is read.
LEMMA Rest ==
  ASSUME Typed, NEW m, Reads(m), wire'.in = Tail(wire.in)
  PROVE  /\ 1 \in DOMAIN wire.in /\ m = wire.in[1]
         /\ \A i \in DOMAIN wire'.in :
              i \in Nat \ {0} /\ i + 1 \in DOMAIN wire.in /\ wire'.in[i] = wire.in[i + 1]
         /\ \A k \in DOMAIN wire.in \ {1} :
              \E i \in DOMAIN wire'.in : wire'.in[i] = wire.in[k]
<1>1. /\ DOMAIN wire'.in = 1..(Len(wire.in) - 1) /\ Len(wire.in) \in Nat
      /\ DOMAIN wire.in = 1..Len(wire.in)
  BY Reading, Domains, LenProperties
<1>2. \A n \in Nat : \A k \in 1..n \ {1} : k - 1 \in 1..(n - 1) /\ k - 1 + 1 = k
  OBVIOUS
<1>3. /\ 1 \in DOMAIN wire.in /\ m = wire.in[1]
      /\ \A i \in DOMAIN wire'.in :
           i \in Nat \ {0} /\ i + 1 \in DOMAIN wire.in /\ wire'.in[i] = wire.in[i + 1]
  BY Reading
<1>4. ASSUME NEW k \in DOMAIN wire.in \ {1}
      PROVE  \E i \in DOMAIN wire'.in : wire'.in[i] = wire.in[k]
  <2>1. k - 1 \in DOMAIN wire'.in /\ k - 1 + 1 = k
    BY <1>1, <1>2
  <2>2. QED
    BY <1>3, <2>1
<1>5. QED
  BY <1>3, <1>4

LEMMA StepDistinct ==
  ASSUME Typed, OneAsked, InOrder, Distinct, [Next]_vars PROVE Distinct'
<1>1. ASSUME wire'.in \in {wire.in, <<>>} PROVE Distinct'
  BY <1>1 DEF Distinct, IsReply
<1>2. CASE Loop \/ UNCHANGED vars
  BY <1>1, <1>2, LoopLeaves
<1>3. CASE Break
  BY <1>3, Breaking DEF Distinct, IsReply
<1>4. CASE Serve \/ Write
  <2>1. \A i \in DOMAIN wire.in : wire.in[i].version # db.version + 1
    <3>1. \A v \in Nat : v <= db.version => v # db.version + 1
      BY DEF Typed
    <3>2. QED
      BY <3>1, Domains DEF InOrder, Message
  <2>2. QED
    BY <1>4, <2>1, Growing DEF Distinct, IsReply
<1>5. CASE Worker
  <2>1. ASSUME NEW m, Reads(m), wire'.in = Tail(wire.in) PROVE Distinct'
    <3>1. \A i, k \in Nat : i # k => i + 1 # k + 1
      OBVIOUS
    <3>2. \A i \in DOMAIN wire'.in :
            i \in Nat /\ i + 1 \in DOMAIN wire.in /\ wire'.in[i] = wire.in[i + 1]
      BY <2>1, Rest
    <3>3. ASSUME NEW i \in DOMAIN wire'.in, NEW k \in DOMAIN wire'.in, i # k
          PROVE  i + 1 # k + 1
      BY <3>1, <3>2, <3>3
    <3>4. QED
      BY <3>2, <3>3 DEF Distinct, IsReply
  <2>2. QED
    BY <1>1, <1>5, <2>1, WorkerReads
<1>6. QED
  BY <1>2, <1>3, <1>4, <1>5 DEF Next

\* A commit adds its update to what completes a copy.
LEMMA ServerCompletes ==
  ASSUME Typed, OneAsked, Serve \/ Write, wire.subscribed, ~wire.broken,
         NEW v \in Nat, v <= db.version, Completes(v)
  PROVE  Completes(v)'
<1>1. /\ db.version \in Nat /\ v # db.version + 1
      /\ \A u \in Nat : u <= db.version + 1 => u <= db.version \/ u = db.version + 1
  BY DEF Typed
<1>2. ASSUME NEW i \in DOMAIN wire'.in, ~IsReply(wire'.in[i]) PROVE wire'.in[i].version # v
  BY <1>1, <1>2, Growing DEF Completes
<1>3. ASSUME NEW u \in Nat, v < u, u <= db'.version
      PROVE  \E i \in DOMAIN wire'.in : ~IsReply(wire'.in[i]) /\ wire'.in[i].version = u
  <2>1. CASE u <= db.version
    BY <1>3, <2>1, Growing DEF Completes
  <2>2. CASE ~(u <= db.version)
    BY <1>1, <1>3, <2>2, Growing
  <2>3. QED
    BY <2>1, <2>2
<1>4. QED
  BY <1>2, <1>3 DEF Completes, IsReply

\* A reply that is read takes nothing away from it.
LEMMA ReplyCompletes ==
  ASSUME Typed, NEW m, Reads(m), IsReply(m), wire'.in = Tail(wire.in),
         db'.version = db.version, NEW v, Completes(v)
  PROVE  Completes(v)'
<1>1. \A k \in DOMAIN wire.in : ~IsReply(wire.in[k]) => k # 1
  BY Rest
<1>2. QED
  BY <1>1, Rest DEF Completes, IsReply

\* An update that is read leaves what completes its own version.
LEMMA UpdateCompletes ==
  ASSUME Typed, Distinct, NEW m, Reads(m), ~IsReply(m), wire'.in = Tail(wire.in),
         db'.version = db.version, NEW v \in Nat, v <= m.version, Completes(v)
  PROVE  Completes(m.version)'
<1>1. m.version \in Nat /\ \A u \in Nat : m.version < u => v < u /\ u # m.version
  BY Reading DEF Message
<1>2. \A i \in Nat \ {0} : i + 1 # 1
  OBVIOUS
<1>3. ASSUME NEW i \in DOMAIN wire'.in, ~IsReply(wire'.in[i])
      PROVE  wire'.in[i].version # m.version
  BY <1>2, <1>3, Rest DEF Distinct
<1>4. ASSUME NEW u \in Nat, m.version < u, u <= db.version
      PROVE  \E i \in DOMAIN wire'.in : ~IsReply(wire'.in[i]) /\ wire'.in[i].version = u
  <2>1. PICK k \in DOMAIN wire.in : ~IsReply(wire.in[k]) /\ wire.in[k].version = u
    BY <1>1, <1>4 DEF Completes
  <2>2. k # 1
    BY <1>1, <1>4, <2>1, Rest
  <2>3. QED
    BY <2>1, <2>2, Rest
<1>5. QED
  BY <1>3, <1>4 DEF Completes, IsReply

\* A connection that is in use was in use, or is new.
LEMMA StaysInUse ==
  ASSUME Typed, OneAsked, [Next]_vars, wire'.up, ~wire'.broken
  PROVE  Connect \/ (wire.up /\ ~wire.broken /\ ~Shutdown /\ ~Lose)
<1>1. ASSUME Shutdown \/ Lose PROVE FALSE
  BY <1>1 DEF Shutdown, Lose, NoWire
<1>2. CASE Loop \/ UNCHANGED vars
  BY <1>1, <1>2, LoopLeaves
<1>3. CASE Serve \/ Write \/ Break
  BY <1>1, <1>3, Served, Writing, Breaking DEF OneAsked
<1>4. ASSUME Worker, ~Connect PROVE wire.up /\ ~wire.broken
  <2>1. CASE (\E j \in Job : Take(j)) \/ GiveUp \/ Expire \/ Snapshot \/ NotSent
    BY <2>1 DEF Typed, WireType, Take, Invalidate, GiveUp, Expire, Snapshot, NotSent
  <2>2. CASE Connected \/ Transact
    BY <2>2 DEF Typed, WireType, Connected, Transact, Send
  <2>3. ASSUME NEW m \in Range(wire.in), Pump(m) PROVE wire.up /\ ~wire.broken
    BY <2>3 DEF Typed, WireType, Pump, Update, SchemaReply, MonitorReply, ErrorReply,
                TransactReply, Read, Reads, Send
  <2>4. QED
    BY <1>1, <1>4, <2>1, <2>2, <2>3 DEF Worker
<1>5. QED
  BY <1>1, <1>2, <1>3, <1>4 DEF Next

LEMMA StepWholeCopy ==
  ASSUME Typed, Connects, OneAsked, ToldOf, Subscribes, LeadOn, Distinct, Whole,
         [Next]_vars, wire'.up, ~wire'.broken, session'.ready
  PROVE  Completes(session.cache)'
<1>. PICK c : c = session'.cache
  OBVIOUS
<1>. SUFFICES Completes(c)'
  BY DEF Completes
<1>1. ~Connect
  BY DEF Connect, Forgotten, Typed
<1>2. wire.up /\ ~wire.broken /\ ~Shutdown /\ ~Lose
  BY <1>1, StaysInUse
<1>3. session.ready /\ session.cache = c =>
        /\ Completes(c) /\ c \in Nat /\ c <= db.version /\ wire.subscribed
  BY <1>2 DEF Typed, Whole, ToldOf, Subscribes, Completes
<1>4. CASE Loop \/ UNCHANGED vars
  <2>1. session.ready /\ session.cache = c /\ UNCHANGED <<db, wire>>
    BY <1>4, OthersLeave, LoopLeaves DEF Typed
  <2>2. QED
    BY <1>3, <2>1 DEF Completes, IsReply
<1>5. CASE Serve \/ Write
  <2>1. session.ready /\ session.cache = c
    BY <1>5, OthersLeave DEF Typed
  <2>2. QED
    BY <1>2, <1>3, <1>5, <2>1, ServerCompletes
<1>6. CASE Break
  BY <1>6, Breaking
<1>7. CASE Worker
  <2>1. db'.version = db.version
    BY <1>7, WorkerReads
  <2>2. ASSUME NEW m, Update(m), Reads(m), wire'.in = Tail(wire.in), session.ready,
               c = m.version
        PROVE  Completes(c)'
    <3>1. m = wire.in[1] /\ 1 \in DOMAIN wire.in /\ ~IsReply(m)
      <4>1. session' # Forgotten
        BY DEF Typed, Forgotten
      <4>2. QED
        BY <2>2, <4>1, Rest DEF Update, IsReply
    <3>2. PICK v : v = session.cache
      OBVIOUS
    <3>3. v \in Nat /\ v <= m.version /\ Completes(v)
      BY <1>2, <2>2, <3>1, <3>2 DEF Typed, LeadOn, Whole, Completes
    <3>4. QED
      BY <2>1, <2>2, <3>1, <3>3, UpdateCompletes
  <2>3. ASSUME NEW m, MonitorReply(m), Reads(m), wire'.in = Tail(wire.in), c = m.version
        PROVE  Completes(c)'
    <3>1. m = wire.in[1] /\ 1 \in DOMAIN wire.in /\ m.tell = "monitor" /\ IsReply(m)
          /\ worker.stage = "monitor"
      BY <2>3, Rest DEF MonitorReply, IsReply, Stage
    <3>2. Completes(c)
      BY <1>2, <2>3, <3>1 DEF Whole, Completes
    <3>3. QED
      BY <2>1, <2>3, <3>1, <3>2, ReplyCompletes
  <2>4. CASE session.ready /\ session.cache = c
    <3>1. CASE wire'.in = wire.in
      BY <1>3, <2>1, <2>4, <3>1 DEF Completes, IsReply
    <3>2. ASSUME NEW m, Pump(m), Reads(m), wire'.in = Tail(wire.in) PROVE Completes(c)'
      <4>1. CASE Update(m)
        <5>1. session' = [session EXCEPT !.cache = Applied(m)] \/ session' = Forgotten
          BY <4>1 DEF Update
        <5>2. session'.cache = Applied(m)
          BY <5>1 DEF Typed, Forgotten
        <5>3. c = m.version
          BY <2>4, <5>2 DEF Connects, Applied
        <5>4. QED
          BY <2>2, <2>4, <3>2, <4>1, <5>3
      <4>2. CASE MonitorReply(m)
        <5>1. c = m.version
          BY <4>2 DEF Typed, MonitorReply
        <5>2. QED
          BY <2>3, <3>2, <4>2, <5>1
      <4>3. CASE SchemaReply(m) \/ ErrorReply(m) \/ TransactReply(m)
        <5>1. IsReply(m)
          BY <4>3 DEF SchemaReply, ErrorReply, TransactReply, IsReply
        <5>2. QED
          BY <1>3, <2>1, <2>4, <3>2, <5>1, ReplyCompletes
      <4>4. QED
        BY <3>2, <4>1, <4>2, <4>3 DEF Pump
    <3>3. QED
      BY <1>1, <1>2, <1>7, <3>1, <3>2, WorkerReads
  <2>5. ASSUME NEW m \in Range(wire.in), Update(m) \/ MonitorReply(m)
        PROVE  Reads(m) /\ wire'.in = Tail(wire.in)
    BY <2>5 DEF Typed, WireType, Update, MonitorReply, Read
  <2>6. QED
    BY <2>2, <2>3, <2>4, <2>5, ReadyMoves
<1>8. QED
  BY <1>4, <1>5, <1>6, <1>7 DEF Next

LEMMA StepWholeRows ==
  ASSUME Typed, Connects, OneAsked, InOrder, Subscribes, InitialRows, Whole,
         [Next]_vars, wire'.up, ~wire'.broken, worker'.stage = "monitor",
         NEW i \in DOMAIN wire'.in, wire'.in[i].tell = "monitor"
  PROVE  Completes(wire.in[i].version)'
<1>. PICK c : c = wire'.in[i].version
  OBVIOUS
<1>. SUFFICES Completes(c)'
  BY DEF Completes
<1>1. ASSUME wire.up, ~wire.broken, worker.stage = "monitor", NEW k \in DOMAIN wire.in,
             wire.in[k].tell = "monitor", wire.in[k].version = c
      PROVE  Completes(c) /\ c \in Nat /\ c <= db.version /\ wire.subscribed
  BY <1>1, Domains DEF Whole, InOrder, Subscribes, Message, Completes
<1>2. CASE Loop \/ UNCHANGED vars
  <2>1. UNCHANGED <<db, wire, worker>>
    BY <1>2, LoopLeaves
  <2>2. QED
    BY <1>1, <2>1 DEF Completes, IsReply
<1>3. CASE Write
  <2>1. /\ worker.stage = "monitor" /\ wire.up /\ ~wire.broken
        /\ i \in DOMAIN wire.in /\ wire'.in[i] = wire.in[i]
    BY <1>3, Writing, UpdateMsg DEF IsReply
  <2>2. QED
    BY <1>1, <1>3, <2>1, ServerCompletes
<1>4. CASE Break
  BY <1>4, Breaking
<1>5. CASE Serve
  <2>1. /\ worker.stage = "monitor" /\ wire.out # <<>>
        /\ \A k \in DOMAIN wire.in : ~IsReply(wire.in[k])
    BY <1>5, Served DEF OneAsked, AtMostOne
  <2>2. ~wire.subscribed /\ DOMAIN wire.in = {}
    BY <2>1 DEF Subscribes, InOrder
  <2>3. PICK base, reply :
          /\ Answers(base, reply)
          /\ reply.tell = "monitor" =>
               reply.version = db.version /\ base = wire.in /\ db' = db
    <3>1. \A t, v : Msg(t, v).tell = t /\ Msg(t, v).version = v
      BY DEF Msg
    <3>2. QED
      BY <1>5, <3>1, Served DEF OneAsked, Kept
  <2>4. PICK last \in DOMAIN wire'.in :
          /\ wire'.in[last] = reply
          /\ \A k \in DOMAIN wire'.in \ DOMAIN wire.in :
               k = last \/ (base # wire.in /\ wire'.in[k] = Msg("update", db.version + 1))
    BY <2>3, Answered
  <2>5. i = last
    BY <2>2, <2>4, UpdateMsg DEF IsReply
  <2>6. /\ c = db.version /\ db' = db /\ c \in Nat
        /\ \A k \in DOMAIN wire'.in : IsReply(wire'.in[k])
    BY <2>2, <2>3, <2>4, <2>5 DEF Typed, Answers
  <2>7. \A u \in Nat : ~(c < u /\ u <= c)
    BY <2>6
  <2>8. QED
    BY <2>6, <2>7 DEF Completes, IsReply
<1>6. CASE Worker
  <2>1. PICK m \in Range(wire.in) : AwaitsRows(m) \/ SchemaReply(m)
    BY <1>6, AtMonitor
  <2>2. CASE AwaitsRows(m)
    <3>1. /\ Reads(m) /\ wire'.in = Tail(wire.in) /\ worker.stage = "monitor"
      BY <2>2 DEF AwaitsRows
    <3>2. PICK k \in DOMAIN wire.in : /\ k = i + 1 /\ wire.in[k] = wire'.in[i] /\ k # 1
                                      /\ wire.in[k].tell = "monitor" /\ i \in Nat \ {0}
      <4>1. \A n \in Nat \ {0} : n + 1 # 1
        OBVIOUS
      <4>2. QED
        BY <3>1, <4>1, Rest
    \* Before the initial rows there is only their reply to come.
    <3>3. 1 \in DOMAIN wire.in /\ m = wire.in[1] /\ ~(k < 1)
      <4>1. \A n \in Nat \ {0} : ~(n + 1 < 1)
        OBVIOUS
      <4>2. QED
        BY <3>1, <3>2, <4>1, Rest
    <3>4. IsReply(m)
      BY <3>1, <3>2, <3>3 DEF InitialRows
    <3>5. IsReply(wire.in[k])
      BY <3>2 DEF IsReply
    <3>6. QED
      BY <3>2, <3>3, <3>4, <3>5 DEF OneAsked, AtMostOne
  <2>3. CASE SchemaReply(m)
    <3>1. Reads(m) /\ IsReply(m) /\ wire'.in = Tail(wire.in)
      BY <2>3 DEF Typed, WireType, SchemaReply, Read, Send, IsReply
    <3>2. ~IsReply(wire'.in[i])
      BY <3>1, ReplyRead DEF OneAsked
    <3>3. QED
      BY <3>2 DEF IsReply
  <2>4. QED
    BY <2>1, <2>2, <2>3
<1>7. QED
  BY <1>2, <1>3, <1>4, <1>5, <1>6 DEF Next

LEMMA StepWhole ==
  ASSUME Jobs, Talk, Views, Distinct, Whole, [Next]_vars PROVE Distinct' /\ Whole'
<1>. Typed /\ Connects
  BY DEF Jobs
<1>. OneAsked
  BY DEF Talk
<1>. ToldOf /\ InOrder /\ Subscribes /\ InitialRows /\ LeadOn
  BY DEF Views
<1>1. Distinct'
  BY StepDistinct
<1>2. wire'.up /\ ~wire'.broken /\ session'.ready => Completes(session.cache)'
  BY StepWholeCopy
<1>3. \A i \in DOMAIN wire'.in :
        wire'.up /\ ~wire'.broken /\ worker'.stage = "monitor"
        /\ wire'.in[i].tell = "monitor" => Completes(wire.in[i].version)'
  BY StepWholeRows
<1>4. QED
  BY <1>1, <1>2, <1>3 DEF Whole

LEMMA NoGapFollows ==
  ASSUME Typed, ToldOf, InOrder, Subscribes, LeadOn, Distinct, Whole
  PROVE  NoGap
<1>. SUFFICES ASSUME session.ready, wire.up, ~wire.broken PROVE NoGap
  BY DEF NoGap
<1>. DEFINE updates == {i \in DOMAIN wire.in : wire.in[i].tell = "update"}
<1>1. /\ session.cache \in Nat /\ db.version \in Nat
      /\ \A i \in DOMAIN wire.in : wire.in[i].version \in Nat /\ i \in Nat
  BY Domains DEF Typed, Message
<1>2. wire.subscribed /\ session.cache <= db.version
  BY DEF Subscribes, ToldOf
<1>3. ASSUME NEW i \in updates
      PROVE  wire.in[i].version \in (session.cache + 1)..db.version
  <2>1. /\ session.cache <= wire.in[i].version /\ wire.in[i].version # session.cache
        /\ wire.in[i].version <= db.version
    BY DEF LeadOn, Whole, Completes, InOrder, IsReply
  <2>2. QED
    BY <1>1, <2>1
<1>4. ASSUME NEW u \in (session.cache + 1)..db.version
      PROVE  \E i \in updates : wire.in[i].version = u
  <2>1. u \in Nat /\ session.cache < u /\ u <= db.version
    BY <1>1
  <2>2. QED
    BY <2>1 DEF Whole, Completes, IsReply
<1>5. ASSUME NEW i \in updates, NEW k \in updates, i < k
      PROVE  wire.in[i].version < wire.in[k].version
  <2>1. i # k
    BY <1>1, <1>5
  <2>2. wire.in[i].version <= wire.in[k].version
        /\ wire.in[i].version # wire.in[k].version
    BY <1>5, <2>1 DEF InOrder, Distinct, IsReply
  <2>3. QED
    BY <1>1, <2>2
<1>6. QED
  BY <1>2, <1>3, <1>4, <1>5 DEF NoGap

\* While the session calls its copy ready, the copy and the updates queued behind it
\* are all the server's versions, each once and in order, for any number of jobs,
\* connections and commits and with all failures: a refused update, an expired reply
\* and a lost connection unmark the copy until the initial rows of a later
\* subscription have replaced it.
THEOREM NothingMissed == Spec => []NoGap
<1>1. Init => Distinct /\ Whole
  <2>1. DOMAIN <<>> = {}
    OBVIOUS
  <2>2. QED
    BY <2>1 DEF Init, NoWire, Distinct, Whole
<1>2. Jobs /\ Talk /\ Views /\ Distinct /\ Whole => NoGap
  BY NoGapFollows DEF Jobs, Talk, Views
<1>3. QED
  BY <1>1, <1>2, InitJobs, StepJobs, InitTalk, StepTalk, InitViews, StepVersions,
     StepWhole, PTL DEF Spec
=============================================================================
