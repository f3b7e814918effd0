------------------------------ MODULE Service ------------------------------
(***************************************************************************)
(* One configured service around its local API: src/emosa/local_api.py,    *)
(* the start, the requests and the end of src/emosa/app.py, the writer     *)
(* lock and the event window of src/emosa/store.py.  Processes of the same *)
(* configuration follow or compete with each other; any may be killed.     *)
(*                                                                         *)
(* What an operation does is in Engine; here it is a task that writes      *)
(* events.  Python 3.13, which the project requires: a server that closes  *)
(* removes its own socket file, and waits for its connections to end.      *)
(***************************************************************************)
EXTENDS Integers, FiniteSets, FiniteSetsExt

CONSTANTS
  Process,      \* processes of `emosa serve`, with one configuration
  Client,       \* programs that use the socket, one connection at a time
  Nobody,       \* not a process
  ClientLimit,  \* limits.local_clients
  MaxEvents,    \* the events kept of a run
  Page,         \* the events of one answer
  MaxStarts,    \* bound: how often a process is started
  MaxSubmits,   \* bound: operations that are requested
  MaxSeq        \* bound: events that are written

ASSUME ServiceAssumption ==
  /\ Nobody \notin Process /\ IsFiniteSet(Client)
  /\ {ClientLimit, MaxEvents, Page} \subseteq Nat \ {0}
  /\ {MaxStarts, MaxSubmits, MaxSeq} \subseteq Nat

VARIABLES
  st,        \* how far each process is
  lock,      \* the process whose store is open
  path,      \* the process whose socket file is at socket_path
  quiesced,  \* Engine.quiesced
  tasks,     \* Application.tasks
  clients,   \* LocalServer.clients
  conn,      \* the connection of each client, as its process sees it
  svc,       \* the process at its other end
  gone,      \* the clients that have left an open connection
  top, kept, \* the events of a run: the last number, those in the journal
  cursor,    \* the last event each client has read
  given,     \* the last page that reached each client
  starts, submits  \* counts for the bounds

server == <<st, lock, path>>
inside == <<quiesced, tasks>>
links == <<clients, conn, svc, gone>>
events == <<top, kept>>
read == <<cursor, given>>
bounds == <<starts, submits>>
vars == <<server, inside, links, events, read, bounds>>

Handled == {"reading", "waiting", "draining"}   \* inside LocalServer._client
Left == {"flushing", "unread"}                  \* closed, but not yet lost

TypeOK ==
  /\ st \in [Process -> {"off", "built", "stale", "bind", "up", "closing", "sweeping"}]
  /\ lock \in Process \cup {Nobody} /\ path \in Process \cup {Nobody}
  /\ quiesced \in [Process -> BOOLEAN]
  /\ tasks \in [Process -> SUBSET {"refresh", "execute"}]
  /\ clients \in [Process -> 0..Cardinality(Client)]
  /\ conn \in [Client -> Handled \cup Left \cup {"none"}]
  /\ svc \in [Client -> Process \cup {Nobody}]
  /\ gone \subseteq {c \in Client : conn[c] # "none"}
  /\ top \in 0..MaxSeq /\ kept \subseteq 1..top
  /\ cursor \in [Client -> 0..top] /\ given \in [Client -> SUBSET (1..top)]
  /\ starts \in 0..MaxStarts /\ submits \in 0..MaxSubmits

Init ==
  /\ st = [s \in Process |-> "off"] /\ lock = Nobody /\ path = Nobody
  /\ quiesced = [s \in Process |-> FALSE] /\ tasks = [s \in Process |-> {}]
  /\ clients = [s \in Process |-> 0]
  /\ conn = [c \in Client |-> "none"] /\ svc = [c \in Client |-> Nobody] /\ gone = {}
  /\ top = 0 /\ kept = {} /\ cursor = [c \in Client |-> 0]
  /\ given = [c \in Client |-> {}]
  /\ starts = 0 /\ submits = 0

Goto(s, place) == st' = [st EXCEPT ![s] = place]
Of(s) == {c \in Client : conn[c] # "none" /\ svc[c] = s}

-----------------------------------------------------------------------------
(***************************************************************************)
(* Start.                                                                  *)
(***************************************************************************)

\* Application.__init__: the store takes its lock, or the process ends.
Open(s) ==
  /\ st[s] = "off" /\ lock = Nobody /\ starts < MaxStarts
  /\ lock' = s /\ starts' = starts + 1
  /\ quiesced' = [quiesced EXCEPT ![s] = FALSE]
  /\ Goto(s, "built")
  /\ UNCHANGED <<path, tasks, links, events, read, submits>>

Listens(s) == st[s] = "up"

\* A socket file that answers is somebody's: BUSY, and the process closes what it has.
Probe(s) ==
  /\ st[s] = "built"
  /\ Goto(s, IF path = Nobody THEN "bind"
             ELSE IF Listens(path) THEN "sweeping" ELSE "stale")
  /\ UNCHANGED <<lock, path, inside, links, events, read, bounds>>

\* One that refuses is left over from a process that was killed.
RemoveStale(s) ==
  /\ st[s] = "stale"
  /\ path' = Nobody
  /\ Goto(s, "bind")
  /\ UNCHANGED <<lock, inside, links, events, read, bounds>>

\* start_unix_server, which removes a socket file in its way, and the refresh tasks.
Bind(s) ==
  /\ st[s] = "bind"
  /\ path' = s
  /\ tasks' = [tasks EXCEPT ![s] = {"refresh"}]
  /\ Goto(s, "up")
  /\ UNCHANGED <<lock, quiesced, links, events, read, bounds>>

Start(s) == Open(s) \/ Probe(s) \/ RemoveStale(s) \/ Bind(s)

-----------------------------------------------------------------------------
(***************************************************************************)
(* Requests: one for each connection.                                      *)
(***************************************************************************)

\* Beyond the budget the answer is BUSY at once, and the counter is as before.
Connect(c) ==
  /\ conn[c] = "none" /\ path # Nobody
  /\ LET s == path IN
       /\ Listens(s)
       /\ svc' = [svc EXCEPT ![c] = s]
       /\ IF clients[s] >= ClientLimit
          THEN conn' = [conn EXCEPT ![c] = "flushing"] /\ UNCHANGED clients
          ELSE /\ conn' = [conn EXCEPT ![c] = "reading"]
               /\ clients' = [clients EXCEPT ![s] = @ + 1]
  /\ UNCHANGED <<server, inside, gone, events, read, bounds>>

Ended(c, how) ==
  /\ conn' = [conn EXCEPT ![c] = IF c \in gone THEN "none" ELSE how]
  /\ gone' = gone \ {c}
  /\ UNCHANGED svc

\* Fault: a client that has left is not counted off.
AnswerToThose(c) ==
  /\ Ended(c, "flushing")
  /\ clients' = [clients EXCEPT ![svc[c]] = IF c \in gone THEN @ ELSE @ - 1]

\* The answer is written, or cannot be, and the connection is closed.
Answer(c) ==
  /\ Ended(c, "flushing")
  /\ clients' = [clients EXCEPT ![svc[c]] = @ - 1]

\* Fault: only a client that has left ends the wait for its request.
ExpireWhenGone(c) ==
  /\ conn[c] = "reading" /\ c \in gone
  /\ Answer(c)
  /\ UNCHANGED <<server, inside, events, read, bounds>>

\* No request within five seconds, an end of file, an invalid frame.
Expire(c) ==
  /\ conn[c] = "reading"
  /\ Answer(c)
  /\ UNCHANGED <<server, inside, events, read, bounds>>

\* Store._event, in the transaction of what it tells.
Write ==
  /\ top < MaxSeq
  /\ top' = top + 1
  /\ kept' = {k \in kept \cup {top + 1} : k > top + 1 - MaxEvents}

\* component.submit: a new operation is recorded in any case, a known key finds its
\* own.  Either is executed; what is rejected, or was, ends at once.
Submit(c) ==
  /\ conn[c] = "reading" /\ c \notin gone
  /\ \/ submits < MaxSubmits /\ submits' = submits + 1 /\ Write
     \/ submits > 0 /\ UNCHANGED <<events, submits>>
  /\ tasks' = [tasks EXCEPT ![svc[c]] = @ \cup {"execute"}]
  /\ Answer(c)
  /\ UNCHANGED <<server, quiesced, read, starts>>

QuiesceCall(c) ==
  /\ conn[c] = "reading" /\ c \notin gone
  /\ quiesced' = [quiesced EXCEPT ![svc[c]] = TRUE]
  /\ Answer(c)
  /\ UNCHANGED <<server, tasks, events, read, bounds>>

Newer(c) == {k \in kept : k > cursor[c]}

\* Fault: the page is made of the newest events.
PollNewest(c) ==
  /\ conn[c] = "reading" /\ c \notin gone
  /\ LET page == {k \in Newer(c) : Cardinality({j \in Newer(c) : j > k}) < Page} IN
       /\ page # {}
       /\ given' = [given EXCEPT ![c] = page]
       /\ cursor' = [cursor EXCEPT ![c] = Max(page)]
  /\ Answer(c)
  /\ UNCHANGED <<server, inside, events, bounds>>

\* events: the next page after the client's cursor, which reaches the client.
Poll(c) ==
  /\ conn[c] = "reading" /\ c \notin gone
  /\ LET page == {k \in Newer(c) : Cardinality({j \in Newer(c) : j < k}) < Page} IN
       /\ page # {}
       /\ given' = [given EXCEPT ![c] = page]
       /\ cursor' = [cursor EXCEPT ![c] = Max(page)]
  /\ Answer(c)
  /\ UNCHANGED <<server, inside, events, bounds>>

\* operation.wait and plan suspend their handler.  Every other method answers at once:
\* as an expired request does, or more than a socket's buffer holds, and then the
\* handler drains.  A page that does not reach its client is such an answer as well.
Suspend(c) ==
  /\ conn[c] = "reading" /\ c \notin gone
  /\ \E how \in {"waiting", "draining"} : conn' = [conn EXCEPT ![c] = how]
  /\ UNCHANGED <<server, inside, clients, svc, gone, events, read, bounds>>

\* The operation is no longer active, the plan is there, or time is up.
Resume(c) ==
  /\ conn[c] = "waiting"
  /\ Answer(c)
  /\ UNCHANGED <<server, inside, events, read, bounds>>

\* The client reads, or does not within five seconds; then its connection is closed
\* with the rest of the answer in the transport.
Drain(c) ==
  /\ conn[c] = "draining"
  /\ \E how \in Left : Ended(c, how)
  /\ clients' = [clients EXCEPT ![svc[c]] = @ - 1]
  /\ UNCHANGED <<server, inside, events, read, bounds>>

\* A client reads what was left to it.
Read(c) ==
  /\ conn[c] = "unread" /\ c \notin gone
  /\ conn' = [conn EXCEPT ![c] = "flushing"]
  /\ UNCHANGED <<server, inside, clients, svc, gone, events, read, bounds>>

\* The transport is lost once everything is written, or nothing can be any more.
Flush(c) ==
  /\ conn[c] = "flushing" \/ (conn[c] = "unread" /\ c \in gone)
  /\ conn' = [conn EXCEPT ![c] = "none"] /\ gone' = gone \ {c}
  /\ UNCHANGED <<server, inside, clients, svc, events, read, bounds>>

\* A client that leaves is noticed by the write that fails, not before.
Leave(c) ==
  /\ conn[c] # "none"
  /\ gone' = gone \cup {c}
  /\ UNCHANGED <<server, inside, clients, conn, svc, events, read, bounds>>

Requests(c) ==
  \/ Connect(c) \/ Expire(c) \/ Submit(c) \/ QuiesceCall(c) \/ Poll(c)
  \/ Suspend(c) \/ Resume(c) \/ Drain(c) \/ Read(c) \/ Flush(c) \/ Leave(c)

\* Operations and refreshes record what they do and see; an operation ends.
Work(s) ==
  /\ tasks[s] # {} /\ st[s] # "sweeping" /\ submits > 0
  /\ Write \/ UNCHANGED events
  /\ \E left \in {tasks[s], tasks[s] \ {"execute"}} : tasks' = [tasks EXCEPT ![s] = left]
  /\ UNCHANGED <<server, quiesced, links, read, bounds>>

-----------------------------------------------------------------------------
(***************************************************************************)
(* End.                                                                    *)
(***************************************************************************)

\* Fault: the store is closed before the server.
StopStoreFirst(s) ==
  /\ st[s] = "up"
  /\ quiesced' = [quiesced EXCEPT ![s] = TRUE]
  /\ path' = IF path = s THEN Nobody ELSE path
  /\ lock' = Nobody
  /\ Goto(s, "closing")
  /\ UNCHANGED <<tasks, links, events, read, bounds>>

\* A signal: close quiesces the engine and closes the server.
Stop(s) ==
  /\ st[s] = "up"
  /\ quiesced' = [quiesced EXCEPT ![s] = TRUE]
  /\ path' = IF path = s THEN Nobody ELSE path
  /\ Goto(s, "closing")
  /\ UNCHANGED <<lock, tasks, links, events, read, bounds>>

\* Fault: connections are left to themselves.
SweepAtOnce(s) ==
  /\ st[s] = "closing"
  /\ path' = Nobody
  /\ Goto(s, "sweeping")
  /\ UNCHANGED <<lock, inside, links, events, read, bounds>>

\* wait_closed has returned; the path is unlinked whatever it is.
Sweep(s) ==
  /\ st[s] = "closing" /\ Of(s) = {}
  /\ path' = Nobody
  /\ Goto(s, "sweeping")
  /\ UNCHANGED <<lock, inside, links, events, read, bounds>>

\* A task that is cancelled ends where it waits; its operation stays as it is.
Cancelled(s, t) ==
  /\ st[s] = "sweeping" /\ t \in tasks[s]
  /\ tasks' = [tasks EXCEPT ![s] = @ \ {t}]
  /\ UNCHANGED <<server, quiesced, links, events, read, bounds>>

\* The sessions and the store are closed.
Release(s) ==
  /\ st[s] = "sweeping" /\ tasks[s] = {}
  /\ lock' = IF lock = s THEN Nobody ELSE lock
  /\ Goto(s, "off")
  /\ UNCHANGED <<path, inside, links, events, read, bounds>>

Close(s) == Stop(s) \/ Sweep(s) \/ (\E t \in {"refresh", "execute"} : Cancelled(s, t)) \/ Release(s)

Kill(s) ==
  /\ st[s] # "off"
  /\ lock' = IF lock = s THEN Nobody ELSE lock
  /\ Goto(s, "off")
  /\ tasks' = [tasks EXCEPT ![s] = {}]
  /\ clients' = [clients EXCEPT ![s] = 0]
  /\ conn' = [c \in Client |-> IF c \in Of(s) THEN "none" ELSE conn[c]]
  /\ gone' = gone \ Of(s)
  /\ UNCHANGED <<path, quiesced, svc, events, read, bounds>>

Next ==
  \/ \E s \in Process : Start(s) \/ Work(s) \/ Close(s) \/ Kill(s)
  \/ \E c \in Client : Requests(c)

Spec == Init /\ [][Next]_vars

\* Timers fire and the loop runs what is ready.  Nothing is assumed of clients.
Fairness ==
  /\ \A c \in Client : /\ WF_vars(Expire(c)) /\ WF_vars(Resume(c))
                     /\ WF_vars(Drain(c)) /\ WF_vars(Flush(c))
  /\ \A s \in Process :
       /\ WF_vars(Sweep(s)) /\ WF_vars(Release(s))
       /\ \A t \in {"refresh", "execute"} : WF_vars(Cancelled(s, t))

FairSpec == Spec /\ Fairness

-----------------------------------------------------------------------------
(***************************************************************************)
(* What must hold.                                                         *)
(***************************************************************************)

\* A process that listens is found under the path: neither a process that starts
\* nor one that still closes takes its socket file away.
PathLeadsToServer == \A s \in Process : Listens(s) => path = s

\* The store is open for as long as a task or an open connection may need it.
StoreOutlivesUsers ==
  \A s \in Process :
    tasks[s] # {} \/ (\E c \in Of(s) : conn[c] \in Handled) => lock = s

\* The state is well typed, and the budget counts exactly the clients that are being
\* handled: whichever way one ends, its place is given back, and given back once.
BudgetReturned ==
  /\ TypeOK
  /\ \A s \in Process : clients[s] = Cardinality({c \in Of(s) : conn[c] \in Handled})

\* A page that moves a client's cursor over an event contains it, unless the event had
\* been overtaken: as many later ones as the window is long were written before.
PagesAreWhole ==
  [][\A c \in Client : \A k \in (cursor[c] + 1)..cursor'[c] :
       k \in given'[c] \/ k + MaxEvents <= top]_vars

\* A service that is told to stop stops, whatever its clients do, with one exception:
\* one of them neither reads nor leaves, for ever, an answer that is larger than the
\* socket's buffer (wait_closed has no timeout).
CloseEnds ==
  \A s \in Process :
    \/ st[s] = "closing" ~> st[s] = "off"
    \/ \E c \in Client : <>[](conn[c] = "unread" /\ c \notin gone /\ svc[c] = s)
=============================================================================
