---------------------------- MODULE ServiceProofs ----------------------------
(***************************************************************************)
(* Service, for any number of processes and clients and whatever the       *)
(* limits: the socket file, the store, the budget of clients and the       *)
(* window of events.                                                       *)
(***************************************************************************)
EXTENDS Service, FiniteSetTheorems, TLAPS

-----------------------------------------------------------------------------
(***************************************************************************)
(* The inductive invariant.                                                *)
(***************************************************************************)

\* The lock is what makes a process the only one: it is held from before the
\* socket file is looked at until after it is removed.
Exclusive == \A s \in Process : st[s] # "off" <=> lock = s

\* Only a process that serves, or waits for its connections to end, has any.
Attached ==
  \A c \in Client : conn[c] # "none" =>
    svc[c] \in Process /\ st[svc[c]] \in {"up", "closing"}

\* Only a process that has been up has tasks.
Employed ==
  \A s \in Process : tasks[s] # {} => st[s] \in {"up", "closing", "sweeping"}

Being(s) == {c \in Of(s) : conn[c] \in Handled}

Counted == \A s \in Process : clients[s] = Cardinality(Being(s))

\* The journal keeps exactly the last events of the run.
Window == kept = {k \in 1..top : k > top - MaxEvents}

\* TypeOK, but for the bound of the counter of clients, which is a consequence
\* of Counted, and for what the journal keeps, which Window says.
Typed ==
  /\ st \in [Process -> {"off", "built", "stale", "bind", "up", "closing", "sweeping"}]
  /\ lock \in Process \cup {Nobody} /\ path \in Process \cup {Nobody}
  /\ quiesced \in [Process -> BOOLEAN]
  /\ tasks \in [Process -> SUBSET {"refresh", "execute"}]
  /\ clients \in [Process -> Int]
  /\ conn \in [Client -> Handled \cup Left \cup {"none"}]
  /\ svc \in [Client -> Process \cup {Nobody}]
  /\ gone \subseteq {c \in Client : conn[c] # "none"}
  /\ top \in 0..MaxSeq
  /\ cursor \in [Client -> 0..top] /\ given \in [Client -> SUBSET (1..top)]
  /\ starts \in 0..MaxStarts /\ submits \in 0..MaxSubmits

Inv ==
  /\ Typed /\ Exclusive /\ Attached /\ Employed /\ PathLeadsToServer
  /\ Counted /\ Window

LEMMA InitInv == Init => Inv
<1>. SUFFICES ASSUME Init PROVE Inv
  OBVIOUS
<1>. USE DEF Init
<1>1. Typed
  BY ServiceAssumption DEF Typed
<1>2. Exclusive /\ Attached /\ Employed /\ PathLeadsToServer
  BY ServiceAssumption
     DEF Exclusive, Attached, Employed, PathLeadsToServer, Listens
<1>3. Counted
  BY FS_EmptySet DEF Counted, Being, Of
<1>4. Window
  BY ServiceAssumption DEF Window
<1>5. QED
  BY <1>1, <1>2, <1>3, <1>4 DEF Inv

-----------------------------------------------------------------------------
(***************************************************************************)
(* The window of events.                                                   *)
(***************************************************************************)

\* The first events of an interval, as many as a page holds.
PageFrom(a, b) == {k \in a..b : Cardinality({j \in a..b : j < k}) < Page}

LEMMA MaxOfInterval ==
  ASSUME NEW a \in Int, NEW m \in Int, a <= m
  PROVE  Max(a..m) = m
<1>1. m \in a..m /\ \A k \in a..m : m >= k
  OBVIOUS
<1>2. Max(a..m) \in a..m /\ \A k \in a..m : Max(a..m) >= k
  BY <1>1 DEF Max
<1>3. QED
  BY <1>1, <1>2

\* They have no gap.
LEMMA PageOfEvents ==
  ASSUME NEW a \in Nat, NEW b \in Nat, a <= b
  PROVE  Max(PageFrom(a, b)) \in a..b /\ PageFrom(a, b) = a..Max(PageFrom(a, b))
<1>1. ASSUME NEW k \in a..b PROVE Cardinality({j \in a..b : j < k}) = k - a
  <2>. DEFINE before == {j \in a..b : j < k}
  <2>1. k \in a..b /\ before = a..(k - 1)
    BY <1>1
  <2>2. Cardinality(a..(k - 1)) = IF a > k - 1 THEN 0 ELSE (k - 1) - a + 1
    BY FS_Interval
  <2>. HIDE DEF before
  <2>3. Cardinality(before) = k - a
    BY <2>1, <2>2
  <2>4. QED
    BY <2>3 DEF before
<1>2. PageFrom(a, b) = {k \in a..b : k - a < Page}
  BY <1>1 DEF PageFrom
<1>3. Page \in Nat \ {0}
  BY ServiceAssumption
<1>4. PICK m \in a..b : \A k \in a..b : k - a < Page <=> k <= m
  <2>. DEFINE m == IF a + Page - 1 <= b THEN a + Page - 1 ELSE b
  <2>1. m \in a..b /\ \A k \in a..b : k - a < Page <=> k <= m
    BY <1>3
  <2>2. QED
    BY <2>1
<1>5. PageFrom(a, b) = a..m
  BY <1>2, <1>4
<1>6. Max(a..m) = m
  BY <1>4, MaxOfInterval
<1>7. QED
  BY <1>4, <1>5, <1>6

\* A poll moves a cursor to the end of its page, and over nothing that is not in the
\* page unless the window has left it behind.
LEMMA PollAdvances ==
  ASSUME Typed, Window, NEW c \in Client, Poll(c)
  PROVE  /\ cursor' = [cursor EXCEPT ![c] = cursor'[c]]
         /\ given' = [given EXCEPT ![c] = given'[c]]
         /\ cursor'[c] \in 0..top /\ given'[c] \subseteq 1..top
         /\ \A k \in (cursor[c] + 1)..cursor'[c] : k \in given'[c] \/ k + MaxEvents <= top
<1>. DEFINE newer == Newer(c)
            page == {k \in newer : Cardinality({j \in newer : j < k}) < Page}
            oldest == top - MaxEvents + 1
            a == IF cursor[c] + 1 >= oldest THEN cursor[c] + 1 ELSE oldest
<1>1. /\ page # {}
      /\ given' = [given EXCEPT ![c] = page]
      /\ cursor' = [cursor EXCEPT ![c] = Max(page)]
  BY DEF Poll
<1>2. /\ top \in Nat /\ cursor[c] \in Nat /\ MaxEvents \in Nat \ {0}
      /\ cursor \in [Client -> 0..top] /\ given \in [Client -> SUBSET (1..top)]
  BY ServiceAssumption DEF Typed
<1>3. a \in Nat /\ a > cursor[c] /\ newer = a..top
  BY <1>2 DEF Window, Newer
<1>4. a <= top
  <2>1. newer # {}
    BY <1>1
  <2>2. QED
    BY <1>2, <1>3, <2>1
<1>5. Max(page) \in a..top /\ page = a..Max(page)
  <2>1. page = PageFrom(a, top)
    BY <1>3 DEF PageFrom
  <2>. HIDE DEF page, newer, a
  <2>2. QED
    BY <1>2, <1>3, <1>4, <2>1, PageOfEvents
<1>6. cursor'[c] = Max(page) /\ given'[c] = page
  BY <1>1, <1>2
<1>. HIDE DEF page, newer
<1>7. cursor'[c] \in 0..top /\ given'[c] \subseteq 1..top
  BY <1>2, <1>3, <1>5, <1>6
<1>8. ASSUME NEW k \in (cursor[c] + 1)..cursor'[c], k \notin given'[c]
      PROVE  k + MaxEvents <= top
  <2>1. k \in Int /\ k > cursor[c] /\ ~(a <= k)
    BY <1>2, <1>3, <1>5, <1>6, <1>8
  <2>2. QED
    BY <1>2, <2>1
<1>9. QED
  BY <1>1, <1>6, <1>7, <1>8

LEMMA WriteWindow ==
  ASSUME Typed, Window, Write
  PROVE  Window' /\ top' \in 0..MaxSeq /\ top' = top + 1
<1>1. top \in Nat /\ top' = top + 1 /\ top' \in 0..MaxSeq /\ MaxEvents \in Nat \ {0}
  BY ServiceAssumption DEF Typed, Write
<1>2. QED
  BY <1>1 DEF Window, Write

-----------------------------------------------------------------------------
(***************************************************************************)
(* The steps.                                                              *)
(***************************************************************************)

LEMMA SameLinks ==
  ASSUME Counted, Window, UNCHANGED <<links, events>> PROVE Counted' /\ Window'
<1>1. \A p \in Process : Being(p)' = Being(p)
  BY DEF Being, Of, links
<1>2. QED
  BY <1>1 DEF Counted, Window, links, events

\* The counters of the bounds.
LEMMA Bounded ==
  /\ MaxStarts \in Nat /\ MaxSubmits \in Nat
  /\ \A n \in 0..MaxStarts : n < MaxStarts => n + 1 \in 0..MaxStarts
  /\ \A n \in 0..MaxSubmits : n < MaxSubmits => n + 1 \in 0..MaxSubmits
BY ServiceAssumption

LEMMA StartInv == ASSUME Inv, NEW s \in Process, Start(s) PROVE Inv'
<1>. USE DEF Inv, server, inside, links, events, read, bounds, Goto
<1>1. Typed'
  <2>1. CASE Open(s)
    BY <2>1, Bounded DEF Typed, Open
  <2>2. CASE Probe(s)
    BY <2>2 DEF Typed, Probe
  <2>3. CASE RemoveStale(s)
    BY <2>3 DEF Typed, RemoveStale
  <2>4. CASE Bind(s)
    BY <2>4 DEF Typed, Bind
  <2>5. QED
    BY <2>1, <2>2, <2>3, <2>4 DEF Start
<1>2. Exclusive'
  BY ServiceAssumption DEF Typed, Exclusive, Start, Open, Probe, RemoveStale, Bind
<1>3. \A p \in Process \ {s} : st[p] = "off"
  BY ServiceAssumption DEF Exclusive, Start, Open, Probe, RemoveStale, Bind
<1>4. Attached'
  <2>1. st[s] \notin {"up", "closing"} /\ \A c \in Client : conn'[c] = "none"
    BY <1>3 DEF Attached, Start, Open, Probe, RemoveStale, Bind
  <2>2. QED
    BY <2>1 DEF Attached
<1>5. Employed'
  BY DEF Typed, Employed, Start, Open, Probe, RemoveStale, Bind
<1>6. PathLeadsToServer'
  BY <1>3 DEF Typed, PathLeadsToServer, Listens, Start, Open, Probe, RemoveStale,
              Bind
<1>7. Counted' /\ Window'
  BY SameLinks DEF Start, Open, Probe, RemoveStale, Bind
<1>8. QED
  BY <1>1, <1>2, <1>4, <1>5, <1>6, <1>7

LEMMA CloseInv == ASSUME Inv, NEW s \in Process, Close(s) PROVE Inv'
<1>. USE DEF Inv, server, inside, links, events, read, bounds, Goto
<1>1. Typed'
  <2>1. CASE Stop(s)
    BY <2>1 DEF Typed, Stop
  <2>2. CASE Sweep(s)
    BY <2>2 DEF Typed, Sweep
  <2>3. CASE \E t \in {"refresh", "execute"} : Cancelled(s, t)
    BY <2>3 DEF Typed, Cancelled
  <2>4. CASE Release(s)
    BY <2>4 DEF Typed, Release
  <2>5. QED
    BY <2>1, <2>2, <2>3, <2>4 DEF Close
<1>2. Exclusive'
  BY ServiceAssumption DEF Typed, Exclusive, Close, Stop, Sweep, Cancelled, Release
<1>3. Attached'
  BY DEF Typed, Attached, Of, Close, Stop, Sweep, Cancelled, Release
<1>4. Employed'
  BY DEF Typed, Employed, Close, Stop, Sweep, Cancelled, Release
<1>5. PathLeadsToServer'
  BY DEF Typed, Exclusive, PathLeadsToServer, Listens, Close, Stop, Sweep,
         Cancelled, Release
<1>6. Counted' /\ Window'
  BY SameLinks DEF Close, Stop, Sweep, Cancelled, Release
<1>7. QED
  BY <1>1, <1>2, <1>3, <1>4, <1>5, <1>6

LEMMA KillInv == ASSUME Inv, NEW s \in Process, Kill(s) PROVE Inv'
<1>. USE DEF Inv, Kill, server, inside, links, events, read, bounds, Goto
<1>1. Typed'
  BY DEF Typed, Of
<1>2. Exclusive'
  BY ServiceAssumption DEF Typed, Exclusive
<1>3. Attached'
  BY DEF Typed, Attached, Of
<1>4. Employed'
  BY DEF Typed, Employed
<1>5. PathLeadsToServer'
  BY DEF Typed, PathLeadsToServer, Listens
<1>6. Counted'
  <2>1. Being(s)' = {} /\ clients'[s] = 0
    BY DEF Being, Of, Typed, Handled
  <2>2. ASSUME NEW p \in Process \ {s}
        PROVE  Being(p)' = Being(p) /\ clients'[p] = clients[p]
    BY DEF Being, Of, Typed, Handled
  <2>3. QED
    BY <2>1, <2>2, FS_EmptySet DEF Counted
<1>7. Window'
  BY DEF Window
<1>8. QED
  BY <1>1, <1>2, <1>3, <1>4, <1>5, <1>6, <1>7

LEMMA WorkInv == ASSUME Inv, NEW s \in Process, Work(s) PROVE Inv'
<1>. USE DEF Inv, Work, server, inside, links, read, bounds
<1>1. Window' /\ top' \in 0..MaxSeq /\ top \in Nat /\ top' >= top
  <2>1. CASE Write
    BY <2>1, WriteWindow DEF Typed
  <2>2. CASE UNCHANGED events
    BY <2>2 DEF events, Window, Typed
  <2>3. QED
    BY <2>1, <2>2
<1>2. 0..top \subseteq 0..top' /\ SUBSET (1..top) \subseteq SUBSET (1..top')
  BY <1>1
<1>3. Typed'
  BY <1>1, <1>2 DEF Typed
<1>4. Exclusive' /\ Attached' /\ PathLeadsToServer' /\ Counted'
  BY DEF Exclusive, Attached, PathLeadsToServer, Listens, Counted, Being, Of
<1>5. Employed'
  BY DEF Typed, Employed
<1>6. QED
  BY <1>1, <1>3, <1>4, <1>5

\* Those being handled are finitely many.
LEMMA BeingFinite ==
  ASSUME NEW s \in Process
  PROVE  /\ IsFiniteSet(Being(s)) /\ Cardinality(Being(s)) \in Nat
         /\ Cardinality(Being(s)) <= Cardinality(Client)
         /\ Cardinality(Client) \in Nat
<1>1. Being(s) \in SUBSET Client /\ IsFiniteSet(Client)
  BY ServiceAssumption DEF Being, Of
<1>2. QED
  BY <1>1, FS_Subset, FS_CardinalityType

\* A request that ends gives its place back, whether its client is there or not.
LEMMA EndCounts ==
  ASSUME Inv, NEW c \in Client, conn[c] \in Handled,
         NEW how \in Left, Ended(c, how),
         clients' = [clients EXCEPT ![svc[c]] = @ - 1]
  PROVE  /\ Counted'
         /\ clients' \in [Process -> Int]
         /\ conn' \in [Client -> Handled \cup Left \cup {"none"}]
         /\ gone' \subseteq {d \in Client : conn'[d] # "none"}
         /\ \A d \in Client : conn'[d] # "none" => conn[d] # "none"
<1>. USE DEF Inv, Ended
<1>. DEFINE s == svc[c]
<1>1. s \in Process /\ c \in Being(s)
  BY DEF Attached, Being, Of, Handled
<1>2. /\ conn'[c] \in Left \cup {"none"} /\ svc' = svc
      /\ \A d \in Client \ {c} : conn'[d] = conn[d]
  BY DEF Typed
<1>3. Being(s)' = Being(s) \ {c}
  BY <1>2 DEF Being, Of, Handled, Left
<1>4. \A p \in Process \ {s} : Being(p)' = Being(p) /\ clients'[p] = clients[p]
  BY <1>2 DEF Being, Of, Handled, Typed
<1>5. clients'[s] = clients[s] - 1
  BY <1>1 DEF Typed
<1>6. Cardinality(Being(s) \ {c}) = Cardinality(Being(s)) - 1
  BY <1>1, BeingFinite, FS_RemoveElement
<1>7. Counted'
  BY <1>1, <1>3, <1>4, <1>5, <1>6 DEF Counted
<1>8. /\ clients' \in [Process -> Int]
      /\ conn' \in [Client -> Handled \cup Left \cup {"none"}]
  <2>1. conn' \in [Client -> Handled \cup Left \cup {"none"}]
    BY DEF Typed
  <2>2. clients[s] - 1 \in Int
    BY <1>1 DEF Typed
  <2>3. clients' \in [Process -> Int]
    BY <2>2 DEF Typed
  <2>4. QED
    BY <2>1, <2>3
<1>9. /\ gone' \subseteq {d \in Client : conn'[d] # "none"}
      /\ \A d \in Client : conn'[d] # "none" => conn[d] # "none"
  BY <1>2 DEF Typed, Handled
<1>10. QED
  BY <1>7, <1>8, <1>9

\* Every end of a request, with what its method does.
LEMMA EndInv ==
  ASSUME Inv, NEW c \in Client,
         Expire(c) \/ Submit(c) \/ QuiesceCall(c) \/ Poll(c) \/ Resume(c) \/ Drain(c)
  PROVE  Inv'
<1>. USE DEF Inv, server, inside, events, read, bounds
<1>1. /\ conn[c] \in Handled /\ UNCHANGED <<server, svc, starts>>
      /\ clients' = [clients EXCEPT ![svc[c]] = @ - 1]
  BY DEF Expire, Submit, QuiesceCall, Poll, Resume, Drain, Handled, Answer, Ended
<1>2. PICK how \in Left : Ended(c, how)
  BY DEF Expire, Submit, QuiesceCall, Poll, Resume, Drain, Answer, Left
<1>3. svc[c] \in Process /\ st[svc[c]] \in {"up", "closing"}
  BY <1>1 DEF Attached, Handled
<1>4. /\ Window' /\ top' \in 0..MaxSeq
      /\ cursor' \in [Client -> 0..top'] /\ given' \in [Client -> SUBSET (1..top')]
  <2>1. CASE Submit(c) /\ Write
    <3>1. top' = top + 1 /\ top \in Nat /\ top' \in 0..MaxSeq /\ Window'
      BY <2>1, WriteWindow DEF Typed
    <3>2. UNCHANGED <<cursor, given>>
      BY <2>1 DEF Submit
    <3>3. 0..top \subseteq 0..top' /\ SUBSET (1..top) \subseteq SUBSET (1..top')
      BY <3>1
    <3>4. QED
      BY <3>1, <3>2, <3>3 DEF Typed
  <2>2. CASE Poll(c)
    <3>1. top' = top /\ Window'
      BY <2>2 DEF Poll, Window
    <3>2. QED
      BY <2>2, <3>1, PollAdvances DEF Typed
  <2>3. CASE UNCHANGED <<events, read>>
    BY <2>3 DEF Typed, Window
  <2>4. QED
    BY <2>1, <2>2, <2>3 DEF Expire, Submit, QuiesceCall, Resume, Drain
<1>5. /\ tasks' \in [Process -> SUBSET {"refresh", "execute"}]
      /\ quiesced' \in [Process -> BOOLEAN] /\ submits' \in 0..MaxSubmits
      /\ \A p \in Process \ {svc[c]} : tasks'[p] = tasks[p]
  <2>1. CASE Submit(c)
    BY <2>1, Bounded DEF Submit, Typed
  <2>2. CASE QuiesceCall(c)
    BY <2>2 DEF QuiesceCall, Typed
  <2>3. CASE Expire(c) \/ Poll(c) \/ Resume(c) \/ Drain(c)
    BY <2>3 DEF Expire, Poll, Resume, Drain, Typed
  <2>4. QED
    BY <2>1, <2>2, <2>3
<1>6. Typed'
  BY <1>1, <1>2, <1>4, <1>5, EndCounts DEF Typed
<1>7. Exclusive' /\ PathLeadsToServer'
  BY <1>1 DEF Exclusive, PathLeadsToServer, Listens
<1>8. Attached'
  BY <1>1, <1>2, EndCounts DEF Attached
<1>9. Employed'
  BY <1>1, <1>3, <1>5 DEF Employed
<1>10. QED
  BY <1>1, <1>2, <1>4, <1>6, <1>7, <1>8, <1>9, EndCounts

LEMMA ConnectInv == ASSUME Inv, NEW c \in Client, Connect(c) PROVE Inv'
<1>. USE DEF Inv, Connect, server, inside, events, read, bounds
<1>. DEFINE s == path
<1>1. s \in Process /\ st[s] = "up" /\ conn[c] = "none" /\ svc'[c] = s
  BY DEF Typed, Listens
<1>2. Typed' /\ Attached'
  BY <1>1 DEF Typed, Attached, Handled, Left
<1>3. Exclusive' /\ PathLeadsToServer' /\ Employed' /\ Window'
  BY DEF Exclusive, PathLeadsToServer, Listens, Employed, Window
<1>4. \A d \in Client \ {c} : conn'[d] = conn[d] /\ svc'[d] = svc[d]
  BY DEF Typed
<1>5. \A p \in Process \ {s} : Being(p)' = Being(p) /\ clients'[p] = clients[p]
  BY <1>1, <1>4 DEF Being, Of, Handled, Typed
<1>6. Cardinality(Being(s))' = clients'[s]
  <2>1. c \notin Being(s) /\ clients[s] = Cardinality(Being(s))
    BY <1>1 DEF Being, Of, Counted
  <2>2. CASE conn'[c] = "flushing" /\ UNCHANGED clients
    <3>1. Being(s)' = Being(s)
      BY <1>1, <1>4, <2>2 DEF Being, Of, Handled
    <3>2. QED
      BY <2>1, <2>2, <3>1
  <2>3. CASE conn'[c] = "reading" /\ clients'[s] = clients[s] + 1
    <3>1. Being(s)' = Being(s) \cup {c}
      BY <1>1, <1>4, <2>3 DEF Being, Of, Handled
    <3>2. QED
      BY <1>1, <2>1, <2>3, <3>1, BeingFinite, FS_AddElement
  <2>4. QED
    BY <1>1, <2>2, <2>3 DEF Typed
<1>7. Counted'
  BY <1>5, <1>6 DEF Counted
<1>8. QED
  BY <1>2, <1>3, <1>7

\* What a handler does between its request and its end, and after it.
LEMMA RestInv ==
  ASSUME Inv, NEW c \in Client, Suspend(c) \/ Read(c) \/ Flush(c) \/ Leave(c)
  PROVE  Inv'
<1>. USE DEF Inv, server, inside, events, read, bounds
<1>1. /\ UNCHANGED <<server, inside, clients, svc, events, cursor, bounds>>
      /\ \A d \in Client \ {c} : conn'[d] = conn[d]
      /\ \/ conn'[c] = conn[c]
         \/ conn[c] \in Left /\ conn'[c] \in Left \cup {"none"}
         \/ conn[c] \in Handled /\ conn'[c] \in Handled
  BY DEF Suspend, Read, Flush, Leave, Typed, Handled, Left
<1>2. Typed'
  <2>1. CASE Suspend(c)
    BY <2>1 DEF Suspend, Typed, Handled
  <2>2. CASE Flush(c)
    BY <2>2 DEF Flush, Typed, Handled
  <2>5. CASE Read(c)
    BY <2>5 DEF Read, Typed, Left
  <2>3. CASE Leave(c)
    BY <2>3 DEF Leave, Typed
  <2>4. QED
    BY <2>1, <2>2, <2>3, <2>5
<1>3. Exclusive' /\ PathLeadsToServer' /\ Employed' /\ Window'
  BY <1>1 DEF Exclusive, PathLeadsToServer, Listens, Employed, Window
<1>4. Attached'
  BY <1>1 DEF Attached, Handled, Left
<1>5. \A p \in Process : Being(p)' = Being(p)
  BY <1>1 DEF Being, Of, Handled, Left
<1>6. QED
  BY <1>1, <1>2, <1>3, <1>4, <1>5 DEF Counted

LEMMA StepInv == ASSUME Inv, [Next]_vars PROVE Inv'
<1>1. ASSUME NEW c \in Client, Requests(c) PROVE Inv'
  BY <1>1, EndInv, ConnectInv, RestInv DEF Requests
<1>2. CASE UNCHANGED vars
  <2>. USE DEF vars, server, inside, links, events, read, bounds
  <2>1. Counted' /\ Window'
    BY <1>2, SameLinks DEF Inv
  <2>2. QED
    BY <1>2, <2>1
       DEF Inv, Typed, Exclusive, Attached, Employed, PathLeadsToServer, Listens
<1>3. QED
  BY <1>1, <1>2, StartInv, CloseInv, KillInv, WorkInv DEF Next

LEMMA InvHolds == Spec => []Inv
BY InitInv, StepInv, PTL DEF Spec

-----------------------------------------------------------------------------
(***************************************************************************)
(* The theorems.                                                           *)
(***************************************************************************)

\* A process that listens is found under the path: neither a process that starts nor
\* one that still closes takes its socket file away (start and close of LocalServer
\* within the lock of the store).
THEOREM SocketFound == Spec => []PathLeadsToServer
<1>1. Inv => PathLeadsToServer
  BY DEF Inv
<1>2. QED
  BY <1>1, InvHolds, PTL

\* The store is open for as long as a task or a connection may need it (the order of
\* Application.close).
THEOREM StoreHeld == Spec => []StoreOutlivesUsers
<1>1. Inv => StoreOutlivesUsers
  BY DEF Inv, Exclusive, Attached, Employed, StoreOutlivesUsers, Of, Handled
<1>2. QED
  BY <1>1, InvHolds, PTL

\* The types, and the budget: the counter of a process is the number of clients it
\* is handling, however each of them ends (LocalServer._client).
THEOREM BudgetExact == Spec => []BudgetReturned
<1>1. Inv => BudgetReturned
  <2>. SUFFICES ASSUME Inv PROVE BudgetReturned
    OBVIOUS
  <2>1. \A s \in Process : clients[s] = Cardinality(Being(s))
    BY DEF Inv, Counted
  <2>2. clients \in [Process -> 0..Cardinality(Client)]
    BY <2>1, BeingFinite DEF Inv, Typed
  <2>3. kept \subseteq 1..top
    BY DEF Inv, Window
  <2>4. TypeOK
    BY <2>2, <2>3 DEF Inv, Typed, TypeOK
  <2>5. QED
    BY <2>1, <2>4 DEF BudgetReturned, Being
<1>2. QED
  BY <1>1, InvHolds, PTL

\* No client's cursor is moved over an event that the client has not been given, unless
\* as many later ones as the window is long were written before (Store.events, in the
\* order of their numbers, and what Store._event deletes).
THEOREM PagesHaveNoHole == Spec => PagesAreWhole
<1>1. ASSUME Inv, [Next]_vars, NEW c \in Client, NEW k \in (cursor[c] + 1)..cursor'[c]
      PROVE  k \in given'[c] \/ k + MaxEvents <= top
  <2>1. cursor' # cursor
    <3>1. SUFFICES ASSUME cursor' = cursor PROVE FALSE
      OBVIOUS
    <3>2. cursor[c] \in Nat
      BY <1>1, ServiceAssumption DEF Inv, Typed
    <3>3. QED
      BY <1>1, <3>1, <3>2
  <2>2. PICK d \in Client : Poll(d)
    BY <1>1, <2>1
       DEF Next, Start, Open, Probe, RemoveStale, Bind, Work, Close, Stop, Sweep,
           Cancelled, Release, Kill, Requests, Connect, Expire, Submit, QuiesceCall,
           Suspend, Resume, Drain, Read, Flush, Leave, vars, read
  <2>3. d = c
    <3>1. SUFFICES ASSUME d # c PROVE FALSE
      OBVIOUS
    <3>2. cursor'[c] = cursor[c] /\ cursor[c] \in Nat
      BY <2>2, <3>1, PollAdvances, <1>1 DEF Inv, Typed
    <3>3. QED
      BY <1>1, <3>2
  <2>4. QED
    BY <1>1, <2>2, <2>3, PollAdvances DEF Inv
<1>2. Inv /\ [Next]_vars =>
        [\A c \in Client : \A k \in (cursor[c] + 1)..cursor'[c] :
           k \in given'[c] \/ k + MaxEvents <= top]_vars
  BY <1>1
<1>3. QED
  BY <1>2, InvHolds, PTL DEF Spec, PagesAreWhole
=============================================================================
