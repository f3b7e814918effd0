----------------------------- MODULE LabsProofs ------------------------------
(***************************************************************************)
(* For any number of checkouts and of failures: what a laboratory created  *)
(* is in its record, its cleanup deletes what is its own, and what its     *)
(* records say is true.                                                    *)
(***************************************************************************)
EXTENDS Labs, TLAPS

File == [kind: {"none", "dir", "state"}, has: SUBSET Name, module: BOOLEAN,
         phys: SUBSET Radio, complete: BOOLEAN, cleaned: BOOLEAN]

Undoing == {"delete", "unload", "cleaned"}
Smoking == {"daemons", "capture", "hostapd", "station", "status", "traffic", "verdict",
            "finally"}

-----------------------------------------------------------------------------
(***************************************************************************)
(* The inductive invariant: one laboratory and its record.                 *)
(***************************************************************************)

\* Where the script of a laboratory can be.
WhereAt(l, p, i) ==
  /\ l = Baseline => p \notin {"mkdir", "mark"} \cup Undoing \cup Smoking
  /\ p = "mark" => i = 2
  /\ p \in {"note", "make"} => i \in 1..(IF l = Baseline THEN 2 ELSE 4)
  /\ p \in {"move", "unplug"} => i \in 1..(IF l = Baseline THEN 3 ELSE 2)

\* What the setup has come to is in the record f; a laboratory that was cleaned up is
\* not set up again before its record is archived.
RecordedAt(p, i, f) ==
  /\ f.has \subseteq Hwsim
  /\ p \in {"note", "make", "mark"} =>
       \A k \in 1..4 : k < i \/ (k = i /\ p # "note") => Order[k] \in f.has
  /\ p \in {"load", "record", "count", "move", "unplug", "complete"} => f.has = Hwsim
  /\ f.complete => f.has = Hwsim
  /\ p \in Undoing => f.kind = "state"
  /\ f.cleaned => f.kind = "state" /\ ~f.complete /\ p \in {"idle"} \cup Undoing

Records ==
  \A l \in Lab : /\ WhereAt(l, pc[l], n[l])
                 /\ l \in Checkout => RecordedAt(pc[l], n[l], file[l])

-----------------------------------------------------------------------------
(***************************************************************************)
(* The inductive invariant: the host.                                      *)
(***************************************************************************)

\* Whoever owns a resource has it in the record.
OwnersRecord(l) == \A r \in Hwsim : host[r] = l => r \in file[l].has

\* What a cleanup has still to delete is its own, what it has been past is not.
Deletes(l) ==
  pc[l] = "delete" =>
    \A i \in 1..4 :
      /\ i >= n[l] /\ Doomed[i] \in file[l].has => host[Doomed[i]] = l
      /\ i < n[l] => host[Doomed[i]] # l

NothingLeft(l) ==
  pc[l] \in {"unload", "cleaned"} \/ file[l].cleaned => \A r \in Hwsim : host[r] # l

\* Only a profile goes without a marker, made by a setup that was interrupted or marks
\* it next; until then no cleanup gets past it.
Unmarked ==
  /\ \A r \in Name : host[r] = "unmarked" => r = "profile"
  /\ host["profile"] = "unmarked" =>
       \E l \in Checkout : /\ "profile" \in file[l].has /\ ~file[l].cleaned
                           /\ pc[l] \notin Undoing
  /\ \A l \in Checkout : pc[l] = "mark" =>
       /\ host["profile"] = "unmarked"
       /\ \A k \in Checkout : pc[k] = "mark" => k = l

\* The module of a laboratory that has been cleaned up is unloaded.
Unloaded(l) ==
  pc[l] = "cleaned" \/ file[l].cleaned => (file[l].module => module # l)

-----------------------------------------------------------------------------
(***************************************************************************)
(* The inductive invariant: the smoke run.                                 *)
(***************************************************************************)

\* A smoke run has the containers for itself ...
Smokes(l) ==
  pc[l] \in Smoking => host["ap"] = l /\ host["client"] = l /\ ~passed[l]

\* ... and what it has found out is in its capture, while that runs.
Heard(l) ==
  LET on == capture[l].on
      holds == capture[l].holds
  IN  /\ pc[l] = "capture" => daemon = {}
      /\ pc[l] \in {"hostapd", "station", "status", "traffic", "verdict"} =>
           (on /\ linked => "link" \in holds)
      /\ pc[l] = "traffic" => check[l] \subseteq {"association"}
      /\ pc[l] = "verdict" => "capture" \notin check[l]
      /\ pc[l] \in {"traffic", "verdict"} =>
           (on /\ "association" \in check[l] => "link" \in holds)
      /\ pc[l] = "verdict" => (on /\ "ping" \in check[l] => "ping" \in holds)
      /\ pc[l] = "finally" /\ check[l] = Checks => {"link", "ping"} \subseteq holds
      /\ passed[l] => {"link", "ping"} \subseteq holds

Hosts == Unmarked /\ \A l \in Checkout : OwnersRecord(l) /\ Deletes(l) /\ NothingLeft(l)
Smoked == \A l \in Checkout : Smokes(l) /\ Heard(l)

Inv == TypeOK /\ Records /\ Hosts /\ (\A l \in Checkout : Unloaded(l)) /\ Smoked

-----------------------------------------------------------------------------

LEMMA Names ==
  /\ Checkout \subseteq Lab /\ Baseline \in Lab /\ Baseline \notin Checkout
  /\ "none" \notin Lab /\ "unmarked" \notin Lab
  /\ Hwsim \subseteq Name /\ Base \subseteq Name /\ Hwsim \cap Base = {}
  /\ \A r \in Name : r \notin Checkout
BY LabsAssumption DEF Lab, Baseline, Name, Hwsim, Base

LEMMA Orders ==
  /\ Len(Order) = 4 /\ Len(BaseOrder) = 2 /\ Len(Container) = 2
  /\ Order[1] = "network" /\ Order[2] = "profile" /\ Order[3] = "ap" /\ Order[4] = "client"
  /\ \A i \in 1..4 : Order[i] \in Hwsim /\ Doomed[i] \in Hwsim
  /\ \A i \in 1..2 : BaseOrder[i] \in Base /\ Container[i] \in {"ap", "client"}
  /\ \A r \in Hwsim : \E i \in 1..4 : Doomed[i] = r
  /\ \A i, k \in 1..4 : Doomed[i] = Doomed[k] => i = k
BY DEF Order, BaseOrder, Container, Doomed, Hwsim, Base

-----------------------------------------------------------------------------
(***************************************************************************)
(* The scripts and the records.                                            *)
(***************************************************************************)

\* The script of l is at p now, in round i, and no other script has moved.
Moves(l, p, i) ==
  /\ pc' \in [Lab -> Places] /\ n' \in [Lab -> 1..5]
  /\ pc'[l] = p /\ n'[l] = i
  /\ \A k \in Lab \ {l} : pc'[k] = pc[k] /\ n'[k] = n[k]

\* The record of l is f now.
Writes(l, f) ==
  /\ file' \in [Lab -> File] /\ file'[l] = f
  /\ \A k \in Lab \ {l} : file'[k] = file[k]

LEMMA Going ==
  ASSUME TypeOK, NEW l \in Lab, NEW p \in Places, NEW i \in 1..5, Goto(l, p, i)
  PROVE  Moves(l, p, i)
BY DEF TypeOK, Goto, Moves

LEMMA Writing ==
  ASSUME TypeOK, NEW l \in Lab, NEW f \in File, file' = [file EXCEPT ![l] = f]
  PROVE  Writes(l, f)
<1>1. file \in [Lab -> File]
  BY DEF TypeOK, File
<1>2. QED
  BY <1>1 DEF Writes

LEMMA NotWriting ==
  ASSUME TypeOK, NEW l \in Lab, UNCHANGED file PROVE Writes(l, file[l]) /\ file[l] \in File
<1>1. file \in [Lab -> File]
  BY DEF TypeOK, File
<1>2. QED
  BY <1>1 DEF Writes

\* A step of one script.
Goes(l) ==
  \E p \in Places, i \in 1..5, f \in File :
    /\ Moves(l, p, i) /\ Writes(l, f) /\ WhereAt(l, p, i)
    /\ l \in Checkout => RecordedAt(p, i, f)

LEMMA GoesOn ==
  ASSUME Records, NEW l \in Lab, Goes(l) PROVE Records'
<1>1. PICK p \in Places, i \in 1..5, f \in File :
        /\ Moves(l, p, i) /\ Writes(l, f) /\ WhereAt(l, p, i)
        /\ l \in Checkout => RecordedAt(p, i, f)
  BY DEF Goes
<1>2. ASSUME NEW k \in Lab
      PROVE  /\ WhereAt(k, pc'[k], n'[k])
             /\ k \in Checkout => RecordedAt(pc'[k], n'[k], file'[k])
  <2>1. CASE k = l
    BY <1>1, <2>1 DEF Moves, Writes
  <2>2. CASE k # l
    BY <1>1, <2>2 DEF Moves, Writes, Records
  <2>3. QED
    BY <2>1, <2>2
<1>3. QED
  BY <1>2 DEF Records

\* One that does not write the record.
LEMMA GoesOnly ==
  ASSUME TypeOK, NEW l \in Lab, NEW p \in Places, NEW i \in 1..5, Goto(l, p, i),
         UNCHANGED file, WhereAt(l, p, i), l \in Checkout => RecordedAt(p, i, file[l])
  PROVE  Goes(l)
BY Going, NotWriting DEF Goes

LEMMA GoesWriting ==
  ASSUME TypeOK, NEW l \in Lab, NEW p \in Places, NEW i \in 1..5, Goto(l, p, i),
         NEW f \in File, file' = [file EXCEPT ![l] = f], WhereAt(l, p, i),
         l \in Checkout => RecordedAt(p, i, f)
  PROVE  Goes(l)
BY Going, Writing DEF Goes

\* A script that has failed, is over or only looks.
LEMMA Stops ==
  ASSUME TypeOK, Records, NEW l \in Lab, NEW p \in {"idle"} \cup Smoking, Goto(l, p, 1),
         p # "idle" => l \in Checkout /\ ~file[l].cleaned, UNCHANGED file
  PROVE  Goes(l)
<1>1. p \in Places /\ 1 \in 1..5
  BY DEF Places, Smoking
<1>2. WhereAt(l, p, 1)
  BY Names DEF WhereAt, Smoking, Undoing
<1>3. l \in Checkout => RecordedAt(p, 1, file[l])
  BY DEF Records, RecordedAt, Smoking, Undoing
<1>4. QED
  BY <1>1, <1>2, <1>3, GoesOnly

\* While a setup is about the module and its radios, the record has all of it.
Connecting == {"load", "record", "count", "move", "unplug", "complete"}

LEMMA Connects ==
  ASSUME NEW p \in Connecting, NEW i, NEW f, RecordedAt(p, i, f),
         NEW q \in Connecting, NEW j, NEW g,
         g.has = f.has, g.complete = f.complete, g.cleaned = f.cleaned
  PROVE  RecordedAt(q, j, g)
BY DEF RecordedAt, Undoing, Connecting

LEMMA ScriptGoes ==
  ASSUME TypeOK, Records, NEW l \in Lab, Script(l) PROVE Goes(l)
<1>. /\ WhereAt(l, pc[l], n[l])
     /\ l \in Checkout => RecordedAt(pc[l], n[l], file[l])
  BY DEF Records
<1>. /\ pc[l] \in Places /\ n[l] \in 1..5 /\ file[l] \in File
  BY DEF TypeOK, File
<1>. 1 \in 1..5 /\ 1 \in 1..4 /\ 1 \in 1..2 /\ 1 \in 1..3
  OBVIOUS
<1>1. CASE Setup(l)
  <2>1. pc[l] = "idle" /\ file[l].kind = "none" /\ l \in Checkout /\ l # Baseline
    BY <1>1, Names DEF Setup
  <2>2. WhereAt(l, "mkdir", 1)
    BY <2>1 DEF WhereAt
  <2>3. RecordedAt("mkdir", 1, file[l])
    BY <2>1 DEF RecordedAt, Undoing
  <2>4. Goto(l, "mkdir", 1) /\ UNCHANGED file /\ "mkdir" \in Places
    BY SMTT(20), <1>1 DEF Setup, Places
  <2>5. QED
    BY <2>2, <2>3, <2>4, GoesOnly
<1>2. CASE MakeDir(l)
  <2>. DEFINE f == [file[l] EXCEPT !.kind = "dir"]
  <2>1. f \in File /\ file' = [file EXCEPT ![l] = f] /\ Goto(l, "save", 1)
    BY <1>2 DEF MakeDir, File
  <2>2. WhereAt(l, "save", 1) /\ (l \in Checkout => RecordedAt("save", 1, f))
    BY <1>2 DEF MakeDir, WhereAt, RecordedAt, Undoing, Smoking, File
  <2>3. QED
    BY <2>1, <2>2, GoesWriting DEF Places
<1>3. CASE Save(l)
  <2>. DEFINE f == [file[l] EXCEPT !.kind = "state"]
              p == IF l = Baseline THEN "make" ELSE "note"
  <2>1. f \in File /\ file' = [file EXCEPT ![l] = f] /\ Goto(l, p, 1) /\ p \in Places
    BY <1>3 DEF Save, File, Places
  <2>2. \A k \in 1..4 : ~(k < 1)
    OBVIOUS
  <2>3. p \in {"make", "note"} /\ (l \in Checkout => p = "note")
    BY Names
  <2>4. f.kind = "state" /\ f.has = file[l].has /\ f.complete = file[l].complete
        /\ f.cleaned = file[l].cleaned /\ pc[l] = "save"
    BY <1>3 DEF Save, File
  <2>. HIDE DEF f, p
  <2>5. WhereAt(l, p, 1)
    BY <2>3 DEF WhereAt, Undoing, Smoking
  <2>6. l \in Checkout => RecordedAt(p, 1, f)
    BY <2>2, <2>3, <2>4 DEF RecordedAt, Undoing
  <2>7. QED
    BY <2>1, <2>5, <2>6, GoesWriting
<1>4. CASE Note(l)
  <2>. DEFINE f == [file[l] EXCEPT !.has = file[l].has \cup {Order[n[l]]}]
  <2>1. n[l] \in 1..4 /\ l # Baseline
    BY <1>4, Names DEF Note, WhereAt
  <2>2. f \in File /\ file' = [file EXCEPT ![l] = f] /\ Goto(l, "make", n[l])
    <3>1. Order[n[l]] \in Name
      BY <2>1, Orders, Names
    <3>2. QED
      BY <1>4, <3>1 DEF Note, File
  <2>3. WhereAt(l, "make", n[l]) /\ RecordedAt("make", n[l], f)
    <3>1. Order[n[l]] \in Hwsim /\ pc[l] = "note" /\ l \in Checkout
      BY <1>4, <2>1, Orders DEF Note
    <3>2. f.has = file[l].has \cup {Order[n[l]]} /\ f.complete = file[l].complete
          /\ f.cleaned = file[l].cleaned
      BY DEF File
    <3>. HIDE DEF f
    <3>3. RecordedAt("make", n[l], f)
      BY <2>1, <3>1, <3>2 DEF RecordedAt, Undoing
    <3>4. QED
      BY <2>1, <3>3 DEF WhereAt, Undoing, Smoking
  <2>4. "make" \in Places
    BY DEF Places
  <2>. HIDE DEF f
  <2>5. QED
    BY <2>2, <2>3, <2>4, GoesWriting
<1>5. ASSUME l \in Checkout, pc[l] \in {"make", "mark"}, After(l), UNCHANGED file
      PROVE  Goes(l)
  <2>1. /\ n[l] \in 1..4 /\ l # Baseline
        /\ \A k \in 1..4 : k <= n[l] => Order[k] \in file[l].has
    <3>1. \A k, m \in 1..4 : k <= m => k < m \/ k = m
      OBVIOUS
    <3>2. n[l] \in 1..4
      BY <1>5, Names DEF WhereAt
    <3>3. QED
      BY <1>5, <3>1, <3>2, Names DEF RecordedAt
  <2>2. CASE n[l] < 4
    <3>1. Goto(l, "note", n[l] + 1)
      BY <1>5, <2>2, Orders DEF After
    <3>2. \A m \in 1..4 : m < 4 => m + 1 \in 1..4 /\ m + 1 \in 1..5
                                   /\ \A k \in 1..4 : k < m + 1 => k <= m
      OBVIOUS
    <3>3. WhereAt(l, "note", n[l] + 1) /\ RecordedAt("note", n[l] + 1, file[l])
      BY <1>5, <2>1, <2>2, <3>2 DEF WhereAt, RecordedAt, Undoing, Smoking
    <3>4. QED
      BY <1>5, <2>1, <2>2, <3>1, <3>2, <3>3, GoesOnly DEF Places
  <2>3. CASE ~(n[l] < 4)
    <3>1. Goto(l, "load", 1)
      BY <1>5, <2>3, Orders DEF After
    <3>2. \A m, k \in 1..4 : ~(m < 4) => k <= m
      OBVIOUS
    <3>3. file[l].has = Hwsim
      BY <1>5, <2>1, <2>3, <3>2, Orders DEF RecordedAt, Hwsim
    <3>4. WhereAt(l, "load", 1) /\ RecordedAt("load", 1, file[l])
      BY <1>5, <2>1, <3>3 DEF WhereAt, RecordedAt, Undoing, Smoking
    <3>5. QED
      BY <1>5, <3>1, <3>4, GoesOnly DEF Places
  <2>4. QED
    BY <2>2, <2>3
<1>6. CASE Make(l)
  <2>1. CASE Order[n[l]] = "profile"
    <3>1. Goto(l, "mark", n[l]) /\ l \in Checkout /\ pc[l] = "make" /\ UNCHANGED file
      BY <1>6, <2>1 DEF Make
    <3>2. n[l] = 2
      <4>1. n[l] \in 1..4
        BY <3>1, Names DEF WhereAt
      <4>2. n[l] \in {1, 2, 3, 4}
        BY <4>1
      <4>3. QED
        BY <2>1, <4>2, Orders
    <3>3. WhereAt(l, "mark", n[l]) /\ RecordedAt("mark", n[l], file[l])
      BY <3>1, <3>2, Names DEF WhereAt, RecordedAt, Undoing, Smoking
    <3>4. QED
      BY <3>1, <3>3, GoesOnly DEF Places
  <2>2. CASE Order[n[l]] # "profile"
    BY <1>5, <1>6, <2>2 DEF Make
  <2>3. QED
    BY <2>1, <2>2
<1>7. CASE Mark(l)
  <2>1. l \in Checkout
    BY <1>7 DEF Mark, WhereAt, Lab
  <2>2. QED
    BY <1>5, <1>7, <2>1 DEF Mark
<1>8. CASE Load(l)
  <2>1. WhereAt(l, "record", 1) /\ (l \in Checkout => RecordedAt("record", 1, file[l]))
    BY <1>8 DEF Load, WhereAt, RecordedAt, Undoing, Smoking
  <2>2. Goto(l, "record", 1) /\ UNCHANGED file /\ "record" \in Places
    BY <1>8 DEF Load, Places
  <2>3. QED
    BY <2>1, <2>2, GoesOnly
<1>9. CASE Record(l)
  <2>. DEFINE f == [file[l] EXCEPT !.module = TRUE]
  <2>1. f \in File /\ file' = [file EXCEPT ![l] = f] /\ Goto(l, "count", 1)
    BY <1>9 DEF Record, File
  <2>2. f.has = file[l].has /\ f.complete = file[l].complete
        /\ f.cleaned = file[l].cleaned /\ pc[l] = "record"
    BY <1>9 DEF Record, File
  <2>. HIDE DEF f
  <2>3. WhereAt(l, "count", 1) /\ "count" \in Places
    BY DEF WhereAt, Undoing, Smoking, Places
  <2>4. l \in Checkout => RecordedAt("count", 1, f)
    BY SMTT(20), <2>2, Connects DEF Connecting
  <2>5. QED
    BY <2>1, <2>3, <2>4, GoesWriting
<1>10. CASE Count(l)
  <2>. DEFINE f == IF l = Baseline THEN file[l] ELSE [file[l] EXCEPT !.phys = Here]
  <2>1. Here \subseteq Radio
    BY DEF Here
  <2>2. f \in File /\ file' = [file EXCEPT ![l] = f] /\ Goto(l, "move", 1)
    BY <1>10, <2>1 DEF Count, File, TypeOK
  <2>3. WhereAt(l, "move", 1) /\ (l \in Checkout => RecordedAt("move", 1, f))
    BY <1>10, Names DEF Count, WhereAt, RecordedAt, Undoing, Smoking, File
  <2>4. QED
    BY <2>2, <2>3, GoesWriting DEF Places
<1>11. ASSUME pc[l] \in {"move", "unplug"}, UNCHANGED file, NEW p \in {"move", "unplug"},
              NEW i \in 1..(IF l = Baseline THEN 3 ELSE 2), Goto(l, p, i)
       PROVE  Goes(l)
  <2>1. WhereAt(l, p, i) /\ (l \in Checkout => RecordedAt(p, i, file[l]))
    BY <1>11 DEF WhereAt, RecordedAt, Undoing, Smoking
  <2>2. i \in 1..5 /\ p \in Places
    BY DEF Places
  <2>3. QED
    BY <1>11, <2>1, <2>2, GoesOnly
<1>12. CASE Move(l)
  <2>1. n[l] \in 1..(IF l = Baseline THEN 3 ELSE 2)
    BY <1>12 DEF Move, WhereAt
  <2>2. l = Baseline /\ n[l] < 3 => n[l] + 1 \in 1..(IF l = Baseline THEN 3 ELSE 2)
    BY <2>1
  <2>3. QED
    BY <1>11, <1>12, <2>1, <2>2 DEF Move
<1>13. CASE Unplug(l)
  <2>1. n[l] \in 1..(IF l = Baseline THEN 3 ELSE 2)
    BY <1>13 DEF Unplug, WhereAt
  <2>2. CASE l # Baseline /\ n[l] < 2
    <3>1. n[l] + 1 \in 1..(IF l = Baseline THEN 3 ELSE 2)
      BY <2>1, <2>2
    <3>2. Goto(l, "move", n[l] + 1)
      BY <1>13, <2>2, Orders DEF Unplug
    <3>3. QED
      BY <1>11, <1>13, <3>1, <3>2 DEF Unplug
  <2>3. CASE ~(l # Baseline /\ n[l] < 2)
    <3>1. Goto(l, "complete", 1)
      BY <1>13, <2>3, Orders DEF Unplug
    <3>2. UNCHANGED file /\ "complete" \in Places /\ pc[l] = "unplug"
      BY <1>13 DEF Unplug, Places
    <3>3. WhereAt(l, "complete", 1)
      BY DEF WhereAt, Undoing, Smoking
    <3>4. l \in Checkout => RecordedAt("complete", 1, file[l])
      BY SMTT(20), <3>2, Connects DEF Connecting
    <3>5. QED
      BY <3>1, <3>2, <3>3, <3>4, GoesOnly
  <2>4. QED
    BY <2>2, <2>3
<1>14. CASE Complete(l)
  <2>. DEFINE f == [file[l] EXCEPT !.complete = TRUE]
  <2>1. f \in File /\ file' = [file EXCEPT ![l] = f] /\ Goto(l, "idle", 1)
    BY <1>14 DEF Complete, File
  <2>2. WhereAt(l, "idle", 1) /\ (l \in Checkout => RecordedAt("idle", 1, f))
    BY <1>14 DEF Complete, WhereAt, RecordedAt, Undoing, Smoking, File
  <2>3. QED
    BY <2>1, <2>2, GoesWriting DEF Places
<1>15. CASE Fail(l)
  BY <1>15, Stops DEF Fail
<1>16. ASSUME l \in Checkout, file[l].kind = "state", file[l].cleaned => pc[l] \in {"idle"} \cup Undoing,
              UNCHANGED file, NEW p \in Undoing, NEW i \in 1..5, Goto(l, p, i)
       PROVE  Goes(l)
  <2>1. WhereAt(l, p, i) /\ RecordedAt(p, i, file[l])
    BY <1>16, Names DEF WhereAt, RecordedAt, Undoing
  <2>2. QED
    BY <1>16, <2>1, GoesOnly DEF Places, Undoing
<1>17. CASE Cleanup(l)
  BY <1>16, <1>17 DEF Cleanup, Idle, DeleteFrom, Undoing
<1>18. ASSUME pc[l] \in Undoing
       PROVE  l \in Checkout /\ file[l].kind = "state"
  BY <1>18 DEF WhereAt, RecordedAt, Lab
<1>19. CASE Delete(l)
  <2>1. PICK i \in Left(l, n[l]) : DeleteFrom(l, i + 1) /\ UNCHANGED file
    BY <1>19 DEF Delete
  <2>2. i + 1 \in 1..5
    <3>1. \A m \in 1..5 : \A k \in m..4 : k + 1 \in 1..5
      OBVIOUS
    <3>2. QED
      BY <3>1 DEF Left
  <2>3. pc[l] \in Undoing
    BY <1>19 DEF Delete, Undoing
  <2>4. QED
    BY <1>16, <1>18, <2>1, <2>2, <2>3 DEF DeleteFrom, Undoing
<1>20. CASE Unload(l)
  BY <1>16, <1>18, <1>20 DEF Unload, Undoing
<1>21. CASE Cleaned(l)
  <2>. DEFINE f == [file[l] EXCEPT !.cleaned = TRUE, !.complete = FALSE]
  <2>1. f \in File /\ file' = [file EXCEPT ![l] = f] /\ Goto(l, "idle", 1)
    BY <1>21 DEF Cleaned, File
  <2>2. WhereAt(l, "idle", 1) /\ (l \in Checkout => RecordedAt("idle", 1, f))
    BY <1>18, <1>21 DEF Cleaned, WhereAt, RecordedAt, Undoing, Smoking, File
  <2>3. QED
    BY <2>1, <2>2, GoesWriting DEF Places
<1>22. CASE Archive(l)
  <2>1. NoFile \in File /\ file' = [file EXCEPT ![l] = NoFile] /\ UNCHANGED <<pc, n>>
    BY <1>22 DEF Archive, NoFile, File
  <2>2. Moves(l, pc[l], n[l]) /\ Writes(l, NoFile)
    BY <2>1, Writing DEF Moves, TypeOK
  <2>3. pc[l] = "idle"
    BY <1>22 DEF Archive, Idle
  <2>4. RecordedAt("idle", n[l], NoFile)
    BY DEF RecordedAt, NoFile, Undoing
  <2>5. QED
    BY <2>1, <2>2, <2>3, <2>4 DEF Goes
<1>23. QED
  BY <1>1, <1>2, <1>3, <1>4, <1>6, <1>7, <1>8, <1>9, <1>10, <1>12, <1>13, <1>14, <1>15,
     <1>17, <1>19, <1>20, <1>21, <1>22 DEF Script

LEMMA SmokeGoes ==
  ASSUME TypeOK, Records, NEW l \in Checkout, SmokeScript(l) PROVE Goes(l)
<1>. l \in Lab /\ RecordedAt(pc[l], n[l], file[l])
  BY Names DEF Records
<1>1. \E p \in {"idle"} \cup Smoking :
        Goto(l, p, 1) /\ (p # "idle" => ~file[l].cleaned) /\ UNCHANGED file
  <2>1. CASE Smoke(l)
    BY <2>1 DEF Smoke, RecordedAt, Smoking
  <2>2. pc[l] \in Smoking => ~file[l].cleaned
    BY DEF RecordedAt, Smoking, Undoing
  <2>3. CASE Daemons(l)
    BY <2>2, <2>3 DEF Daemons, Smoking
  <2>4. CASE Capture(l) \/ Hostapd(l) \/ Station(l) \/ Status(l) \/ Ping(l)
    BY <2>2, <2>4 DEF Capture, Hostapd, Station, Status, Ping, Smoking
  <2>5. CASE Verdict(l) \/ SmokeFails(l) \/ Finally(l)
    BY <2>2, <2>5 DEF Verdict, SmokeFails, Finally, Smoking
  <2>6. QED
    BY <2>1, <2>3, <2>4, <2>5 DEF SmokeScript
<1>2. QED
  BY <1>1, Stops

LEMMA BaseGoes ==
  ASSUME TypeOK, Records, BaseScript PROVE Goes(Baseline)
<1>. /\ Baseline \in Lab /\ Baseline \notin Checkout
     /\ pc[Baseline] \in Places /\ n[Baseline] \in 1..5 /\ file[Baseline] \in File
  BY Names DEF TypeOK, File
<1>. 1 \in 1..5 /\ 1 \in 1..2 /\ 2 \in 1..2 /\ 2 \in 1..5
  OBVIOUS
<1>. pc[Baseline] \in {"note", "make"} => n[Baseline] \in 1..2
  BY DEF Records, WhereAt
<1>1. CASE BaseSetup
  <2>1. WhereAt(Baseline, "save", 1)
    BY DEF WhereAt, Undoing, Smoking
  <2>2. QED
    BY <1>1, <2>1, GoesOnly DEF BaseSetup, Places
<1>2. CASE BaseMake
  <2>1. WhereAt(Baseline, "note", n[Baseline])
    BY <1>2 DEF BaseMake, WhereAt, Undoing, Smoking
  <2>2. QED
    BY <1>2, <2>1, GoesOnly DEF BaseMake, Places
<1>3. CASE BaseNote
  <2>. DEFINE f == [file[Baseline] EXCEPT
                      !.has = file[Baseline].has \cup {BaseOrder[n[Baseline]]}]
  <2>1. f \in File /\ file' = [file EXCEPT ![Baseline] = f]
    <3>1. pc[Baseline] = "note" /\ n[Baseline] \in 1..2
      BY <1>3 DEF BaseNote
    <3>2. BaseOrder[n[Baseline]] \in Name
      BY <3>1, Orders, Names
    <3>3. QED
      BY <1>3, <3>2 DEF BaseNote, File
  <2>. HIDE DEF f
  <2>2. CASE n[Baseline] < 2
    <3>1. n[Baseline] + 1 = 2
      BY <1>3, <2>2 DEF BaseNote
    <3>2. Goto(Baseline, "make", 2)
      BY <1>3, <2>2, <3>1, Orders DEF BaseNote
    <3>3. WhereAt(Baseline, "make", 2) /\ "make" \in Places
      BY DEF WhereAt, Undoing, Smoking, Places
    <3>4. QED
      BY <2>1, <3>2, <3>3, GoesWriting
  <2>3. CASE ~(n[Baseline] < 2)
    <3>1. Goto(Baseline, "load", 1)
      BY <1>3, <2>3, Orders DEF BaseNote
    <3>2. WhereAt(Baseline, "load", 1) /\ "load" \in Places
      BY DEF WhereAt, Undoing, Smoking, Places
    <3>3. QED
      BY <2>1, <3>1, <3>2, GoesWriting
  <2>4. QED
    BY <2>2, <2>3
<1>4. CASE BaseFinish
  <2>1. WhereAt(Baseline, "count", 1)
    BY DEF WhereAt, Undoing, Smoking
  <2>2. QED
    BY <1>4, <2>1, GoesOnly DEF BaseFinish, Places
<1>5. QED
  BY <1>1, <1>2, <1>3, <1>4 DEF BaseScript

LEMMA AirLeaves ==
  ASSUME Air \/ UNCHANGED vars
  PROVE  UNCHANGED <<failures, pc, n, file, host, module, radio, eth0, daemon, check, passed>>
BY DEF Air, Associate, CaptureEnds, vars

\* Every step is one of one script, or leaves the scripts alone.
LEMMA Scripts ==
  ASSUME TypeOK, Records, [Next]_vars
  PROVE  UNCHANGED <<pc, n, file>> \/ \E l \in Lab : Goes(l)
BY AirLeaves, ScriptGoes, SmokeGoes, BaseGoes, Names DEF Next

LEMMA StepRecords == ASSUME TypeOK, Records, [Next]_vars PROVE Records'
<1>1. CASE UNCHANGED <<pc, n, file>>
  BY <1>1 DEF Records
<1>2. QED
  BY <1>1, GoesOn, Scripts

\* What happens on the host and in the air.
LEMMA HostType ==
  ASSUME TypeOK, Records, [Next]_vars
  PROVE  /\ failures' \in 0..MaxFailures
         /\ host' \in [Name -> Lab \cup {"none", "unmarked"}]
         /\ module' \in Lab \cup {"none"}
         /\ radio' \in [Radio -> Name \cup {"absent", "vm"}]
         /\ eth0' \subseteq Name
<1>. DEFINE Typed(v, w, x, y, z) ==
       /\ v \in 0..MaxFailures
       /\ w \in [Name -> Lab \cup {"none", "unmarked"}] /\ x \in Lab \cup {"none"}
       /\ y \in [Radio -> Name \cup {"absent", "vm"}] /\ z \subseteq Name
<1>1. Typed(failures, host, module, radio, eth0)
  BY DEF TypeOK
<1>2. ASSUME NEW l \in Lab, Script(l) PROVE Typed(failures', host', module', radio', eth0')
  <2>1. CASE Fail(l)
    <3>1. \A m \in 0..MaxFailures : m < MaxFailures => m + 1 \in 0..MaxFailures
      BY LabsAssumption
    <3>2. QED
      BY <1>1, <2>1, <3>1 DEF Fail
  <2>2. CASE Make(l)
    BY <1>1, <2>2, Names DEF Make, Hwsim
  <2>3. CASE Mark(l)
    BY <1>1, <2>3 DEF Mark
  <2>4. CASE Load(l)
    BY <1>1, <2>4 DEF Load
  <2>5. CASE Move(l)
    <3>1. Target(l)[n[l]] \in Name
      <4>1. n[l] \in 1..(IF l = Baseline THEN 3 ELSE 2)
        BY <2>5 DEF Move, Records, WhereAt
      <4>2. QED
        BY <4>1, Orders DEF Target, Name, Hwsim, Base, Radio
    <3>2. QED
      BY <1>1, <2>5, <3>1 DEF Move
  <2>6. CASE Unplug(l)
    BY <1>1, <2>6 DEF Unplug
  <2>7. CASE Delete(l)
    BY <1>1, <2>7 DEF Delete
  <2>8. CASE Unload(l)
    BY <1>1, <2>8 DEF Unload
  <2>9. CASE Setup(l) \/ MakeDir(l) \/ Save(l) \/ Note(l) \/ Record(l) \/ Count(l)
             \/ Complete(l) \/ Cleanup(l) \/ Cleaned(l) \/ Archive(l)
    BY <1>1, <2>9
       DEF Setup, MakeDir, Save, Note, Record, Count, Complete, Cleanup, Cleaned, Archive
  <2>10. QED
    BY <1>2, <2>1, <2>2, <2>3, <2>4, <2>5, <2>6, <2>7, <2>8, <2>9 DEF Script
<1>3. ASSUME NEW l \in Checkout, SmokeScript(l)
      PROVE  Typed(failures', host', module', radio', eth0')
  <2>1. CASE SmokeFails(l)
    <3>1. \A m \in 0..MaxFailures : m < MaxFailures => m + 1 \in 0..MaxFailures
      BY LabsAssumption
    <3>2. QED
      BY <1>1, <2>1, <3>1 DEF SmokeFails
  <2>2. CASE ~SmokeFails(l)
    BY <1>1, <1>3, <2>2
       DEF SmokeScript, Smoke, Daemons, Capture, Hostapd, Station, Status, Ping, Verdict,
           Finally
  <2>3. QED
    BY <2>1, <2>2
<1>4. CASE BaseScript
  <2>1. CASE BaseMake
    <3>1. BaseOrder[n[Baseline]] \in Name
      <4>1. n[Baseline] \in 1..2
        BY <2>1, Names DEF BaseMake, Records, WhereAt
      <4>2. QED
        BY <4>1, Orders, Names
    <3>2. Baseline \in Lab /\ "nodes" \in Name
      BY Names DEF Name, Base
    <3>3. QED
      BY <1>1, <2>1, <3>1, <3>2 DEF BaseMake
  <2>2. CASE BaseSetup \/ BaseNote \/ BaseFinish
    BY <1>1, <2>2 DEF BaseSetup, BaseNote, BaseFinish
  <2>3. QED
    BY <1>4, <2>1, <2>2 DEF BaseScript
<1>5. CASE Air \/ UNCHANGED vars
  BY <1>1, <1>5, AirLeaves
<1>6. QED
  BY <1>2, <1>3, <1>4, <1>5 DEF Next

\* Setups and cleanups leave the smoke runs' own state alone, but for the containers and
\* the module that go, and for the archive.
LEMMA ScriptAir ==
  ASSUME NEW l \in Lab, Script(l)
  PROVE  \/ UNCHANGED air
         \/ Delete(l) /\ UNCHANGED <<capture, check, passed>>
         \/ Unload(l) /\ UNCHANGED <<daemon, check, passed>>
         \/ Archive(l) /\ UNCHANGED <<daemon, linked>>
<1>1. CASE Setup(l) \/ MakeDir(l) \/ Save(l) \/ Note(l) \/ Make(l) \/ Mark(l)
  BY <1>1 DEF Setup, MakeDir, Save, Note, Make, Mark
<1>2. CASE Load(l) \/ Record(l) \/ Count(l) \/ Move(l) \/ Unplug(l) \/ Complete(l)
           \/ Fail(l)
  BY <1>2 DEF Load, Record, Count, Move, Unplug, Complete, Fail
<1>3. CASE Cleanup(l) \/ Cleaned(l)
  BY <1>3 DEF Cleanup, Cleaned
<1>4. CASE Delete(l)
  BY <1>4 DEF Delete
<1>5. CASE Unload(l)
  BY <1>5 DEF Unload
<1>6. CASE Archive(l)
  BY <1>6 DEF Archive
<1>7. QED
  BY <1>1, <1>2, <1>3, <1>4, <1>5, <1>6 DEF Script

LEMMA BaseAir == ASSUME BaseScript PROVE UNCHANGED air
BY DEF BaseScript, BaseSetup, BaseMake, BaseNote, BaseFinish

LEMMA LinkType ==
  ASSUME TypeOK, Next
  PROVE  /\ daemon' \subseteq {"ap", "client"}
         /\ linked' \in BOOLEAN /\ (linked' => daemon' = {"ap", "client"})
<1>. /\ daemon \subseteq {"ap", "client"} /\ linked \in BOOLEAN
     /\ linked => daemon = {"ap", "client"}
  BY DEF TypeOK
<1>1. ASSUME NEW l \in Lab, Delete(l)
      PROVE  /\ daemon' \subseteq {"ap", "client"}
             /\ linked' \in BOOLEAN /\ (linked' => daemon' = {"ap", "client"})
  <2>1. PICK i \in Left(l, n[l]) : /\ daemon' = daemon \ {Doomed[i]}
                                  /\ linked' = (linked /\ Doomed[i] \notin daemon)
    BY <1>1 DEF Delete
  <2>2. QED
    BY <2>1
<1>2. ASSUME NEW l \in Lab, Script(l), ~Delete(l)
      PROVE  UNCHANGED daemon /\ linked' \in {linked, FALSE}
  BY <1>2, ScriptAir DEF air, Unload
<1>3. ASSUME NEW l \in Checkout, SmokeScript(l)
      PROVE  UNCHANGED linked /\ daemon \subseteq daemon'
             /\ daemon' \subseteq daemon \cup {"ap", "client"}
  <2>1. CASE Smoke(l) \/ Daemons(l) \/ Capture(l) \/ Status(l) \/ Ping(l)
    BY <2>1 DEF Smoke, Daemons, Capture, Status, Ping, air
  <2>2. CASE Verdict(l) \/ SmokeFails(l) \/ Finally(l)
    BY <2>2 DEF Verdict, SmokeFails, Finally
  <2>3. CASE Hostapd(l) \/ Station(l)
    BY <2>3 DEF Hostapd, Station
  <2>4. QED
    BY <1>3, <2>1, <2>2, <2>3 DEF SmokeScript
<1>4. CASE BaseScript \/ CaptureEnds
  <2>1. daemon' = daemon /\ linked' = linked
    BY <1>4, BaseAir DEF air, CaptureEnds
  <2>2. QED
    BY <2>1
<1>5. CASE Associate
  <2>1. daemon' = daemon /\ daemon = {"ap", "client"} /\ linked' = ~linked
    BY <1>5 DEF Associate
  <2>2. QED
    BY <2>1
<1>6. QED
  BY <1>1, <1>2, <1>3, <1>4, <1>5 DEF Next, Air

CaptureType == [on: BOOLEAN, holds: SUBSET Traffic]

LEMMA SeenType ==
  ASSUME TypeOK, NEW what \in SUBSET Traffic, Seen(what)
  PROVE  /\ capture' \in [Checkout -> CaptureType]
         /\ \A l \in Checkout :
              /\ capture'[l].on = capture[l].on
              /\ capture[l].holds \subseteq capture'[l].holds
              /\ capture[l].on => what \subseteq capture'[l].holds
<1>1. \A l \in Checkout :
        [capture[l] EXCEPT !.holds = @ \cup {w \in what : capture[l].on}] \in CaptureType
  BY DEF TypeOK, CaptureType
<1>2. capture' = [l \in Checkout |->
                    [capture[l] EXCEPT !.holds = @ \cup {w \in what : capture[l].on}]]
  BY DEF Seen
<1>3. QED
  BY <1>1, <1>2 DEF TypeOK, CaptureType

LEMMA SmokeType ==
  ASSUME TypeOK, Next
  PROVE  /\ capture' \in [Checkout -> CaptureType]
         /\ check' \in [Checkout -> SUBSET Checks] /\ passed' \in [Checkout -> BOOLEAN]
<1>. /\ capture \in [Checkout -> CaptureType]
     /\ check \in [Checkout -> SUBSET Checks] /\ passed \in [Checkout -> BOOLEAN]
  BY DEF TypeOK, CaptureType
<1>. NoCapture \in CaptureType /\ {} \subseteq Checks
  BY DEF NoCapture, CaptureType
<1>. /\ {"frame"} \subseteq Traffic /\ {"link"} \subseteq Traffic
     /\ {"ping"} \subseteq Traffic /\ {} \subseteq Traffic
  BY DEF Traffic
<1>. Checks = {"association", "ping", "capture"}
  BY DEF Checks
<1>1. ASSUME NEW l \in Lab, Script(l)
      PROVE  /\ capture' \in [Checkout -> CaptureType]
             /\ check' \in [Checkout -> SUBSET Checks] /\ passed' \in [Checkout -> BOOLEAN]
  <2>1. CASE UNCHANGED air \/ UNCHANGED <<capture, check, passed>>
    BY <2>1 DEF air
  <2>2. CASE Archive(l)
    BY <2>2 DEF Archive
  <2>3. CASE Unload(l) /\ UNCHANGED <<check, passed>>
    <3>1. \A k \in Checkout : [capture[k] EXCEPT !.on = FALSE] \in CaptureType
      BY DEF CaptureType
    <3>2. QED
      BY <2>3, <3>1 DEF Unload
  <2>4. QED
    BY <1>1, <2>1, <2>2, <2>3, ScriptAir
<1>2. ASSUME NEW l \in Checkout, SmokeScript(l)
      PROVE  /\ capture' \in [Checkout -> CaptureType]
             /\ check' \in [Checkout -> SUBSET Checks] /\ passed' \in [Checkout -> BOOLEAN]
  <2>1. CASE Smoke(l)
    BY <2>1 DEF Smoke
  <2>2. CASE Daemons(l)
    BY <2>2 DEF Daemons, air
  <2>3. \A b \in BOOLEAN : [capture[l] EXCEPT !.on = b] \in CaptureType
    BY DEF CaptureType
  <2>4. CASE Capture(l)
    BY <2>3, <2>4 DEF Capture
  <2>5. CASE Hostapd(l) \/ Station(l)
    BY <2>5, SeenType DEF Hostapd, Station
  <2>6. CASE Status(l)
    BY <2>6 DEF Status
  <2>7. CASE Ping(l)
    BY <2>7, SeenType DEF Ping
  <2>8. CASE Verdict(l)
    BY <2>8 DEF Verdict
  <2>9. CASE SmokeFails(l)
    BY <2>9 DEF SmokeFails
  <2>10. CASE Finally(l)
    BY <2>3, <2>10 DEF Finally
  <2>11. QED
    BY <1>2, <2>1, <2>2, <2>4, <2>5, <2>6, <2>7, <2>8, <2>9, <2>10 DEF SmokeScript
<1>3. CASE BaseScript
  BY <1>3, BaseAir DEF air
<1>4. CASE Associate
  BY <1>4, SeenType DEF Associate
<1>5. CASE CaptureEnds
  <2>1. \A l \in Checkout : [capture[l] EXCEPT !.on = FALSE] \in CaptureType
    BY DEF CaptureType
  <2>2. QED
    BY <1>5, <2>1 DEF CaptureEnds
<1>6. QED
  BY <1>1, <1>2, <1>3, <1>4, <1>5 DEF Next, Air

LEMMA StepType == ASSUME TypeOK, Records, [Next]_vars PROVE TypeOK'
<1>1. CASE UNCHANGED vars
  BY <1>1 DEF vars, TypeOK
<1>2. CASE Next
  <2>1. /\ pc' \in [Lab -> Places] /\ n' \in [Lab -> 1..5]
        /\ file' \in [Lab -> File]
    <3>1. CASE UNCHANGED <<pc, n, file>>
      BY <3>1 DEF TypeOK, File
    <3>2. QED
      BY <3>1, Scripts DEF Goes, Moves, Writes
  <2>2. QED
    BY <1>2, <2>1, HostType, LinkType, SmokeType DEF TypeOK, File, CaptureType
<1>3. QED
  BY <1>1, <1>2

-----------------------------------------------------------------------------
(***************************************************************************)
(* What a step does to one laboratory.                                     *)
(***************************************************************************)

Own(k) == Script(k) \/ SmokeScript(k)

\* The steps of the others change nothing of a laboratory's own, but for what its
\* capture hears and when that ends.
LEMMA Others ==
  ASSUME TypeOK, Records, [Next]_vars, NEW k \in Checkout, ~Own(k)
  PROVE  /\ pc'[k] = pc[k] /\ n'[k] = n[k] /\ file'[k] = file[k]
         /\ check'[k] = check[k] /\ passed'[k] = passed[k]
         /\ capture'[k].on => capture[k].on
         /\ capture[k].holds \subseteq capture'[k].holds
<1>. k \in Lab /\ k # Baseline
  BY Names
<1>1. /\ pc'[k] = pc[k] /\ n'[k] = n[k] /\ file'[k] = file[k]
  <2>1. ASSUME NEW l \in Lab \ {k}, Goes(l)
        PROVE  pc'[k] = pc[k] /\ n'[k] = n[k] /\ file'[k] = file[k]
    BY <2>1 DEF Goes, Moves, Writes
  <2>2. CASE \E l \in Lab : Script(l)
    BY <2>1, <2>2, ScriptGoes DEF Own
  <2>3. CASE \E l \in Checkout : SmokeScript(l)
    BY <2>1, <2>3, SmokeGoes, Names DEF Own
  <2>4. CASE BaseScript
    BY <2>1, <2>4, BaseGoes, Names
  <2>5. CASE Air \/ UNCHANGED vars
    BY <2>5, AirLeaves
  <2>6. QED
    BY <2>2, <2>3, <2>4, <2>5 DEF Next
<1>2. /\ check'[k] = check[k] /\ passed'[k] = passed[k]
      /\ capture'[k].on => capture[k].on
      /\ capture[k].holds \subseteq capture'[k].holds
  <2>. capture \in [Checkout -> CaptureType] /\ check \in [Checkout -> SUBSET Checks]
       /\ passed \in [Checkout -> BOOLEAN]
    BY DEF TypeOK, CaptureType
  <2>. /\ {"frame"} \subseteq Traffic /\ {"link"} \subseteq Traffic
       /\ {"ping"} \subseteq Traffic /\ {} \subseteq Traffic
    BY DEF Traffic
  <2>1. ASSUME NEW l \in Lab \ {k}, Script(l)
        PROVE  /\ check'[k] = check[k] /\ passed'[k] = passed[k]
               /\ capture'[k].on => capture[k].on
               /\ capture[k].holds \subseteq capture'[k].holds
    <3>1. CASE UNCHANGED <<capture, check, passed>>
      BY <3>1
    <3>2. CASE Unload(l) /\ UNCHANGED <<check, passed>>
      BY <3>2 DEF Unload, CaptureType
    <3>3. CASE Archive(l)
      BY <3>3 DEF Archive
    <3>4. QED
      BY <2>1, <3>1, <3>2, <3>3, ScriptAir DEF air
  <2>2. ASSUME NEW l \in Checkout \ {k}, SmokeScript(l)
        PROVE  /\ check'[k] = check[k] /\ passed'[k] = passed[k]
               /\ capture'[k].on => capture[k].on
               /\ capture[k].holds \subseteq capture'[k].holds
    <3>1. CASE Smoke(l)
      BY <3>1 DEF Smoke
    <3>2. CASE Daemons(l)
      BY <3>2 DEF Daemons, air
    <3>3. CASE Capture(l)
      BY <3>3 DEF Capture
    <3>4. CASE Hostapd(l) \/ Station(l)
      BY <3>4, SeenType DEF Hostapd, Station
    <3>5. CASE Status(l)
      BY <3>5 DEF Status
    <3>6. CASE Ping(l)
      <4>1. \E what \in SUBSET Traffic : Seen(what)
        BY <3>6 DEF Ping
      <4>2. check'[k] = check[k] /\ passed'[k] = passed[k]
        BY <3>6 DEF Ping
      <4>3. QED
        BY <4>1, <4>2, SeenType
    <3>7. CASE Verdict(l)
      BY <3>7 DEF Verdict
    <3>8. CASE SmokeFails(l)
      BY <3>8 DEF SmokeFails
    <3>9. CASE Finally(l)
      BY <3>9 DEF Finally
    <3>10. QED
      BY <2>2, <3>1, <3>2, <3>3, <3>4, <3>5, <3>6, <3>7, <3>8, <3>9 DEF SmokeScript
  <2>3. CASE BaseScript \/ UNCHANGED vars
    BY <2>3, BaseAir DEF air, vars
  <2>4. CASE Associate
    <3>1. \E what \in SUBSET Traffic : Seen(what)
      BY <2>4 DEF Associate
    <3>2. check'[k] = check[k] /\ passed'[k] = passed[k]
      BY <2>4 DEF Associate
    <3>3. QED
      BY <3>1, <3>2, SeenType
  <2>5. CASE CaptureEnds
    BY <2>5 DEF CaptureEnds, CaptureType
  <2>6. QED
    BY <2>1, <2>2, <2>3, <2>4, <2>5 DEF Next, Air, Own
<1>3. QED
  BY <1>1, <1>2

\* Where a laboratory's own script comes to, and from where.
LEMMA Reaches ==
  ASSUME TypeOK, Records, NEW k \in Checkout, Own(k)
  PROVE  /\ pc'[k] \in {"delete", "unload"} => Cleanup(k) \/ Delete(k)
         /\ pc'[k] = "cleaned" => Unload(k)
         /\ pc'[k] = "mark" => Make(k) /\ Order[n[k]] = "profile"
         /\ file'[k].cleaned => file[k].cleaned \/ Cleaned(k)
         /\ file'[k].module => file[k].module \/ Record(k)
         /\ file[k].has \subseteq file'[k].has \/ Archive(k)
         /\ pc'[k] \in Smoking => SmokeScript(k)
<1>. k \in Lab /\ pc \in [Lab -> Places] /\ file \in [Lab -> File] /\ k # Baseline
  BY Names DEF TypeOK, File
<1>1. CASE Setup(k) \/ MakeDir(k) \/ Save(k) \/ Note(k)
  BY <1>1 DEF Setup, MakeDir, Save, Note, Goto, File, Smoking
<1>2. ASSUME After(k), UNCHANGED file PROVE pc'[k] \in {"note", "load"}
  BY <1>2 DEF After, Goto
<1>3. CASE Make(k)
  BY <1>2, <1>3 DEF Make, Goto, Smoking
<1>4. CASE Mark(k)
  BY <1>2, <1>4 DEF Mark, Goto, Smoking
<1>5. CASE Load(k) \/ Record(k) \/ Count(k) \/ Move(k) \/ Unplug(k) \/ Complete(k)
  BY <1>5 DEF Load, Record, Count, Move, Unplug, Complete, Goto, File, Smoking
<1>6. CASE Fail(k)
  BY <1>6 DEF Fail, Goto, Smoking
<1>7. CASE Cleanup(k)
  BY <1>7 DEF Cleanup, DeleteFrom, Goto, Smoking
<1>8. CASE Delete(k)
  <2>1. PICK i \in Left(k, n[k]) : DeleteFrom(k, i + 1) /\ UNCHANGED file
    BY <1>8 DEF Delete
  <2>2. pc'[k] \in {"delete", "unload"} /\ file'[k] = file[k]
    BY <2>1 DEF DeleteFrom, Goto
  <2>3. QED
    BY <1>8, <2>2 DEF Smoking
<1>9. CASE Unload(k)
  BY <1>9 DEF Unload, Goto, Smoking
<1>10. CASE Cleaned(k)
  <2>1. /\ pc'[k] = "idle" /\ file'[k].has = file[k].has
        /\ file'[k].module = file[k].module
    BY <1>10 DEF Cleaned, Goto, File
  <2>2. QED
    BY <1>10, <2>1 DEF Smoking
<1>11. CASE Archive(k)
  BY <1>11 DEF Archive, Idle, NoFile, File, Smoking
<1>12. CASE SmokeScript(k)
  <2>1. UNCHANGED file /\ pc'[k] \in {"idle"} \cup Smoking
    <3>1. CASE Smoke(k) \/ Daemons(k) \/ Capture(k) \/ Hostapd(k)
      BY <3>1 DEF Smoke, Daemons, Capture, Hostapd, Goto, Smoking
    <3>2. CASE Station(k) \/ Status(k) \/ Ping(k) \/ Verdict(k)
      BY <3>2 DEF Station, Status, Ping, Verdict, Goto, Smoking
    <3>3. CASE SmokeFails(k) \/ Finally(k)
      BY <3>3 DEF SmokeFails, Finally, Goto, Smoking
    <3>4. QED
      BY <1>12, <3>1, <3>2, <3>3 DEF SmokeScript
  <2>2. QED
    BY <1>12, <2>1 DEF Smoking
<1>13. QED
  BY <1>1, <1>3, <1>4, <1>5, <1>6, <1>7, <1>8, <1>9, <1>10, <1>11, <1>12
     DEF Own, Script

-----------------------------------------------------------------------------
(***************************************************************************)
(* The host.                                                               *)
(***************************************************************************)

\* What a cleanup deletes is its own.
LEMMA DeletesOwn ==
  ASSUME TypeOK, Records, Hosts, NEW k \in Lab, Delete(k)
  PROVE  /\ k \in Checkout /\ pc[k] = "delete"
         /\ \E i \in Left(k, n[k]) :
              /\ \A j \in Left(k, n[k]) : i <= j
              /\ host[Doomed[i]] = k /\ host' = [host EXCEPT ![Doomed[i]] = "none"]
              /\ DeleteFrom(k, i + 1) /\ UNCHANGED file
<1>1. pc[k] = "delete"
  BY DEF Delete
<1>2. k \in Checkout /\ n[k] \in 1..5
  BY <1>1 DEF Records, WhereAt, Undoing, Lab, TypeOK
<1>3. \A m \in 1..5 : \A i \in m..4 : i \in 1..4 /\ i >= m
  OBVIOUS
<1>4. \A i \in Left(k, n[k]) : host[Doomed[i]] = k
  BY <1>1, <1>2, <1>3 DEF Hosts, Deletes, Left
<1>5. QED
  BY <1>1, <1>2, <1>4 DEF Delete

\* The steps that change who owns a resource.
LEMMA HostSteps ==
  ASSUME TypeOK, Records, Hosts, [Next]_vars
  PROVE  \/ UNCHANGED host
         \/ BaseMake
         \/ \E l \in Checkout : Make(l) \/ Mark(l) \/ Delete(l)
<1>1. ASSUME NEW l \in Lab, Script(l)
      PROVE  UNCHANGED host \/ (l \in Checkout /\ (Make(l) \/ Mark(l) \/ Delete(l)))
  <2>1. CASE Make(l)
    BY <2>1 DEF Make
  <2>2. CASE Mark(l)
    BY <2>2, Names DEF Mark, Records, WhereAt, Lab
  <2>3. CASE Delete(l)
    BY <2>3, DeletesOwn
  <2>4. CASE Setup(l) \/ MakeDir(l) \/ Save(l) \/ Note(l)
    BY <2>4 DEF Setup, MakeDir, Save, Note
  <2>5. CASE Load(l) \/ Record(l) \/ Count(l) \/ Move(l)
    BY <2>5 DEF Load, Record, Count, Move
  <2>6. CASE Unplug(l) \/ Complete(l) \/ Fail(l) \/ Cleanup(l)
    BY <2>6 DEF Unplug, Complete, Fail, Cleanup
  <2>7. CASE Unload(l) \/ Cleaned(l) \/ Archive(l)
    BY <2>7 DEF Unload, Cleaned, Archive
  <2>8. QED
    BY <1>1, <2>1, <2>2, <2>3, <2>4, <2>5, <2>6, <2>7 DEF Script
<1>2. ASSUME NEW l \in Checkout, SmokeScript(l) PROVE UNCHANGED host
  BY <1>2 DEF SmokeScript, Smoke, Daemons, Capture, Hostapd, Station, Status, Ping, Verdict,
              SmokeFails, Finally
<1>3. CASE BaseScript
  BY <1>3 DEF BaseScript, BaseSetup, BaseNote, BaseFinish
<1>4. QED
  BY <1>1, <1>2, <1>3, AirLeaves DEF Next

\* What a setup creates was nobody's and is in its record.
LEMMA Makes ==
  ASSUME TypeOK, Records, NEW k \in Checkout, Make(k)
  PROVE  /\ n[k] \in 1..4 /\ Order[n[k]] \in Hwsim
         /\ Order[n[k]] \in file[k].has /\ ~file[k].cleaned /\ pc[k] = "make"
         /\ host[Order[n[k]]] = "none" /\ UNCHANGED file
         /\ host' = [host EXCEPT ![Order[n[k]]] =
                       IF Order[n[k]] = "profile" THEN "unmarked" ELSE k]
<1>. k \in Lab /\ k # Baseline
  BY Names
<1>1. pc[k] = "make" /\ RecordedAt(pc[k], n[k], file[k]) /\ WhereAt(k, pc[k], n[k])
  BY DEF Make, Records
<1>2. n[k] \in 1..4
  BY <1>1 DEF WhereAt
<1>3. Order[n[k]] \in file[k].has /\ ~file[k].cleaned
  BY <1>1, <1>2 DEF RecordedAt, Undoing
<1>4. QED
  BY <1>1, <1>2, <1>3, Orders DEF Make

\* What a setup marks is the profile that it has created.
LEMMA Marks ==
  ASSUME TypeOK, Records, Hosts, NEW k \in Checkout, Mark(k)
  PROVE  /\ pc[k] = "mark" /\ host["profile"] = "unmarked"
         /\ "profile" \in file[k].has /\ ~file[k].cleaned /\ UNCHANGED file
         /\ host' = [host EXCEPT !["profile"] = k]
         /\ pc'[k] \in {"note", "load"}
<1>. k \in Lab /\ k # Baseline
  BY Names
<1>1. pc[k] = "mark" /\ RecordedAt(pc[k], n[k], file[k]) /\ WhereAt(k, pc[k], n[k])
  BY DEF Mark, Records
<1>2. n[k] = 2 /\ 2 \in 1..4
  BY <1>1 DEF WhereAt
<1>3. "profile" \in file[k].has /\ ~file[k].cleaned
  BY <1>1, <1>2, Orders DEF RecordedAt, Undoing
<1>4. pc'[k] \in {"note", "load"}
  BY DEF Mark, After, Goto, TypeOK
<1>5. QED
  BY <1>1, <1>3, <1>4 DEF Mark, Hosts, Unmarked

\* Nobody comes to own or loses a resource of the laboratories but by its own script.
LEMMA Taken ==
  ASSUME TypeOK, Records, Hosts, [Next]_vars, NEW k \in Checkout, NEW r \in Hwsim
  PROVE  /\ host'[r] = k /\ host[r] # k =>
              /\ Make(k) \/ Mark(k)
              /\ r \in file[k].has /\ ~file[k].cleaned /\ UNCHANGED file
         /\ host[r] = k /\ host'[r] # k => Delete(k) /\ host'[r] = "none"
<1>. /\ host \in [Name -> Lab \cup {"none", "unmarked"}] /\ r \in Name /\ k \in Lab
     /\ k \notin {"none", "unmarked"}
  BY Names DEF TypeOK
<1>1. CASE BaseMake
  <2>1. BaseOrder[n[Baseline]] \in Base
    <3>1. n[Baseline] \in 1..2
      BY <1>1, Names DEF BaseMake, Records, WhereAt
    <3>2. QED
      BY <3>1, Orders
  <2>2. host'[r] = host[r]
    BY <1>1, <2>1, Names DEF BaseMake
  <2>3. QED
    BY <2>2
<1>2. ASSUME NEW l \in Checkout, Make(l)
      PROVE  /\ host'[r] = k /\ host[r] # k =>
                  l = k /\ r \in file[k].has /\ ~file[k].cleaned /\ UNCHANGED file
             /\ host[r] = k => host'[r] = k
  BY <1>2, Makes, Names
<1>3. ASSUME NEW l \in Checkout, Mark(l)
      PROVE  /\ host'[r] = k /\ host[r] # k =>
                  l = k /\ r \in file[k].has /\ ~file[k].cleaned /\ UNCHANGED file
             /\ host[r] = k => host'[r] = k
  BY <1>3, Marks, Names
<1>4. ASSUME NEW l \in Checkout, Delete(l)
      PROVE  /\ host'[r] = k => host[r] = k
             /\ host[r] = k /\ host'[r] # k => l = k /\ host'[r] = "none"
  <2>1. l \in Lab
    BY Names
  <2>2. PICK i \in Left(l, n[l]) : host[Doomed[i]] = l
                                   /\ host' = [host EXCEPT ![Doomed[i]] = "none"]
    BY <1>4, <2>1, DeletesOwn
  <2>3. QED
    BY <2>2
<1>5. QED
  BY <1>1, <1>2, <1>3, <1>4, HostSteps

LEMMA StepOwners ==
  ASSUME TypeOK, Records, Hosts, [Next]_vars, NEW k \in Checkout
  PROVE  OwnersRecord(k)'
<1>1. ASSUME NEW r \in Hwsim, host'[r] = k PROVE r \in file'[k].has
  <2>1. CASE host[r] # k
    BY <1>1, <2>1, Taken
  <2>2. CASE host[r] = k
    <3>1. r \in file[k].has /\ ~file[k].cleaned
      BY <2>2 DEF Hosts, OwnersRecord, NothingLeft
    <3>2. ~Archive(k)
      BY <3>1 DEF Archive
    <3>3. file[k].has \subseteq file'[k].has
      BY <3>2, Others, Reaches
    <3>4. QED
      BY <3>1, <3>3
  <2>3. QED
    BY <2>1, <2>2
<1>2. QED
  BY <1>1 DEF OwnersRecord

\* The resource that a cleanup deletes is the next one.
LEMMA DeletesNext ==
  ASSUME TypeOK, Records, Hosts, NEW k \in Checkout, Delete(k)
  PROVE  \E i \in 1..4 :
           /\ host' = [host EXCEPT ![Doomed[i]] = "none"] /\ DeleteFrom(k, i + 1)
           /\ UNCHANGED file
           /\ \A j \in 1..4 : j <= i => host'[Doomed[j]] # k
           /\ \A j \in 1..4 : j > i /\ Doomed[j] \in file[k].has => host'[Doomed[j]] = k
<1>. k \in Lab /\ k # "none" /\ n[k] \in 1..5
  BY Names DEF TypeOK
<1>1. pc[k] = "delete"
  BY DEF Delete
<1>2. PICK i \in Left(k, n[k]) :
        /\ \A j \in Left(k, n[k]) : i <= j
        /\ host[Doomed[i]] = k /\ host' = [host EXCEPT ![Doomed[i]] = "none"]
        /\ DeleteFrom(k, i + 1) /\ UNCHANGED file
  BY DeletesOwn
<1>3. /\ \A m \in 1..5 : \A x \in m..4 : x \in 1..4 /\ x >= m
      /\ \A m \in 1..5 : \A x \in 1..4 : x >= m => x \in m..4
      /\ \A x, y, z \in 1..5 : x > y /\ y >= z => x >= z /\ x # y
      /\ \A x, y \in 1..5 : x <= y /\ x # y => ~(y <= x)
      /\ \A x, y \in 1..5 : x < y \/ x >= y
  OBVIOUS
<1>4. i \in 1..4 /\ i \in 1..5 /\ i >= n[k]
  BY <1>3 DEF Left
<1>5. /\ \A j \in 1..4 : j >= n[k] /\ Doomed[j] \in file[k].has => host[Doomed[j]] = k
      /\ \A j \in 1..4 : j < n[k] => host[Doomed[j]] # k
  BY <1>1 DEF Hosts, Deletes
<1>6. host \in [Name -> Lab \cup {"none", "unmarked"}]
      /\ \A j \in 1..4 : Doomed[j] \in Name /\ Doomed[j] \in Hwsim /\ j \in 1..5
  BY Orders, Names DEF TypeOK
<1>7. ASSUME NEW j \in 1..4, j <= i PROVE host'[Doomed[j]] # k
  <2>1. CASE j = i
    BY <1>2, <1>6, <2>1
  <2>2. CASE j # i
    <3>1. j \notin Left(k, n[k])
      BY <1>2, <1>3, <1>4, <1>6, <1>7, <2>2
    <3>2. j < n[k] \/ Doomed[j] \notin file[k].has
      BY <1>3, <1>6, <3>1 DEF Left
    <3>3. host[Doomed[j]] # k
      BY <1>5, <1>6, <3>2 DEF Hosts, OwnersRecord
    <3>4. QED
      BY <1>2, <1>4, <1>6, <2>2, <3>3, Orders
  <2>3. QED
    BY <2>1, <2>2
<1>8. ASSUME NEW j \in 1..4, j > i, Doomed[j] \in file[k].has PROVE host'[Doomed[j]] = k
  <2>1. j >= n[k] /\ j # i
    BY <1>3, <1>4, <1>6, <1>8
  <2>2. QED
    BY <1>2, <1>4, <1>5, <1>6, <1>8, <2>1, Orders
<1>9. QED
  BY <1>2, <1>4, <1>7, <1>8

LEMMA StepDeletes ==
  ASSUME TypeOK, Records, Hosts, [Next]_vars, NEW k \in Checkout
  PROVE  Deletes(k)' /\ NothingLeft(k)'
<1>. k \in Lab /\ k # "none" /\ pc \in [Lab -> Places] /\ n \in [Lab -> 1..5]
     /\ \A j \in 1..4 : Doomed[j] \in Hwsim
  BY Names, Orders DEF TypeOK
<1>. file \in [Lab -> File]
  BY DEF TypeOK, File
<1>1. CASE ~Own(k)
  <2>1. /\ pc'[k] = pc[k] /\ n'[k] = n[k] /\ file'[k] = file[k]
    BY <1>1, Others
  <2>2. \A r \in Hwsim : host'[r] = k <=> host[r] = k
    BY <1>1, Taken DEF Own, Script
  <2>3. QED
    BY <2>1, <2>2 DEF Hosts, Deletes, NothingLeft
<1>2. CASE Cleanup(k)
  <2>1. /\ \A r \in file[k].has : host[r] = k
        /\ UNCHANGED <<file, host>> /\ DeleteFrom(k, 1)
    BY <1>2 DEF Cleanup
  <2>2. CASE Left(k, 1) = {}
    <3>1. \A j \in 1..4 : Doomed[j] \notin file[k].has
      BY <2>2 DEF Left
    <3>2. \A r \in Hwsim : host[r] # k
      BY <3>1, Orders DEF Hosts, OwnersRecord
    <3>3. pc'[k] = "unload"
      BY <2>1, <2>2 DEF DeleteFrom, Goto
    <3>4. QED
      BY <2>1, <3>2, <3>3 DEF Deletes, NothingLeft
  <2>3. CASE Left(k, 1) # {}
    <3>1. pc'[k] = "delete" /\ n'[k] = 1
      BY <2>1, <2>3 DEF DeleteFrom, Goto
    <3>2. \A j \in 1..4 : ~(j < 1)
      OBVIOUS
    <3>3. Deletes(k)'
      BY <2>1, <3>1, <3>2 DEF Deletes
    <3>4. NothingLeft(k)'
      BY <2>1, <3>1 DEF Hosts, NothingLeft
    <3>5. QED
      BY <3>3, <3>4
  <2>4. QED
    BY <2>2, <2>3
<1>3. CASE Delete(k)
  <2>1. PICK i \in 1..4 :
           /\ host' = [host EXCEPT ![Doomed[i]] = "none"] /\ DeleteFrom(k, i + 1)
           /\ UNCHANGED file
           /\ \A j \in 1..4 : j <= i => host'[Doomed[j]] # k
           /\ \A j \in 1..4 : j > i /\ Doomed[j] \in file[k].has => host'[Doomed[j]] = k
    BY <1>3, DeletesNext
  <2>2. /\ \A x, y \in 1..4 : y < x + 1 => y <= x
        /\ \A x, y \in 1..4 : ~(y <= x) => y \in (x + 1)..4 /\ y > x /\ y >= x + 1
        /\ \A x, y \in 1..4 : y >= x + 1 => y > x
    OBVIOUS
  <2>3. \A r \in Hwsim : host'[r] = k => host[r] = k
    BY <1>3, <2>1, Names DEF TypeOK
  <2>4. CASE Left(k, i + 1) = {}
    <3>1. \A j \in 1..4 : ~(j <= i) => Doomed[j] \notin file[k].has
      BY <2>2, <2>4 DEF Left
    <3>2. \A r \in Hwsim : host'[r] # k
      BY <2>1, <2>3, <3>1, Orders DEF Hosts, OwnersRecord
    <3>3. pc'[k] = "unload"
      BY <2>1, <2>4 DEF DeleteFrom, Goto
    <3>4. QED
      BY <3>2, <3>3 DEF Deletes, NothingLeft
  <2>5. CASE Left(k, i + 1) # {}
    <3>1. pc'[k] = "delete" /\ n'[k] = i + 1
      BY <2>1, <2>5 DEF DeleteFrom, Goto
    <3>2. Deletes(k)'
      BY <2>1, <2>2, <3>1 DEF Deletes
    <3>3. NothingLeft(k)'
      BY <2>1, <2>3, <3>1 DEF Hosts, NothingLeft
    <3>4. QED
      BY <3>2, <3>3
  <2>6. QED
    BY <2>4, <2>5
<1>4. CASE Unload(k) \/ Cleaned(k)
  <2>1. \A r \in Hwsim : host'[r] # k
    BY <1>4 DEF Unload, Cleaned, Hosts, NothingLeft
  <2>2. pc'[k] \in {"cleaned", "idle"}
    BY <1>4 DEF Unload, Cleaned, Goto
  <2>3. QED
    BY <2>1, <2>2 DEF Deletes, NothingLeft
<1>5. CASE Own(k) /\ ~Cleanup(k) /\ ~Delete(k) /\ ~Unload(k) /\ ~Cleaned(k)
  <2>1. /\ pc'[k] \notin {"delete", "unload", "cleaned"}
        /\ file'[k].cleaned => file[k].cleaned
    BY <1>5, Reaches
  <2>2. ASSUME file[k].cleaned, NEW r \in Hwsim PROVE host'[r] # k
    <3>1. host[r] # k
      BY <2>2 DEF Hosts, NothingLeft
    <3>2. QED
      BY <2>2, <3>1, Taken
  <2>3. QED
    BY <2>1, <2>2 DEF Deletes, NothingLeft
<1>6. QED
  BY <1>1, <1>2, <1>3, <1>4, <1>5

LEMMA StepUnmarked ==
  ASSUME TypeOK, Records, Hosts, [Next]_vars PROVE Unmarked'
<1>. host \in [Name -> Lab \cup {"none", "unmarked"}] /\ "profile" \in Hwsim
     /\ Hwsim \subseteq Name /\ "none" \notin Lab /\ "unmarked" \notin Lab
     /\ Checkout \subseteq Lab /\ pc \in [Lab -> Places]
  BY Names DEF TypeOK, Hwsim
<1>1. Unmarked
  BY DEF Hosts
<1>2. ASSUME NEW r \in Name, host'[r] = "unmarked" PROVE r = "profile"
  <2>1. CASE UNCHANGED host
    BY <1>1, <1>2, <2>1 DEF Unmarked
  <2>2. CASE BaseMake
    BY <1>1, <1>2, <2>2, Names DEF Unmarked, BaseMake
  <2>3. ASSUME NEW l \in Checkout, Make(l) PROVE r = "profile"
    BY <1>1, <1>2, <2>3, Makes DEF Unmarked
  <2>4. ASSUME NEW l \in Checkout, Mark(l) PROVE r = "profile"
    BY <1>1, <1>2, <2>4, Marks DEF Unmarked
  <2>5. ASSUME NEW l \in Checkout, Delete(l) PROVE r = "profile"
    <3>1. PICK i \in 1..4 : host' = [host EXCEPT ![Doomed[i]] = "none"]
      BY <2>5, DeletesNext
    <3>2. QED
      BY <1>1, <1>2, <3>1 DEF Unmarked
  <2>6. QED
    BY <2>1, <2>2, <2>3, <2>4, <2>5, HostSteps
\* Only the setup that creates a profile leaves it without a marker, and only the one
\* that marks it, or its deletion, ends that.
<1>3. ASSUME host'["profile"] = "unmarked", host["profile"] # "unmarked"
      PROVE  \E l \in Checkout : /\ Make(l) /\ Order[n[l]] = "profile"
                                 /\ host["profile"] = "none"
  <2>1. CASE BaseMake
    BY <1>3, <2>1, Names DEF BaseMake
  <2>2. ASSUME NEW l \in Checkout, Make(l)
        PROVE  Order[n[l]] = "profile" /\ host["profile"] = "none"
    BY <1>3, <2>2, Makes
  <2>3. ASSUME NEW l \in Checkout, Mark(l) PROVE FALSE
    BY <1>3, <2>3, Marks
  <2>4. ASSUME NEW l \in Checkout, Delete(l) PROVE FALSE
    <3>1. PICK i \in 1..4 : host' = [host EXCEPT ![Doomed[i]] = "none"]
      BY <2>4, DeletesNext
    <3>2. QED
      BY <1>3, <3>1
  <2>5. QED
    BY <1>3, <2>1, <2>2, <2>3, <2>4, HostSteps
<1>4. ASSUME host["profile"] = "unmarked", host'["profile"] # "unmarked"
      PROVE  \E l \in Checkout : Mark(l)
  <2>1. CASE BaseMake
    <3>1. BaseOrder[n[Baseline]] \in Base
      <4>1. n[Baseline] \in 1..2
        BY <2>1, Names DEF BaseMake, Records, WhereAt
      <4>2. QED
        BY <4>1, Orders
    <3>2. QED
      BY <1>4, <2>1, <3>1, Names DEF BaseMake
  <2>2. ASSUME NEW l \in Checkout, Make(l) PROVE FALSE
    BY <1>4, <2>2, Makes
  <2>3. ASSUME NEW l \in Checkout, Delete(l) PROVE FALSE
    <3>1. PICK i \in Left(l, n[l]) : host[Doomed[i]] = l
                                     /\ host' = [host EXCEPT ![Doomed[i]] = "none"]
      BY <2>3, DeletesOwn
    <3>2. QED
      BY <1>4, <3>1
  <2>4. QED
    BY <1>4, <2>1, <2>2, <2>3, HostSteps
<1>5. ASSUME host'["profile"] = "unmarked"
      PROVE  \E l \in Checkout : /\ "profile" \in file'[l].has /\ ~file'[l].cleaned
                                 /\ pc'[l] \notin Undoing
  <2>1. CASE host["profile"] = "unmarked"
    <3>1. PICK l \in Checkout : /\ "profile" \in file[l].has /\ ~file[l].cleaned
                                /\ pc[l] \notin Undoing
      BY <1>1, <2>1 DEF Unmarked
    <3>2. ~Cleanup(l)
      BY <2>1, <3>1 DEF Cleanup
    <3>3. ~Delete(l) /\ ~Unload(l) /\ ~Cleaned(l) /\ ~Archive(l)
      BY <3>1 DEF Delete, Unload, Cleaned, Archive, Undoing
    <3>4. /\ "profile" \in file'[l].has /\ ~file'[l].cleaned
          /\ pc'[l] \notin Undoing
      <4>1. CASE Own(l)
        BY <3>1, <3>2, <3>3, <4>1, Reaches DEF Undoing
      <4>2. CASE ~Own(l)
        BY <3>1, <4>2, Others
      <4>3. QED
        BY <4>1, <4>2
    <3>5. QED
      BY <3>4
  <2>2. CASE host["profile"] # "unmarked"
    <3>1. PICK l \in Checkout : Make(l) /\ Order[n[l]] = "profile"
      BY <1>3, <1>5, <2>2
    <3>2. "profile" \in file'[l].has /\ ~file'[l].cleaned
      BY <3>1, Makes
    <3>3. pc'[l] = "mark"
      BY <3>1 DEF Make, Goto
    <3>4. QED
      BY <3>2, <3>3 DEF Undoing
  <2>3. QED
    BY <2>1, <2>2
<1>6. ASSUME NEW l \in Checkout, pc'[l] = "mark"
      PROVE  \/ /\ pc[l] = "mark" /\ ~Mark(l)
             \/ Make(l) /\ Order[n[l]] = "profile"
  <2>1. CASE Own(l)
    BY <1>6, <2>1, Reaches
  <2>2. CASE ~Own(l)
    BY <1>6, <2>2, Others DEF Own, Script
  <2>3. QED
    BY <2>1, <2>2
<1>7. ASSUME NEW l \in Checkout, Make(l), Order[n[l]] = "profile"
      PROVE  /\ host["profile"] = "none" /\ host'["profile"] = "unmarked"
             /\ pc[l] = "make"
             /\ \A k \in Checkout : Make(k) => k = l
  <2>1. /\ host["profile"] = "none" /\ host'["profile"] = "unmarked" /\ pc[l] = "make"
    BY <1>7, Makes
  <2>2. pc'[l] = "mark"
    BY <1>7 DEF Make, Goto
  <2>3. ASSUME NEW k \in Checkout, Make(k), k # l PROVE FALSE
    <3>1. Order[n[k]] = "profile"
      BY <1>7, <2>1, <2>3, Makes
    <3>2. pc' = [pc EXCEPT ![k] = "mark"]
      BY <2>3, <3>1 DEF Make, Goto
    <3>3. QED
      BY <2>1, <2>2, <2>3, <3>2
  <2>4. QED
    BY <2>1, <2>3
<1>8. ASSUME NEW l \in Checkout, pc'[l] = "mark"
      PROVE  /\ host'["profile"] = "unmarked"
             /\ \A k \in Checkout : pc'[k] = "mark" => k = l
  <2>1. CASE pc[l] = "mark" /\ ~Mark(l)
    <3>1. host["profile"] = "unmarked" /\ \A k \in Checkout : pc[k] = "mark" => k = l
      BY <1>1, <2>1 DEF Unmarked
    <3>2. \A k \in Checkout : ~Mark(k)
      BY <2>1, <3>1 DEF Mark
    <3>3. host'["profile"] = "unmarked"
      BY <1>4, <3>1, <3>2
    <3>4. ASSUME NEW k \in Checkout, pc'[k] = "mark" PROVE k = l
      <4>1. ~(Make(k) /\ Order[n[k]] = "profile")
        BY <1>7, <3>1
      <4>2. pc[k] = "mark"
        BY <1>6, <3>4, <4>1
      <4>3. QED
        BY <3>1, <4>2
    <3>5. QED
      BY <3>3, <3>4
  <2>2. CASE Make(l) /\ Order[n[l]] = "profile"
    <3>1. /\ host["profile"] = "none" /\ host'["profile"] = "unmarked"
          /\ \A k \in Checkout : Make(k) => k = l
      BY <1>7, <2>2
    <3>2. \A k \in Checkout : pc[k] # "mark"
      BY <1>1, <3>1 DEF Unmarked
    <3>3. QED
      BY <1>6, <3>1, <3>2
  <2>3. QED
    BY <1>6, <1>8, <2>1, <2>2
<1>9. QED
  BY <1>2, <1>5, <1>8 DEF Unmarked

LEMMA StepUnloaded ==
  ASSUME TypeOK, Records, [Next]_vars, NEW k \in Checkout, Unloaded(k)
  PROVE  Unloaded(k)'
<1>. k \in Lab /\ k # "none" /\ RecordedAt(pc[k], n[k], file[k])
  BY Names DEF Records
<1>1. module' = k => module = k \/ Load(k)
  <2>1. ASSUME NEW l \in Lab, Script(l) PROVE module' = k => module = k \/ Load(k)
    <3>1. CASE Load(l)
      BY <3>1 DEF Load
    <3>2. CASE Unload(l)
      BY <3>2 DEF Unload
    <3>3. CASE Setup(l) \/ MakeDir(l) \/ Save(l) \/ Note(l) \/ Make(l) \/ Mark(l)
      BY <3>3 DEF Setup, MakeDir, Save, Note, Make, Mark
    <3>4. CASE Record(l) \/ Count(l) \/ Move(l) \/ Unplug(l) \/ Complete(l)
      BY <3>4 DEF Record, Count, Move, Unplug, Complete
    <3>5. CASE Fail(l) \/ Cleanup(l) \/ Delete(l) \/ Cleaned(l) \/ Archive(l)
      BY <3>5 DEF Fail, Cleanup, Delete, Cleaned, Archive
    <3>6. QED
      BY <2>1, <3>1, <3>2, <3>3, <3>4, <3>5 DEF Script
  <2>2. ASSUME NEW l \in Checkout, SmokeScript(l) PROVE UNCHANGED module
    BY <2>2 DEF SmokeScript, Smoke, Daemons, Capture, Hostapd, Station, Status, Ping,
                Verdict, SmokeFails, Finally
  <2>3. CASE BaseScript
    BY <2>3 DEF BaseScript, BaseSetup, BaseMake, BaseNote, BaseFinish
  <2>4. QED
    BY <2>1, <2>2, <2>3, AirLeaves DEF Next
<1>2. CASE Unload(k)
  BY <1>2 DEF Unload, Unloaded
<1>3. CASE Cleaned(k)
  <2>1. file'[k].module = file[k].module /\ UNCHANGED module /\ pc[k] = "cleaned"
    BY <1>3 DEF Cleaned, TypeOK
  <2>2. QED
    BY <2>1 DEF Unloaded
<1>4. CASE Own(k) /\ ~Unload(k) /\ ~Cleaned(k)
  <2>1. /\ pc'[k] # "cleaned" /\ (file'[k].cleaned => file[k].cleaned)
        /\ (file'[k].module => file[k].module \/ Record(k))
    BY <1>4, Reaches
  <2>2. file[k].cleaned => ~Load(k) /\ ~Record(k)
    BY DEF RecordedAt, Load, Record, Undoing
  <2>3. QED
    BY <1>1, <2>1, <2>2 DEF Unloaded
<1>5. CASE ~Own(k)
  <2>1. pc'[k] = pc[k] /\ file'[k] = file[k]
    BY <1>5, Others
  <2>2. QED
    BY <1>1, <1>5, <2>1 DEF Unloaded, Own, Script
<1>6. QED
  BY <1>2, <1>3, <1>4, <1>5

-----------------------------------------------------------------------------
(***************************************************************************)
(* The smoke runs.                                                         *)
(***************************************************************************)

LEMMA StepSmokes ==
  ASSUME TypeOK, Records, Hosts, [Next]_vars, NEW k \in Checkout, Smokes(k)
  PROVE  Smokes(k)'
<1>. k \in Lab /\ "ap" \in Hwsim /\ "client" \in Hwsim /\ passed \in [Checkout -> BOOLEAN]
  BY Names DEF Hwsim, TypeOK
<1>1. CASE ~Own(k)
  <2>1. ~Delete(k) /\ pc'[k] = pc[k] /\ passed'[k] = passed[k]
    BY <1>1, Others DEF Own, Script
  <2>2. QED
    BY <2>1, Taken DEF Smokes
<1>2. CASE Own(k) /\ ~SmokeScript(k)
  BY <1>2, Reaches DEF Smokes
<1>3. CASE Smoke(k)
  <2>1. file[k].has = Hwsim
    BY <1>3 DEF Smoke, Records, RecordedAt
  <2>2. host["ap"] = k /\ host["client"] = k
    BY <1>3, <2>1 DEF Smoke, OwnContainers
  <2>3. UNCHANGED host /\ ~passed'[k]
    BY <1>3 DEF Smoke
  <2>4. QED
    BY <2>2, <2>3 DEF Smokes
<1>4. CASE SmokeScript(k) /\ ~Smoke(k)
  <2>1. UNCHANGED host /\ pc[k] \in Smoking
    BY <1>4 DEF SmokeScript, Daemons, Capture, Hostapd, Station, Status, Ping, Verdict,
                SmokeFails, Finally, Smoking
  <2>2. UNCHANGED passed \/ pc'[k] = "idle"
    <3>1. CASE Finally(k)
      BY <3>1 DEF Finally, Goto, TypeOK
    <3>2. CASE Daemons(k)
      BY <3>2 DEF Daemons, air
    <3>3. QED
      BY <1>4, <3>1, <3>2
         DEF SmokeScript, Capture, Hostapd, Station, Status, Ping, Verdict, SmokeFails
  <2>3. QED
    BY <2>1, <2>2 DEF Smokes, Smoking
<1>5. QED
  BY <1>1, <1>2, <1>3, <1>4

\* The station's association goes through the air.
LEMMA LinkSteps ==
  ASSUME TypeOK, Next, NEW k \in Checkout, linked', ~linked, capture[k].on
  PROVE  "link" \in capture'[k].holds
<1>1. \A l \in Lab : ~Script(l)
  <2>1. ASSUME NEW l \in Lab, Script(l) PROVE FALSE
    <3>1. CASE UNCHANGED <<daemon, linked>>
      BY <3>1
    <3>2. CASE Delete(l)
      BY <3>2 DEF Delete
    <3>3. CASE Unload(l)
      BY <3>3 DEF Unload
    <3>4. QED
      BY <2>1, <3>1, <3>2, <3>3, ScriptAir DEF air
  <2>2. QED
    BY <2>1
<1>2. \A l \in Checkout : ~SmokeScript(l)
  BY DEF SmokeScript, Smoke, Daemons, Capture, Hostapd, Station, Status, Ping, Verdict,
         SmokeFails, Finally, air
<1>3. ~BaseScript /\ ~CaptureEnds
  BY BaseAir DEF air, CaptureEnds
<1>4. Associate
  BY <1>1, <1>2, <1>3 DEF Next, Air
<1>5. Seen({"link"}) /\ {"link"} \subseteq Traffic
  BY <1>4 DEF Associate, Traffic
<1>6. QED
  BY <1>5, SeenType

\* No daemon is started while a smoke run has found none.
LEMMA DaemonSteps ==
  ASSUME TypeOK, [Next]_vars, Smoked, NEW k \in Checkout, pc[k] = "capture", ~Own(k)
  PROVE  daemon' = {}
<1>1. daemon = {} /\ host["ap"] = k
  BY DEF Smoked, Smokes, Heard, Smoking
<1>2. ASSUME NEW l \in Lab, Script(l) PROVE daemon' = {}
  BY <1>1, <1>2, ScriptAir DEF air, Delete
<1>3. ASSUME NEW l \in Checkout, SmokeScript(l) PROVE daemon' = {}
  <2>1. CASE Hostapd(l) \/ Station(l)
    <3>1. l # k /\ pc[l] \in Smoking
      BY <1>3, <2>1 DEF Own, Hostapd, Station, Smoking
    <3>2. host["ap"] = l
      BY <3>1 DEF Smoked, Smokes
    <3>3. QED
      BY <1>1, <3>1, <3>2
  <2>2. CASE ~(Hostapd(l) \/ Station(l))
    BY <1>1, <1>3, <2>2
       DEF SmokeScript, Smoke, Daemons, Capture, Status, Ping, Verdict, SmokeFails,
           Finally, air
  <2>3. QED
    BY <2>1, <2>2
<1>4. CASE BaseScript
  BY <1>1, <1>4, BaseAir DEF air
<1>5. CASE Air
  BY <1>1, <1>5 DEF Air, Associate, CaptureEnds
<1>6. QED
  BY <1>1, <1>2, <1>3, <1>4, <1>5 DEF Next, vars

\* What a smoke run has heard stays true while the others go on.
LEMMA StillHeard ==
  ASSUME TypeOK, Records, Smoked, [Next]_vars, NEW k \in Checkout, ~Own(k)
  PROVE  Heard(k)'
<1>1. Heard(k)
  BY DEF Smoked
<1>2. /\ pc'[k] = pc[k] /\ check'[k] = check[k] /\ passed'[k] = passed[k]
      /\ capture'[k].on => capture[k].on
      /\ capture[k].holds \subseteq capture'[k].holds
  BY Others
<1>3. pc[k] = "capture" => daemon' = {}
  BY DaemonSteps
<1>4. linked' /\ capture'[k].on => linked \/ "link" \in capture'[k].holds
  <2>1. CASE UNCHANGED vars
    BY <2>1 DEF vars
  <2>2. CASE Next
    BY <1>2, <2>2, LinkSteps
  <2>3. QED
    BY <2>1, <2>2
<1>5. QED
  BY <1>1, <1>2, <1>3, <1>4 DEF Heard

LEMMA StepHeard ==
  ASSUME TypeOK, Records, Smoked, [Next]_vars, NEW k \in Checkout
  PROVE  Heard(k)'
<1>. /\ k \in Lab /\ capture \in [Checkout -> CaptureType]
     /\ check \in [Checkout -> SUBSET Checks] /\ passed \in [Checkout -> BOOLEAN]
     /\ pc \in [Lab -> Places] /\ linked \in BOOLEAN
     /\ linked => daemon = {"ap", "client"}
  BY Names DEF TypeOK, CaptureType
<1>. /\ {"frame"} \subseteq Traffic /\ {"link"} \subseteq Traffic
     /\ {"ping"} \subseteq Traffic /\ {} \subseteq Traffic
  BY DEF Traffic
<1>1. Heard(k) /\ Smokes(k)
  BY DEF Smoked
<1>2. CASE Own(k) /\ ~SmokeScript(k)
  <2>1. pc'[k] \notin Smoking
    BY <1>2, Reaches
  <2>2. passed'[k] => passed[k] /\ capture'[k].holds = capture[k].holds
    <3>1. CASE UNCHANGED <<capture, check, passed>>
      BY <3>1
    <3>2. CASE Unload(k) /\ UNCHANGED passed
      BY <3>2 DEF Unload, CaptureType
    <3>3. CASE Archive(k)
      BY <3>3 DEF Archive
    <3>4. QED
      BY <1>2, <3>1, <3>2, <3>3, ScriptAir DEF Own, air
  <2>3. QED
    BY <1>1, <2>1, <2>2 DEF Heard, Smoking
<1>3. CASE Smoke(k)
  <2>1. pc'[k] = "daemons" /\ ~passed'[k]
    BY <1>3 DEF Smoke, Goto
  <2>2. QED
    BY <2>1 DEF Heard
\* The later steps begin with a result that does not say passed.
<1>4. pc[k] \in Smoking => ~passed[k]
  BY <1>1 DEF Smokes
<1>5. CASE Daemons(k)
  <2>1. pc[k] = "daemons" /\ daemon' = daemon /\ passed' = passed
    BY <1>5 DEF Daemons, air
  <2>2. ~passed'[k]
    BY <1>4, <2>1 DEF Smoking
  <2>3. pc'[k] = "idle" \/ (pc'[k] = "capture" /\ daemon = {})
    BY <1>5 DEF Daemons, Goto
  <2>4. QED
    BY <2>1, <2>2, <2>3 DEF Heard
<1>6. CASE Capture(k)
  <2>1. ~passed'[k] /\ pc'[k] = "hostapd"
    BY <1>4, <1>6 DEF Capture, Goto, Smoking
  <2>2. ~linked'
    BY <1>1, <1>6 DEF Capture, Heard
  <2>3. QED
    BY <2>1, <2>2 DEF Heard
<1>7. ASSUME NEW what \in SUBSET Traffic, Seen(what)
      PROVE  /\ capture'[k].on = capture[k].on
             /\ capture[k].holds \subseteq capture'[k].holds
             /\ capture[k].on => what \subseteq capture'[k].holds
  BY <1>7, SeenType
<1>8. CASE Hostapd(k) \/ Station(k)
  <2>1. ~passed'[k] /\ linked' = linked /\ pc[k] \in {"hostapd", "station"}
    BY <1>4, <1>8 DEF Hostapd, Station, Smoking
  <2>2. pc'[k] \in {"station", "status"}
    BY <1>8 DEF Hostapd, Station, Goto
  <2>3. capture'[k].on = capture[k].on /\ capture[k].holds \subseteq capture'[k].holds
    BY <1>7, <1>8 DEF Hostapd, Station
  <2>4. QED
    BY <1>1, <2>1, <2>2, <2>3 DEF Heard
<1>9. CASE Status(k)
  <2>1. ~passed'[k] /\ linked' = linked /\ pc[k] = "status" /\ pc'[k] = "traffic"
        /\ UNCHANGED capture
    BY <1>4, <1>9 DEF Status, Goto, Smoking
  <2>2. check'[k] = IF linked THEN {"association"} ELSE {}
    BY <1>9 DEF Status
  <2>3. QED
    BY <1>1, <2>1, <2>2 DEF Heard
<1>10. CASE Ping(k)
  <2>1. ~passed'[k] /\ linked' = linked /\ pc[k] = "traffic" /\ pc'[k] = "verdict"
    BY <1>4, <1>10 DEF Ping, Goto, Smoking
  <2>2. check'[k] = check[k] \cup (IF linked THEN {"ping"} ELSE {})
    BY <1>10 DEF Ping
  <2>3. /\ capture'[k].on = capture[k].on /\ capture[k].holds \subseteq capture'[k].holds
        /\ capture[k].on /\ linked => "ping" \in capture'[k].holds
    BY <1>7, <1>10 DEF Ping
  <2>4. check[k] \subseteq {"association"}
    BY <1>1, <2>1 DEF Heard
  <2>5. capture[k].on /\ ("association" \in check[k] \/ linked) => "link" \in capture[k].holds
    BY <1>1, <2>1 DEF Heard
  <2>6. /\ "capture" \notin check'[k]
        /\ "association" \in check'[k] => "association" \in check[k]
        /\ "ping" \in check'[k] => linked
    BY <2>2, <2>4
  <2>7. QED
    BY <2>1, <2>3, <2>5, <2>6 DEF Heard
<1>11. CASE Verdict(k)
  <2>1. ~passed'[k] /\ pc[k] = "verdict" /\ pc'[k] = "finally" /\ UNCHANGED capture
    BY <1>4, <1>11 DEF Verdict, Goto, Smoking
  <2>2. check'[k] = check[k] \cup (IF capture[k].on THEN {"capture"} ELSE {})
    BY <1>11 DEF Verdict
  <2>3. /\ "capture" \notin check[k]
        /\ capture[k].on /\ "association" \in check[k] => "link" \in capture[k].holds
        /\ capture[k].on /\ "ping" \in check[k] => "ping" \in capture[k].holds
    BY <1>1, <2>1 DEF Heard
  <2>4. check'[k] = Checks =>
          capture[k].on /\ "association" \in check[k] /\ "ping" \in check[k]
    BY <2>2, <2>3 DEF Checks
  <2>5. QED
    BY <2>1, <2>3, <2>4 DEF Heard
<1>12. CASE SmokeFails(k)
  <2>1. pc'[k] \in {"finally", "idle"} /\ check'[k] = {} /\ ~passed'[k]
    BY <1>4, <1>12 DEF SmokeFails, Goto, Smoking
  <2>2. {} # Checks
    BY DEF Checks
  <2>3. QED
    BY <2>1, <2>2 DEF Heard
<1>13. CASE Finally(k)
  <2>1. pc[k] = "finally" /\ pc'[k] = "idle"
    BY <1>13 DEF Finally, Goto
  <2>2. CASE check[k] = Checks /\ capture[k].holds # {}
    <3>1. capture'[k].holds = capture[k].holds
      BY <1>13, <2>2 DEF Finally, CaptureType
    <3>2. {"link", "ping"} \subseteq capture[k].holds
      BY <1>1, <2>1, <2>2 DEF Heard
    <3>3. QED
      BY <2>1, <3>1, <3>2 DEF Heard
  <2>3. CASE ~(check[k] = Checks /\ capture[k].holds # {})
    <3>1. ~passed'[k]
      BY <1>4, <1>13, <2>1, <2>3 DEF Finally, Smoking
    <3>2. QED
      BY <2>1, <3>1 DEF Heard
  <2>4. QED
    BY <2>2, <2>3
<1>14. QED
  BY <1>2, <1>3, <1>5, <1>6, <1>8, <1>9, <1>10, <1>11, <1>12, <1>13, StillHeard
     DEF Own, SmokeScript

-----------------------------------------------------------------------------
(***************************************************************************)
(* The theorems.                                                           *)
(***************************************************************************)

LEMMA InitInv == Init => Inv
<1>. SUFFICES ASSUME Init PROVE Inv
  OBVIOUS
<1>. \A l \in Checkout : l \in Lab /\ l # "none" /\ l # Baseline
  BY Names
<1>1. TypeOK
  <2>1. 0 \in 0..MaxFailures /\ 1 \in 1..5
    BY LabsAssumption
  <2>2. NoFile \in File /\ NoCapture \in CaptureType /\ "idle" \in Places
    BY DEF NoFile, File, NoCapture, CaptureType, Places
  <2>3. QED
    BY <2>1, <2>2 DEF Init, TypeOK, File, CaptureType
<1>2. Records
  BY DEF Init, Records, WhereAt, RecordedAt, NoFile, Undoing, Smoking
<1>3. "profile" \in Name /\ Hwsim \subseteq Name
  BY DEF Name, Hwsim
<1>4. Hosts
  BY <1>3 DEF Init, Hosts, Unmarked, OwnersRecord, Deletes, NothingLeft, NoFile
<1>5. \A l \in Checkout : Unloaded(l)
  BY DEF Init, Unloaded, NoFile
<1>6. Smoked
  BY DEF Init, Smoked, Smokes, Heard, Smoking
<1>7. QED
  BY <1>1, <1>2, <1>4, <1>5, <1>6 DEF Inv

LEMMA NextInv == Inv /\ [Next]_vars => Inv'
<1>. SUFFICES ASSUME Inv, [Next]_vars PROVE Inv'
  OBVIOUS
<1>. TypeOK /\ Records /\ Hosts /\ (\A l \in Checkout : Unloaded(l)) /\ Smoked
  BY DEF Inv
<1>1. TypeOK' /\ Records'
  BY StepType, StepRecords
<1>2. Hosts'
  BY StepUnmarked, StepOwners, StepDeletes DEF Hosts
<1>3. \A l \in Checkout : Unloaded(l)'
  BY StepUnloaded
<1>4. \A l \in Checkout : Smokes(l)' /\ Heard(l)'
  BY StepSmokes, StepHeard DEF Smoked
<1>5. QED
  BY <1>1, <1>2, <1>3, <1>4 DEF Inv, Smoked

\* Every step of a script, of its failures and of the other checkouts keeps the invariant.
THEOREM Invariance == Spec => []Inv
BY InitInv, NextInv, PTL DEF Spec

\* Each container, profile and network of the standalone laboratory is in the record of
\* the setup that created it, wherever that was interrupted: lab.py saves its intent
\* before it creates one, and only an archived cleanup forgets it.
THEOREM IntentIsRecorded == Spec => []IntentRecorded
<1>1. Inv => IntentRecorded
  <2>. SUFFICES ASSUME Inv PROVE IntentRecorded
    OBVIOUS
  <2>1. ASSUME NEW r \in Hwsim, host[r] \in Checkout PROVE r \in file[host[r]].has
    BY <2>1 DEF Inv, Hosts, OwnersRecord
  <2>2. ASSUME NEW r \in Hwsim, host[r] = "unmarked"
        PROVE  \E l \in Checkout : r \in file[l].has
    BY <2>2, Names DEF Inv, Hosts, Unmarked
  <2>3. QED
    BY <2>1, <2>2 DEF Inv, IntentRecorded
<1>2. QED
  BY <1>1, Invariance, PTL

\* A record that says it was cleaned up, and a result that says it passed, are true: a
\* cleanup goes through everything the record names, and a smoke run through every
\* check while its capture runs.
THEOREM RecordsAreTrue == Spec => []RecordIsTrue
<1>1. Inv => RecordIsTrue
  BY DEF Inv, Hosts, NothingLeft, Unloaded, Smoked, Heard, RecordIsTrue
<1>2. QED
  BY <1>1, Invariance, PTL

\* A cleanup deletes no container, profile or network that another checkout or the
\* baseline has created, although all of them look before they act and use the same
\* names.
THEOREM OthersSpared == Spec => SparesTheOthers
<1>1. ASSUME Inv, [Next]_vars, NEW r \in Name, host[r] # "none", host'[r] = "none"
      PROVE  host[r] \in Checkout /\ pc[host[r]] = "delete"
  <2>. TypeOK /\ Records /\ Hosts /\ host \in [Name -> Lab \cup {"none", "unmarked"}]
    BY <1>1 DEF Inv, TypeOK
  <2>1. ~BaseMake
    BY <1>1, Names DEF BaseMake
  <2>2. ASSUME NEW l \in Checkout PROVE ~Make(l) /\ ~Mark(l)
    BY <1>1, Makes, Marks, Names
  <2>3. PICK l \in Checkout : Delete(l)
    BY <1>1, <2>1, <2>2, HostSteps
  <2>4. PICK i \in Left(l, n[l]) : host[Doomed[i]] = l
                                   /\ host' = [host EXCEPT ![Doomed[i]] = "none"]
    BY <2>3, DeletesOwn, Names
  <2>5. host[r] = l /\ pc[l] = "delete"
    BY <1>1, <2>3, <2>4, DeletesOwn, Names
  <2>6. QED
    BY <2>5
<1>2. Inv /\ [Next]_vars =>
        [\A r \in Name : host[r] # "none" /\ host'[r] = "none" =>
           host[r] \in Checkout /\ pc[host[r]] = "delete"]_vars
  BY <1>1
<1>3. QED
  BY <1>2, Invariance, PTL DEF Spec, SparesTheOthers
=============================================================================
