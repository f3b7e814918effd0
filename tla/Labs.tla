-------------------------------- MODULE Labs --------------------------------
(***************************************************************************)
(* The radio laboratories that are set up in one virtual machine and share *)
(* its mac80211_hwsim kernel module: deploy/hwsim/lab.py (setup, smoke,    *)
(* cleanup), from one or more checkouts that use the same names, and       *)
(* deploy/peer-baseline/setup.py.  Each is a script of external commands   *)
(* that may fail or be killed between any two of them; what it leaves      *)
(* behind is on the host and in its ownership record.                      *)
(*                                                                         *)
(* The reads a script starts with are one step: what changes after them is *)
(* met by the later steps.  One process at a time runs in a checkout.      *)
(***************************************************************************)
EXTENDS Integers, FiniteSets, Sequences

CONSTANTS
  Checkout,     \* checkouts of the repository in which lab.py is run
  MaxFailures   \* bound: how many commands fail, or processes are killed, in all

Baseline == "baseline"
Lab == Checkout \cup {Baseline}

\* What each setup creates, in its order.  Of the baseline, the networks and the
\* profile are the one resource "frame", the nodes are the one resource "nodes".
Container == <<"ap", "client">>
Order == <<"network", "profile", "ap", "client">>
BaseOrder == <<"frame", "nodes">>

Hwsim == {"network", "profile", "ap", "client"}
Base == {"frame", "nodes"}
Name == Hwsim \cup Base

ASSUME LabsAssumption ==
  /\ IsFiniteSet(Checkout) /\ Checkout # {}
  /\ MaxFailures \in Nat
  /\ Checkout \cap ({Baseline, "none", "unmarked"} \cup Name) = {}

VARIABLES
  failures, \* how many there were
  pc,       \* where the script of a lab is; "idle" when none runs
  n,        \* the position in the loop it is in
  file,     \* the ownership record: state.json, ownership.json
  host,     \* the owner marked on a resource of the host
  module,   \* who loaded mac80211_hwsim
  radio,    \* where its radios are
  eth0,     \* the containers that have the setup's Ethernet interface
  daemon,   \* the containers in which hostapd or wpa_supplicant runs
  linked,   \* whether the station is associated
  capture,  \* the tcpdump of a lab's last smoke run: whether it runs, and what its
            \* file holds, kept for a run that passed
  check,    \* result["checks"] of a smoke run
  passed    \* whether the result.json of a lab's last smoke run says "pass"

vars == <<failures, pc, n, file, host, module, radio, eth0, daemon, linked, capture, check, passed>>
air == <<daemon, linked, capture, check, passed>>

Radio == 1..3
NoFile == [kind |-> "none", has |-> {}, module |-> FALSE, phys |-> {},
           complete |-> FALSE, cleaned |-> FALSE]
Traffic == {"frame", "link", "ping"}
NoCapture == [on |-> FALSE, holds |-> {}]
Checks == {"association", "ping", "capture"}

Places ==
  {"idle", "mkdir", "save", "note", "make", "mark", "load", "record", "count",
   "move", "unplug", "complete", "delete", "unload", "cleaned", "daemons", "capture",
   "hostapd", "station", "status", "traffic", "verdict", "finally"}

TypeOK ==
  /\ failures \in 0..MaxFailures
  /\ pc \in [Lab -> Places] /\ n \in [Lab -> 1..5]
  /\ file \in [Lab -> [kind: {"none", "dir", "state"}, has: SUBSET Name,
                       module: BOOLEAN, phys: SUBSET Radio, complete: BOOLEAN,
                       cleaned: BOOLEAN]]
  /\ host \in [Name -> Lab \cup {"none", "unmarked"}]
  /\ module \in Lab \cup {"none"}
  /\ radio \in [Radio -> Name \cup {"absent", "vm"}]
  /\ eth0 \subseteq Name /\ daemon \subseteq {"ap", "client"}
  /\ linked \in BOOLEAN /\ (linked => daemon = {"ap", "client"})
  /\ capture \in [Checkout -> [on: BOOLEAN, holds: SUBSET Traffic]]
  /\ check \in [Checkout -> SUBSET Checks]
  /\ passed \in [Checkout -> BOOLEAN]

Init ==
  /\ failures = 0
  /\ pc = [l \in Lab |-> "idle"] /\ n = [l \in Lab |-> 1]
  /\ file = [l \in Lab |-> NoFile]
  /\ host = [r \in Name |-> "none"]
  /\ module = "none" /\ radio = [p \in Radio |-> "absent"]
  /\ eth0 = {} /\ daemon = {} /\ linked = FALSE
  /\ capture = [l \in Checkout |-> NoCapture]
  /\ check = [l \in Checkout |-> {}] /\ passed = [l \in Checkout |-> FALSE]

Goto(l, place, i) == pc' = [pc EXCEPT ![l] = place] /\ n' = [n EXCEPT ![l] = i]

\* A command fails, times out or its process is killed; what it did is the step
\* before this one.
Fail(l) ==
  /\ pc[l] \notin {"idle", "capture", "hostapd", "station", "status", "traffic", "verdict"}
  /\ failures < MaxFailures /\ failures' = failures + 1
  /\ Goto(l, "idle", 1)
  /\ UNCHANGED <<file, host, module, radio, eth0, air>>

-----------------------------------------------------------------------------
(***************************************************************************)
(* Setup of the standalone laboratory.                                     *)
(***************************************************************************)

Absent(names) == \A r \in names : host[r] = "none"

Setup(l) ==
  /\ l \in Checkout /\ pc[l] = "idle"
  /\ file[l].kind = "none" /\ module = "none" /\ Absent(Hwsim)
  /\ Goto(l, "mkdir", 1)
  /\ UNCHANGED <<failures, file, host, module, radio, eth0, air>>

\* The directory is there before the record is.
MakeDir(l) ==
  /\ pc[l] = "mkdir" /\ file[l].kind = "none"
  /\ file' = [file EXCEPT ![l].kind = "dir"]
  /\ Goto(l, "save", 1)
  /\ UNCHANGED <<failures, host, module, radio, eth0, air>>

Save(l) ==
  /\ pc[l] = "save"
  /\ file' = [file EXCEPT ![l].kind = "state"]
  /\ Goto(l, IF l = Baseline THEN "make" ELSE "note", 1)
  /\ UNCHANGED <<failures, host, module, radio, eth0, air>>

\* Fault: what is created is recorded when its creation has returned.
NoteAfterwards(l) ==
  /\ l \in Checkout /\ pc[l] = "note"
  /\ file' = [file EXCEPT ![l].has = @ \cup (IF n[l] = 1 THEN {} ELSE {Order[n[l] - 1]})]
  /\ Goto(l, "make", n[l])
  /\ UNCHANGED <<failures, host, module, radio, eth0, air>>

\* The intent is saved before the resource is created.
Note(l) ==
  /\ l \in Checkout /\ pc[l] = "note"
  /\ file' = [file EXCEPT ![l].has = @ \cup {Order[n[l]]}]
  /\ Goto(l, "make", n[l])
  /\ UNCHANGED <<failures, host, module, radio, eth0, air>>

After(l) == IF n[l] < Len(Order) THEN Goto(l, "note", n[l] + 1) ELSE Goto(l, "load", 1)

\* A name that exists is refused; a profile gets its marker by the edit that follows.
Make(l) ==
  /\ l \in Checkout /\ pc[l] = "make" /\ host[Order[n[l]]] = "none"
  /\ host' = [host EXCEPT ![Order[n[l]]] = IF Order[n[l]] = "profile" THEN "unmarked" ELSE l]
  /\ eth0' = eth0 \cup ({Order[n[l]]} \cap {"ap", "client"})
  /\ IF Order[n[l]] = "profile" THEN Goto(l, "mark", n[l]) ELSE After(l)
  /\ UNCHANGED <<failures, file, module, radio, air>>

Mark(l) ==
  /\ pc[l] = "mark" /\ host["profile"] # "none"
  /\ host' = [host EXCEPT !["profile"] = l]
  /\ After(l)
  /\ UNCHANGED <<failures, file, module, radio, eth0, air>>

-----------------------------------------------------------------------------
(***************************************************************************)
(* The module and its radios, for both laboratories.                       *)
(***************************************************************************)

Wanted(l) == IF l = Baseline THEN 3 ELSE 2

\* modprobe does nothing, and succeeds, when the module is there.
Load(l) ==
  /\ pc[l] = "load"
  /\ IF module = "none"
     THEN /\ module' = l
          /\ radio' = [p \in Radio |-> IF p <= Wanted(l) THEN "vm" ELSE "absent"]
     ELSE UNCHANGED <<module, radio>>
  /\ Goto(l, "record", 1)
  /\ UNCHANGED <<failures, file, host, eth0, air>>

Record(l) ==
  /\ pc[l] = "record"
  /\ file' = [file EXCEPT ![l].module = TRUE]
  /\ Goto(l, "count", 1)
  /\ UNCHANGED <<failures, host, module, radio, eth0, air>>

Here == {p \in Radio : radio[p] = "vm"}

\* setup_complete is checked by finish_setup, which starts here.
Count(l) ==
  /\ pc[l] = "count" /\ Cardinality(Here) = Wanted(l)
  /\ l = Baseline =>
       file[l].module /\ ~file[l].complete /\ \A r \in Base : host[r] = Baseline
  /\ file' = IF l = Baseline THEN file ELSE [file EXCEPT ![l].phys = Here]
  /\ Goto(l, "move", 1)
  /\ UNCHANGED <<failures, host, module, radio, eth0, air>>

\* The radios that were counted, in their order; one that is gone is an error.
Phy(l, i) ==
  LET phys == IF l = Baseline THEN Radio ELSE file[l].phys
  IN  CHOOSE p \in phys : Cardinality({q \in phys : q < p}) = i - 1

Target(l) == IF l = Baseline THEN [i \in Radio |-> "nodes"] ELSE Container

Move(l) ==
  /\ pc[l] = "move"
  /\ radio[Phy(l, n[l])] = "vm" /\ host[Target(l)[n[l]]] # "none"
  /\ radio' = [radio EXCEPT ![Phy(l, n[l])] = Target(l)[n[l]]]
  /\ IF l = Baseline /\ n[l] < 3 THEN Goto(l, "move", n[l] + 1) ELSE Goto(l, "unplug", n[l])
  /\ UNCHANGED <<failures, file, host, module, eth0, air>>

\* The setup interface is overridden with none: after each radio here, after the
\* last one in the baseline.
Unplug(l) ==
  /\ pc[l] = "unplug"
  /\ eth0' = eth0 \ (IF l = Baseline THEN Base ELSE {Container[n[l]]})
  /\ IF l # Baseline /\ n[l] < Len(Container)
     THEN Goto(l, "move", n[l] + 1) ELSE Goto(l, "complete", 1)
  /\ UNCHANGED <<failures, file, host, module, radio, air>>

\* The keys are pushed, the setup is complete.
Complete(l) ==
  /\ pc[l] = "complete"
  /\ file' = [file EXCEPT ![l].complete = TRUE]
  /\ Goto(l, "idle", 1)
  /\ UNCHANGED <<failures, host, module, radio, eth0, air>>

-----------------------------------------------------------------------------
(***************************************************************************)
(* Setup of the baseline: created first, recorded afterwards.              *)
(***************************************************************************)

BaseSetup ==
  /\ pc[Baseline] = "idle"
  /\ file[Baseline].kind = "none" /\ module = "none" /\ Absent(Base)
  /\ Goto(Baseline, "save", 1)
  /\ UNCHANGED <<failures, file, host, module, radio, eth0, air>>

BaseMake ==
  /\ pc[Baseline] = "make" /\ host[BaseOrder[n[Baseline]]] = "none"
  /\ host' = [host EXCEPT ![BaseOrder[n[Baseline]]] = Baseline]
  /\ eth0' = eth0 \cup ({BaseOrder[n[Baseline]]} \cap {"nodes"})
  /\ Goto(Baseline, "note", n[Baseline])
  /\ UNCHANGED <<failures, file, module, radio, air>>

\* After the last node its packages are installed, which changes nothing here.
BaseNote ==
  /\ pc[Baseline] = "note"
  /\ file' = [file EXCEPT ![Baseline].has = @ \cup {BaseOrder[n[Baseline]]}]
  /\ IF n[Baseline] < Len(BaseOrder)
     THEN Goto(Baseline, "make", n[Baseline] + 1) ELSE Goto(Baseline, "load", 1)
  /\ UNCHANGED <<failures, host, module, radio, eth0, air>>

\* --finish-setup
BaseFinish ==
  /\ pc[Baseline] = "idle" /\ file[Baseline].kind = "state"
  /\ Goto(Baseline, "count", 1)
  /\ UNCHANGED <<failures, file, host, module, radio, eth0, air>>

-----------------------------------------------------------------------------
(***************************************************************************)
(* Cleanup of the standalone laboratory.                                   *)
(***************************************************************************)

Idle(l) == l \in Checkout /\ pc[l] = "idle" /\ file[l].kind = "state"
OwnContainers(l) == \A r \in file[l].has \cap {"ap", "client"} : host[r] = l

\* What is deleted, in this order, of what the record names; the positions left from i.
Doomed == <<"ap", "client", "profile", "network">>
Left(l, i) == {k \in i..4 : Doomed[k] \in file[l].has}
DeleteFrom(l, i) ==
  IF Left(l, i) = {} THEN Goto(l, "unload", 1) ELSE Goto(l, "delete", i)

\* Fault: what is recorded is deleted, whoever owns it.
CleanupUnchecked(l) ==
  /\ Idle(l)
  /\ DeleteFrom(l, 1)
  /\ UNCHANGED <<failures, file, host, module, radio, eth0, air>>

\* Everything recorded is checked before anything is deleted.
Cleanup(l) ==
  /\ Idle(l)
  /\ OwnContainers(l)
  /\ \A r \in file[l].has : host[r] = l
  /\ DeleteFrom(l, 1)
  /\ UNCHANGED <<failures, file, host, module, radio, eth0, air>>

\* The radios of a container that is deleted are back on the host.
Delete(l) ==
  /\ pc[l] = "delete"
  /\ \E i \in Left(l, n[l]) :
       LET r == Doomed[i] IN
       /\ \A k \in Left(l, n[l]) : i <= k
       /\ host[r] # "none"
       /\ host' = [host EXCEPT ![r] = "none"]
       /\ radio' = [p \in Radio |-> IF radio[p] = r THEN "vm" ELSE radio[p]]
       /\ eth0' = eth0 \ {r}
       /\ daemon' = daemon \ {r} /\ linked' = (linked /\ r \notin daemon)
       /\ DeleteFrom(l, i + 1)
  /\ UNCHANGED <<failures, file, module, capture, check, passed>>

\* The module goes with all its radios, wherever they are, and with hwsim0.
Unload(l) ==
  /\ pc[l] = "unload"
  /\ IF file[l].module
     THEN /\ module' = "none" /\ radio' = [p \in Radio |-> "absent"]
          /\ linked' = FALSE
          /\ capture' = [k \in Checkout |-> [capture[k] EXCEPT !.on = FALSE]]
     ELSE UNCHANGED <<module, radio, linked, capture>>
  /\ Goto(l, "cleaned", 1)
  /\ UNCHANGED <<failures, file, host, eth0, daemon, check, passed>>

Cleaned(l) ==
  /\ pc[l] = "cleaned"
  /\ file' = [file EXCEPT ![l].cleaned = TRUE, ![l].complete = FALSE]
  /\ Goto(l, "idle", 1)
  /\ UNCHANGED <<failures, host, module, radio, eth0, air>>

\* The operator archives the directory of a laboratory that was cleaned up.
Archive(l) ==
  /\ Idle(l) /\ file[l].cleaned
  /\ file' = [file EXCEPT ![l] = NoFile]
  /\ check' = [check EXCEPT ![l] = {}] /\ passed' = [passed EXCEPT ![l] = FALSE]
  /\ capture' = [capture EXCEPT ![l] = NoCapture]
  /\ UNCHANGED <<failures, pc, n, host, module, radio, eth0, daemon, linked>>

-----------------------------------------------------------------------------
(***************************************************************************)
(* Smoke.                                                                  *)
(***************************************************************************)

Smoke(l) ==
  /\ Idle(l) /\ OwnContainers(l) /\ file[l].complete
  /\ check' = [check EXCEPT ![l] = {}] /\ passed' = [passed EXCEPT ![l] = FALSE]
  /\ capture' = [capture EXCEPT ![l] = NoCapture]
  /\ Goto(l, "daemons", 1)
  /\ UNCHANGED <<failures, file, host, module, radio, eth0, daemon, linked>>

\* A daemon of an earlier run or a setup interface left over is refused, and so
\* recorded; the finally block has no capture to end.
Daemons(l) ==
  /\ pc[l] = "daemons"
  /\ IF daemon = {} /\ eth0 \cap {"ap", "client"} = {}
     THEN Goto(l, "capture", 1) ELSE Goto(l, "idle", 1)
  /\ UNCHANGED <<failures, file, host, module, radio, eth0, air>>

\* tcpdump on hwsim0 has said that it listens.
Capture(l) ==
  /\ pc[l] = "capture" /\ module # "none"
  /\ capture' = [capture EXCEPT ![l].on = TRUE]
  /\ Goto(l, "hostapd", 1)
  /\ UNCHANGED <<failures, file, host, module, radio, eth0, daemon, linked, check, passed>>

\* What goes through the air is in every capture that runs.
Seen(what) ==
  capture' = [l \in Checkout |-> [capture[l] EXCEPT !.holds = @ \cup {w \in what : capture[l].on}]]

Powered(c, i) == host[c] # "none" /\ \E p \in Radio : radio[p] = Container[i]

Hostapd(l) ==
  /\ pc[l] = "hostapd" /\ Powered("ap", 1)
  /\ daemon' = daemon \cup {"ap"} /\ Seen({"frame"})
  /\ Goto(l, "station", 1)
  /\ UNCHANGED <<failures, file, host, module, radio, eth0, linked, check, passed>>

Station(l) ==
  /\ pc[l] = "station" /\ Powered("client", 2)
  /\ daemon' = daemon \cup {"client"} /\ Seen({"frame"})
  /\ Goto(l, "status", 1)
  /\ UNCHANGED <<failures, file, host, module, radio, eth0, linked, check, passed>>

\* Until the station is associated, or 30 seconds are over.
Status(l) ==
  /\ pc[l] = "status"
  /\ check' = [check EXCEPT ![l] = IF linked THEN {"association"} ELSE {}]
  /\ Goto(l, "traffic", 1)
  /\ UNCHANGED <<failures, file, host, module, radio, eth0, daemon, linked, capture, passed>>

\* Three pings, bound to wlan0.
Ping(l) ==
  /\ pc[l] = "traffic"
  /\ check' = [check EXCEPT ![l] = @ \cup (IF linked THEN {"ping"} ELSE {})]
  /\ Seen(IF linked THEN {"ping"} ELSE {})
  /\ Goto(l, "verdict", 1)
  /\ UNCHANGED <<failures, file, host, module, radio, eth0, daemon, linked, passed>>

\* Fault: a capture that has ended is no reason to fail.
VerdictWithoutCapture(l) ==
  /\ pc[l] = "verdict"
  /\ check' = [check EXCEPT ![l] = @ \cup {"capture"}]
  /\ Goto(l, "finally", 1)
  /\ UNCHANGED <<failures, file, host, module, radio, eth0, daemon, linked, capture, passed>>

Verdict(l) ==
  /\ pc[l] = "verdict"
  /\ check' = [check EXCEPT ![l] = @ \cup (IF capture[l].on THEN {"capture"} ELSE {})]
  /\ Goto(l, "finally", 1)
  /\ UNCHANGED <<failures, file, host, module, radio, eth0, daemon, linked, capture, passed>>

\* A failure on the way leaves the verdict at fail and goes to the finally block; a
\* process that is killed leaves its daemons running, and a capture whose file belongs
\* to no result: the next run has a tcpdump and a file of its own.
SmokeFails(l) ==
  /\ pc[l] \in {"capture", "hostapd", "station", "status", "traffic", "verdict"}
  /\ failures < MaxFailures /\ failures' = failures + 1
  /\ check' = [check EXCEPT ![l] = {}]
  /\ \/ Goto(l, "finally", 1) /\ UNCHANGED capture
     \/ Goto(l, "idle", 1) /\ capture' = [capture EXCEPT ![l] = NoCapture]
  /\ UNCHANGED <<file, host, module, radio, eth0, daemon, linked, passed>>

\* The capture is ended and looked into, the result is written.
Finally(l) ==
  /\ pc[l] = "finally"
  /\ IF check[l] = Checks /\ capture[l].holds # {}
     THEN passed' = [passed EXCEPT ![l] = TRUE] /\ capture' = [capture EXCEPT ![l].on = FALSE]
     ELSE capture' = [capture EXCEPT ![l] = NoCapture] /\ UNCHANGED passed
  /\ check' = [check EXCEPT ![l] = {}]
  /\ Goto(l, "idle", 1)
  /\ UNCHANGED <<failures, file, host, module, radio, eth0, daemon, linked>>

\* The station finds its access point, or loses it.
Associate ==
  /\ daemon = {"ap", "client"} /\ linked' = ~linked
  /\ Seen(IF linked THEN {"frame"} ELSE {"link"})
  /\ UNCHANGED <<failures, pc, n, file, host, module, radio, eth0, daemon, check, passed>>

\* tcpdump ends by itself.
CaptureEnds ==
  /\ \E l \in Checkout : capture[l].on /\ capture' = [capture EXCEPT ![l].on = FALSE]
  /\ UNCHANGED <<failures, pc, n, file, host, module, radio, eth0, daemon, linked, check, passed>>

-----------------------------------------------------------------------------

Script(l) ==
  \/ Setup(l) \/ MakeDir(l) \/ Save(l) \/ Note(l) \/ Make(l) \/ Mark(l)
  \/ Load(l) \/ Record(l) \/ Count(l) \/ Move(l) \/ Unplug(l) \/ Complete(l)
  \/ Fail(l)
  \/ Cleanup(l) \/ Delete(l) \/ Unload(l) \/ Cleaned(l) \/ Archive(l)

SmokeScript(l) ==
  \/ Smoke(l) \/ Daemons(l) \/ Capture(l) \/ Hostapd(l) \/ Station(l) \/ Status(l)
  \/ Ping(l) \/ Verdict(l) \/ SmokeFails(l) \/ Finally(l)

BaseScript == BaseSetup \/ BaseMake \/ BaseNote \/ BaseFinish

Air == Associate \/ CaptureEnds

Next ==
  \/ \E l \in Lab : Script(l)
  \/ \E l \in Checkout : SmokeScript(l)
  \/ BaseScript \/ Air

Spec == Init /\ [][Next]_vars

-----------------------------------------------------------------------------
(***************************************************************************)
(* What must hold.                                                         *)
(***************************************************************************)

\* The state is well typed, and each container, profile and network that a setup of the
\* standalone laboratory created is in its record, wherever it was interrupted: the
\* intent is saved first, and the profile that has no marker yet is somebody's.  (The
\* module is recorded after it is loaded, and so is what the baseline creates.)
IntentRecorded ==
  /\ TypeOK
  /\ \A r \in Hwsim :
       /\ host[r] \in Checkout => r \in file[host[r]].has
       /\ host[r] = "unmarked" => \E l \in Checkout : r \in file[l].has

\* A record that says it was cleaned up is right: nothing of this laboratory is
\* left, nor the module if the record knew of it, wherever its setup had stopped; and
\* a smoke result that says passed has its association and its pings in the capture.
RecordIsTrue ==
  \A l \in Checkout :
    /\ file[l].cleaned =>
         /\ \A r \in Hwsim : host[r] # l
         /\ file[l].module => module # l
    /\ passed[l] => {"link", "ping"} \subseteq capture[l].holds

\* Only its owner's cleanup deletes a container, profile or network, although all
\* checkouts use the same names and look before they delete.  (Unload has no owner's
\* check: it takes away the module, and the radios in it, whoever uses them.)
SparesTheOthers ==
  [][\A r \in Name : host[r] # "none" /\ host'[r] = "none" =>
       host[r] \in Checkout /\ pc[host[r]] = "delete"]_vars
=============================================================================
