------------------------------- MODULE Radio --------------------------------
(***************************************************************************)
(* The independent radio manager of the lab: RadioManager.cycle            *)
(* (src/emosa/simulation/radio.py) reads Config, applies it to hostapd     *)
(* through a driver, reads the radio back and publishes State under a      *)
(* guard; deploy/radio-manager runs it in a loop.  Writers change Config,  *)
(* the policy withholds, the radio fails, the database or the manager      *)
(* restarts and a publication runs late while a cycle awaits its answer.    What is of the manager  *)
(* as a whole has its name, so that Directory can be extended beside it.   *)
(***************************************************************************)
EXTENDS Integers

CONSTANTS
  Settings,     \* SSID and key pairs the lab profile supports
  Unsupported,  \* a Config outside the profile
  Off,          \* no radio, and State without positive values
  None,         \* nothing applied
  MaxFaults,    \* bound: radio failures and restarts
  MaxWrites     \* bound: changes of Config

ASSUME RadioAssumption ==
  /\ {Unsupported, Off, None} \cap Settings = {}
  /\ {MaxFaults, MaxWrites} \subseteq Nat

VARIABLES
  config,   \* the Config rows
  state,    \* the State rows
  gen,      \* the manager's session generation, a new one per database restart
  live,     \* what hostapd runs
  policy,   \* whether application is withheld
  applied,  \* RadioManager.applied
  cycle,    \* where the cycle is, what it has read and (history) what hostapd ran
  late,     \* publications given up without a reply, which the server may still run
  writes, faults,
  trouble   \* history: what was last in the way of applying Config

managerVars == <<config, state, gen, live, policy, applied, cycle, late, writes, faults,
                 trouble>>

Idle == [pc |-> "idle", withheld |-> FALSE, config |-> None, state |-> Off, gen |-> 0,
         saw |-> Off, ran |-> {}]

Cycles == [pc: {"idle", "read", "apply", "observe", "publish"}, withheld: BOOLEAN,
           config: Settings \cup {Unsupported, None}, state: Settings \cup {Off},
           gen: Nat, saw: Settings \cup {Off}, ran: SUBSET (Settings \cup {Off})]

ManagerTypeOK ==
  /\ config \in Settings \cup {Unsupported}
  /\ state \in Settings \cup {Off} /\ live \in Settings \cup {Off}
  /\ gen \in Nat /\ policy \in BOOLEAN
  /\ applied \in {<<0, None>>} \cup (Nat \X Settings)
  /\ cycle \in Cycles
  /\ \A c \in late : c \in Cycles
  /\ writes \in 0..MaxWrites /\ faults \in 0..MaxFaults
  /\ trouble \in {"none", "radio", "restart", "driver"}

\* seed_radio_database: a supported Config, no positive State.
ManagerInit ==
  /\ config \in Settings
  /\ state = Off /\ gen = 1 /\ live = Off /\ policy = FALSE
  /\ applied = <<0, None>>
  /\ cycle = Idle /\ late = {}
  /\ writes = 0 /\ faults = 0 /\ trouble = "none"

-----------------------------------------------------------------------------
(***************************************************************************)
(* The manager's surroundings.                                             *)
(***************************************************************************)

\* The adapter, or another writer, changes Config.
Write ==
  /\ writes < MaxWrites /\ writes' = writes + 1
  /\ config' \in (Settings \cup {Unsupported}) \ {config}
  /\ UNCHANGED <<state, gen, live, policy, applied, cycle, late, faults, trouble>>

Withhold ==
  /\ policy' = ~policy
  /\ UNCHANGED <<config, state, gen, live, applied, cycle, late, writes, faults, trouble>>

\* hostapd ends.
RadioFails ==
  /\ faults < MaxFaults /\ faults' = faults + 1
  /\ live # Off /\ live' = Off /\ trouble' = "radio"
  /\ UNCHANGED <<config, state, gen, policy, applied, cycle, late, writes>>

\* The database server restarts, with the rows it had; its connections and what
\* they held are gone.
DatabaseRestarts ==
  /\ faults < MaxFaults /\ faults' = faults + 1
  /\ gen' = gen + 1 /\ trouble' = "restart"
  /\ late' = {}
  /\ UNCHANGED <<config, state, live, policy, applied, cycle, writes>>

\* The manager restarts, with a session of its own.
ManagerRestarts ==
  /\ faults < MaxFaults /\ faults' = faults + 1
  /\ gen' = gen + 1 /\ trouble' = "restart"
  /\ applied' = <<0, None>>
  /\ cycle' = Idle
  /\ UNCHANGED <<config, state, live, policy, late, writes>>

-----------------------------------------------------------------------------
(***************************************************************************)
(* One cycle: policy, snapshot, apply, observe, publish.                   *)
(***************************************************************************)

\* The Config of this connection is not the one applied last.
Needs == applied # <<gen, config>>

\* The loop reads the policy, and only then asks for a snapshot.
ReadPolicy ==
  /\ cycle.pc = "idle"
  /\ cycle' = [cycle EXCEPT !.pc = "read", !.withheld = policy]
  /\ UNCHANGED <<config, state, gen, live, policy, applied, late, writes, faults, trouble>>

Snapshot ==
  /\ cycle.pc = "read"
  /\ cycle' = [pc |-> IF config \in Settings /\ ~cycle.withheld /\ Needs THEN "apply"
                      ELSE "observe",
               withheld |-> cycle.withheld, config |-> config, state |-> state,
               gen |-> gen, saw |-> Off, ran |-> {live}]
  /\ UNCHANGED <<config, state, gen, live, policy, applied, late, writes, faults, trouble>>

\* After a failure nothing counts as applied.
Forget == <<0, None>>

\* driver.apply: hostapd is stopped and started anew; a failure leaves it off or
\* as it was.
Apply ==
  /\ cycle.pc = "apply"
  /\ \/ /\ live' = cycle.config
        /\ applied' = <<cycle.gen, cycle.config>>
        /\ UNCHANGED <<faults, trouble>>
     \/ /\ faults < MaxFaults /\ faults' = faults + 1
        /\ live' \in {live, Off, cycle.config}
        /\ applied' = Forget
        /\ trouble' = "driver"
  /\ cycle' = [cycle EXCEPT !.pc = "observe", !.ran = @ \cup {live'}]
  /\ UNCHANGED <<config, state, gen, policy, late, writes>>

\* Fault: the Config stands in for the radio that cannot be read.
SeenRequested == IF live = Off /\ cycle.config \in Settings THEN cycle.config ELSE live

\* observed_state: what the radio itself reports, or nothing positive.
Seen == live

\* driver.observe; a failed read withdraws positive state too.
Observe ==
  /\ cycle.pc = "observe"
  /\ \/ cycle' = [cycle EXCEPT !.pc = "publish", !.saw = Seen] /\ UNCHANGED faults
     \/ /\ faults < MaxFaults /\ faults' = faults + 1
        /\ cycle' = [cycle EXCEPT !.pc = "publish", !.saw = Off]
  /\ UNCHANGED <<config, state, gen, live, policy, applied, late, writes, trouble>>

\* Fault: the rows are published without a guard.
UnchangedRowsUnguarded(c) == TRUE

\* row_guard on the four rows: they still are what the cycle read.
UnchangedRows(c) == c.config = config /\ c.state = state

\* A publication that is run.
Published(c) == IF UnchangedRows(c) THEN c.saw ELSE state

\* The publication, for the generation of the snapshot only.  Without its reply the
\* connection is replaced; the transaction may be lost, may have run, or may be run
\* later.
Publish ==
  /\ cycle.pc = "publish"
  /\ \/ /\ state' = (IF cycle.gen = gen THEN Published(cycle) ELSE state)
        /\ UNCHANGED <<gen, late, faults>>
     \/ /\ faults < MaxFaults /\ faults' = faults + 1
        /\ gen' = gen + 1
        /\ IF cycle.gen = gen
           THEN \/ state' \in {state, Published(cycle)} /\ UNCHANGED late
                \/ late' = late \cup {cycle} /\ UNCHANGED state
           ELSE UNCHANGED <<state, late>>
  /\ cycle' = Idle
  /\ UNCHANGED <<config, live, policy, applied, writes, trouble>>

\* The server runs a publication nobody waits for any longer.
RunsLate ==
  \E c \in late :
    /\ state' = Published(c)
    /\ late' = late \ {c}
    /\ UNCHANGED <<config, gen, live, policy, applied, cycle, writes, faults, trouble>>

-----------------------------------------------------------------------------

Cycle == ReadPolicy \/ Snapshot \/ Apply \/ Observe \/ Publish

ManagerNext ==
  \/ Write \/ Withhold \/ RadioFails \/ DatabaseRestarts \/ ManagerRestarts
  \/ RunsLate \/ Cycle

ManagerSpec == ManagerInit /\ [][ManagerNext]_managerVars

\* The manager's loop goes on after every exception.
ManagerFairSpec == ManagerSpec /\ WF_managerVars(Cycle)

-----------------------------------------------------------------------------
(***************************************************************************)
(* What must hold.                                                         *)
(***************************************************************************)

\* The state is well typed, and a positive State is never an echo of the request: the
\* radio ran it while the cycle that publishes it was looking, and Config is the one
\* that cycle read, even when the publication runs after the cycle has given it up
\* (driver reads, publication guard).
Genuine ==
  /\ []ManagerTypeOK
  /\ [][state' \notin {state, Off} =>
          \E c \in late \cup {cycle} : state' \in c.ran /\ c.config = config]_managerVars

\* State follows a radio that settles, whatever failed, was withheld, restarted or
\* was refused before: a lost radio does not stay published.  And a supported
\* Config that stays is applied and reported, unless hostapd has ended of its
\* own accord since the last restart: a failed application is retried, and a new
\* connection or a new manager applies what is already there.
Follows ==
  /\ \A s \in Settings \cup {Off} : <>[](live = s) => <>[](state = s)
  /\ \A s \in Settings :
       <>[](config = s /\ ~policy /\ trouble # "radio") => <>[](live = s /\ state = s)
=============================================================================
