---------------------------- MODULE EngineProofs ----------------------------
(***************************************************************************)
(* The safety of Engine for every value of its constants.  First the types *)
(* and the inductive invariant Ledger, with the properties that follow     *)
(* from it; then how a step can move an operation, and what the moves add  *)
(* up to: final verdicts, the implementation of WriteOnce, the transition  *)
(* table, the occupation of the pod, and the causes of conflicts.          *)
(***************************************************************************)
EXTENDS EngineLedger, SequenceTheorems, TLAPS

-----------------------------------------------------------------------------
(***************************************************************************)
(* Row versions: what a drain, a publication and a lost session leave is   *)
(* again a non-empty sequence of versions.                                 *)
(***************************************************************************)

\* The server always holds a version of the rows.
LEMMA ServerIsVersion ==
  ASSUME rows \in Seq(Version), rows # <<>>
  PROVE  Server \in Version
BY DEF Server

\* Draining any number of updates leaves at least the newest version.
LEMMA AdvanceType ==
  ASSUME rows \in Seq(Version), rows # <<>>,
         NEW k \in DOMAIN rows, Advance(k)
  PROVE  rows' \in Seq(Version) /\ rows' # <<>>
<1>1. k \in 1..Len(rows) /\ Len(rows) \in Nat
  BY LenProperties
<1>2. /\ SubSeq(rows, k, Len(rows)) \in Seq(Version)
      /\ Len(SubSeq(rows, k, Len(rows))) = Len(rows) - k + 1
  BY <1>1, SubSeqProperties
<1>3. QED
  BY <1>1, <1>2, EmptySeq DEF Advance

\* Publishing a version keeps the type, connected or not.
LEMMA PublishType ==
  ASSUME rows \in Seq(Version), NEW v \in Version, Publish(v)
  PROVE  rows' \in Seq(Version) /\ rows' # <<>>
BY DEF Publish

\* A lost session leaves the server's version alone.
LEMMA LostType ==
  ASSUME rows \in Seq(Version), rows # <<>>
  PROVE  <<Server>> \in Seq(Version) /\ <<Server>> # <<>>
BY ServerIsVersion

\* A changed row is a version again.
LEMMA VersionExcept ==
  ASSUME NEW r \in Version, NEW c \in Value \cup {None}, NEW b \in 0..MaxOperations
  PROVE  /\ [r EXCEPT !.cfg = c, !.by = b] \in Version
         /\ [r EXCEPT !.st = c, !.by = b] \in Version
BY DEF Version

\* What the death of the process leaves has the right type.
LEMMA DieType == ASSUME TypeOK, Die, JournalType' PROVE TypeOK'
<1>1. /\ tasks' \subseteq Op /\ due' \subseteq Op
      /\ pc' \in [Op -> {"idle", "planning", "submitting", "awaiting"}]
      /\ pinned' \in [Op -> Nat]
  BY DEF TypeOK, ProcessType, Die
<1>2. /\ up' \in BOOLEAN /\ quiesced' \in BOOLEAN
      /\ busy' \in BOOLEAN /\ known' \in BOOLEAN
  BY DEF Die
<1>3. stops' \in Nat
  BY DEF TypeOK, ProcessType, Die
<1>4. ProcessType'
  BY <1>1, <1>2, <1>3 DEF ProcessType
<1>5. PodType'
  BY LostType DEF TypeOK, PodType, Die, wireVars
<1>6. QED
  BY <1>4, <1>5 DEF TypeOK

-----------------------------------------------------------------------------
(***************************************************************************)
(* Type correctness, one lemma per part of the system.                     *)
(***************************************************************************)

LEMMA InitType == ASSUME Init PROVE TypeOK
<1>1. JournalType
  BY DEF Init, JournalType, State, Absent
<1>2. ProcessType
  BY DEF Init, ProcessType
<1>3. rows \in Seq(Version) /\ rows # <<>>
  BY EngineAssumption DEF Init, Version
<1>4. PodType
  BY <1>3 DEF Init, PodType
<1>5. QED
  BY <1>1, <1>2, <1>4 DEF TypeOK

\* The end of a coroutine moves its row to s and leaves the process typed.
LEMMA FinishType ==
  ASSUME TypeOK, NEW o \in Op, NEW s \in State \cup {Absent}, Finish(o, s)
  PROVE  /\ state' \in [Op -> State \cup {Absent}]
         /\ pc' \in [Op -> {"idle", "planning", "submitting", "awaiting"}]
         /\ pinned' \in [Op -> Nat]
         /\ busy' \in BOOLEAN
BY DEF TypeOK, JournalType, ProcessType, Finish

LEMMA ClientType == ASSUME TypeOK, NEW o \in Op, Client(o) PROVE TypeOK'
<1>. USE DEF State
<1>1. ASSUME NEW v \in Value, Request(o, v) PROVE TypeOK'
  <2>1. JournalType'
    BY <1>1 DEF Request, Inserts, TypeOK, JournalType
  <2>2. ProcessType'
    BY <1>1 DEF Request, TypeOK, ProcessType, clockVars
  <2>3. PodType'
    BY <1>1 DEF Request, TypeOK, PodType, sessionVars, wireVars
  <2>4. QED
    BY <2>1, <2>2, <2>3 DEF TypeOK
<1>2. ASSUME NEW v \in Value, RequestCut(o, v) PROVE TypeOK'
  BY <1>2, DieType DEF RequestCut, Inserts, TypeOK, JournalType
<1>3. CASE Retry(o)
  <2>1. JournalType' /\ PodType'
    BY <1>3 DEF Retry, TypeOK, JournalType, PodType, journalVars, rowVars,
                sessionVars, wireVars
  <2>2. ProcessType'
    BY <1>3 DEF Retry, TypeOK, ProcessType, clockVars
  <2>3. QED
    BY <2>1, <2>2 DEF TypeOK
<1>4. CASE Cancel(o)
  <2>1. JournalType'
    BY <1>4 DEF Cancel, TypeOK, JournalType, rowVars
  <2>2. ProcessType' /\ PodType'
    BY <1>4 DEF Cancel, TypeOK, ProcessType, PodType, processVars, taskVars,
                sessionVars, wireVars, clockVars
  <2>3. QED
    BY <2>1, <2>2 DEF TypeOK
<1>5. QED
  BY <1>1, <1>2, <1>3, <1>4 DEF Client

LEMMA PlanType == ASSUME TypeOK, NEW o \in Op, Plan(o) PROVE TypeOK'
<1>. state[o] \in State \cup {Absent}
  BY DEF TypeOK, JournalType
<1>. USE DEF State
<1>1. CASE PlanRefused(o) \/ PlanLost(o)
  <2>1. PICK s \in State \cup {Absent} : Finish(o, s)
    BY <1>1 DEF PlanRefused, PlanLost
  <2>2. JournalType' /\ ProcessType'
    BY <1>1, <2>1, FinishType DEF PlanRefused, PlanLost, TypeOK, JournalType,
       ProcessType, rowVars, clockVars
  <2>3. PodType'
    BY <1>1 DEF PlanRefused, PlanLost, TypeOK, PodType, sessionVars, wireVars
  <2>4. QED
    BY <2>2, <2>3 DEF TypeOK
<1>2. ASSUME NEW k \in DOMAIN rows, Planned(o, k)
      PROVE  /\ PodType'
             /\ \A s \in State \cup {Absent} : Finish(o, s) => ProcessType'
  <2>1. rows' \in Seq(Version) /\ rows' # <<>>
    BY <1>2, AdvanceType DEF Planned, TypeOK, PodType
  <2>2. PodType'
    BY <1>2, <2>1 DEF Planned, TypeOK, PodType, wireVars
  <2>3. ASSUME NEW s \in State \cup {Absent}, Finish(o, s) PROVE ProcessType'
    BY <1>2, <2>3, FinishType DEF Planned, TypeOK, ProcessType, clockVars
  <2>4. QED
    BY <2>2, <2>3
<1>3. CASE PlanWithdrawn(o)
  <2>1. JournalType'
    BY <1>3 DEF PlanWithdrawn, Planned, Finish, TypeOK, JournalType
  <2>2. QED
    BY <1>2, <1>3, <2>1 DEF PlanWithdrawn, TypeOK
<1>4. CASE PlanNoop(o)
  <2>1. JournalType'
    BY <1>4 DEF PlanNoop, Planned, Finish, TypeOK, JournalType
  <2>2. QED
    BY <1>2, <1>4, <2>1 DEF PlanNoop, TypeOK
<1>5. CASE PlanSubmit(o)
  <2>1. JournalType'
    BY <1>5 DEF PlanSubmit, Planned, TypeOK, JournalType
  <2>2. ProcessType'
    BY <1>5 DEF PlanSubmit, Planned, TypeOK, ProcessType, PodType, clockVars
  <2>3. QED
    BY <1>2, <1>5, <2>1, <2>2 DEF PlanSubmit, TypeOK
<1>6. CASE PlanStuck(o)
  <2>1. JournalType'
    BY <1>6 DEF PlanStuck, Planned, Finish, TypeOK, JournalType
  <2>2. QED
    BY <1>2, <1>6, <2>1 DEF PlanStuck, TypeOK
<1>7. QED
  BY <1>1, <1>3, <1>4, <1>5, <1>6 DEF Plan

\* Settling keeps the types of the process and of the operation's row.
LEMMA SettlesType ==
  ASSUME TypeOK, NEW o \in Op, NEW s \in State, Settles(o, s),
         attribution' \in [Op -> {"not_submitted", "unknown", "reply"}],
         conflict' \in BOOLEAN, link' \in BOOLEAN,
         rows' \in Seq(Version) /\ rows' # <<>>
  PROVE  TypeOK'
<1>1. Finish(o, s)
  BY DEF Settles
<1>2. JournalType'
  BY <1>1, FinishType DEF Settles, TypeOK, JournalType
<1>3. ProcessType'
  BY <1>1, FinishType DEF Settles, TypeOK, ProcessType, clockVars
<1>4. PodType'
  BY DEF Settles, TypeOK, PodType, wireVars
<1>5. QED
  BY <1>2, <1>3, <1>4 DEF TypeOK

LEMMA SubmitType == ASSUME TypeOK, NEW o \in Op, Submit(o) PROVE TypeOK'
<1>1. CASE SubmitUnsure(o) \/ SubmitUnready(o) \/ SubmitMisread(o)
  <2>1. PICK s \in State : Settles(o, s)
    BY <1>1 DEF SubmitUnsure, SubmitUnready, SubmitMisread, State
  <2>2. QED
    BY <1>1, <2>1, SettlesType
       DEF SubmitUnsure, SubmitUnready, SubmitMisread, TypeOK, JournalType,
           PodType
<1>2. CASE Send(o)
  <2>1. rows' \in Seq(Version) /\ rows' # <<>>
    BY <1>2, AdvanceType DEF Send, TypeOK, PodType
  <2>2. guard' \in [Op -> Value \cup {None}]
    <3>1. ASSUME NEW k \in DOMAIN rows PROVE rows[k].cfg \in Value \cup {None}
      <4>1. rows[k] \in Version
        BY DEF TypeOK, PodType
      <4>2. QED
        BY <4>1 DEF Version
    <3>2. QED
      BY <1>2, <3>1 DEF Send, TypeOK, PodType
  <2>3. JournalType'
    BY <1>2 DEF Send, TypeOK, JournalType, journalVars, rowVars
  <2>4. ProcessType'
    BY <1>2 DEF Send, TypeOK, ProcessType, clockVars
  <2>5. PodType'
    BY <1>2, <2>1, <2>2 DEF Send, TypeOK, PodType
  <2>6. QED
    BY <2>3, <2>4, <2>5 DEF TypeOK
<1>3. QED
  BY <1>1, <1>2 DEF Submit

LEMMA AnswerType == ASSUME TypeOK, NEW o \in Op, Answer(o) PROVE TypeOK'
<1>1. PICK s \in State : Settles(o, s)
  BY DEF Answer, AnswerCommitted, AnswerRefused, AnswerAborted, AnswerLost,
         AnswerUnclear, AnswerOverflow, State
<1>2. /\ attribution' \in [Op -> {"not_submitted", "unknown", "reply"}]
      /\ conflict' \in BOOLEAN /\ link' \in BOOLEAN
  BY DEF Answer, AnswerCommitted, AnswerRefused, AnswerAborted, AnswerLost,
         AnswerUnclear, AnswerOverflow, TypeOK, JournalType, PodType
<1>3. rows' \in Seq(Version) /\ rows' # <<>>
  <2>1. CASE AnswerCommitted(o) \/ AnswerUnclear(o)
    BY <2>1, AdvanceType DEF AnswerCommitted, AnswerUnclear, TypeOK, PodType
  <2>2. CASE ~AnswerCommitted(o) /\ ~AnswerUnclear(o)
    BY <2>2, LostType DEF Answer, AnswerRefused, AnswerAborted, AnswerLost,
                          AnswerOverflow, TypeOK, PodType
  <2>3. QED
    BY <2>1, <2>2
<1>4. QED
  BY <1>1, <1>2, <1>3, SettlesType

LEMMA CoroutineType == ASSUME TypeOK, NEW o \in Op, Coroutine(o) PROVE TypeOK'
<1>1. CASE Begin(o)
  <2>1. /\ state' \in [Op -> State \cup {Absent}]
        /\ pc' \in [Op -> {"idle", "planning", "submitting", "awaiting"}]
        /\ pinned' \in [Op -> Nat]
        /\ busy' \in BOOLEAN
    BY <1>1, FinishType DEF Begin, TypeOK, JournalType, ProcessType, State
  <2>2. JournalType' /\ ProcessType'
    BY <1>1, <2>1 DEF Begin, TypeOK, JournalType, ProcessType, rowVars,
                      clockVars
  <2>3. PodType'
    BY <1>1 DEF Begin, TypeOK, PodType, sessionVars, wireVars
  <2>4. QED
    BY <2>2, <2>3 DEF TypeOK
<1>2. CASE PlanCut(o)
  BY <1>2, DieType DEF PlanCut, TypeOK, JournalType, State, rowVars
<1>3. CASE AnswerRefusedCut(o)
  BY <1>3, DieType DEF AnswerRefusedCut, TypeOK, JournalType, rowVars
<1>4. QED
  BY <1>1, <1>2, <1>3, PlanType, SubmitType, AnswerType DEF Coroutine

LEMMA RefreshType == ASSUME TypeOK, Refresh PROVE TypeOK'
<1>1. ASSUME NEW o \in Op, JudgeDeadline(o) PROVE JournalType'
  BY <1>1 DEF JudgeDeadline, AfterDeadline, Overdue, TypeOK, JournalType, State
<1>2. ASSUME NEW o \in Op, NEW row, Judge(o, row) PROVE JournalType'
  <2>1. /\ state' \in [Op -> State \cup {Absent}]
        /\ evidence' \in [Op -> {"none", "noop", "applied", "late"}]
    BY <1>2 DEF Judge, AfterDeadline, TypeOK, JournalType, State
  <2>2. elapsed' \in [Op -> BOOLEAN] /\ conflict' \in BOOLEAN
    BY <1>2 DEF Judge, Overdue, Drifted, TypeOK, JournalType
  <2>3. QED
    BY <1>2, <2>1, <2>2 DEF Judge, TypeOK, JournalType
<1>3. CASE Observe
  <2>1. rows' \in Seq(Version) /\ rows' # <<>>
    BY <1>3, AdvanceType DEF Observe, TypeOK, PodType
  <2>2. JournalType'
    BY <1>1, <1>2, <1>3 DEF Observe, TypeOK, JournalType, journalVars, rowVars
  <2>3. ProcessType'
    BY <1>3 DEF Observe, TypeOK, ProcessType, taskVars, clockVars
  <2>4. PodType'
    BY <1>3, <2>1 DEF Observe, TypeOK, PodType, wireVars
  <2>5. QED
    BY <2>2, <2>3, <2>4 DEF TypeOK
<1>4. CASE ObserveBlind
  <2>1. ProcessType' /\ PodType'
    BY <1>4 DEF ObserveBlind, TypeOK, ProcessType, PodType, processVars,
                taskVars, sessionVars, wireVars, clockVars
  <2>2. QED
    BY <1>1, <1>4, <2>1 DEF ObserveBlind, TypeOK
<1>5. CASE ObserveCut
  BY <1>5, DieType DEF ObserveCut, TypeOK, JournalType, rowVars
<1>6. QED
  BY <1>3, <1>4, <1>5 DEF Refresh

LEMMA PodStepType == ASSUME TypeOK, Pod PROVE TypeOK'
<1>. Server \in Version
  BY ServerIsVersion DEF TypeOK, PodType
<1>. USE DEF journalVars, rowVars, processVars, taskVars, sessionVars, wireVars,
             clockVars
<1>0. 0 \in 0..MaxOperations
  BY EngineAssumption
<1>1. ASSUME NEW o \in Op, Execute(o) PROVE TypeOK'
  <2>1. [Server EXCEPT !.cfg = target[o], !.by = o] \in Version
    <3>1. target[o] \in Value \cup {None} /\ o \in 0..MaxOperations
      BY EngineAssumption DEF TypeOK, JournalType, Op
    <3>2. QED
      BY <3>1, VersionExcept, Zenon
  <2>2. rows' \in Seq(Version) /\ rows' # <<>>
    BY <1>1, <2>1, PublishType DEF Execute, TypeOK, PodType
  <2>3. PodType'
    BY <1>1, <2>2 DEF Execute, TypeOK, PodType
  <2>4. JournalType' /\ ProcessType'
    BY <1>1 DEF Execute, TypeOK, JournalType, ProcessType
  <2>5. QED
    BY <2>3, <2>4 DEF TypeOK
<1>2. ASSUME NEW o \in Op, Elapse(o) PROVE TypeOK'
  <2>1. JournalType' /\ PodType'
    BY <1>2 DEF Elapse, TypeOK, JournalType, PodType
  <2>2. ProcessType'
    BY <1>2 DEF Elapse, TypeOK, ProcessType
  <2>3. QED
    BY <2>1, <2>2 DEF TypeOK
<1>3. ASSUME NEW s \in Value \cup {None}, Manage(s) PROVE TypeOK'
  <2>1. [Server EXCEPT !.st = s, !.by = 0] \in Version
    BY <1>0, VersionExcept, Zenon
  <2>2. rows' \in Seq(Version) /\ rows' # <<>>
    BY <1>3, <2>1, PublishType DEF Manage, TypeOK, PodType
  <2>3. QED
    BY <1>3, <2>2 DEF Manage, TypeOK, JournalType, ProcessType, PodType
<1>4. ASSUME NEW v \in Value, Compete(v) PROVE TypeOK'
  <2>1. [Server EXCEPT !.cfg = v, !.by = 0] \in Version
    BY <1>0, VersionExcept, Zenon
  <2>2. rows' \in Seq(Version) /\ rows' # <<>>
    BY <1>4, <2>1, PublishType DEF Compete, TypeOK, PodType
  <2>3. QED
    BY <1>4, <2>2 DEF Compete, TypeOK, JournalType, ProcessType, PodType
<1>5. QED
  BY <1>1, <1>2, <1>3, <1>4 DEF Pod

LEMMA LifecycleType ==
  ASSUME TypeOK, \/ \E o \in Op : Recover(o)
                 \/ Quiesce \/ Stop \/ Start \/ Connect \/ Disconnect
  PROVE  TypeOK'
<1>. USE DEF journalVars, rowVars, processVars, taskVars, sessionVars, wireVars,
             clockVars
<1>1. ASSUME NEW o \in Op, Recover(o) PROVE TypeOK'
  <2>1. JournalType'
    BY <1>1 DEF Recover, TypeOK, JournalType, State
  <2>2. ProcessType' /\ PodType'
    BY <1>1 DEF Recover, TypeOK, ProcessType, PodType
  <2>3. QED
    BY <2>1, <2>2 DEF TypeOK
<1>2. CASE Quiesce \/ Start
  BY <1>2 DEF Quiesce, Start, TypeOK, JournalType, ProcessType, PodType
<1>3. CASE Stop
  BY <1>3, DieType DEF Stop, TypeOK, JournalType
<1>4. CASE Connect
  BY <1>4 DEF Connect, TypeOK, JournalType, ProcessType, PodType
<1>5. CASE Disconnect
  <2>1. PodType'
    BY <1>5, LostType DEF Disconnect, TypeOK, PodType
  <2>2. QED
    BY <1>5, <2>1 DEF Disconnect, TypeOK, JournalType, ProcessType
<1>6. QED
  BY <1>1, <1>2, <1>3, <1>4, <1>5

LEMMA StepType == ASSUME TypeOK, [Next]_vars PROVE TypeOK'
<1>1. CASE Next
  BY <1>1, ClientType, CoroutineType, RefreshType, PodStepType, LifecycleType
     DEF Next
<1>2. CASE UNCHANGED vars
  BY <1>2 DEF TypeOK, JournalType, ProcessType, PodType, vars, journalVars,
              rowVars, processVars, taskVars, sessionVars, wireVars, clockVars
<1>3. QED
  BY <1>1, <1>2

\* Every variable keeps the type the code gives it, in particular the session
\* always holds at least one version of the rows.
THEOREM TypeCorrect == Spec => []TypeOK
BY InitType, StepType, PTL DEF Spec

-----------------------------------------------------------------------------
(***************************************************************************)
(* The ledger.                                                             *)
(***************************************************************************)

\* The transition table allows a cancellation only before an attempt.
LEMMA CancelBeforeSend ==
  ASSUME NEW s \in State, "CANCELLED" \in TRANSITIONS[s]
  PROVE  s \in {"REQUESTED", "VALIDATED"}
BY DEF State, TRANSITIONS

LEMMA InitLedger == Init => Ledger
BY DEF Init, Ledger, OneCoroutine, AttemptFirst, Attributed, EvidenceFits,
       Unsent, Attempted, Absent

-----------------------------------------------------------------------------
(***************************************************************************)
(* Every action keeps the ledger, one lemma per part of the system.        *)
(***************************************************************************)

\* A request, a retry or a cancellation.
LEMMA ClientLedger == ASSUME TypeOK, Ledger, NEW o \in Op, Client(o) PROVE Ledger'
<1>. USE DEF Ledger, OneCoroutine, AttemptFirst, Attributed, EvidenceFits,
             Unsent, Attempted, Absent, TypeOK, JournalType, ProcessType
<1>. USE DEF journalVars, rowVars, processVars, taskVars, wireVars
<1>1. ASSUME NEW v \in Value, Request(o, v) PROVE Ledger'
  <2>1. OneCoroutine'
    BY <1>1 DEF Request, Inserts
  <2>2. AttemptFirst' /\ Attributed'
    BY <1>1 DEF Request, Inserts
  <2>3. EvidenceFits'
    BY <1>1 DEF Request, Inserts
  <2>4. QED
    BY <2>1, <2>2, <2>3
<1>2. ASSUME NEW v \in Value, RequestCut(o, v) PROVE Ledger'
  <2>1. OneCoroutine'
    BY <1>2 DEF RequestCut, Inserts, Die
  <2>2. AttemptFirst' /\ Attributed'
    BY <1>2 DEF RequestCut, Inserts, Die
  <2>3. EvidenceFits'
    BY <1>2 DEF RequestCut, Inserts, Die
  <2>4. QED
    BY <2>1, <2>2, <2>3
<1>3. CASE Retry(o)
  <2>1. OneCoroutine'
    BY <1>3 DEF Retry
  <2>2. AttemptFirst' /\ Attributed'
    BY <1>3 DEF Retry
  <2>3. EvidenceFits'
    BY <1>3 DEF Retry
  <2>4. QED
    BY <2>1, <2>2, <2>3
<1>4. CASE Cancel(o)
  <2>1. state[o] \in {"REQUESTED", "VALIDATED"}
    BY <1>4, CancelBeforeSend DEF Cancel
  <2>2. OneCoroutine'
    BY <1>4, <2>1 DEF Cancel
  <2>3. AttemptFirst' /\ Attributed'
    BY <1>4, <2>1 DEF Cancel
  <2>4. EvidenceFits'
    BY <1>4, <2>1 DEF Cancel
  <2>5. QED
    BY <2>2, <2>3, <2>4
<1>5. QED
  BY <1>1, <1>2, <1>3, <1>4 DEF Client

\* Every way out of planning.
LEMMA PlanLedger == ASSUME TypeOK, Ledger, NEW o \in Op, Plan(o) PROVE Ledger'
<1>. USE DEF Ledger, OneCoroutine, AttemptFirst, Attributed, EvidenceFits,
             Unsent, Attempted, Absent, TypeOK, JournalType, ProcessType
<1>. USE DEF journalVars, rowVars, processVars, taskVars, wireVars
<1>1. CASE PlanRefused(o)
  <2>1. evidence[o] = "none" /\ attempts[o] = 0
    BY <1>1 DEF PlanRefused, Finish
  <2>2. OneCoroutine'
    BY <1>1, <2>1 DEF PlanRefused, Finish
  <2>3. AttemptFirst' /\ Attributed'
    BY <1>1, <2>1 DEF PlanRefused, Finish
  <2>4. EvidenceFits'
    BY <1>1, <2>1 DEF PlanRefused, Finish
  <2>5. QED
    BY <2>2, <2>3, <2>4
<1>2. CASE PlanLost(o)
  <2>1. OneCoroutine'
    BY <1>2 DEF PlanLost, Finish
  <2>2. AttemptFirst' /\ Attributed'
    BY <1>2 DEF PlanLost, Finish
  <2>3. EvidenceFits'
    BY <1>2 DEF PlanLost, Finish
  <2>4. QED
    BY <2>1, <2>2, <2>3
<1>3. CASE PlanWithdrawn(o)
  <2>1. OneCoroutine'
    BY <1>3 DEF PlanWithdrawn, Planned, Finish
  <2>2. AttemptFirst' /\ Attributed'
    BY <1>3 DEF PlanWithdrawn, Planned, Finish
  <2>3. EvidenceFits'
    BY <1>3 DEF PlanWithdrawn, Planned, Finish
  <2>4. QED
    BY <2>1, <2>2, <2>3
<1>4. CASE PlanNoop(o)
  <2>1. evidence[o] = "none" /\ attempts[o] = 0
    BY <1>4 DEF PlanNoop, Planned, Finish
  <2>2. OneCoroutine'
    BY <1>4, <2>1 DEF PlanNoop, Planned, Finish
  <2>3. AttemptFirst' /\ Attributed'
    BY <1>4, <2>1 DEF PlanNoop, Planned, Finish
  <2>4. EvidenceFits'
    BY <1>4, <2>1 DEF PlanNoop, Planned, Finish
  <2>5. QED
    BY <2>2, <2>3, <2>4
<1>5. CASE PlanSubmit(o)
  <2>1. /\ up /\ busy /\ evidence[o] = "none" /\ attempts[o] = 0
        /\ \A p \in Op \ {o} : pc[p] = "idle" /\ state[p] # "SUBMITTED"
    BY <1>5 DEF PlanSubmit, Planned
  <2>2. OneCoroutine'
    BY <1>5, <2>1 DEF PlanSubmit, Planned
  <2>3. AttemptFirst' /\ Attributed'
    <3>1. sends[o] = 0 /\ wire[o] = "unsent"
      BY <2>1 DEF PodType
    <3>2. /\ attempts' = [attempts EXCEPT ![o] = 1]
          /\ attribution' = [attribution EXCEPT ![o] = "unknown"]
          /\ state' = [state EXCEPT ![o] = "SUBMITTED"]
          /\ UNCHANGED <<sends, wire>>
      BY <1>5, <2>1 DEF PlanSubmit, Planned
    <3>3. AttemptFirst'
      BY <1>5, <3>1, <3>2 DEF PlanSubmit
    <3>4. Attributed'
      BY <3>1, <3>2
    <3>5. QED
      BY <3>3, <3>4
  <2>4. EvidenceFits'
    BY <1>5, <2>1 DEF PlanSubmit, Planned
  <2>5. QED
    BY <2>2, <2>3, <2>4
<1>6. CASE PlanStuck(o)
  <2>1. OneCoroutine'
    BY <1>6 DEF PlanStuck, Planned, Finish
  <2>2. AttemptFirst' /\ Attributed'
    BY <1>6 DEF PlanStuck, Planned, Finish
  <2>3. EvidenceFits'
    BY <1>6 DEF PlanStuck, Planned, Finish
  <2>4. QED
    BY <2>1, <2>2, <2>3
<1>7. QED
  BY <1>1, <1>2, <1>3, <1>4, <1>5, <1>6 DEF Plan

\* The submission, sent or not.
LEMMA SubmitLedger == ASSUME TypeOK, Ledger, NEW o \in Op, Submit(o) PROVE Ledger'
<1>. USE DEF Ledger, OneCoroutine, AttemptFirst, Attributed, EvidenceFits,
             Unsent, Attempted, Absent, TypeOK, JournalType, ProcessType
<1>. USE DEF journalVars, rowVars, processVars, taskVars, wireVars
<1>1. CASE SubmitUnsure(o)
  <2>1. OneCoroutine'
    BY <1>1 DEF SubmitUnsure, Settles, Finish
  <2>2. AttemptFirst' /\ Attributed'
    BY <1>1 DEF SubmitUnsure, Settles, Finish
  <2>3. EvidenceFits'
    BY <1>1 DEF SubmitUnsure, Settles, Finish
  <2>4. QED
    BY <2>1, <2>2, <2>3
<1>2. CASE SubmitUnready(o)
  <2>1. OneCoroutine'
    BY <1>2 DEF SubmitUnready, Settles, Finish
  <2>2. AttemptFirst' /\ Attributed'
    BY <1>2 DEF SubmitUnready, Settles, Finish
  <2>3. EvidenceFits'
    BY <1>2 DEF SubmitUnready, Settles, Finish
  <2>4. QED
    BY <2>1, <2>2, <2>3
<1>3. CASE SubmitMisread(o)
  <2>1. OneCoroutine'
    BY <1>3 DEF SubmitMisread, Settles, Finish
  <2>2. AttemptFirst' /\ Attributed'
    BY <1>3 DEF SubmitMisread, Settles, Finish
  <2>3. EvidenceFits'
    BY <1>3 DEF SubmitMisread, Settles, Finish
  <2>4. QED
    BY <2>1, <2>2, <2>3
<1>4. CASE Send(o)
  <2>1. OneCoroutine'
    BY <1>4 DEF Send
  <2>2. AttemptFirst' /\ Attributed'
    <3>1. sends[o] = 0 /\ attempts[o] = 1 /\ attribution[o] = "unknown"
      BY <1>4 DEF Send
    <3>2. /\ sends' = [sends EXCEPT ![o] = 1]
          /\ wire' = [wire EXCEPT ![o] = "sent"]
          /\ pc' = [pc EXCEPT ![o] = "awaiting"]
          /\ UNCHANGED <<state, attempts, attribution>>
      BY <1>4, <3>1 DEF Send, PodType
    <3>3. QED
      BY <3>1, <3>2 DEF PodType
  <2>3. EvidenceFits'
    BY <1>4 DEF Send
  <2>4. QED
    BY <2>1, <2>2, <2>3
<1>5. QED
  BY <1>1, <1>2, <1>3, <1>4 DEF Submit

\* Every answer, or its absence.
LEMMA AnswerLedger == ASSUME TypeOK, Ledger, NEW o \in Op, Answer(o) PROVE Ledger'
<1>. USE DEF Ledger, OneCoroutine, AttemptFirst, Attributed, EvidenceFits,
             Unsent, Attempted, Absent, TypeOK, JournalType, ProcessType
<1>. USE DEF journalVars, rowVars, processVars, taskVars, wireVars
<1>1. CASE AnswerCommitted(o)
  <2>1. OneCoroutine'
    BY <1>1 DEF AnswerCommitted, Settles, Finish
  <2>2. AttemptFirst' /\ Attributed'
    BY <1>1 DEF AnswerCommitted, Settles, Finish
  <2>3. EvidenceFits'
    BY <1>1 DEF AnswerCommitted, Settles, Finish
  <2>4. QED
    BY <2>1, <2>2, <2>3
<1>2. CASE AnswerRefused(o)
  <2>1. OneCoroutine'
    BY <1>2 DEF AnswerRefused, Settles, Finish
  <2>2. AttemptFirst' /\ Attributed'
    BY <1>2 DEF AnswerRefused, Settles, Finish
  <2>3. EvidenceFits'
    BY <1>2 DEF AnswerRefused, Settles, Finish
  <2>4. QED
    BY <2>1, <2>2, <2>3
<1>3. CASE AnswerAborted(o)
  <2>1. OneCoroutine'
    BY <1>3 DEF AnswerAborted, Settles, Finish
  <2>2. AttemptFirst' /\ Attributed'
    BY <1>3 DEF AnswerAborted, Settles, Finish
  <2>3. EvidenceFits'
    BY <1>3 DEF AnswerAborted, Settles, Finish
  <2>4. QED
    BY <2>1, <2>2, <2>3
<1>4. CASE AnswerLost(o)
  <2>1. OneCoroutine'
    BY <1>4 DEF AnswerLost, Settles, Finish
  <2>2. AttemptFirst' /\ Attributed'
    BY <1>4 DEF AnswerLost, Settles, Finish
  <2>3. EvidenceFits'
    BY <1>4 DEF AnswerLost, Settles, Finish
  <2>4. QED
    BY <2>1, <2>2, <2>3
<1>5. CASE AnswerOverflow(o)
  <2>1. OneCoroutine'
    BY <1>5 DEF AnswerOverflow, Settles, Finish
  <2>2. AttemptFirst' /\ Attributed'
    BY <1>5 DEF AnswerOverflow, Settles, Finish
  <2>3. EvidenceFits'
    BY <1>5 DEF AnswerOverflow, Settles, Finish
  <2>4. QED
    BY <2>1, <2>2, <2>3
<1>6. CASE AnswerUnclear(o)
  <2>1. OneCoroutine'
    BY <1>6 DEF AnswerUnclear, Settles, Finish
  <2>2. AttemptFirst' /\ Attributed'
    BY <1>6 DEF AnswerUnclear, Settles, Finish
  <2>3. EvidenceFits'
    BY <1>6 DEF AnswerUnclear, Settles, Finish
  <2>4. QED
    BY <2>1, <2>2, <2>3
<1>7. QED
  BY <1>1, <1>2, <1>3, <1>4, <1>5, <1>6 DEF Answer

\* The start of a coroutine, and a stop between two of its commits.
LEMMA CoroutineLedger == ASSUME TypeOK, Ledger, NEW o \in Op, Coroutine(o) PROVE Ledger'
<1>. USE DEF Ledger, OneCoroutine, AttemptFirst, Attributed, EvidenceFits,
             Unsent, Attempted, Absent, TypeOK, JournalType, ProcessType
<1>. USE DEF journalVars, rowVars, processVars, taskVars, wireVars
<1>1. CASE Begin(o)
  <2>1. CASE UNCHANGED <<state, pc, busy>>
    BY <1>1, <2>1 DEF Begin
  <2>2. CASE Finish(o, "REJECTED") /\ state[o] = "REQUESTED" /\ ~busy
    <3>1. evidence[o] = "none" /\ attempts[o] = 0
      BY <2>2
    <3>2. OneCoroutine'
      BY <1>1, <2>2 DEF Begin, Finish
    <3>3. AttemptFirst' /\ Attributed' /\ EvidenceFits'
      BY <1>1, <2>2, <3>1 DEF Begin, Finish
    <3>4. QED
      BY <3>2, <3>3
  <2>3. CASE /\ up /\ busy' = TRUE /\ ~busy /\ state[o] = "REQUESTED"
             /\ pc' = [pc EXCEPT ![o] = "planning"] /\ UNCHANGED state
    BY <1>1, <2>3 DEF Begin
  <2>4. QED
    BY <1>1, <2>1, <2>2, <2>3 DEF Begin
<1>2. CASE PlanCut(o)
  <2>1. OneCoroutine'
    BY <1>2 DEF PlanCut, Die
  <2>2. AttemptFirst' /\ Attributed'
    BY <1>2 DEF PlanCut, Die
  <2>3. EvidenceFits'
    BY <1>2 DEF PlanCut, Die
  <2>4. QED
    BY <2>1, <2>2, <2>3
<1>3. CASE AnswerRefusedCut(o)
  <2>1. OneCoroutine'
    BY <1>3 DEF AnswerRefusedCut, Die
  <2>2. AttemptFirst' /\ Attributed'
    BY <1>3 DEF AnswerRefusedCut, Die
  <2>3. EvidenceFits'
    BY <1>3 DEF AnswerRefusedCut, Die
  <2>4. QED
    BY <2>1, <2>2, <2>3
<1>4. QED
  BY <1>1, <1>2, <1>3, PlanLedger, SubmitLedger, AnswerLedger
  DEF Coroutine

\* What reconciliation makes of a row it tracks leaves the ledger intact.
LEMMA JudgeLedger ==
  ASSUME TypeOK, Ledger, NEW o \in Op, NEW row, state[o] \in Tracked,
         Judge(o, row) \/ JudgeDeadline(o), UNCHANGED <<up, busy, pc, wireVars>>
  PROVE  Ledger'
<1>. USE DEF Ledger, OneCoroutine, AttemptFirst, Attributed, EvidenceFits,
             Unsent, Attempted, Absent, TypeOK, JournalType, ProcessType,
             Tracked, wireVars
<1>1. \A p \in Op \ {o} :
        /\ state'[p] = state[p] /\ elapsed'[p] = elapsed[p]
        /\ evidence'[p] = evidence[p]
  BY DEF Judge, JudgeDeadline
<1>2. /\ UNCHANGED <<attempts, attribution>>
      /\ \/ state'[o] = state[o]
         \/ /\ state[o] = "CONFIG_COMMITTED"
            /\ state'[o] \in {"TIMED_OUT", "OWNERSHIP_CONFLICT", "OBSERVED_APPLIED"}
         \/ state[o] = "INDETERMINATE" /\ state'[o] = "OBSERVED_APPLIED"
  BY DEF Judge, JudgeDeadline, AfterDeadline, Drifted, Applied
<1>3. OneCoroutine'
  BY <1>1, <1>2
<1>4. AttemptFirst' /\ Attributed'
  BY <1>1, <1>2
<1>5. /\ elapsed[o] => elapsed'[o]
      /\ state'[o] = "TIMED_OUT" => elapsed'[o]
  <2>1. elapsed'[o] <=> elapsed[o] \/ Overdue(o)
    <3>1. elapsed' = [elapsed EXCEPT ![o] = @ \/ Overdue(o)]
      BY DEF Judge, JudgeDeadline
    <3>2. elapsed \in [Op -> BOOLEAN]
      OBVIOUS
    <3>3. QED
      BY <3>1, <3>2, ZenonT(60)
  <2>2. state'[o] = "TIMED_OUT" => Overdue(o) \/ state[o] = "TIMED_OUT"
    BY DEF Judge, JudgeDeadline, AfterDeadline, Overdue
  <2>3. QED
    BY <2>1, <2>2
<1>6. /\ state[o] = "OBSERVED_APPLIED" => elapsed'[o] = elapsed[o]
      /\ state[o] = "TIMED_OUT" => elapsed[o] /\ elapsed'[o]
  BY DEF Judge, JudgeDeadline, Overdue
<1>7. \/ /\ evidence'[o] = evidence[o]
         /\ state'[o] = "OBSERVED_APPLIED" => evidence[o] # "none"
      \/ /\ evidence[o] = "none" /\ evidence'[o] = "late" /\ elapsed'[o]
         /\ state'[o] \in {"OBSERVED_APPLIED", "TIMED_OUT"}
      \/ /\ evidence[o] = "none" /\ evidence'[o] = "applied" /\ ~elapsed'[o]
         /\ state'[o] = "OBSERVED_APPLIED"
  <2>1. CASE JudgeDeadline(o)
    BY <2>1 DEF JudgeDeadline, AfterDeadline
  <2>2. CASE Judge(o, row) /\ ~Applied(o, row)
    BY <2>2 DEF Judge, AfterDeadline
  <2>3. CASE Judge(o, row) /\ Applied(o, row)
    <3>1. /\ evidence[o] = "none"
          /\ state'[o] \in {"OBSERVED_APPLIED", "TIMED_OUT"}
      BY <2>3 DEF Judge, AfterDeadline, Drifted, Applied
    <3>2. evidence'[o] = IF elapsed'[o] THEN "late" ELSE "applied"
      BY <2>3 DEF Judge
    <3>3. QED
      BY <1>5, <3>1, <3>2
  <2>4. QED
    BY <2>1, <2>2, <2>3
<1>8. EvidenceFits'
  BY <1>1, <1>2, <1>5, <1>6, <1>7
<1>9. QED
  BY <1>3, <1>4, <1>8

\* A step that touches none of the variables the ledger is about.
LEMMA QuietLedger ==
  ASSUME Ledger,
         UNCHANGED <<state, attempts, attribution, elapsed, evidence, up, busy,
                     pc, wire, sends>>
  PROVE  Ledger'
BY DEF Ledger, OneCoroutine, AttemptFirst, Attributed, EvidenceFits

\* A stop with no open journal write: what was submitted stays submitted.
LEMMA DieLedger ==
  ASSUME TypeOK, Ledger, Die, UNCHANGED <<state, rowVars>> PROVE Ledger'
<1>. USE DEF Ledger, TypeOK, JournalType, ProcessType, Die, rowVars, wireVars
<1>1. OneCoroutine'
  BY DEF OneCoroutine
<1>2. AttemptFirst' /\ Attributed'
  BY DEF AttemptFirst, Attributed
<1>3. EvidenceFits'
  BY DEF EvidenceFits
<1>4. QED
  BY <1>1, <1>2, <1>3

LEMMA RefreshLedger == ASSUME TypeOK, Ledger, Refresh PROVE Ledger'
<1>1. CASE Observe
  BY <1>1, JudgeLedger, QuietLedger
     DEF Observe, Current, journalVars, rowVars, taskVars, wireVars
<1>2. CASE ObserveBlind
  BY <1>2, JudgeLedger DEF ObserveBlind, Current, processVars, taskVars
<1>3. CASE ObserveCut
  BY <1>3, DieLedger DEF ObserveCut
<1>4. QED
  BY <1>1, <1>2, <1>3 DEF Refresh

LEMMA PodLedger == ASSUME TypeOK, Ledger, Pod PROVE Ledger'
<1>. USE DEF journalVars, rowVars, processVars, taskVars, wireVars
<1>1. ASSUME NEW o \in Op, Execute(o) PROVE Ledger'
  <2>1. OneCoroutine' /\ EvidenceFits'
    BY <1>1 DEF Execute, Ledger, OneCoroutine, EvidenceFits
  <2>2. AttemptFirst' /\ Attributed'
    BY <1>1 DEF Execute, Ledger, AttemptFirst, Attributed, TypeOK, PodType
  <2>3. QED
    BY <2>1, <2>2 DEF Ledger
<1>2. ASSUME NEW o \in Op, Elapse(o) PROVE Ledger'
  BY <1>2, QuietLedger DEF Elapse
<1>3. ASSUME NEW s \in Value \cup {None}, Manage(s) PROVE Ledger'
  BY <1>3, QuietLedger DEF Manage
<1>4. ASSUME NEW v \in Value, Compete(v) PROVE Ledger'
  BY <1>4, QuietLedger DEF Compete
<1>5. QED
  BY <1>1, <1>2, <1>3, <1>4 DEF Pod

LEMMA LifecycleLedger ==
  ASSUME TypeOK, Ledger, \/ \E o \in Op : Recover(o)
                         \/ Quiesce \/ Stop \/ Start \/ Connect \/ Disconnect
  PROVE  Ledger'
<1>. USE DEF journalVars, rowVars, processVars, taskVars, wireVars
<1>1. ASSUME NEW o \in Op, Recover(o) PROVE Ledger'
  <2>. USE <1>1 DEF Recover, Ledger, TypeOK, JournalType
  <2>1. OneCoroutine'
    BY DEF OneCoroutine
  <2>2. AttemptFirst' /\ Attributed'
    BY DEF AttemptFirst, Attributed, Unsent, Attempted, Absent
  <2>3. EvidenceFits'
    BY DEF EvidenceFits
  <2>4. QED
    BY <2>1, <2>2, <2>3
<1>2. CASE Start
  BY <1>2 DEF Start, Ledger, OneCoroutine, AttemptFirst, Attributed,
              EvidenceFits
<1>3. CASE Stop
  BY <1>3, DieLedger DEF Stop
<1>4. CASE Quiesce \/ Connect \/ Disconnect
  BY <1>4, QuietLedger DEF Quiesce, Connect, Disconnect
<1>5. QED
  BY <1>1, <1>2, <1>3, <1>4

LEMMA StepLedger == ASSUME TypeOK, Ledger, [Next]_vars PROVE Ledger'
<1>1. CASE Next
  BY <1>1, ClientLedger, CoroutineLedger, RefreshLedger, PodLedger,
     LifecycleLedger DEF Next
<1>2. CASE UNCHANGED vars
  BY <1>2, QuietLedger DEF vars, journalVars, rowVars, processVars, taskVars,
                           wireVars
<1>3. QED
  BY <1>1, <1>2

\* Journal, coroutines and wire agree in every reachable state.
THEOREM LedgerHolds == Spec => []Ledger
<1>1. TypeOK /\ Ledger /\ [Next]_vars => Ledger'
  BY StepLedger
<1>2. QED
  BY InitLedger, TypeCorrect, <1>1, PTL DEF Spec

-----------------------------------------------------------------------------
(***************************************************************************)
(* What follows from it.                                                   *)
(***************************************************************************)

\* No operation is sent twice, whatever is retried, lost or restarted.
THEOREM AtMostOnce == Spec => []SentAtMostOnce
<1>1. ASSUME TypeOK, Ledger PROVE SentAtMostOnce
  <2>1. ASSUME NEW o \in Op PROVE sends[o] <= 1
    <3>1. sends[o] \in Nat
      BY <1>1 DEF TypeOK, PodType
    <3>2. attempts[o] \in {0, 1} /\ sends[o] <= attempts[o]
      BY <1>1 DEF Ledger, AttemptFirst
    <3>3. QED
      BY <3>1, <3>2
  <2>2. QED
    BY <2>1 DEF SentAtMostOnce
<1>2. QED
  BY <1>1, TypeCorrect, LedgerHolds, PTL

\* Nothing is sent that the journal does not own up to.
THEOREM DurableBeforeSend == Spec => []SentIsDurable
<1>1. TypeOK /\ Ledger => SentIsDurable
  BY DEF TypeOK, JournalType, PodType, Ledger, AttemptFirst, SentIsDurable
<1>2. QED
  BY <1>1, TypeCorrect, LedgerHolds, PTL

\* One submission at a time, and it always has a coroutine that settles it.
THEOREM OneSubmitter == Spec => []SoleSubmitter
<1>1. Ledger => SoleSubmitter
  BY DEF Ledger, OneCoroutine, SoleSubmitter
<1>2. QED
  BY <1>1, LedgerHolds, PTL

\* A commit the journal attributes to the adapter is the adapter's.
THEOREM TrueAttribution == Spec => []AttributionIsTrue
<1>1. Ledger => AttributionIsTrue
  BY DEF Ledger, Attributed, AttributionIsTrue
<1>2. QED
  BY <1>1, LedgerHolds, PTL

\* A deadline's verdict is never taken back.
THEOREM VerdictStays == Spec => []DeadlineVerdictStays
<1>1. TypeOK /\ Ledger => DeadlineVerdictStays
  BY DEF TypeOK, JournalType, Ledger, Attributed, EvidenceFits,
         DeadlineVerdictStays
<1>2. QED
  BY <1>1, TypeCorrect, LedgerHolds, PTL

-----------------------------------------------------------------------------
(***************************************************************************)
(* The failures that some of the following theorems exclude.               *)
(***************************************************************************)

\* The updates a monitor delivers while a reply is awaited fit into the
\* session's limits: the one event after which a verdict can be wrong.
NoOverflow == "overflow" \notin Hazards

\* The process does not stop between two commits of one handler.
NoCut == "cut" \notin Hazards

-----------------------------------------------------------------------------
(***************************************************************************)
(* The moves of one operation, by what they mean for its write.            *)
(***************************************************************************)

\* Nothing a reader of the row or of the pod could tell.
Steady(o) ==
  state'[o] = state[o] /\ attribution'[o] = attribution[o] /\ wire'[o] = wire[o]

SameWrite(o) == attribution'[o] = attribution[o] /\ wire'[o] = wire[o]

\* The row is inserted after all earlier ones, and requested only if none of
\* them is active, unless its refusal was cut off.
Enters(o) ==
  /\ SameWrite(o)
  /\ state[o] = Absent /\ state'[o] \in {"REQUESTED", "REJECTED"}
  /\ \A p \in Op : p < o => state[p] # Absent
  /\ \/ state'[o] = "REJECTED" \/ "cut" \in Hazards
     \/ \A p \in Op \ {o} : state[p] \notin ACTIVE

\* The row goes on or ends without an attempt.
Declines(o) ==
  /\ SameWrite(o)
  /\ \/ /\ state[o] \in {"REQUESTED", "VALIDATED"}
        /\ state'[o] \in {"REJECTED", "CANCELLED"}
     \/ state[o] = "REQUESTED" /\ state'[o] \in {"VALIDATED", "OBSERVED_APPLIED"}
     \/ state[o] = "CANCELLED" /\ state'[o] = "REJECTED"

\* The attempt becomes durable.
Claims(o) ==
  /\ state[o] = "REQUESTED" /\ state'[o] = "SUBMITTED"
  /\ attribution'[o] = "unknown" /\ wire'[o] = wire[o]

\* The request goes out.
Sends(o) ==
  /\ state[o] = "SUBMITTED" /\ state'[o] = "SUBMITTED"
  /\ attribution'[o] = attribution[o]
  /\ wire[o] = "unsent" /\ wire'[o] = "sent"

\* The attempt gets its verdict.
Reports(o) ==
  /\ state[o] = "SUBMITTED" /\ wire'[o] = wire[o]
  /\ \/ state'[o] = "INDETERMINATE" /\ attribution'[o] = "unknown"
     \/ /\ state'[o] = "CONFIG_COMMITTED" /\ attribution'[o] = "reply"
        /\ wire[o] = "committed"
     \/ /\ state'[o] = "OWNERSHIP_CONFLICT" /\ attribution'[o] = "unknown"
        /\ wire[o] \in {"unsent", "refused"}
     \/ /\ state'[o] = "FAILED" /\ attribution'[o] = "unknown"
        /\ wire[o] \in {"unsent", "aborted"} \/ "overflow" \in Hazards

\* The server runs the request.
Lands(o) ==
  /\ state'[o] = state[o] /\ attribution'[o] = attribution[o]
  /\ wire[o] = "sent" /\ wire'[o] \in {"committed", "refused", "aborted"}

\* Reconciliation judges what it tracks.
Judged(o) ==
  /\ SameWrite(o)
  /\ \/ /\ state[o] = "CONFIG_COMMITTED"
        /\ state'[o] \in {"TIMED_OUT", "OWNERSHIP_CONFLICT", "OBSERVED_APPLIED"}
     \/ state[o] = "INDETERMINATE" /\ state'[o] = "OBSERVED_APPLIED"

Moves(o) ==
  \/ Steady(o) \/ Enters(o) \/ Declines(o) \/ Claims(o) \/ Sends(o)
  \/ Reports(o) \/ Lands(o) \/ Judged(o)

\* A step moves one operation at most.
OneMoves == \A p \in Op : \/ Steady(p)
                          \/ Moves(p) /\ \A q \in Op \ {p} : Steady(q)

-----------------------------------------------------------------------------
(***************************************************************************)
(* Every action is one of these moves.                                     *)
(***************************************************************************)

\* What touches neither the rows' verdicts nor the wire moves nobody.
LEMMA QuietMoves == ASSUME UNCHANGED <<state, attribution, wire>> PROVE OneMoves
BY DEF OneMoves, Steady

\* An action on one operation that is one of its moves.
LEMMA MovesAlone ==
  ASSUME NEW o \in Op, Moves(o), \A q \in Op \ {o} : Steady(q)
  PROVE  OneMoves
BY DEF OneMoves

LEMMA ClientMoves == ASSUME TypeOK, Ledger, NEW o \in Op, Client(o) PROVE OneMoves
<1>. USE DEF TypeOK, JournalType, PodType, journalVars, rowVars, wireVars
<1>1. ASSUME NEW v \in Value, Request(o, v) \/ RequestCut(o, v) PROVE OneMoves
  <2>1. Enters(o) /\ \A q \in Op \ {o} : Steady(q)
    BY <1>1 DEF Request, RequestCut, Inserts, Occupied, Die, Enters, SameWrite,
                Steady
  <2>2. QED
    BY <2>1, MovesAlone DEF Moves
<1>2. CASE Retry(o)
  BY <1>2, QuietMoves DEF Retry
<1>3. CASE Cancel(o)
  <2>1. Declines(o) /\ \A q \in Op \ {o} : Steady(q)
    BY <1>3, CancelBeforeSend DEF Cancel, Declines, SameWrite, Steady
  <2>2. QED
    BY <2>1, MovesAlone DEF Moves
<1>4. QED
  BY <1>1, <1>2, <1>3 DEF Client

LEMMA PlanMoves == ASSUME TypeOK, Ledger, NEW o \in Op, Plan(o) PROVE OneMoves
<1>. USE DEF TypeOK, JournalType, PodType, journalVars, rowVars, wireVars, Finish
<1>1. CASE PlanRefused(o)
  <2>1. Declines(o) /\ \A q \in Op \ {o} : Steady(q)
    BY <1>1 DEF PlanRefused, Ledger, OneCoroutine, Declines, SameWrite, Steady
  <2>2. QED
    BY <2>1, MovesAlone DEF Moves
<1>2. CASE PlanLost(o) \/ PlanWithdrawn(o)
  BY <1>2, QuietMoves DEF PlanLost, PlanWithdrawn, Planned
<1>3. CASE PlanNoop(o) \/ PlanStuck(o)
  <2>1. Declines(o) /\ \A q \in Op \ {o} : Steady(q)
    BY <1>3 DEF PlanNoop, PlanStuck, Planned, Declines, SameWrite, Steady
  <2>2. QED
    BY <2>1, MovesAlone DEF Moves
<1>4. CASE PlanSubmit(o)
  <2>1. Claims(o) /\ \A q \in Op \ {o} : Steady(q)
    BY <1>4 DEF PlanSubmit, Planned, Claims, Steady
  <2>2. QED
    BY <2>1, MovesAlone DEF Moves
<1>5. QED
  BY <1>1, <1>2, <1>3, <1>4 DEF Plan

\* A submission is sent, or its attempt gets a verdict on the spot.
LEMMA SubmitMoves == ASSUME TypeOK, Ledger, NEW o \in Op, Submit(o) PROVE OneMoves
<1>. USE DEF TypeOK, JournalType, PodType, journalVars, rowVars, wireVars
<1>1. pc[o] = "submitting"
  BY DEF Submit, SubmitUnsure, SubmitUnready, SubmitMisread, Send
<1>2. state[o] = "SUBMITTED" /\ attribution[o] = "unknown" /\ wire[o] = "unsent"
  BY <1>1 DEF Ledger, OneCoroutine, AttemptFirst, Attributed
<1>3. CASE Send(o)
  <2>1. Sends(o) /\ \A q \in Op \ {o} : Steady(q)
    BY <1>2, <1>3 DEF Send, Sends, Steady
  <2>2. QED
    BY <2>1, MovesAlone DEF Moves
<1>4. CASE SubmitUnsure(o) \/ SubmitUnready(o) \/ SubmitMisread(o)
  <2>1. Reports(o) /\ \A q \in Op \ {o} : Steady(q)
    BY <1>2, <1>4 DEF SubmitUnsure, SubmitUnready, SubmitMisread, Settles,
                      Finish, Reports, Steady
  <2>2. QED
    BY <2>1, MovesAlone DEF Moves
<1>5. QED
  BY <1>3, <1>4 DEF Submit

LEMMA AnswerMoves == ASSUME TypeOK, Ledger, NEW o \in Op, Answer(o) PROVE OneMoves
<1>. USE DEF TypeOK, JournalType, PodType, wireVars
<1>1. pc[o] = "awaiting"
  BY DEF Answer, AnswerCommitted, AnswerRefused, AnswerAborted, AnswerLost,
         AnswerUnclear, AnswerOverflow
<1>2. state[o] = "SUBMITTED" /\ attribution[o] = "unknown"
  BY <1>1 DEF Ledger, OneCoroutine, Attributed
<1>3. Reports(o) /\ \A q \in Op \ {o} : Steady(q)
  BY <1>2 DEF Answer, AnswerCommitted, AnswerRefused, AnswerAborted, AnswerLost,
              AnswerUnclear, AnswerOverflow, Settles, Finish, Reports, Steady
<1>4. QED
  BY <1>3, MovesAlone DEF Moves

LEMMA CoroutineMoves ==
  ASSUME TypeOK, Ledger, NEW o \in Op, Coroutine(o) PROVE OneMoves
<1>. USE DEF TypeOK, JournalType, PodType, journalVars, rowVars, wireVars
<1>1. CASE Begin(o)
  <2>1. CASE UNCHANGED state
    BY <1>1, <2>1, QuietMoves DEF Begin
  <2>2. CASE Finish(o, "REJECTED") /\ state[o] = "REQUESTED"
    <3>1. Declines(o) /\ \A q \in Op \ {o} : Steady(q)
      BY <1>1, <2>2 DEF Begin, Finish, Declines, SameWrite, Steady
    <3>2. QED
      BY <3>1, MovesAlone DEF Moves
  <2>3. QED
    BY <1>1, <2>1, <2>2 DEF Begin
<1>2. CASE PlanCut(o)
  <2>1. Declines(o) /\ \A q \in Op \ {o} : Steady(q)
    BY <1>2 DEF PlanCut, Die, Declines, SameWrite, Steady
  <2>2. QED
    BY <2>1, MovesAlone DEF Moves
<1>3. CASE AnswerRefusedCut(o)
  BY <1>3, QuietMoves DEF AnswerRefusedCut, Die
<1>4. QED
  BY <1>1, <1>2, <1>3, PlanMoves, SubmitMoves, AnswerMoves DEF Coroutine

\* What reconciliation makes of a row it tracks.
LEMMA JudgeMoves ==
  ASSUME TypeOK, NEW o \in Op, NEW row, state[o] \in Tracked,
         Judge(o, row) \/ JudgeDeadline(o), UNCHANGED wire
  PROVE  OneMoves
<1>. USE DEF TypeOK, JournalType
<1>1. \A q \in Op \ {o} : Steady(q)
  BY DEF Judge, JudgeDeadline, Steady
<1>2. Steady(o) \/ Judged(o)
  BY DEF Judge, JudgeDeadline, AfterDeadline, Drifted, Applied, Tracked,
         Judged, SameWrite, Steady
<1>3. QED
  BY <1>1, <1>2, MovesAlone DEF Moves

LEMMA RefreshMoves == ASSUME TypeOK, Refresh PROVE OneMoves
<1>. USE DEF journalVars, rowVars, wireVars
<1>1. CASE Observe
  BY <1>1, JudgeMoves, QuietMoves DEF Observe, Current
<1>2. CASE ObserveBlind
  BY <1>2, JudgeMoves DEF ObserveBlind, Current
<1>3. CASE ObserveCut
  BY <1>3, QuietMoves DEF ObserveCut, Die
<1>4. QED
  BY <1>1, <1>2, <1>3 DEF Refresh

LEMMA PodMoves == ASSUME TypeOK, Pod PROVE OneMoves
<1>. USE DEF TypeOK, PodType, journalVars, rowVars, wireVars
<1>1. ASSUME NEW o \in Op, Execute(o) PROVE OneMoves
  <2>1. Lands(o) /\ \A q \in Op \ {o} : Steady(q)
    BY <1>1 DEF Execute, Lands, Steady
  <2>2. QED
    BY <2>1, MovesAlone DEF Moves
<1>2. ASSUME NEW o \in Op, Elapse(o) PROVE OneMoves
  BY <1>2, QuietMoves DEF Elapse
<1>3. ASSUME NEW s \in Value \cup {None}, Manage(s) PROVE OneMoves
  BY <1>3, QuietMoves DEF Manage
<1>4. ASSUME NEW v \in Value, Compete(v) PROVE OneMoves
  BY <1>4, QuietMoves DEF Compete
<1>5. QED
  BY <1>1, <1>2, <1>3, <1>4 DEF Pod

LEMMA LifecycleMoves ==
  ASSUME TypeOK, Ledger, \/ \E o \in Op : Recover(o)
                         \/ Quiesce \/ Stop \/ Start \/ Connect \/ Disconnect
  PROVE  OneMoves
<1>. USE DEF TypeOK, JournalType, PodType, journalVars, rowVars, wireVars
<1>1. ASSUME NEW o \in Op, Recover(o) PROVE OneMoves
  <2>1. Reports(o) \/ Declines(o)
    BY <1>1 DEF Recover, Reports, Declines, SameWrite
  <2>2. \A q \in Op \ {o} : Steady(q)
    BY <1>1 DEF Recover, Steady
  <2>3. QED
    BY <2>1, <2>2, MovesAlone DEF Moves
<1>2. CASE Quiesce \/ Stop \/ Start \/ Connect \/ Disconnect
  BY <1>2, QuietMoves DEF Quiesce, Stop, Die, Start, Connect, Disconnect
<1>3. QED
  BY <1>1, <1>2

\* Every step of the engine moves at most one operation, in one of these ways.
LEMMA StepMoves == ASSUME TypeOK, Ledger, [Next]_vars PROVE OneMoves
<1>1. CASE Next
  BY <1>1, ClientMoves, CoroutineMoves, RefreshMoves, PodMoves, LifecycleMoves
     DEF Next
<1>2. CASE UNCHANGED vars
  BY <1>2, QuietMoves DEF vars, journalVars, rowVars, wireVars
<1>3. QED
  BY <1>1, <1>2

-----------------------------------------------------------------------------
(***************************************************************************)
(* Negative verdicts.                                                      *)
(***************************************************************************)

LEMMA InitUntouched == Init => Untouched
BY DEF Init, Untouched, Absent

\* A verdict is only given about a write that did not happen, and none that is
\* under way is left behind by one.
LEMMA StepUntouched ==
  ASSUME TypeOK, Ledger, Untouched, NoOverflow, [Next]_vars PROVE Untouched'
<1>1. OneMoves
  BY StepMoves
<1>2. ASSUME NEW o \in Op,
             \/ state'[o] = "FAILED"
             \/ state'[o] = "OWNERSHIP_CONFLICT" /\ attribution'[o] # "reply"
      PROVE  wire'[o] \notin {"sent", "committed"}
  <2>1. Steady(o) \/ Moves(o)
    BY <1>1 DEF OneMoves
  <2>2. CASE Steady(o)
    BY <1>2, <2>2 DEF Steady, Untouched
  <2>3. CASE Reports(o)
    BY <1>2, <2>3 DEF Reports, NoOverflow
  <2>4. CASE Lands(o)
    BY <1>2, <2>4 DEF Lands, Untouched
  <2>5. CASE Judged(o)
    BY <1>2, <2>5 DEF Judged, SameWrite, Ledger, Attributed
  <2>6. CASE Enters(o) \/ Declines(o) \/ Claims(o) \/ Sends(o)
    BY <1>2, <2>6 DEF Enters, Declines, Claims, Sends
  <2>7. QED
    BY <2>1, <2>2, <2>3, <2>4, <2>5, <2>6 DEF Moves
<1>3. QED
  BY <1>2 DEF Untouched

\* FAILED and a conflict that is not a lost ownership are true for ever.
LEMMA UntouchedHolds == ASSUME NoOverflow PROVE Spec => []Untouched
<1>1. TypeOK /\ Ledger /\ Untouched /\ [Next]_vars => Untouched'
  BY StepUntouched
<1>2. QED
  BY InitUntouched, TypeCorrect, LedgerHolds, <1>1, PTL DEF Spec

\* An operation recorded as failed, rejected, cancelled or a no-op has not changed
\* the pod and never will (execute, submit, recover and cancel taken together).
THEOREM NegativeIsFinal ==
  ASSUME NoOverflow PROVE Spec => []NegativeVerdictIsFinal
<1>1. TypeOK /\ Ledger /\ Untouched => NegativeVerdictIsFinal
  <2>. SUFFICES ASSUME TypeOK, Ledger, Untouched, NEW o \in Op,
                       \/ state[o] \in {"FAILED", "REJECTED", "CANCELLED"}
                       \/ evidence[o] = "noop"
                PROVE  wire[o] \notin {"sent", "committed"}
    BY DEF NegativeVerdictIsFinal
  <2>1. CASE state[o] = "FAILED"
    BY <2>1 DEF Untouched
  <2>2. CASE state[o] \in {"REJECTED", "CANCELLED"} \/ evidence[o] = "noop"
    <3>1. attempts[o] = 0
      BY <2>2 DEF Ledger, AttemptFirst, EvidenceFits, Unsent
    <3>2. sends[o] = 0
      BY <3>1 DEF Ledger, AttemptFirst, TypeOK, PodType
    <3>3. QED
      BY <3>2 DEF Ledger, AttemptFirst
  <2>3. QED
    BY <2>1, <2>2
<1>2. QED
  BY <1>1, TypeCorrect, LedgerHolds, UntouchedHolds, PTL

-----------------------------------------------------------------------------
(***************************************************************************)
(* The engine implements WriteOnce.                                        *)
(***************************************************************************)

\* What the row of an operation says, by its state and its attribution.
LEMMA OpenVerdict ==
  ASSUME NEW s \in {Absent, "REQUESTED", "VALIDATED"}, NEW a
  PROVE  VerdictIn(s, a) = "open"
BY DEF VerdictIn, Absent, Tracked

LEMMA ClaimedVerdict == ASSUME NEW a PROVE VerdictIn("SUBMITTED", a) = "claimed"
BY DEF VerdictIn, Absent, Tracked

LEMMA NegativeVerdict ==
  ASSUME NEW s, NEW a,
         \/ s \in {"REJECTED", "CANCELLED", "FAILED"}
         \/ s = "OWNERSHIP_CONFLICT" /\ a # "reply"
         \/ s \in Tracked /\ a = "not_submitted"
  PROVE  VerdictIn(s, a) = "none"
BY DEF VerdictIn, Absent, Tracked

LEMMA PositiveVerdict ==
  ASSUME NEW s \in Tracked \cup {"OWNERSHIP_CONFLICT"}
  PROVE  VerdictIn(s, "reply") = "done"
BY DEF VerdictIn, Absent, Tracked

LEMMA UnknownVerdict ==
  ASSUME NEW s \in Tracked PROVE VerdictIn(s, "unknown") = "unknown"
BY DEF VerdictIn, Absent, Tracked

\* A request that is under way belongs to a row that admits it.
LEMMA SentIsAdmitted ==
  ASSUME TypeOK, Ledger, Untouched, NEW o \in Op, wire[o] = "sent"
  PROVE  VerdictOf(o) \in {"claimed", "unknown"}
<1>1. attempts[o] = 1 /\ state[o] \notin Unsent
  <2>1. sends[o] # 0 /\ sends[o] \in Nat
    BY DEF Ledger, AttemptFirst, TypeOK, PodType
  <2>2. attempts[o] = 1
    BY <2>1 DEF Ledger, AttemptFirst
  <2>3. QED
    BY <2>2 DEF Ledger, AttemptFirst
<1>2. attribution[o] = "unknown"
  BY <1>1 DEF Ledger, Attributed, TypeOK, JournalType
<1>3. state[o] = "SUBMITTED" \/ state[o] \in Tracked
  BY <1>1, <1>2 DEF Untouched, TypeOK, JournalType, State, Unsent, Tracked
<1>4. QED
  BY <1>2, <1>3, ClaimedVerdict, UnknownVerdict DEF VerdictOf

\* The journal's verdict, and whether the pod was changed, as WriteOnce has them.
Said == [o \in Op |-> VerdictOf(o)]
Done == [o \in Op |-> wire[o] = "committed"]

\* The steps of WriteOnce in these terms.
LEMMA PromiseSteps ==
  ASSUME NEW o \in Op
  PROVE  /\ Promise!Claim(o) <=>
              /\ Said[o] = "open" /\ Said' = [Said EXCEPT ![o] = "claimed"]
              /\ Done' = Done
         /\ Promise!Decline(o) <=>
              /\ Said[o] = "open" /\ Said' = [Said EXCEPT ![o] = "none"]
              /\ Done' = Done
         /\ Promise!TakeEffect(o) <=>
              /\ Said[o] \in {"claimed", "unknown"} /\ ~Done[o]
              /\ Done' = [Done EXCEPT ![o] = TRUE] /\ Said' = Said
         /\ Promise!Report(o) <=>
              /\ Said[o] = "claimed" /\ Done' = Done
              /\ \E v \in {"none", "done", "unknown"} :
                   /\ v = "none" => ~Done[o]
                   /\ v = "done" => Done[o]
                   /\ Said' = [Said EXCEPT ![o] = v]
BY DEF Promise!Claim, Promise!Decline, Promise!TakeEffect, Promise!Report,
       Said, Done

\* A move of one operation is a step of WriteOnce or one it does not see.
LEMMA MoveIsPromise ==
  ASSUME TypeOK, Ledger, Untouched, NoOverflow, NEW o \in Op, Moves(o),
         \A q \in Op \ {o} : Steady(q)
  PROVE  \/ UNCHANGED <<Said, Done>>
         \/ Promise!Claim(o) \/ Promise!Decline(o)
         \/ Promise!TakeEffect(o) \/ Promise!Report(o)
<1>. DEFINE before == VerdictIn(state[o], attribution[o])
            after == VerdictIn(state'[o], attribution'[o])
<1>1. Said' = [Said EXCEPT ![o] = after] /\ Said[o] = before
  BY DEF Said, VerdictOf, Steady
<1>2. wire'[o] = wire[o] => Done' = Done
  BY DEF Done, Steady
<1>3. after = before => Said' = Said
  BY <1>1 DEF Said
<1>4. state[o] \in Unsent => attribution[o] = "not_submitted"
  BY DEF Ledger, AttemptFirst, Attributed
<1>5. CASE Steady(o)
  BY <1>2, <1>3, <1>5 DEF Steady
<1>6. CASE Enters(o) \/ Declines(o)
  <2>1. before \in {"open", "none"} /\ (before = "none" => state[o] = "CANCELLED")
    BY <1>6, OpenVerdict, NegativeVerdict DEF Enters, Declines
  <2>2. after \in {"open", "none"} /\ (state[o] = "CANCELLED" => after = "none")
    BY <1>4, <1>6, OpenVerdict, NegativeVerdict
       DEF Enters, Declines, SameWrite, Unsent, Tracked, Absent
  <2>3. wire'[o] = wire[o]
    BY <1>6 DEF Enters, Declines, SameWrite
  <2>4. QED
    BY <1>1, <1>2, <1>3, <2>1, <2>2, <2>3, PromiseSteps
<1>7. CASE Claims(o)
  <2>1. before = "open" /\ after = "claimed"
    BY <1>7, OpenVerdict, ClaimedVerdict DEF Claims
  <2>2. QED
    BY <1>1, <1>2, <1>7, <2>1, PromiseSteps DEF Claims
<1>8. CASE Sends(o)
  BY <1>2, <1>3, <1>8 DEF Sends, Done, Steady
<1>9. CASE Reports(o)
  <2>1. before = "claimed" /\ wire'[o] = wire[o]
    BY <1>9, ClaimedVerdict DEF Reports
  <2>2. \/ after = "unknown"
        \/ after = "done" /\ wire[o] = "committed"
        \/ after = "none" /\ wire[o] # "committed"
    BY <1>9, NegativeVerdict, PositiveVerdict, UnknownVerdict
       DEF Reports, NoOverflow, Tracked
  <2>3. Done[o] <=> wire[o] = "committed"
    BY DEF Done
  <2>4. QED
    BY <1>1, <1>2, <2>1, <2>2, <2>3, PromiseSteps
<1>10. CASE Lands(o)
  <2>1. before \in {"claimed", "unknown"} /\ after = before
    BY <1>10, SentIsAdmitted DEF Lands, VerdictOf
  <2>2. CASE wire'[o] = "committed"
    <3>1. Done' = [Done EXCEPT ![o] = TRUE] /\ ~Done[o]
      BY <1>10, <2>2 DEF Lands, Done, Steady
    <3>2. QED
      BY <1>1, <1>3, <2>1, <3>1, PromiseSteps
  <2>3. CASE wire'[o] # "committed"
    BY <1>3, <1>10, <2>1, <2>3 DEF Lands, Done, Steady
  <2>4. QED
    BY <2>2, <2>3
<1>11. CASE Judged(o)
  <2>1. attribution'[o] = attribution[o] /\ wire'[o] = wire[o]
    BY <1>11 DEF Judged, SameWrite
  <2>2. CASE state[o] = "CONFIG_COMMITTED"
    <3>1. attribution[o] = "reply"
      BY <2>2 DEF Ledger, Attributed
    <3>2. QED
      BY <1>2, <1>3, <1>11, <2>1, <2>2, <3>1, PositiveVerdict DEF Judged, Tracked
  <2>3. CASE state[o] = "INDETERMINATE"
    <3>1. attribution[o] = "unknown"
      BY <2>3 DEF Ledger, Attributed
    <3>2. QED
      BY <1>2, <1>3, <1>11, <2>1, <2>3, <3>1, UnknownVerdict DEF Judged, Tracked
  <2>4. QED
    BY <1>11, <2>2, <2>3 DEF Judged
<1>12. QED
  BY <1>5, <1>6, <1>7, <1>8, <1>9, <1>10, <1>11 DEF Moves

\* The journal claims a write before it can happen, reports it truly and never
\* takes a report back: the engine implements WriteOnce.
THEOREM EngineIsWriteOnce == ASSUME NoOverflow PROVE Spec => ImplementsWriteOnce
<1>1. Init => Promise!Init
  <2>1. ASSUME Init, NEW o \in Op
        PROVE  VerdictOf(o) = "open" /\ (wire[o] = "committed") = FALSE
    BY <2>1, OpenVerdict DEF Init, VerdictOf
  <2>2. QED
    BY <2>1 DEF Promise!Init
<1>2. TypeOK /\ Ledger /\ Untouched /\ [Next]_vars =>
        [Promise!Next]_(Promise!vars)
  <2>. SUFFICES ASSUME TypeOK, Ledger, Untouched, [Next]_vars
                PROVE  UNCHANGED <<Said, Done>> \/ Promise!Next
    BY DEF Promise!vars, Said, Done
  <2>1. OneMoves
    BY StepMoves
  <2>2. CASE \A o \in Op : Steady(o)
    BY <2>2 DEF Steady, Said, Done, VerdictOf
  <2>3. ASSUME NEW o \in Op, Moves(o), \A q \in Op \ {o} : Steady(q)
        PROVE  UNCHANGED <<Said, Done>> \/ Promise!Next
    BY <2>3, MoveIsPromise DEF Promise!Next
  <2>4. QED
    BY <2>1, <2>2, <2>3 DEF OneMoves
<1>3. QED
  BY <1>1, <1>2, TypeCorrect, LedgerHolds, UntouchedHolds, PTL
     DEF Spec, ImplementsWriteOnce, Promise!Spec

-----------------------------------------------------------------------------
(***************************************************************************)
(* The occupation of the pod.                                              *)
(***************************************************************************)

LEMMA InitSerial == Init => Serial
BY DEF Init, Serial, Absent, ACTIVE

\* No operation becomes active behind another, and none does so again.
LEMMA StepSerial ==
  ASSUME TypeOK, Ledger, Serial, NoCut, [Next]_vars PROVE Serial'
<1>1. OneMoves
  BY StepMoves
<1>2. CASE \A o \in Op : state'[o] = state[o]
  BY <1>2 DEF Serial
<1>3. ASSUME NEW o \in Op, Enters(o), \A q \in Op \ {o} : Steady(q)
      PROVE  Serial'
  BY <1>3 DEF Enters, Steady, Serial, NoCut, ACTIVE, Absent, Op
<1>4. ASSUME NEW o \in Op, \A q \in Op \ {o} : Steady(q),
             state[o] \notin {Absent, "REJECTED"}, state'[o] # Absent,
             state'[o] \in ACTIVE => state[o] \in ACTIVE
      PROVE  Serial'
  BY <1>4 DEF Steady, Serial, ACTIVE, Absent, Op
<1>5. ASSUME NEW o \in Op, Moves(o), ~Enters(o), state'[o] # state[o]
      PROVE  /\ state[o] \notin {Absent, "REJECTED"} /\ state'[o] # Absent
             /\ state'[o] \in ACTIVE => state[o] \in ACTIVE
  BY <1>5 DEF Moves, Steady, Declines, Claims, Sends, Reports, Lands, Judged,
              ACTIVE, Absent
<1>6. QED
  BY <1>1, <1>2, <1>3, <1>4, <1>5 DEF OneMoves, Steady

LEMMA SerialHolds == ASSUME NoCut PROVE Spec => []Serial
<1>1. TypeOK /\ Ledger /\ Serial /\ [Next]_vars => Serial'
  BY StepSerial
<1>2. QED
  BY InitSerial, TypeCorrect, LedgerHolds, <1>1, PTL DEF Spec

LEMMA SerialIsSole == ASSUME Serial PROVE OneActive
<1>1. ASSUME NEW o \in Op, NEW p \in Op,
             state[o] \in ACTIVE, state[p] \in ACTIVE, p < o
      PROVE  FALSE
  BY <1>1 DEF Serial, ACTIVE, Absent
<1>2. QED
  BY <1>1 DEF OneActive, Op

\* One operation occupies the pod at a time, across retries, losses and restarts
\* (Occupied, and no way back for what has left the active states).
THEOREM OneOccupant == ASSUME NoCut PROVE Spec => []OneActive
<1>1. Serial => OneActive
  BY SerialIsSole
<1>2. QED
  BY <1>1, SerialHolds, PTL

-----------------------------------------------------------------------------
(***************************************************************************)
(* The transition table, and what a conflict stops.                        *)
(***************************************************************************)

\* The rows of the table that the moves use.
LEMMA Table ==
  /\ {"VALIDATED", "REJECTED", "CANCELLED"} \subseteq TRANSITIONS["REQUESTED"]
  /\ {"SUBMITTED", "REJECTED", "CANCELLED", "OBSERVED_APPLIED"}
       \subseteq TRANSITIONS["VALIDATED"]
  /\ {"CONFIG_COMMITTED", "INDETERMINATE", "FAILED", "OWNERSHIP_CONFLICT"}
       \subseteq TRANSITIONS["SUBMITTED"]
  /\ {"OBSERVED_APPLIED", "TIMED_OUT", "OWNERSHIP_CONFLICT"}
       \subseteq TRANSITIONS["CONFIG_COMMITTED"]
  /\ "OBSERVED_APPLIED" \in TRANSITIONS["INDETERMINATE"]
BY DEF TRANSITIONS, State

\* Whatever is saved, cancelled, judged or recovered at the same time, the states
\* of a row follow the table, except that a withdrawn row may change between CANCELLED
\* and REJECTED (execute saves the row it read before its awaits).
THEOREM TableFollowed == Spec => WriteFollowsTable
<1>. DEFINE Follows(o) ==
       \/ state'[o] = state[o]
       \/ state[o] = Absent
       \/ state'[o] \in TRANSITIONS[state[o]]
       \/ state[o] = "REQUESTED" /\ state'[o] \in TRANSITIONS["VALIDATED"]
       \/ {state[o], state'[o]} \subseteq {"REJECTED", "CANCELLED"}
<1>1. ASSUME NEW o \in Op, Moves(o) PROVE Follows(o)
  <2>1. CASE Steady(o) \/ Enters(o) \/ Sends(o) \/ Lands(o)
    BY <2>1 DEF Steady, Enters, Sends, Lands
  <2>2. CASE Declines(o) \/ Claims(o)
    BY <2>2, Table DEF Declines, Claims
  <2>3. CASE Reports(o) \/ Judged(o)
    BY <2>3, Table DEF Reports, Judged
  <2>4. QED
    BY <1>1, <2>1, <2>2, <2>3 DEF Moves
<1>2. TypeOK /\ Ledger /\ [Next]_vars =>
        [\A o \in Op : state[o] \in State /\ state'[o] # state[o] =>
          \/ state'[o] \in TRANSITIONS[state[o]]
          \/ state[o] = "REQUESTED" /\ state'[o] \in TRANSITIONS["VALIDATED"]
          \/ {state[o], state'[o]} \subseteq {"REJECTED", "CANCELLED"}]_vars
  <2>. SUFFICES ASSUME TypeOK, Ledger, [Next]_vars, NEW o \in Op, state[o] \in State
                PROVE  Follows(o) /\ state[o] # Absent
    OBVIOUS
  <2>1. Steady(o) \/ Moves(o)
    BY StepMoves DEF OneMoves
  <2>2. QED
    BY <1>1, <2>1 DEF Steady, State, Absent
<1>3. QED
  BY <1>2, TypeCorrect, LedgerHolds, PTL DEF Spec, WriteFollowsTable

\* A conflict stays on record, and what is idle under it sends nothing.
LEMMA StepFreezes ==
  ASSUME TypeOK, Ledger, [Next]_vars, conflict, ~busy
  PROVE  conflict' /\ ~busy' /\ sends' = sends
<1>. conflict = TRUE /\ busy = FALSE
  BY DEF TypeOK, JournalType, ProcessType
<1>. USE DEF journalVars, rowVars, processVars, taskVars, wireVars
<1>1. \A o \in Op : pc[o] = "idle"
  BY DEF Ledger, OneCoroutine
<1>2. ASSUME NEW o \in Op, Client(o) PROVE conflict' /\ ~busy' /\ sends' = sends
  BY <1>2 DEF Client, Request, RequestCut, Inserts, Die, Retry, Cancel
<1>3. ASSUME NEW o \in Op, Coroutine(o)
      PROVE  conflict' /\ ~busy' /\ sends' = sends
  <2>1. Begin(o)
    BY <1>1, <1>3
       DEF Coroutine, Plan, PlanRefused, PlanLost, PlanWithdrawn, PlanNoop,
           PlanSubmit, PlanStuck, Planned, PlanCut, Submit, SubmitUnsure,
           SubmitUnready, SubmitMisread, Send, Answer, AnswerCommitted,
           AnswerRefused, AnswerAborted, AnswerLost, AnswerUnclear,
           AnswerOverflow, AnswerRefusedCut
  <2>2. QED
    BY <2>1 DEF Begin, Finish
<1>4. ASSUME NEW o \in Op, Recover(o) PROVE conflict' /\ ~busy' /\ sends' = sends
  BY <1>4 DEF Recover
<1>5. CASE Refresh
  BY <1>5 DEF Refresh, Observe, ObserveBlind, ObserveCut, Judge, JudgeDeadline,
              Die
<1>6. CASE Quiesce \/ Stop \/ Start
  BY <1>6 DEF Quiesce, Stop, Die, Start
<1>7. CASE Connect \/ Disconnect
  BY <1>7 DEF Connect, Disconnect
<1>8. CASE Pod
  BY <1>8 DEF Pod, Execute, Elapse, Manage, Compete
<1>9. CASE UNCHANGED vars
  BY <1>9 DEF vars
<1>10. QED
  BY <1>2, <1>3, <1>4, <1>5, <1>6, <1>7, <1>8, <1>9 DEF Next

\* Once a conflict is durable and the running operation is through, nothing is
\* sent and nothing starts (Begin, and one coroutine at a time).
THEOREM ConflictStops == Spec => ConflictFreezes
<1>1. TypeOK /\ Ledger /\ [Next]_vars =>
        [conflict /\ ~busy => conflict' /\ ~busy' /\ sends' = sends]_vars
  BY StepFreezes
<1>2. QED
  BY <1>1, TypeCorrect, LedgerHolds, PTL DEF Spec, ConflictFreezes

-----------------------------------------------------------------------------
(***************************************************************************)
(* A conflict is only recorded if somebody else has written: while nobody  *)
(* has, the pod's rows follow the operations (Calm), whatever of theirs is *)
(* lost, late or drained late.                                             *)
(***************************************************************************)

\* The server answers no request with an error of its own, which would have the
\* code of a guard that did not hold.
NoRpcError == "rpcerror" \notin Hazards

-----------------------------------------------------------------------------
(***************************************************************************)
(* The rows, drained and published.                                        *)
(***************************************************************************)

\* The session lost or has drained versions from the front; the server's stays.
Drains ==
  /\ Server' = Server
  /\ \E m \in Nat : \A i \in DOMAIN rows' :
       i + m \in DOMAIN rows /\ rows'[i] = rows[i + m]

\* A version is new at the end, behind all that are not drained or alone.
Gains(v) ==
  /\ Server' = v
  /\ \A i \in DOMAIN rows' : rows'[i] = v \/ (i \in DOMAIN rows /\ rows'[i] = rows[i])
  /\ \A i, j \in DOMAIN rows' : i < j => i \in DOMAIN rows /\ rows'[i] = rows[i]

LEMMA ServerInRows ==
  ASSUME rows \in Seq(Version), rows # <<>>
  PROVE  \E i \in DOMAIN rows : Server = rows[i]
BY DEF Server

LEMMA ServerStays ==
  ASSUME rows' \in Seq(Version), rows' # <<>>, Server' = Server
  PROVE  \E i \in DOMAIN rows' : Server = rows'[i]
BY DEF Server

LEMMA RowNumbers ==
  ASSUME rows' \in Seq(Version)
  PROVE  \A i, j \in DOMAIN rows' : i <= j => i < j \/ i = j
BY LenProperties

LEMMA SameDrains == ASSUME UNCHANGED rows, rows \in Seq(Version) PROVE Drains
<1>1. \A i \in DOMAIN rows : i + 0 = i
  BY LenProperties
<1>2. QED
  BY <1>1 DEF Drains, Server

LEMMA AdvanceDrains ==
  ASSUME rows \in Seq(Version), rows # <<>>, NEW k \in DOMAIN rows, Advance(k)
  PROVE  /\ Drains
         /\ \A i \in DOMAIN rows' :
              i + (k - 1) \in DOMAIN rows /\ rows'[i] = rows[i + (k - 1)]
<1>1. k \in 1..Len(rows) /\ Len(rows) \in Nat
  BY LenProperties
<1>2. /\ rows' \in Seq(Version) /\ Len(rows') = Len(rows) - k + 1
      /\ \A i \in 1..(Len(rows) - k + 1) : rows'[i] = rows[k + i - 1]
  BY <1>1, SubSeqProperties DEF Advance
<1>3. \A i \in DOMAIN rows' :
        i + (k - 1) \in DOMAIN rows /\ rows'[i] = rows[i + (k - 1)]
  <2>. SUFFICES ASSUME NEW i \in DOMAIN rows'
                PROVE  i + (k - 1) \in DOMAIN rows /\ rows'[i] = rows[i + (k - 1)]
    OBVIOUS
  <2>1. DOMAIN rows' = 1..(Len(rows) - k + 1) /\ DOMAIN rows = 1..Len(rows)
    BY <1>2, LenProperties
  <2>2. i \in Nat /\ i + (k - 1) = k + i - 1
    BY <1>1, <2>1
  <2>3. i + (k - 1) \in 1..Len(rows)
    BY <1>1, <2>1
  <2>4. rows'[i] = rows[i + (k - 1)]
    BY <1>2, <2>1, <2>2
  <2>5. i + (k - 1) \in DOMAIN rows
    BY <2>1, <2>3
  <2>6. QED
    BY <2>4, <2>5
<1>4. Server' = Server
  <2>. DEFINE n == Len(rows)
  <2>1. n - k + 1 \in 1..(n - k + 1) /\ k + (n - k + 1) - 1 = n
    <3>. n \in Nat /\ k \in 1..n
      BY <1>1
    <3>. HIDE DEF n
    <3>. QED
      OBVIOUS
  <2>2. rows'[n - k + 1] = rows[k + (n - k + 1) - 1]
    BY <1>2, <2>1
  <2>3. Len(rows') = n - k + 1
    BY <1>2
  <2>4. QED
    BY <2>1, <2>2, <2>3 DEF Server
<1>5. QED
  BY <1>1, <1>3, <1>4 DEF Drains

LEMMA LostDrains ==
  ASSUME rows \in Seq(Version), rows # <<>>, rows' = <<Server>> PROVE Drains
<1>. DEFINE m == Len(rows) - 1
<1>1. Len(rows) \in Nat \ {0} /\ DOMAIN rows = 1..Len(rows)
  BY LenProperties, EmptySeq
<1>2. m \in Nat /\ 1 + m \in DOMAIN rows /\ Server = rows[1 + m]
  BY <1>1 DEF Server
<1>3. DOMAIN rows' = {1} /\ rows'[1] = Server /\ Server' = Server
  BY DEF Server
<1>4. QED
  BY <1>2, <1>3 DEF Drains

LEMMA PublishGains ==
  ASSUME rows \in Seq(Version), NEW v \in Version, Publish(v) PROVE Gains(v)
<1>1. Len(rows) \in Nat /\ DOMAIN rows = 1..Len(rows)
  BY LenProperties
<1>2. CASE rows' = <<v>>
  <2>1. DOMAIN rows' = {1} /\ rows'[1] = v /\ Len(rows') = 1
    BY <1>2
  <2>2. \A i, j \in DOMAIN rows' : ~(i < j)
    BY <2>1
  <2>3. \A i \in DOMAIN rows' : rows'[i] = v
    BY <2>1
  <2>4. Server' = v
    BY <2>1 DEF Server
  <2>5. QED
    BY <2>2, <2>3, <2>4 DEF Gains
<1>3. CASE rows' = Append(rows, v)
  <2>1. /\ Len(rows') = Len(rows) + 1 /\ DOMAIN rows' = 1..(Len(rows) + 1)
        /\ \A i \in 1..Len(rows) : rows'[i] = rows[i]
        /\ rows'[Len(rows) + 1] = v
    BY <1>1, <1>3, AppendProperties
  <2>2. Server' = v
    BY <2>1 DEF Server
  <2>3. \A i \in DOMAIN rows' : i \in DOMAIN rows \/ i = Len(rows) + 1
    BY <1>1, <2>1
  <2>4. \A i, j \in DOMAIN rows' : i < j => i \in DOMAIN rows
    BY <1>1, <2>1
  <2>5. \A i \in DOMAIN rows' : rows'[i] = v \/ (i \in DOMAIN rows /\ rows'[i] = rows[i])
    BY <1>1, <2>1, <2>3
  <2>6. \A i, j \in DOMAIN rows' : i < j => i \in DOMAIN rows /\ rows'[i] = rows[i]
    BY <1>1, <2>1, <2>4
  <2>7. QED
    BY <2>2, <2>5, <2>6 DEF Gains
<1>4. QED
  BY <1>2, <1>3 DEF Publish

-----------------------------------------------------------------------------
(***************************************************************************)
(* What a step does to the rows, the guards and the targets: again every   *)
(* action is looked at once.                                               *)
(***************************************************************************)

\* A write goes out with the configuration of a version the session has, and it
\* is refused only if another one is there when it runs.
Guarded(o) ==
  /\ wire'[o] = "sent" =>
       \/ wire[o] = "sent" /\ guard'[o] = guard[o]
       \/ /\ wire[o] = "unsent" /\ state[o] = "SUBMITTED"
          /\ \E i \in DOMAIN rows : guard'[o] = rows[i].cfg
  /\ wire'[o] = "refused" =>
       wire[o] = "refused" \/ (wire[o] = "sent" /\ guard[o] # Server.cfg)

SameTarget(o) == target'[o] = target[o] \/ state[o] = Absent

\* Nobody writes, or one request of an operation runs, or somebody else writes
\* the pod's State or, counted, its configuration.
Reads ==
  /\ Drains /\ foreign' = foreign
  /\ \A o \in Op : wire'[o] = "committed" => wire[o] = "committed"

Writes(o) ==
  /\ wire[o] = "sent" /\ wire'[o] = "committed"
  /\ guard[o] = Server.cfg /\ UNCHANGED <<state, target, foreign>>
  /\ Gains([Server EXCEPT !.cfg = target[o], !.by = o])

OthersWrite(v) ==
  /\ UNCHANGED <<state, target, wire, guard>> /\ Gains(v) /\ v.by = 0
  /\ foreign' = foreign => v.cfg = Server.cfg
  /\ foreign' # foreign => foreign' # 0

RowsMove ==
  /\ \A o \in Op : Guarded(o) /\ SameTarget(o)
  /\ \/ Reads
     \/ \E o \in Op : Writes(o)
     \/ \E v \in Version : OthersWrite(v)

\* A version made from the server's.
LEMMA NewVersion ==
  ASSUME TypeOK, NEW c \in Value \cup {None}, NEW b \in 0..MaxOperations
  PROVE  /\ [Server EXCEPT !.cfg = c, !.by = b] \in Version
         /\ [Server EXCEPT !.cfg = c, !.by = b].cfg = c
         /\ [Server EXCEPT !.cfg = c, !.by = b].by = b
         /\ [Server EXCEPT !.st = c, !.by = b] \in Version
         /\ [Server EXCEPT !.st = c, !.by = b].cfg = Server.cfg
         /\ [Server EXCEPT !.st = c, !.by = b].by = b
<1>1. Server \in Version
  BY ServerIsVersion DEF TypeOK, PodType
<1>2. QED
  BY <1>1, VersionExcept DEF Version

LEMMA OpNumbers == /\ 0 \in 0..MaxOperations /\ 0 \notin Op
                   /\ \A o \in Op : o \in 0..MaxOperations
BY EngineAssumption DEF Op

\* What leaves the requests, the targets and the server alone.
LEMMA QuietRows ==
  ASSUME Drains, UNCHANGED <<wire, guard, target, foreign>> PROVE RowsMove
BY DEF RowsMove, Reads, Guarded, SameTarget

LEMMA SameRows ==
  ASSUME TypeOK, UNCHANGED <<rows, wire, guard, target, foreign>> PROVE RowsMove
BY SameDrains, QuietRows DEF TypeOK, PodType

LEMMA LostRows ==
  ASSUME TypeOK, rows' = <<Server>>, UNCHANGED <<wire, guard, target, foreign>>
  PROVE  RowsMove
BY LostDrains, QuietRows DEF TypeOK, PodType

LEMMA AdvancedRows ==
  ASSUME TypeOK, NEW k \in DOMAIN rows, Advance(k),
         UNCHANGED <<wire, guard, target, foreign>>
  PROVE  RowsMove
BY AdvanceDrains, QuietRows DEF TypeOK, PodType

LEMMA ClientRows == ASSUME TypeOK, NEW o \in Op, Client(o) PROVE RowsMove
<1>. USE DEF journalVars, rowVars, sessionVars, wireVars, TypeOK, JournalType,
             PodType
<1>1. ASSUME NEW v \in Value, Request(o, v) \/ RequestCut(o, v) PROVE RowsMove
  <2>1. UNCHANGED <<wire, guard, foreign>> /\ (UNCHANGED rows \/ rows' = <<Server>>)
    BY <1>1 DEF Request, RequestCut, Die
  <2>2. \A p \in Op : SameTarget(p)
    BY <1>1 DEF Request, RequestCut, Inserts, SameTarget
  <2>3. Drains
    BY <2>1, SameDrains, LostDrains
  <2>4. QED
    BY <2>1, <2>2, <2>3 DEF RowsMove, Reads, Guarded, SameTarget
<1>2. CASE Retry(o) \/ Cancel(o)
  BY <1>2, SameRows DEF Retry, Cancel
<1>3. QED
  BY <1>1, <1>2 DEF Client

LEMMA PlanRows == ASSUME TypeOK, NEW o \in Op, Plan(o) PROVE RowsMove
<1>. USE DEF rowVars, sessionVars, wireVars
<1>1. CASE PlanRefused(o) \/ PlanLost(o)
  BY <1>1, SameRows DEF PlanRefused, PlanLost
<1>2. CASE PlanWithdrawn(o) \/ PlanNoop(o) \/ PlanSubmit(o) \/ PlanStuck(o)
  BY <1>2, AdvancedRows DEF PlanWithdrawn, PlanNoop, PlanSubmit, PlanStuck, Planned
<1>3. QED
  BY <1>1, <1>2 DEF Plan

LEMMA SubmitRows == ASSUME TypeOK, Ledger, NEW o \in Op, Submit(o) PROVE RowsMove
<1>. USE DEF wireVars, Settles, Finish
<1>1. CASE SubmitUnsure(o) \/ SubmitUnready(o) \/ SubmitMisread(o)
  BY <1>1, SameRows DEF SubmitUnsure, SubmitUnready, SubmitMisread
<1>2. CASE Send(o)
  <2>1. PICK k \in DOMAIN rows :
          Advance(k) /\ guard' = [guard EXCEPT ![o] = rows[k].cfg]
    BY <1>2 DEF Send
  <2>2. Drains
    BY <2>1, AdvanceDrains DEF TypeOK, PodType
  <2>3. /\ wire' = [wire EXCEPT ![o] = "sent"] /\ wire[o] = "unsent"
        /\ state[o] = "SUBMITTED" /\ UNCHANGED <<target, foreign>>
    BY <1>2 DEF Send, Ledger, OneCoroutine, AttemptFirst, journalVars, rowVars
  <2>4. \A p \in Op : Guarded(p)
    BY <2>1, <2>3 DEF Guarded, TypeOK, PodType
  <2>5. Reads
    BY <2>2, <2>3 DEF Reads, TypeOK, PodType
  <2>6. QED
    BY <2>3, <2>4, <2>5 DEF RowsMove, SameTarget
<1>3. QED
  BY <1>1, <1>2 DEF Submit

LEMMA AnswerRows == ASSUME TypeOK, NEW o \in Op, Answer(o) PROVE RowsMove
<1>. USE DEF wireVars, Settles
<1>1. CASE AnswerCommitted(o) \/ AnswerUnclear(o)
  BY <1>1, AdvancedRows DEF AnswerCommitted, AnswerUnclear
<1>2. CASE AnswerRefused(o) \/ AnswerAborted(o)
  BY <1>2, SameRows DEF AnswerRefused, AnswerAborted
<1>3. CASE AnswerLost(o) \/ AnswerOverflow(o)
  BY <1>3, SameRows, LostRows DEF AnswerLost, AnswerOverflow
<1>4. QED
  BY <1>1, <1>2, <1>3 DEF Answer

LEMMA CoroutineRows ==
  ASSUME TypeOK, Ledger, NEW o \in Op, Coroutine(o) PROVE RowsMove
<1>. USE DEF rowVars, sessionVars, wireVars
<1>1. CASE Begin(o)
  BY <1>1, SameRows DEF Begin
<1>2. CASE PlanCut(o) \/ AnswerRefusedCut(o)
  BY <1>2, LostRows DEF PlanCut, AnswerRefusedCut, Die
<1>3. QED
  BY <1>1, <1>2, PlanRows, SubmitRows, AnswerRows DEF Coroutine

LEMMA RefreshRows == ASSUME TypeOK, Refresh PROVE RowsMove
<1>. USE DEF journalVars, rowVars, sessionVars, wireVars
<1>1. CASE Observe
  <2>1. UNCHANGED <<target, wire, guard, foreign>>
    BY <1>1 DEF Observe, Judge, JudgeDeadline
  <2>2. QED
    BY <1>1, <2>1, AdvancedRows DEF Observe
<1>2. CASE ObserveBlind
  BY <1>2, SameRows DEF ObserveBlind, JudgeDeadline
<1>3. CASE ObserveCut
  BY <1>3, LostRows DEF ObserveCut, Die
<1>4. QED
  BY <1>1, <1>2, <1>3 DEF Refresh

LEMMA ExecuteRows ==
  ASSUME TypeOK, NoRpcError, NEW o \in Op, Execute(o) PROVE RowsMove
<1>. USE DEF TypeOK, PodType
<1>1. /\ UNCHANGED <<state, target, foreign>> /\ wire[o] = "sent"
      /\ \A p \in Op \ {o} : wire'[p] = wire[p] /\ guard'[p] = guard[p]
  BY DEF Execute, journalVars, rowVars
<1>2. CASE /\ guard[o] = Server.cfg /\ wire'[o] = "committed"
           /\ Publish([Server EXCEPT !.cfg = target[o], !.by = o])
  <2>1. [Server EXCEPT !.cfg = target[o], !.by = o] \in Version
    BY NewVersion, OpNumbers DEF JournalType
  <2>2. Writes(o)
    BY <1>1, <1>2, <2>1, PublishGains DEF Writes
  <2>3. \A p \in Op : Guarded(p)
    BY <1>1, <1>2 DEF Guarded
  <2>4. QED
    BY <1>1, <2>2, <2>3 DEF RowsMove, SameTarget
<1>3. CASE /\ UNCHANGED rows
           /\ (wire'[o] = "refused" /\ guard[o] # Server.cfg) \/ wire'[o] = "aborted"
  <2>1. \A p \in Op : Guarded(p)
    BY <1>1, <1>3 DEF Guarded
  <2>2. Reads
    BY <1>1, <1>3, SameDrains DEF Reads
  <2>3. QED
    BY <1>1, <2>1, <2>2 DEF RowsMove, SameTarget
<1>4. QED
  BY <1>2, <1>3 DEF Execute, NoRpcError

LEMMA PodRows == ASSUME TypeOK, NoRpcError, Pod PROVE RowsMove
<1>. USE DEF journalVars, rowVars, sessionVars, wireVars, TypeOK, PodType
<1>1. ASSUME NEW o \in Op, Elapse(o) PROVE RowsMove
  BY <1>1, SameRows DEF Elapse
<1>2. ASSUME NEW s \in Value \cup {None}, Manage(s) PROVE RowsMove
  <2>. DEFINE v == [Server EXCEPT !.st = s, !.by = 0]
  <2>1. v \in Version /\ v.by = 0 /\ v.cfg = Server.cfg
    BY NewVersion, OpNumbers
  <2>2. OthersWrite(v) /\ UNCHANGED <<state, target, wire, guard>>
    BY <1>2, <2>1, PublishGains DEF Manage, OthersWrite
  <2>3. QED
    BY <2>1, <2>2 DEF RowsMove, Guarded, SameTarget
<1>3. ASSUME NEW c \in Value, Compete(c) PROVE RowsMove
  <2>. DEFINE v == [Server EXCEPT !.cfg = c, !.by = 0]
  <2>1. v \in Version /\ v.by = 0
    BY NewVersion, OpNumbers
  <2>2. foreign' = foreign + 1 /\ UNCHANGED <<state, target, wire, guard>> /\ Gains(v)
    BY <1>3, <2>1, PublishGains DEF Compete
  <2>3. OthersWrite(v)
    BY <2>1, <2>2 DEF OthersWrite
  <2>4. QED
    BY <2>1, <2>2, <2>3 DEF RowsMove, Guarded, SameTarget
<1>4. QED
  BY <1>1, <1>2, <1>3, ExecuteRows DEF Pod

LEMMA StepRows ==
  ASSUME TypeOK, Ledger, NoRpcError, [Next]_vars PROVE RowsMove
<1>. USE DEF journalVars, rowVars, sessionVars, wireVars
<1>1. ASSUME NEW o \in Op, Recover(o) PROVE RowsMove
  BY <1>1, SameRows DEF Recover
<1>2. CASE Quiesce \/ Start \/ Connect \/ UNCHANGED vars
  BY <1>2, SameRows DEF Quiesce, Start, Connect, vars
<1>3. CASE Stop \/ Disconnect
  BY <1>3, LostRows DEF Stop, Die, Disconnect
<1>4. QED
  BY <1>1, <1>2, <1>3, ClientRows, CoroutineRows, RefreshRows, PodRows DEF Next

-----------------------------------------------------------------------------
(***************************************************************************)
(* Versions stay signed.                                                   *)
(***************************************************************************)

LEMMA StepSigned ==
  ASSUME TypeOK, Ledger, Signed, OneMoves, RowsMove PROVE Signed'
<1>. SUFFICES ASSUME NEW i \in DOMAIN rows', NEW o \in Op, rows'[i].by = o
              PROVE  wire'[o] = "committed" /\ rows'[i].cfg = target'[o]
  BY DEF Signed
<1>1. wire[o] = "committed" => wire'[o] = "committed" /\ target'[o] = target[o]
  <2>1. wire[o] = "committed" => state[o] # Absent
    BY DEF Ledger, AttemptFirst, Unsent, TypeOK, PodType
  <2>2. wire[o] = "committed" => wire'[o] = "committed"
    BY <2>1 DEF OneMoves, Moves, Steady, Enters, Declines, Claims, Sends, Reports,
                Lands, Judged, SameWrite
  <2>3. QED
    BY <2>1, <2>2 DEF RowsMove, SameTarget
<1>2. ASSUME NEW j \in DOMAIN rows, rows'[i] = rows[j]
      PROVE  wire'[o] = "committed" /\ rows'[i].cfg = target'[o]
  BY <1>1, <1>2 DEF Signed
<1>3. CASE Reads
  BY <1>2, <1>3 DEF Reads, Drains
<1>4. ASSUME NEW p \in Op, Writes(p)
      PROVE  wire'[o] = "committed" /\ rows'[i].cfg = target'[o]
  <2>. DEFINE v == [Server EXCEPT !.cfg = target[p], !.by = p]
  <2>1. v.by = p /\ v.cfg = target[p]
    BY NewVersion, OpNumbers DEF TypeOK, JournalType
  <2>2. target'[p] = target[p]
    <3>1. sends[p] # 0 /\ sends[p] \in Nat /\ attempts[p] \in Nat
      BY <1>4 DEF Writes, Ledger, AttemptFirst, TypeOK, PodType, JournalType
    <3>2. state[p] # Absent
      BY <3>1 DEF Ledger, AttemptFirst, Unsent
    <3>3. QED
      BY <3>2 DEF RowsMove, SameTarget
  <2>3. CASE rows'[i] = v
    BY <1>4, <2>1, <2>2, <2>3 DEF Writes
  <2>4. QED
    BY <1>2, <1>4, <2>3 DEF Writes, Gains
<1>5. ASSUME NEW v \in Version, OthersWrite(v)
      PROVE  wire'[o] = "committed" /\ rows'[i].cfg = target'[o]
  BY <1>2, <1>5, OpNumbers DEF OthersWrite, Gains
<1>6. QED
  BY <1>3, <1>4, <1>5 DEF RowsMove

-----------------------------------------------------------------------------
(***************************************************************************)
(* While nobody else has written, a step records no conflict, and takes an *)
(* operation for applied only if every row the session keeps is its own.   *)
(***************************************************************************)

Owning == {"CONFIG_COMMITTED", "OBSERVED_APPLIED", "TIMED_OUT"}

Wanted(o) == \A i \in DOMAIN rows : rows[i].cfg = target[o]

Fits ==
  /\ ~conflict' /\ \A o \in Op : state'[o] # "OWNERSHIP_CONFLICT"
  /\ \A o \in Op : state'[o] \in Owning /\ state[o] \notin Owning =>
       state[o] \in ACTIVE /\ Wanted(o)' /\ target'[o] = target[o]

\* From the version that has what an active operation wants, all have.
LEMMA WantedOn ==
  ASSUME TypeOK, Serial, RowsFollow, NEW o \in Op,
         state[o] = "REQUESTED" \/ Unresolved(o),
         NEW k \in DOMAIN rows, rows[k].cfg = target[o],
         Advance(k), target'[o] = target[o]
  PROVE  Wanted(o)'
<1>1. \A p \in Op : Unresolved(p) => p = o
  BY SerialIsSole DEF OneActive, Unresolved, ACTIVE
<1>2. \A j \in DOMAIN rows : k <= j => rows[j].cfg = target[o]
  <2>1. CASE Unresolved(o) /\ wire[o] = "committed"
    BY <2>1 DEF RowsFollow
  <2>2. CASE ~(Unresolved(o) /\ wire[o] = "committed")
    BY <1>1, <2>2 DEF RowsFollow, Even
  <2>3. QED
    BY <2>1, <2>2
<1>3. \A i \in DOMAIN rows' :
        i + (k - 1) \in DOMAIN rows /\ rows'[i] = rows[i + (k - 1)]
  BY AdvanceDrains DEF TypeOK, PodType
<1>4. rows' \in Seq(Version)
  BY AdvanceType DEF TypeOK, PodType
<1>5. \A i \in DOMAIN rows' : k <= i + (k - 1)
  <2>1. \A i \in DOMAIN rows' : i \in Nat \ {0}
    BY <1>4, LenProperties
  <2>2. k \in Nat
    BY LenProperties DEF TypeOK, PodType
  <2>3. QED
    BY <2>1, <2>2
<1>6. QED
  BY <1>2, <1>3, <1>5 DEF Wanted

LEMMA NoDrift ==
  ASSUME RowsFollow, NEW o \in Op, Current(o), NEW k \in DOMAIN rows
  PROVE  ~Drifted(o, rows[k])
<1>1. state[o] \in Owning => Latest(o)
  BY DEF Current, Latest, Owning, Superseding, Tracked
<1>2. QED
  BY <1>1 DEF Drifted, Owning, RowsFollow

LEMMA SameFits ==
  ASSUME NoConflict, UNCHANGED <<state, conflict>> PROVE Fits
BY DEF NoConflict, Fits

\* A step that takes nothing for applied.
LEMMA OtherFits ==
  ASSUME NoConflict, UNCHANGED conflict,
         NEW o \in Op, \A p \in Op \ {o} : state'[p] = state[p],
         state'[o] \notin Owning \cup {"OWNERSHIP_CONFLICT"}
  PROVE  Fits
BY DEF NoConflict, Fits

\* A step that takes one operation for applied.
LEMMA AppliedFits ==
  ASSUME NoConflict, UNCHANGED <<conflict, target>>,
         NEW o \in Op, \A p \in Op \ {o} : state'[p] = state[p],
         state'[o] \in Owning, state[o] \in ACTIVE, Wanted(o)'
  PROVE  Fits
BY DEF NoConflict, Fits, Owning

LEMMA ClientFits ==
  ASSUME TypeOK, NoConflict, NEW o \in Op, Client(o) PROVE Fits
<1>. USE DEF TypeOK, JournalType, journalVars, Owning
<1>1. ASSUME NEW v \in Value, Request(o, v) \/ RequestCut(o, v) PROVE Fits
  BY <1>1, OtherFits DEF Request, RequestCut, Inserts
<1>2. CASE Retry(o)
  BY <1>2, SameFits DEF Retry
<1>3. CASE Cancel(o)
  BY <1>3, OtherFits DEF Cancel
<1>4. QED
  BY <1>1, <1>2, <1>3 DEF Client

LEMMA CoroutineFits ==
  ASSUME TypeOK, Ledger, Serial, Signed, NoConflict, GuardsHold, RowsFollow,
         NoRpcError, NEW o \in Op, Coroutine(o)
  PROVE  Fits
<1>. USE DEF TypeOK, JournalType, journalVars, rowVars, Finish, Settles, Owning
<1>1. CASE Begin(o)
  BY <1>1, SameFits, OtherFits DEF Begin
<1>2. CASE PlanRefused(o) \/ PlanStuck(o) \/ PlanSubmit(o) \/ PlanCut(o)
  BY <1>2, OtherFits DEF PlanRefused, PlanStuck, PlanSubmit, PlanCut, Planned
<1>3. CASE PlanLost(o) \/ PlanWithdrawn(o) \/ Send(o)
  BY <1>3, SameFits DEF PlanLost, PlanWithdrawn, Planned, Send
<1>4. CASE PlanNoop(o)
  <2>1. PICK k \in DOMAIN rows : Planned(o, k) /\ rows[k].cfg = target[o]
    BY <1>4 DEF PlanNoop
  <2>2. Wanted(o)'
    BY <1>4, <2>1, WantedOn DEF PlanNoop, Planned
  <2>3. QED
    BY <1>4, <2>1, <2>2, AppliedFits DEF PlanNoop, Planned, ACTIVE
<1>5. CASE SubmitUnsure(o) \/ SubmitUnready(o)
  BY <1>5, OtherFits DEF SubmitUnsure, SubmitUnready
<1>6. CASE AnswerAborted(o) \/ AnswerLost(o) \/ AnswerUnclear(o) \/ AnswerOverflow(o)
  BY <1>6, OtherFits DEF AnswerAborted, AnswerLost, AnswerUnclear, AnswerOverflow
<1>7. CASE AnswerCommitted(o)
  <2>1. PICK k \in DOMAIN rows : Advance(k) /\ \E j \in 1..k : rows[j].by = o
    BY <1>7 DEF AnswerCommitted
  <2>2. Unresolved(o) /\ wire[o] = "committed"
    BY <1>7 DEF AnswerCommitted, Ledger, OneCoroutine, Unresolved
  <2>3. PICK j \in 1..k : rows[j].by = o
    BY <2>1
  <2>4. j \in DOMAIN rows /\ j <= k
    BY LenProperties DEF PodType
  <2>5. rows[k].cfg = target[o]
    BY <2>2, <2>3, <2>4 DEF Signed, RowsFollow
  <2>6. Wanted(o)'
    BY <1>7, <2>1, <2>2, <2>5, WantedOn DEF AnswerCommitted
  <2>7. QED
    BY <1>7, <2>2, <2>6, AppliedFits DEF AnswerCommitted, ACTIVE, Unresolved
<1>8. CASE AnswerRefused(o) \/ AnswerRefusedCut(o)
  BY <1>8 DEF AnswerRefused, AnswerRefusedCut, Ledger, OneCoroutine, GuardsHold,
              Unresolved
<1>9. CASE SubmitMisread(o)
  BY <1>9 DEF SubmitMisread, NoRpcError
<1>10. QED
  BY <1>1, <1>2, <1>3, <1>4, <1>5, <1>6, <1>7, <1>8, <1>9
     DEF Coroutine, Plan, Submit, Answer

\* What reconciliation makes of a row: no drift, so an answer or a deadline.
LEMMA RefreshFits ==
  ASSUME TypeOK, Serial, NoConflict, RowsFollow, Refresh PROVE Fits
<1>. USE DEF TypeOK, JournalType, journalVars, rowVars
<1>1. ASSUME NEW o \in Op, JudgeDeadline(o) PROVE Fits
  BY <1>1 DEF JudgeDeadline, AfterDeadline, NoConflict, Fits, Owning
<1>2. ASSUME NEW o \in Op, NEW k \in DOMAIN rows, Advance(k), Current(o),
             Judge(o, rows[k])
      PROVE  Fits
  <2>1. ~Drifted(o, rows[k])
    BY <1>2, NoDrift
  <2>2. /\ conflict' = conflict /\ target' = target
        /\ \A p \in Op \ {o} : state'[p] = state[p]
    BY <1>2, <2>1 DEF Judge
  <2>3. CASE state[o] = "INDETERMINATE" /\ state'[o] # state[o]
    <3>1. rows[k].cfg = target[o] /\ state'[o] = "OBSERVED_APPLIED"
      BY <1>2, <2>1, <2>3 DEF Judge, AfterDeadline, Applied
    <3>2. Wanted(o)'
      BY <1>2, <2>2, <2>3, <3>1, WantedOn DEF Unresolved
    <3>3. QED
      BY <2>2, <2>3, <3>1, <3>2, AppliedFits DEF Owning, ACTIVE
  <2>4. CASE state[o] # "INDETERMINATE" \/ state'[o] = state[o]
    <3>1. state'[o] = state[o] \/ (state[o] \in Owning /\ state'[o] \in Owning)
      BY <1>2, <2>1, <2>4 DEF Judge, AfterDeadline, Current, Tracked, Owning
    <3>2. QED
      BY <2>2, <3>1 DEF NoConflict, Fits, Owning
  <2>5. QED
    BY <2>3, <2>4
<1>3. CASE Observe
  BY <1>1, <1>2, <1>3, SameFits DEF Observe
<1>4. CASE ObserveBlind
  BY <1>1, <1>4 DEF ObserveBlind
<1>5. CASE ObserveCut
  BY <1>5, NoDrift DEF ObserveCut
<1>6. QED
  BY <1>3, <1>4, <1>5 DEF Refresh

LEMMA StepFits ==
  ASSUME TypeOK, Ledger, Serial, Signed, NoConflict, GuardsHold, RowsFollow,
         NoRpcError, [Next]_vars
  PROVE  Fits
<1>. USE DEF journalVars
<1>1. ASSUME NEW o \in Op, Recover(o) PROVE Fits
  BY <1>1, OtherFits DEF Recover, TypeOK, JournalType, Owning
<1>2. CASE Quiesce \/ Stop \/ Start \/ UNCHANGED vars
  BY <1>2, SameFits DEF Quiesce, Stop, Start, vars
<1>3. CASE Connect \/ Disconnect
  BY <1>3, SameFits DEF Connect, Disconnect
<1>4. CASE Pod
  BY <1>4, SameFits DEF Pod, Execute, Elapse, Manage, Compete
<1>5. QED
  BY <1>1, <1>2, <1>3, <1>4, ClientFits, CoroutineFits, RefreshFits DEF Next

-----------------------------------------------------------------------------
(***************************************************************************)
(* Calm is kept.                                                           *)
(***************************************************************************)

\* Where no operation is newly taken for applied, the newest owner was it before.
LEMMA LatestBefore ==
  ASSUME OneMoves, Fits, Untouched', NEW o \in Op, Latest(o)', state[o] \in Owning
  PROVE  Latest(o)
<1>. SUFFICES ASSUME NEW p \in Op, p > o
              PROVE  /\ state[p] \notin Tracked
                     /\ ~(state[p] = "SUBMITTED" /\ wire[p] = "committed")
  BY DEF Latest, Owning
<1>1. /\ state'[p] \notin Tracked
      /\ ~(state'[p] = "SUBMITTED" /\ wire'[p] = "committed")
      /\ state'[p] # "OWNERSHIP_CONFLICT"
      /\ state'[p] = "FAILED" => wire'[p] # "committed"
  BY DEF Latest, Fits, Untouched
<1>2. QED
  BY <1>1 DEF OneMoves, Moves, Steady, Enters, Declines, Claims, Sends, Reports,
              Lands, Judged, SameWrite, Tracked, Absent

\* A write becomes unresolved unsent, and is resolved by a verdict: it did not
\* happen and will not, or it is taken for applied.
LEMMA UnresolvedMoves ==
  ASSUME TypeOK, Ledger, OneMoves, Fits, Untouched', NEW o \in Op
  PROVE  /\ Unresolved(o)' /\ ~Unresolved(o) => wire[o] = "unsent"
         /\ Unresolved(o) /\ ~Unresolved(o)' /\ state'[o] \notin Owning =>
              wire'[o] \notin {"sent", "committed"}
<1>1. state[o] = "REQUESTED" => wire[o] = "unsent"
  BY DEF Ledger, AttemptFirst, Unsent, TypeOK, PodType
<1>2. Unresolved(o)' /\ ~Unresolved(o) => state[o] = "REQUESTED"
  BY DEF OneMoves, Moves, Steady, Enters, Declines, Claims, Sends, Reports, Lands,
         Judged, SameWrite, Unresolved
<1>3. Unresolved(o) /\ ~Unresolved(o)' /\ state'[o] \notin Owning =>
        state'[o] = "FAILED"
  <2>1. state'[o] # "OWNERSHIP_CONFLICT" /\ (Steady(o) \/ Moves(o))
    BY DEF Fits, OneMoves
  <2>2. QED
    BY <2>1 DEF Moves, Steady, Enters, Declines, Claims, Sends, Reports, Lands,
                Judged, Unresolved, Owning, Absent
<1>4. QED
  BY <1>1, <1>2, <1>3 DEF Untouched

\* What has been handed over belongs to an operation that keeps its target.
LEMMA SentKeepsTarget ==
  ASSUME TypeOK, Ledger, NEW o \in Op, wire[o] # "unsent", SameTarget(o)
  PROVE  state[o] # Absent /\ target'[o] = target[o]
<1>1. sends[o] # 0 /\ sends[o] \in Nat /\ attempts[o] \in Nat
  BY DEF Ledger, AttemptFirst, TypeOK, PodType, JournalType
<1>2. state[o] # Absent
  BY <1>1 DEF Ledger, AttemptFirst, Unsent
<1>3. QED
  BY <1>2 DEF SameTarget

\* Of two operations one was inserted first.
LEMMA OrderedOps == \A o, p \in Op : o # p => o < p \/ p < o
BY DEF Op

\* Nobody writes, and an operation is taken for applied.
LEMMA ReadsTakenFollow ==
  ASSUME TypeOK, TypeOK', Ledger, Serial, GuardsHold, RowsFollow, OneMoves, Fits,
         Reads, \A p \in Op : Guarded(p) /\ SameTarget(p),
         NEW o \in Op, state'[o] \in Owning, state[o] \notin Owning
  PROVE  GuardsHold' /\ RowsFollow'
<1>1. state[o] \in ACTIVE /\ Wanted(o)' /\ target'[o] = target[o]
  BY DEF Fits
<1>2. \A p \in Op \ {o} : Steady(p) /\ state[p] \notin ACTIVE
  BY <1>1, SerialIsSole DEF OneMoves, Steady, OneActive
<1>3. \A p \in Op : ~Unresolved(p)' /\ (Unresolved(p) => p = o)
  BY <1>2 DEF Unresolved, ACTIVE, Steady, Owning
<1>4. ASSUME NEW p \in Op, wire'[p] = "sent" PROVE guard'[p] = target'[p]
  <2>1. wire[p] = "sent" /\ guard'[p] = guard[p]
    BY <1>3, <1>4 DEF Guarded, Unresolved, OneMoves, Moves, Steady, Enters,
                      Declines, Claims, Sends, Reports, Lands, Judged, SameWrite
  <2>2. guard[p] = IF Unresolved(p) THEN Server.cfg ELSE target[p]
    BY <2>1 DEF GuardsHold
  <2>3. Server.cfg = target[o]
    BY <1>1, ServerStays DEF Reads, Drains, Wanted, TypeOK, PodType
  <2>4. target'[p] = target[p]
    BY <2>1, SentKeepsTarget
  <2>5. QED
    BY <1>3, <2>1, <2>2, <2>3, <2>4
<1>5. GuardsHold'
  BY <1>3, <1>4 DEF GuardsHold
<1>6. Even'
  BY <1>1 DEF Even, Wanted
<1>7. ASSUME NEW p \in Op, Latest(p)' PROVE p = o
  BY <1>1, <1>2, <1>7, OrderedOps
     DEF Latest, Serial, Steady, Owning, Tracked, ACTIVE, Absent
<1>8. RowsFollow'
  BY <1>1, <1>3, <1>6, <1>7 DEF RowsFollow, Wanted
<1>9. QED
  BY <1>5, <1>8

\* Nobody writes, and no operation is newly taken for applied.
LEMMA ReadsSameFollow ==
  ASSUME TypeOK, TypeOK', Ledger, Serial, GuardsHold, RowsFollow, OneMoves, Fits,
         Untouched', Reads, \A p \in Op : Guarded(p) /\ SameTarget(p),
         \A o \in Op : state'[o] \in Owning => state[o] \in Owning
  PROVE  GuardsHold' /\ RowsFollow'
<1>1. Server' = Server /\ \E i \in DOMAIN rows : Server = rows[i]
  BY ServerInRows DEF Reads, Drains, TypeOK, PodType
<1>2. PICK m \in Nat : \A i \in DOMAIN rows' :
                          i + m \in DOMAIN rows /\ rows'[i] = rows[i + m]
  BY DEF Reads, Drains
<1>3. \A p \in Op : wire[p] # "unsent" => target'[p] = target[p]
  BY SentKeepsTarget
<1>4. ASSUME NEW p \in Op, Unresolved(p), ~Unresolved(p)'
      PROVE  wire'[p] \notin {"sent", "committed"}
  BY <1>4, UnresolvedMoves DEF Unresolved, Owning
<1>5. ASSUME NEW p \in Op, Unresolved(p)', ~Unresolved(p) PROVE wire[p] = "unsent"
  BY <1>5, UnresolvedMoves
<1>6. (\A p \in Op : Unresolved(p)' => wire'[p] # "committed") => Even'
  <2>. SUFFICES ASSUME \A p \in Op : Unresolved(p)' => wire'[p] # "committed"
                PROVE  Even'
    OBVIOUS
  <2>1. ASSUME NEW p \in Op, Unresolved(p) PROVE wire[p] # "committed"
    <3>1. wire'[p] # "committed"
      BY <1>4, <2>1
    <3>2. QED
      BY <2>1, <3>1 DEF OneMoves, Moves, Steady, Enters, Declines, Claims, Sends,
                        Reports, Lands, Judged, SameWrite
  <2>2. QED
    BY <1>2, <2>1 DEF RowsFollow, Even
<1>7. ASSUME NEW p \in Op, Unresolved(p)' PROVE wire'[p] # "refused"
  BY <1>5, <1>7, <1>1 DEF GuardsHold, Guarded
<1>8. ASSUME NEW p \in Op, wire'[p] = "sent"
      PROVE  guard'[p] = IF Unresolved(p)' THEN Server'.cfg ELSE target'[p]
  <2>1. CASE wire[p] = "sent"
    <3>1. guard'[p] = guard[p] /\ target'[p] = target[p]
      BY <1>3, <1>8, <2>1 DEF Guarded
    <3>2. Unresolved(p)' = Unresolved(p)
      BY <1>4, <1>5, <1>8, <2>1 DEF Unresolved
    <3>3. QED
      BY <1>1, <2>1, <3>1, <3>2 DEF GuardsHold
  <2>2. CASE wire[p] # "sent"
    <3>1. /\ wire[p] = "unsent" /\ state[p] = "SUBMITTED"
          /\ \E i \in DOMAIN rows : guard'[p] = rows[i].cfg
      BY <1>8, <2>2 DEF Guarded
    <3>2. Even
      BY <3>1, SerialIsSole DEF OneActive, Unresolved, ACTIVE, RowsFollow
    <3>3. state'[p] = "SUBMITTED"
      BY <1>8, <3>1 DEF OneMoves, Moves, Steady, Enters, Declines, Claims, Sends,
                        Reports, Lands, Judged, SameWrite
    <3>4. QED
      BY <1>1, <3>1, <3>2, <3>3 DEF Even, Unresolved
  <2>3. QED
    BY <2>1, <2>2
<1>9. ASSUME NEW p \in Op, Unresolved(p)', wire'[p] = "committed"
      PROVE  /\ Server'.cfg = target'[p]
             /\ \A i, j \in DOMAIN rows' :
                  i <= j /\ rows'[i].cfg = target'[p] => rows'[j].cfg = target'[p]
  <2>1. wire[p] = "committed"
    BY <1>9 DEF Reads
  <2>2. Unresolved(p) /\ target'[p] = target[p]
    BY <1>3, <1>5, <1>9, <2>1
  <2>3. \A i, j \in DOMAIN rows' : i <= j => i + m <= j + m
    BY LenProperties DEF TypeOK, PodType
  <2>4. QED
    BY <1>1, <1>2, <2>1, <2>2, <2>3 DEF RowsFollow
<1>10. ASSUME NEW p \in Op, Latest(p)' PROVE Wanted(p)'
  <2>1. state[p] \in Owning
    BY <1>10 DEF Latest, Owning
  <2>2. Latest(p) /\ target'[p] = target[p]
    BY <1>10, <2>1, LatestBefore DEF SameTarget, Owning, Absent
  <2>3. QED
    BY <1>2, <2>2 DEF RowsFollow, Wanted
<1>11. QED
  BY <1>6, <1>7, <1>8, <1>9, <1>10 DEF GuardsHold, RowsFollow, Wanted

\* A version with the configuration the pod has changes nothing here.
LEMMA EqualFollow ==
  ASSUME TypeOK, TypeOK', GuardsHold, RowsFollow, NEW v, Gains(v), v.cfg = Server.cfg,
         UNCHANGED <<state, target>>,
         \A o \in Op : wire'[o] = "sent" => wire[o] = "sent" /\ guard'[o] = guard[o],
         \A o \in Op : Unresolved(o) => wire'[o] = wire[o]
  PROVE  GuardsHold' /\ RowsFollow'
<1>1. \A o \in Op : Unresolved(o)' = Unresolved(o)
  BY DEF Unresolved
<1>2. Server'.cfg = Server.cfg
  BY DEF Gains
<1>3. PICK n \in DOMAIN rows : Server = rows[n]
  BY ServerInRows DEF TypeOK, PodType
<1>4. GuardsHold'
  BY <1>1, <1>2 DEF GuardsHold
<1>5. \A i \in DOMAIN rows' : \/ rows'[i].cfg = Server.cfg
                              \/ i \in DOMAIN rows /\ rows'[i] = rows[i]
  BY DEF Gains
<1>6. (\A o \in Op : Unresolved(o)' => wire'[o] # "committed") => Even'
  BY <1>1, <1>3, <1>5 DEF RowsFollow, Even
<1>7. ASSUME NEW o \in Op, Unresolved(o)', wire'[o] = "committed"
      PROVE  /\ Server'.cfg = target'[o]
             /\ \A i, j \in DOMAIN rows' :
                  i <= j /\ rows'[i].cfg = target'[o] => rows'[j].cfg = target'[o]
  <2>1. Unresolved(o) /\ wire[o] = "committed" /\ Server.cfg = target[o]
    BY <1>1, <1>7 DEF RowsFollow
  <2>2. ASSUME NEW i \in DOMAIN rows', NEW j \in DOMAIN rows', i < j
        PROVE  i \in DOMAIN rows /\ rows'[i] = rows[i]
    BY <2>2 DEF Gains
  <2>3. \A i, j \in DOMAIN rows' : i <= j => i < j \/ i = j
    BY RowNumbers DEF TypeOK, PodType
  <2>4. QED
    BY <1>2, <1>5, <2>1, <2>2, <2>3 DEF RowsFollow
<1>8. ASSUME NEW o \in Op, Latest(o)' PROVE Wanted(o)'
  <2>1. Latest(o)
    BY <1>8 DEF Latest, Unresolved
  <2>2. QED
    BY <1>3, <1>5, <2>1 DEF RowsFollow, Wanted
<1>9. QED
  BY <1>4, <1>6, <1>7, <1>8 DEF RowsFollow, Wanted

\* A request runs at the server.
LEMMA WritesFollow ==
  ASSUME TypeOK, TypeOK', Ledger, Serial, GuardsHold, RowsFollow, OneMoves,
         \A p \in Op : Guarded(p) /\ SameTarget(p), NEW o \in Op, Writes(o)
  PROVE  GuardsHold' /\ RowsFollow'
<1>. DEFINE v == [Server EXCEPT !.cfg = target[o], !.by = o]
<1>1. v.cfg = target[o] /\ Gains(v)
  <2>1. Gains(v)
    BY DEF Writes
  <2>2. target[o] \in Value \cup {None} /\ o \in 0..MaxOperations
    BY OpNumbers DEF TypeOK, JournalType
  <2>3. QED
    BY <2>1, <2>2, NewVersion
<1>2. \A p \in Op \ {o} : wire'[p] = wire[p]
  BY DEF Writes, OneMoves, Moves, Steady, Enters, Declines, Claims, Sends,
         Reports, Lands, Judged, SameWrite
<1>3. \A p \in Op : wire'[p] = "sent" => wire[p] = "sent" /\ guard'[p] = guard[p]
  BY <1>2 DEF Writes, Guarded
<1>4. CASE ~Unresolved(o)
  <2>1. v.cfg = Server.cfg
    BY <1>1, <1>4 DEF GuardsHold, Writes
  <2>2. \A p \in Op : Unresolved(p) => wire'[p] = wire[p]
    BY <1>2, <1>4
  <2>3. QED
    BY <1>1, <1>3, <2>1, <2>2, EqualFollow DEF Writes
<1>5. CASE Unresolved(o)
  <2>1. \A p \in Op : Unresolved(p)' => p = o
    BY <1>5, SerialIsSole DEF OneActive, Unresolved, ACTIVE, Writes
  <2>2. Even
    BY <2>1 DEF RowsFollow, Writes, Unresolved
  <2>3. Server'.cfg = target'[o]
    BY <1>1 DEF Gains, Writes
  <2>4. GuardsHold'
    BY <1>3, <2>1 DEF GuardsHold, Writes, Unresolved
  <2>5. ASSUME NEW i \in DOMAIN rows', NEW j \in DOMAIN rows',
               i <= j, rows'[i].cfg = target'[o]
        PROVE  rows'[j].cfg = target'[o]
    <3>1. i < j \/ i = j
      BY <2>5, RowNumbers DEF TypeOK, PodType
    <3>2. CASE rows'[j] = v
      BY <1>1, <3>2 DEF Writes
    <3>3. CASE i < j /\ rows'[j] # v
      <4>1. /\ i \in DOMAIN rows /\ rows'[i] = rows[i]
            /\ j \in DOMAIN rows /\ rows'[j] = rows[j]
        BY <1>1, <3>3 DEF Gains
      <4>2. QED
        BY <2>2, <2>5, <4>1 DEF Even
    <3>4. QED
      BY <2>5, <3>1, <3>2, <3>3
  <2>6. ASSUME NEW p \in Op, Latest(p)' PROVE FALSE
    <3>1. p # o
      BY <1>5, <2>6 DEF Latest, Unresolved, Writes
    <3>2. o > p => FALSE
      BY <1>5, <2>6 DEF Latest, Unresolved, Writes, Tracked
    <3>3. p > o => FALSE
      BY <1>5, <2>6 DEF Serial, Latest, Unresolved, Writes, ACTIVE, Absent
    <3>4. QED
      BY <3>1, <3>2, <3>3, OrderedOps
  <2>7. ~(\A p \in Op : Unresolved(p)' => wire'[p] # "committed")
    BY <1>5 DEF Writes, Unresolved
  <2>8. QED
    BY <2>1, <2>3, <2>4, <2>5, <2>6, <2>7 DEF RowsFollow
<1>6. QED
  BY <1>4, <1>5

\* While nobody else writes, the rows follow the operations.
LEMMA StepCalm ==
  ASSUME TypeOK, TypeOK', Ledger, Serial, Untouched, Untouched', Calm, NoRpcError,
         [Next]_vars
  PROVE  Calm'
<1>1. OneMoves /\ RowsMove
  BY StepMoves, StepRows
<1>2. Signed'
  BY <1>1, StepSigned DEF Calm
<1>3. foreign' = 0 => foreign = 0
  BY <1>1 DEF RowsMove, Reads, Writes, OthersWrite
<1>4. ASSUME foreign' = 0 PROVE NoConflict' /\ GuardsHold' /\ RowsFollow'
  <2>1. NoConflict /\ GuardsHold /\ RowsFollow /\ Signed
    BY <1>3, <1>4 DEF Calm
  <2>2. Fits
    BY <2>1, StepFits
  <2>3. NoConflict'
    BY <2>2 DEF Fits, NoConflict
  <2>4. \A p \in Op : Guarded(p) /\ SameTarget(p)
    BY <1>1 DEF RowsMove
  <2>5. CASE Reads
    BY <1>1, <2>1, <2>2, <2>3, <2>4, <2>5, ReadsTakenFollow, ReadsSameFollow
  <2>6. ASSUME NEW o \in Op, Writes(o) PROVE GuardsHold' /\ RowsFollow'
    BY <1>1, <2>1, <2>4, <2>6, WritesFollow
  <2>7. ASSUME NEW v \in Version, OthersWrite(v) PROVE GuardsHold' /\ RowsFollow'
    <3>1. v.cfg = Server.cfg
      BY <1>3, <1>4, <2>7 DEF OthersWrite
    <3>2. QED
      BY <2>1, <2>7, <3>1, EqualFollow DEF OthersWrite
  <2>8. QED
    BY <1>1, <2>3, <2>5, <2>6, <2>7 DEF RowsMove
<1>5. QED
  BY <1>2, <1>4 DEF Calm

LEMMA InitCalm == ASSUME Init PROVE Calm
<1>1. PICK v \in Value, s \in Value \cup {None} :
        rows = <<[cfg |-> v, st |-> s, by |-> 0]>>
  BY DEF Init
<1>2. DOMAIN rows = {1} /\ rows[1].by = 0
  BY <1>1
<1>3. /\ \A o \in Op : state[o] = Absent /\ wire[o] = "unsent"
      /\ ~conflict
  BY DEF Init
<1>4. QED
  BY <1>2, <1>3, OpNumbers
     DEF Calm, Signed, NoConflict, GuardsHold, RowsFollow, Even, Latest, Unresolved,
         Absent

\* Only somebody else's write makes the adapter record a conflict: its own writes,
\* early, late, unacknowledged or drained late, never look like another's (the
\* guard of submit, the drift of reconcile).
THEOREM OnlyOthersConflict ==
  ASSUME NoCut, NoOverflow, NoRpcError PROVE Spec => []ConflictHasCause
<1>1. /\ TypeOK /\ TypeOK' /\ Ledger /\ Serial /\ Untouched /\ Untouched' /\ Calm
      /\ [Next]_vars
      => Calm'
  BY StepCalm
<1>2. TypeOK /\ Calm => ConflictHasCause
  BY DEF Calm, NoConflict, ConflictHasCause, TypeOK, PodType
<1>3. QED
  BY InitCalm, TypeCorrect, LedgerHolds, SerialHolds, UntouchedHolds, <1>1, <1>2, PTL
     DEF Spec
=============================================================================
