--------------------------- MODULE PipelineProofs ---------------------------
(***************************************************************************)
(* Theorems about Pipeline, for every set of applications and requests:    *)
(* what a request in flight relies on; what the requests leave behind and  *)
(* answer; and that what they commit is a behaviour of Lifecycle.          *)
(***************************************************************************)
EXTENDS Pipeline, TLAPS

USE NullAssumption, RequestsAssumption, RepliesAssumption

-----------------------------------------------------------------------------
(***************************************************************************)
(* What the requests may rely on, whoever else takes locks: InFlight        *)
(* without the part that every lock is a request's.                        *)
(***************************************************************************)
LocksAreTaken == \A r \in Requests : pc[r] \in HasLock => lock[call[r].app] = r

RequestsSafe == SeenIsLegal /\ LocksAreTaken /\ GuardStillHolds /\ WritesSoFar

LEMMA FlightIsEnough == InFlight => RequestsSafe
BY DEF InFlight, RequestsSafe, LocksAreHeld, LocksAreTaken

-----------------------------------------------------------------------------
(***************************************************************************)
(* What a request's rows look like.                                        *)
(***************************************************************************)

\* An override jumps over two stages at most, whichever way it goes.
LEMMA SkippedBound ==
  ASSUME NEW from \in PipelineStage, NEW to \in PipelineStage
  PROVE  stagesSkipped(from, to) \in 0 .. 2
BY DEF stagesSkipped, STAGE_ORDER, PipelineStage

\* The target of a request is a status for setOutcome and a stage otherwise.
LEMMA CallTypes ==
  ASSUME TypeOK, NEW r \in Requests
  PROVE  /\ call[r].app \in Apps
         /\ call[r].endpoint \in {"changeStage", "overrideStage", "setOutcome"}
         /\ isOutcome(r) => call[r].target \in {"HIRED", "REJECTED"}
         /\ ~isOutcome(r) => call[r].target \in PipelineStage
BY DEF TypeOK, Calls, isOutcome, PipelineStage

\* The rows a request inserts are rows of their tables.
LEMMA RowTypes ==
  ASSUME TypeOK, NEW r \in Requests, seen[r] \in PipelineStage
  PROVE  /\ HistoryOf(r) \in HistoryRow
         /\ AuditOf(r) \in AuditRow
         /\ ~isOutcome(r) => OverrideOf(r) \in OverrideRow
<1>1. /\ call[r].app \in Apps
      /\ call[r].endpoint \in {"changeStage", "overrideStage", "setOutcome"}
      /\ isOutcome(r) => call[r].target \in {"HIRED", "REJECTED"}
      /\ ~isOutcome(r) => call[r].target \in PipelineStage
  BY CallTypes
<1>2. HistoryOf(r) \in HistoryRow
  BY <1>1 DEF HistoryOf, HistoryRow, overrideIdOf, ApplicationStatus
<1>3. call[r].endpoint = "overrideStage" => stagesSkipped(seen[r], call[r].target) \in 0 .. 2
  BY <1>1, SkippedBound DEF isOutcome
<1>4. AuditOf(r) \in AuditRow
  BY <1>1, <1>3 DEF AuditOf, AuditRow, overrideIdOf, isOutcome, ApplicationStatus
<1>5. ~isOutcome(r) => OverrideOf(r) \in OverrideRow
  BY <1>1 DEF OverrideOf, OverrideRow
<1> QED BY <1>2, <1>4, <1>5

-----------------------------------------------------------------------------
(***************************************************************************)
(* Types.                                                                  *)
(***************************************************************************)

\* A buffer stays a buffer when a row of the right type is added to it.
LEMMA OverrideBuffered ==
  ASSUME NEW b \in Buffer, NEW o \in OverrideRow
  PROVE  [b EXCEPT !.override = @ \cup {o}] \in Buffer
<1>1. b.override \cup {o} \in SUBSET OverrideRow
  BY DEF Buffer
<1> QED BY <1>1 DEF Buffer

LEMMA HistoryBuffered ==
  ASSUME NEW b \in Buffer, NEW h \in HistoryRow
  PROVE  [b EXCEPT !.history = Append(@, h)] \in Buffer
<1>1. Append(b.history, h) \in Seq(HistoryRow)
  BY DEF Buffer
<1> QED BY <1>1 DEF Buffer

LEMMA AuditBuffered ==
  ASSUME NEW b \in Buffer, NEW l \in AuditRow
  PROVE  [b EXCEPT !.audit = Append(@, l)] \in Buffer
<1>1. Append(b.audit, l) \in Seq(AuditRow)
  BY DEF Buffer
<1> QED BY <1>1 DEF Buffer

\* What a COMMIT publishes is of the tables' types.
LEMMA CommitTypes ==
  ASSUME TypeOK, NEW t \in Transactions, NEW a \in Apps, Commit(t, a)
  PROVE  TablesTypeOK'
<1> USE DEF TypeOK, TablesTypeOK, Commit, EndTransaction
<1> buffer[t] \in Buffer
  OBVIOUS
<1>1. application' \in [Apps -> ApplicationRow \cup {Null}]
  BY DEF Buffer
<1>2. stageHistory' \in [Apps -> Seq(HistoryRow)]
  BY DEF Buffer
<1>3. stageOverride' \subseteq OverrideRow
  BY DEF Buffer
<1>4. auditLog' \in [Apps -> Seq(AuditRow)]
  BY DEF Buffer
<1>5. NoWrites \in Buffer
  BY DEF NoWrites, Buffer
<1>6. lock' \in [Apps -> Transactions \cup {Null}] /\ buffer' \in [Transactions -> Buffer]
  BY <1>5
<1> QED BY <1>1, <1>2, <1>3, <1>4, <1>6

\* Every step keeps the types, when the stage a request saw is one.
LEMMA TypeStep ==
  ASSUME TypeOK, SeenIsLegal, [Next]_vars
  PROVE  TypeOK'
<1> USE DEF TypeOK, Goto, Answer, Refuse, Proceed, Then, requestVars, tableVars, tables
<1>0. NoWrites \in Buffer
  BY DEF NoWrites, Buffer
<1>1. ASSUME NEW r \in Requests, Handle(r)
      PROVE  TypeOK'
  <2> call[r].app \in Apps /\ r \in Transactions
    BY CallTypes
  <2> buffer[r] \in Buffer
    BY DEF TablesTypeOK
  <2>1. CASE loadActiveApplication(r)
    BY <2>1 DEF loadActiveApplication, TablesTypeOK, Statements, Replies, Refusals
  <2>2. CASE changeStage(r) \/ overrideStage(r) \/ setOutcome(r)
    <3>1. isActive(call[r].app)
      BY <2>2 DEF changeStage, overrideStage, setOutcome, Loaded
    <3>2. application[call[r].app].currentStage \in PipelineStage
      BY <3>1 DEF isActive, TablesTypeOK, ApplicationRow
    <3> QED BY <2>2, <3>2 DEF changeStage, overrideStage, setOutcome, TablesTypeOK, Statements,
         InTransaction, Replies, Refusals
  <2>3. CASE InsertOverride(r)
    <3>1. OverrideOf(r) \in OverrideRow
      BY <2>3, RowTypes DEF InsertOverride, SeenIsLegal, InTransaction, isOutcome
    <3>2. [buffer[r] EXCEPT !.override = @ \cup {OverrideOf(r)}] \in Buffer
      BY <3>1, OverrideBuffered
    <3> QED BY <2>3, <3>2 DEF InsertOverride, insertOverride, TablesTypeOK, Statements, InTransaction
  <2>4. CASE Update(r)
    <3> DEFINE old == application[call[r].app]
    <3>0. old \in ApplicationRow
      BY <2>4 DEF Update, guardedOutcomeUpdate, guardedStageUpdate, outcomeGuard, stageGuard,
         isActive, TablesTypeOK
    <3>1. PICK row \in ApplicationRow : UpdateRow(r, call[r].app, row)
      <4>1. CASE isOutcome(r)
        <5>1. [old EXCEPT !.status = call[r].target] \in ApplicationRow
          BY <3>0, <4>1, CallTypes DEF ApplicationRow, ApplicationStatus
        <5> QED BY <2>4, <4>1, <5>1 DEF Update, guardedOutcomeUpdate
      <4>2. CASE ~isOutcome(r)
        <5>1. [old EXCEPT !.currentStage = call[r].target] \in ApplicationRow
          BY <3>0, <4>2, CallTypes DEF ApplicationRow
        <5> QED BY <2>4, <4>2, <5>1 DEF Update, guardedStageUpdate
      <4> QED BY <4>1, <4>2
    <3>2. [buffer[r] EXCEPT !.row = row] \in Buffer
      BY <3>1 DEF Buffer
    <3> QED BY <2>4, <3>1, <3>2 DEF Update, UpdateRow, TablesTypeOK, Statements, InTransaction
  <2>5. CASE LoseUpdate(r)
    BY <2>5, <1>0 DEF LoseUpdate, Rollback, EndTransaction, TablesTypeOK, Statements, Replies, Refusals
  <2>6. CASE InsertHistory(r)
    <3>1. HistoryOf(r) \in HistoryRow
      BY <2>6, RowTypes DEF InsertHistory, SeenIsLegal, InTransaction
    <3>2. [buffer[r] EXCEPT !.history = Append(@, HistoryOf(r))] \in Buffer
      BY <3>1, HistoryBuffered
    <3> QED BY <2>6, <3>2 DEF InsertHistory, insertHistory, TablesTypeOK, Statements, InTransaction
  <2>7. CASE RecordAudit(r)
    <3>1. AuditOf(r) \in AuditRow
      BY <2>7, RowTypes DEF RecordAudit, SeenIsLegal, InTransaction
    <3>2. [buffer[r] EXCEPT !.audit = Append(@, AuditOf(r))] \in Buffer
      BY <3>1, AuditBuffered
    <3> QED BY <2>7, <3>2 DEF RecordAudit, recordAudit, TablesTypeOK, Statements, InTransaction
  <2>8. CASE CommitRequest(r)
    BY <2>8, CommitTypes DEF CommitRequest, Statements
  <2>9. CASE Respond(r)
    BY <2>9 DEF Respond, TablesTypeOK, Statements, Replies
  <2> QED BY <1>1, <2>1, <2>2, <2>3, <2>4, <2>5, <2>6, <2>7, <2>8, <2>9 DEF Handle
<1>2. ASSUME NEW r \in Requests, Fail(r)
      PROVE  TypeOK'
  BY <1>0, <1>2 DEF Fail, Rollback, EndTransaction, TablesTypeOK, Statements, Replies
<1>3. ASSUME NEW a \in Apps, Apply(a)
      PROVE  TypeOK'
  <2>1. EntryRow \in HistoryRow
    BY DEF EntryRow, HistoryRow, PipelineStage, ApplicationStatus
  <2>2. [status |-> "ACTIVE", currentStage |-> "APPLIED"] \in ApplicationRow
    BY DEF ApplicationRow, PipelineStage, ApplicationStatus
  <2> QED BY <1>3, <2>1, <2>2 DEF Apply, createApplication, TablesTypeOK
<1>4. CASE UNCHANGED vars
  BY <1>4 DEF vars, TablesTypeOK
<1> QED BY <1>1, <1>2, <1>3, <1>4 DEF Next, Quiescent

-----------------------------------------------------------------------------
(***************************************************************************)
(* Requests in flight: InFlight is inductive.                              *)
(***************************************************************************)

\* The row a request's guarded update writes is a row, so it is not Null.
LEMMA RowOfType ==
  ASSUME TypeOK, NEW r \in Requests, application[call[r].app] # Null
  PROVE  RowOf(r) \in ApplicationRow /\ RowOf(r) # Null
<1> DEFINE old == application[call[r].app]
<1>1. old \in ApplicationRow
  BY CallTypes DEF TypeOK, TablesTypeOK
<1>2. CASE isOutcome(r)
  <2>1. [old EXCEPT !.status = call[r].target] \in ApplicationRow
    BY <1>1, <1>2, CallTypes DEF ApplicationRow, ApplicationStatus
  <2> QED BY <1>2, <2>1 DEF RowOf
<1>3. CASE ~isOutcome(r)
  <2>1. [old EXCEPT !.currentStage = call[r].target] \in ApplicationRow
    BY <1>1, <1>3, CallTypes DEF ApplicationRow
  <2> QED BY <1>3, <2>1 DEF RowOf
<1> QED BY <1>2, <1>3

\* What CommitRequest publishes, from what the buffer is known to hold.
LEMMA CommitEffect ==
  ASSUME TypeOK, RequestsSafe, NEW r \in Requests, CommitRequest(r)
  PROVE  /\ application' = [application EXCEPT ![call[r].app] = RowOf(r)]
         /\ stageHistory' = [stageHistory EXCEPT ![call[r].app] = Append(@, HistoryOf(r))]
         /\ auditLog' = [auditLog EXCEPT ![call[r].app] = Append(@, AuditOf(r))]
         /\ stageOverride' = stageOverride \cup
              (IF overrideIdOf(r) # Null THEN {OverrideOf(r)} ELSE {})
<1>1. pc[r] = "commit" /\ r \in Transactions /\ call[r].app \in Apps
  BY CallTypes DEF CommitRequest
<1>2. /\ buffer[r].row = RowOf(r)
      /\ buffer[r].override = IF overrideIdOf(r) # Null THEN {OverrideOf(r)} ELSE {}
      /\ buffer[r].history = <<HistoryOf(r)>>
      /\ buffer[r].audit = <<AuditOf(r)>>
  BY <1>1 DEF RequestsSafe, WritesSoFar, WritesOf, HasLock
<1>3. RowOf(r) # Null
  BY <1>1, RowOfType DEF RequestsSafe, SeenIsLegal, InTransaction
<1>4. /\ stageHistory[call[r].app] \in Seq(HistoryRow)
      /\ auditLog[call[r].app] \in Seq(AuditRow)
  BY <1>1 DEF TypeOK, TablesTypeOK
<1>5. /\ stageHistory[call[r].app] \o <<HistoryOf(r)>> = Append(stageHistory[call[r].app], HistoryOf(r))
      /\ auditLog[call[r].app] \o <<AuditOf(r)>> = Append(auditLog[call[r].app], AuditOf(r))
  BY <1>4
<1> QED BY <1>1, <1>2, <1>3, <1>5 DEF CommitRequest, Commit

\* Once there, an application's row stays.
LEMMA RowsStay ==
  ASSUME TypeOK, [Next]_vars, NEW a \in Apps, application[a] # Null
  PROVE  application'[a] # Null
<1>1. ASSUME NEW r \in Requests, CommitRequest(r)
      PROVE  application'[a] # Null
  BY <1>1 DEF CommitRequest, Commit, TypeOK, TablesTypeOK
<1>2. ASSUME NEW r \in Requests, Handle(r), ~CommitRequest(r)
      PROVE  UNCHANGED application
  BY <1>2 DEF Handle, loadActiveApplication, changeStage, overrideStage, setOutcome, Refuse, Proceed,
     InsertOverride, Update, LoseUpdate, InsertHistory, RecordAudit, Respond, Rollback, tables, tableVars
<1>3. ASSUME NEW r \in Requests, Fail(r)
      PROVE  UNCHANGED application
  BY <1>3 DEF Fail, Rollback, tables
<1>4. ASSUME NEW b \in Apps, Apply(b)
      PROVE  application'[a] = application[a]
  BY <1>4 DEF Apply, createApplication, TypeOK, TablesTypeOK
<1>5. CASE UNCHANGED vars
  BY <1>5 DEF vars, tableVars, tables
<1> QED BY <1>1, <1>2, <1>3, <1>4, <1>5 DEF Next, Quiescent

\* A request's step is its own: nobody else's place, memory or buffer changes.
LEMMA OthersUntouched ==
  ASSUME TypeOK, NEW r \in Requests, Handle(r) \/ Fail(r)
  PROVE  /\ call' = call
         /\ \A q \in Requests \ {r} : pc'[q] = pc[q] /\ seen'[q] = seen[q] /\ reply'[q] = reply[q]
         /\ \A t \in Transactions \ {r} : buffer'[t] = buffer[t]
<1> USE DEF TypeOK, TablesTypeOK, Goto, Answer, Refuse, Proceed, Then, tableVars
<1>1. CASE loadActiveApplication(r) \/ changeStage(r) \/ overrideStage(r) \/ setOutcome(r) \/ Respond(r)
  BY <1>1 DEF loadActiveApplication, changeStage, overrideStage, setOutcome, Respond
<1>2. CASE InsertOverride(r) \/ Update(r) \/ InsertHistory(r) \/ RecordAudit(r)
  BY <1>2 DEF InsertOverride, Update, InsertHistory, RecordAudit, insertOverride, guardedStageUpdate,
     guardedOutcomeUpdate, UpdateRow, insertHistory, recordAudit
<1>3. CASE LoseUpdate(r) \/ CommitRequest(r) \/ Fail(r)
  BY <1>3 DEF LoseUpdate, CommitRequest, Fail, Rollback, Commit, EndTransaction
<1> QED BY <1>1, <1>2, <1>3 DEF Handle

\* A step by r leaves r answered or at a statement it is entitled to be at.
LEMMA SeenStepOwn ==
  ASSUME TypeOK, SeenIsLegal, NEW r \in Requests, Handle(r) \/ Fail(r)
  PROVE  /\ pc'[r] \in InTransaction =>
              /\ seen'[r] \in PipelineStage /\ legal(r)'
              /\ application[call[r].app] # Null
              /\ pc'[r] = "override" => call[r].endpoint = "overrideStage"
         /\ pc'[r] = "done" <=> reply'[r] # Null
<1> USE DEF TypeOK, Goto, Answer, Refuse, Proceed, Then, InTransaction, Replies, Refusals
<1> call[r].app \in Apps
  BY CallTypes
<1>1. CASE loadActiveApplication(r)
  BY <1>1 DEF loadActiveApplication
<1>2. CASE changeStage(r) \/ overrideStage(r) \/ setOutcome(r)
  <2>1. isActive(call[r].app)
    BY <1>2 DEF changeStage, overrideStage, setOutcome, Loaded
  <2>2. application[call[r].app].currentStage \in PipelineStage
    BY <2>1 DEF isActive, TablesTypeOK, ApplicationRow
  <2> QED BY <1>2, <2>1, <2>2 DEF changeStage, overrideStage, setOutcome, Loaded, isActive, legal,
       stageMoveAllowed, overrideAllowed, outcomeAllowed, SeenIsLegal
<1>3. CASE InsertOverride(r) \/ Update(r) \/ InsertHistory(r) \/ RecordAudit(r)
  BY <1>3 DEF InsertOverride, Update, InsertHistory, RecordAudit, SeenIsLegal, legal
<1>4. CASE LoseUpdate(r) \/ CommitRequest(r) \/ Fail(r) \/ Respond(r)
  BY <1>4 DEF LoseUpdate, CommitRequest, Fail, Respond, SeenIsLegal
<1> QED BY <1>1, <1>2, <1>3, <1>4 DEF Handle

LEMMA SeenStep ==
  ASSUME TypeOK, SeenIsLegal, [Next]_vars
  PROVE  SeenIsLegal'
<1>1. ASSUME NEW r \in Requests, Handle(r) \/ Fail(r)
      PROVE  SeenIsLegal'
  <2>1. call' = call
    BY <1>1, OthersUntouched
  <2> SUFFICES ASSUME NEW q \in Requests
               PROVE  /\ pc'[q] \in InTransaction =>
                           /\ seen'[q] \in PipelineStage /\ legal(q)'
                           /\ application'[call[q].app] # Null
                           /\ pc'[q] = "override" => call[q].endpoint = "overrideStage"
                      /\ pc'[q] = "done" <=> reply'[q] # Null
    BY <2>1 DEF SeenIsLegal
  <2>2. call[q].app \in Apps
    BY CallTypes
  <2>3. application[call[q].app] # Null => application'[call[q].app] # Null
    BY <2>2, RowsStay
  <2>4. CASE q = r
    BY <1>1, <2>3, <2>4, SeenStepOwn
  <2>5. CASE q # r
    <3>1. pc'[q] = pc[q] /\ seen'[q] = seen[q] /\ reply'[q] = reply[q]
      BY <1>1, <2>5, OthersUntouched
    <3>2. legal(q)' = legal(q)
      BY <2>1, <3>1 DEF legal
    <3> QED BY <2>3, <3>1, <3>2 DEF SeenIsLegal
  <2> QED BY <2>4, <2>5
<1>2. ASSUME NEW a \in Apps, Apply(a)
      PROVE  SeenIsLegal'
  BY <1>2, RowsStay, CallTypes DEF Apply, requestVars, SeenIsLegal, legal
<1>3. CASE UNCHANGED vars
  BY <1>3 DEF vars, tableVars, tables, requestVars, SeenIsLegal, legal
<1> QED BY <1>1, <1>2, <1>3 DEF Next, Quiescent

\* A lock is taken by a guarded update, kept to the COMMIT, and given back by
\* whatever ends the transaction.
LEMMA LockStep ==
  ASSUME TypeOK, LocksAreHeld, [Next]_vars
  PROVE  LocksAreHeld'
<1> USE DEF LocksAreHeld, HasLock, tableVars
<1>1. ASSUME NEW r \in Requests, Handle(r) \/ Fail(r)
      PROVE  LocksAreHeld'
  <2>1. /\ call' = call
        /\ \A q \in Requests \ {r} : pc'[q] = pc[q]
    BY <1>1, OthersUntouched
  <2>2. /\ \A q \in Requests : call[q].app \in Apps /\ q # Null
        /\ pc \in [Requests -> Statements] /\ lock \in [Apps -> Transactions \cup {Null}]
    BY CallTypes DEF TypeOK, TablesTypeOK
  <2>3. CASE UNCHANGED lock /\ (pc'[r] \in HasLock <=> pc[r] \in HasLock)
    BY <2>1, <2>2, <2>3
  <2>4. CASE Update(r)
    <3>1. /\ lock[call[r].app] = Null
          /\ lock' = [lock EXCEPT ![call[r].app] = r]
          /\ pc'[r] = "history"
      BY <2>2, <2>4 DEF Update, guardedOutcomeUpdate, guardedStageUpdate, UpdateRow, Then, Goto
    <3> QED BY <2>1, <2>2, <3>1
  <2>5. CASE EndTransaction(r) /\ pc'[r] \notin HasLock
    BY <2>1, <2>2, <2>5 DEF EndTransaction
  <2>6. CASE loadActiveApplication(r) \/ changeStage(r) \/ overrideStage(r) \/ setOutcome(r) \/ Respond(r)
    <3>1. UNCHANGED lock /\ pc'[r] \notin HasLock /\ pc[r] \notin HasLock
      BY <2>2, <2>6 DEF loadActiveApplication, changeStage, overrideStage, setOutcome, Respond, Loaded,
         Refuse, Proceed, Answer, Goto
    <3> QED BY <2>3, <3>1
  <2>7. CASE InsertOverride(r) \/ InsertHistory(r) \/ RecordAudit(r)
    <3>1. UNCHANGED lock /\ (pc'[r] \in HasLock <=> pc[r] \in HasLock)
      BY <2>2, <2>7 DEF InsertOverride, InsertHistory, RecordAudit, Then, Goto
    <3> QED BY <2>3, <3>1
  <2>8. CASE LoseUpdate(r) \/ CommitRequest(r) \/ Fail(r)
    <3>1. EndTransaction(r)
      BY <2>8 DEF LoseUpdate, CommitRequest, Fail, Rollback, Commit
    <3>2. pc'[r] \in {"done", "respond"}
      BY <2>2, <2>8 DEF LoseUpdate, CommitRequest, Fail, Then, Answer, Goto
    <3> QED BY <2>5, <3>1, <3>2
  <2> QED BY <1>1, <2>4, <2>6, <2>7, <2>8 DEF Handle
<1>2. ASSUME NEW a \in Apps, Apply(a)
      PROVE  LocksAreHeld'
  BY <1>2 DEF Apply, createApplication, requestVars
<1>3. CASE UNCHANGED vars
  BY <1>3 DEF vars, requestVars
<1> QED BY <1>1, <1>2, <1>3 DEF Next, Quiescent

\* A lock is taken by a guarded update and kept to the COMMIT.
LEMMA TakenStep ==
  ASSUME TypeOK, LocksAreTaken, [Next]_vars
  PROVE  LocksAreTaken'
<1> USE DEF LocksAreTaken, HasLock, tableVars
<1>1. ASSUME NEW r \in Requests, Handle(r) \/ Fail(r)
      PROVE  LocksAreTaken'
  <2>1. /\ call' = call
        /\ \A q \in Requests \ {r} : pc'[q] = pc[q]
    BY <1>1, OthersUntouched
  <2>2. /\ \A q \in Requests : call[q].app \in Apps /\ q # Null
        /\ pc \in [Requests -> Statements] /\ lock \in [Apps -> Transactions \cup {Null}]
    BY CallTypes DEF TypeOK, TablesTypeOK
  <2>3. CASE UNCHANGED lock /\ (pc'[r] \in HasLock <=> pc[r] \in HasLock)
    BY <2>1, <2>2, <2>3
  <2>4. CASE Update(r)
    <3>1. /\ lock[call[r].app] = Null
          /\ lock' = [lock EXCEPT ![call[r].app] = r]
          /\ pc'[r] = "history"
      BY <2>2, <2>4 DEF Update, guardedOutcomeUpdate, guardedStageUpdate, UpdateRow, Then, Goto
    <3> QED BY <2>1, <2>2, <3>1
  <2>5. CASE EndTransaction(r) /\ pc'[r] \notin HasLock
    BY <2>1, <2>2, <2>5 DEF EndTransaction
  <2>6. CASE loadActiveApplication(r) \/ changeStage(r) \/ overrideStage(r) \/ setOutcome(r) \/ Respond(r)
    <3>1. UNCHANGED lock /\ pc'[r] \notin HasLock /\ pc[r] \notin HasLock
      BY <2>2, <2>6 DEF loadActiveApplication, changeStage, overrideStage, setOutcome, Respond, Loaded,
         Refuse, Proceed, Answer, Goto
    <3> QED BY <2>3, <3>1
  <2>7. CASE InsertOverride(r) \/ InsertHistory(r) \/ RecordAudit(r)
    <3>1. UNCHANGED lock /\ (pc'[r] \in HasLock <=> pc[r] \in HasLock)
      BY <2>2, <2>7 DEF InsertOverride, InsertHistory, RecordAudit, Then, Goto
    <3> QED BY <2>3, <3>1
  <2>8. CASE LoseUpdate(r) \/ CommitRequest(r) \/ Fail(r)
    <3>1. EndTransaction(r)
      BY <2>8 DEF LoseUpdate, CommitRequest, Fail, Rollback, Commit
    <3>2. pc'[r] \in {"done", "respond"}
      BY <2>2, <2>8 DEF LoseUpdate, CommitRequest, Fail, Then, Answer, Goto
    <3> QED BY <2>5, <3>1, <3>2
  <2> QED BY <1>1, <2>4, <2>6, <2>7, <2>8 DEF Handle
<1>2. ASSUME NEW a \in Apps, Apply(a)
      PROVE  LocksAreTaken'
  BY <1>2 DEF Apply, createApplication, requestVars
<1>3. CASE UNCHANGED vars
  BY <1>3 DEF vars, requestVars
<1> QED BY <1>1, <1>2, <1>3 DEF Next, Quiescent

\* Only the request that holds its lock changes an application's row.
LEMMA RowChanges ==
  ASSUME TypeOK, LocksAreTaken, [Next]_vars, NEW a \in Apps, application[a] # Null,
         application'[a] # application[a]
  PROVE  \E r \in Requests : CommitRequest(r) /\ call[r].app = a /\ lock[a] = r
<1>1. ASSUME NEW r \in Requests, CommitRequest(r)
      PROVE  call[r].app = a /\ lock[a] = r
  BY <1>1, CallTypes DEF CommitRequest, Commit, TypeOK, TablesTypeOK, LocksAreTaken, HasLock
<1>2. ASSUME NEW r \in Requests, Handle(r) \/ Fail(r), ~CommitRequest(r)
      PROVE  FALSE
  BY <1>2 DEF Handle, loadActiveApplication, changeStage, overrideStage, setOutcome, Refuse, Proceed,
     InsertOverride, Update, LoseUpdate, InsertHistory, RecordAudit, Respond, Fail, Rollback, tables,
     tableVars
<1>3. ASSUME NEW b \in Apps, Apply(b)
      PROVE  FALSE
  BY <1>3 DEF Apply, createApplication, TypeOK, TablesTypeOK
<1>4. ~UNCHANGED vars
  BY DEF vars, tableVars, tables
<1> QED BY <1>1, <1>2, <1>3, <1>4 DEF Next, Quiescent

\* A guard that held under the lock still holds: nobody else can have committed.
LEMMA GuardStep ==
  ASSUME TypeOK, SeenIsLegal, LocksAreTaken, GuardStillHolds, [Next]_vars
  PROVE  GuardStillHolds'
<1> SUFFICES ASSUME NEW q \in Requests, pc'[q] \in HasLock
             PROVE  updateGuard(q)'
  BY DEF GuardStillHolds
<1>1. call' = call /\ call[q].app \in Apps /\ lock'[call[q].app] = q
  BY TakenStep, CallTypes, OthersUntouched DEF Next, Quiescent, Apply, vars, requestVars, LocksAreTaken
<1>2. pc[q] \in HasLock \/ Update(q)
  <2>1. ASSUME NEW r \in Requests, Handle(r) \/ Fail(r), pc[q] \notin HasLock
        PROVE  Update(q)
    <3>1. q = r
      BY <2>1, OthersUntouched
    <3>2. pc \in [Requests -> Statements]
      BY DEF TypeOK
    <3> QED BY <2>1, <3>1, <3>2 DEF Handle, loadActiveApplication, changeStage, overrideStage, setOutcome,
         Refuse, Proceed, InsertOverride, LoseUpdate, InsertHistory, RecordAudit, CommitRequest, Respond,
         Fail, Then, Answer, Goto, HasLock
  <2>2. (\E a \in Apps : Apply(a)) \/ UNCHANGED vars => pc[q] \in HasLock
    BY DEF Apply, vars, requestVars
  <2> QED BY <2>1, <2>2 DEF Next, Quiescent
<1>3. seen'[q] = seen[q]
  <2>1. ASSUME NEW r \in Requests, Handle(r) \/ Fail(r)
        PROVE  seen'[q] = seen[q]
    <3>1. CASE q # r
      BY <2>1, <3>1, OthersUntouched
    <3>2. CASE q = r
      BY <1>2, <2>1, <3>2 DEF Handle, loadActiveApplication, changeStage, overrideStage, setOutcome, Loaded,
         Refuse, InsertOverride, Update, LoseUpdate, InsertHistory, RecordAudit, CommitRequest, Respond,
         Fail, Then, HasLock
    <3> QED BY <3>1, <3>2
  <2> QED BY <2>1 DEF Next, Quiescent, Apply, vars, requestVars
<1>4. updateGuard(q)
  BY <1>2 DEF GuardStillHolds, Update, updateGuard, guardedOutcomeUpdate, guardedStageUpdate
<1>5. application'[call[q].app] = application[call[q].app]
  <2> SUFFICES ASSUME application'[call[q].app] # application[call[q].app]
               PROVE  FALSE
    OBVIOUS
  <2>1. application[call[q].app] # Null
    BY <1>4 DEF updateGuard, outcomeGuard, stageGuard, isActive
  <2>2. PICK r \in Requests : CommitRequest(r) /\ call[r].app = call[q].app /\ lock[call[q].app] = r
    BY <1>1, <2>1, RowChanges
  <2>3. lock'[call[q].app] = Null
    BY <1>1, <2>2 DEF CommitRequest, Commit, EndTransaction
  <2> QED BY <1>1, <2>3
<1> QED BY <1>1, <1>3, <1>4, <1>5 DEF updateGuard, isOutcome, outcomeGuard, stageGuard, isActive

\* What a request has written stays right while nothing it depends on changes.
LEMMA SameWrites ==
  ASSUME NEW r \in Requests, WritesOf(r), call'[r] = call[r], pc'[r] = pc[r], seen'[r] = seen[r],
         buffer'[r] = buffer[r],
         pc[r] \in HasLock => application'[call[r].app] = application[call[r].app]
  PROVE  WritesOf(r)'
<1>1. overrideIdOf(r)' = overrideIdOf(r) /\ isOutcome(r)' = isOutcome(r)
  BY DEF overrideIdOf, isOutcome
<1>2. OverrideOf(r)' = OverrideOf(r) /\ HistoryOf(r)' = HistoryOf(r) /\ AuditOf(r)' = AuditOf(r)
  BY <1>1 DEF OverrideOf, HistoryOf, AuditOf
<1>3. pc[r] \in HasLock => RowOf(r)' = RowOf(r)
  BY <1>1 DEF RowOf
<1> QED BY <1>1, <1>2, <1>3 DEF WritesOf

\* Each statement adds to its transaction's buffer what WritesOf says.
LEMMA WritesStepOwn ==
  ASSUME TypeOK, RequestsSafe, NEW r \in Requests, Handle(r) \/ Fail(r)
  PROVE  WritesOf(r)'
<1> USE DEF HasLock
<1>0. /\ r \in Transactions /\ call[r].app \in Apps
      /\ pc \in [Requests -> Statements] /\ seen \in [Requests -> PipelineStage \cup {Null}]
      /\ buffer \in [Transactions -> Buffer]
  BY CallTypes DEF TypeOK, TablesTypeOK
<1>1. WritesOf(r) /\ call' = call
  BY OthersUntouched DEF RequestsSafe, WritesSoFar
<1>2. CASE loadActiveApplication(r) \/ changeStage(r) \/ overrideStage(r) \/ setOutcome(r) \/ Respond(r)
  <2>1. /\ buffer' = buffer /\ pc[r] \in {"preflight", "respond"}
        /\ pc'[r] \notin HasLock
        /\ pc'[r] = "update" => call[r].endpoint # "overrideStage"
    BY <1>0, <1>2 DEF loadActiveApplication, changeStage, overrideStage, setOutcome, Respond, Loaded,
       Refuse, Proceed, Answer, Goto, tableVars
  <2> QED BY <1>1, <2>1 DEF WritesOf, overrideIdOf
<1>3. CASE InsertOverride(r) \/ Update(r) \/ InsertHistory(r) \/ RecordAudit(r)
  <2>1. /\ seen' = seen /\ application' = application
        /\ pc[r] = "override" => call[r].endpoint = "overrideStage"
    BY <1>3 DEF InsertOverride, Update, InsertHistory, RecordAudit, Then, tables, RequestsSafe, SeenIsLegal,
       InTransaction
  <2>2. /\ overrideIdOf(r)' = overrideIdOf(r) /\ isOutcome(r)' = isOutcome(r)
        /\ RowOf(r)' = RowOf(r) /\ OverrideOf(r)' = OverrideOf(r)
        /\ HistoryOf(r)' = HistoryOf(r) /\ AuditOf(r)' = AuditOf(r)
    BY <1>1, <2>1 DEF overrideIdOf, isOutcome, RowOf, OverrideOf, HistoryOf, AuditOf
  <2>3. CASE InsertOverride(r)
    <3>1. pc[r] = "override" /\ pc'[r] = "update"
          /\ buffer'[r] = [buffer[r] EXCEPT !.override = @ \cup {OverrideOf(r)}]
      BY <1>0, <2>3 DEF InsertOverride, insertOverride, Then, Goto
    <3>2. overrideIdOf(r) # Null
      BY <1>0, <2>1, <3>1 DEF overrideIdOf
    <3> QED BY <1>0, <1>1, <2>2, <3>1, <3>2 DEF WritesOf, Buffer
  <2>4. CASE Update(r)
    <3>1. pc[r] = "update" /\ pc'[r] = "history" /\ buffer'[r] = [buffer[r] EXCEPT !.row = RowOf(r)]
      BY <1>0, <2>4 DEF Update, guardedOutcomeUpdate, guardedStageUpdate, UpdateRow, RowOf, Then, Goto
    <3> QED BY <1>0, <1>1, <2>2, <3>1 DEF WritesOf, Buffer
  <2>5. CASE InsertHistory(r)
    <3>1. pc[r] = "history" /\ pc'[r] = "audit"
          /\ buffer'[r] = [buffer[r] EXCEPT !.history = Append(@, HistoryOf(r))]
      BY <1>0, <2>5 DEF InsertHistory, insertHistory, Then, Goto
    <3>2. Append(<<>>, HistoryOf(r)) = <<HistoryOf(r)>>
      OBVIOUS
    <3> QED BY <1>0, <1>1, <2>2, <3>1, <3>2 DEF WritesOf, Buffer
  <2>6. CASE RecordAudit(r)
    <3>1. pc[r] = "audit" /\ pc'[r] = "commit"
          /\ buffer'[r] = [buffer[r] EXCEPT !.audit = Append(@, AuditOf(r))]
      BY <1>0, <2>6 DEF RecordAudit, recordAudit, Then, Goto
    <3>2. Append(<<>>, AuditOf(r)) = <<AuditOf(r)>>
      OBVIOUS
    <3> QED BY <1>0, <1>1, <2>2, <3>1, <3>2 DEF WritesOf, Buffer
  <2> QED BY <1>3, <2>3, <2>4, <2>5, <2>6
<1>4. CASE LoseUpdate(r) \/ CommitRequest(r) \/ Fail(r)
  <2>1. buffer'[r] = NoWrites /\ pc'[r] \in {"done", "respond"}
    BY <1>0, <1>4 DEF LoseUpdate, CommitRequest, Fail, Rollback, Commit, EndTransaction, Then, Answer, Goto
  <2> QED BY <2>1 DEF WritesOf, NoWrites
<1> QED BY <1>2, <1>3, <1>4 DEF Handle

LEMMA WritesStep ==
  ASSUME TypeOK, RequestsSafe, [Next]_vars
  PROVE  WritesSoFar'
<1> SUFFICES ASSUME NEW q \in Requests
             PROVE  WritesOf(q)'
  BY DEF WritesSoFar
<1>0. WritesOf(q) /\ call[q].app \in Apps
  BY CallTypes DEF RequestsSafe, WritesSoFar
<1>1. CASE Handle(q) \/ Fail(q)
  BY <1>1, WritesStepOwn
\* Another's step: q holds its lock, so the row q has written to stays.
<1>2. ASSUME NEW r \in Requests, r # q, Handle(r) \/ Fail(r)
      PROVE  WritesOf(q)'
  <2>1. pc'[q] = pc[q] /\ seen'[q] = seen[q] /\ call' = call /\ buffer'[q] = buffer[q]
    BY <1>2, OthersUntouched
  <2>2. ASSUME pc[q] \in HasLock, application'[call[q].app] # application[call[q].app]
        PROVE  FALSE
    <3>1. lock[call[q].app] = q /\ application[call[q].app] # Null
      BY <2>2 DEF RequestsSafe, LocksAreTaken, SeenIsLegal, InTransaction, HasLock
    <3>2. CommitRequest(q)
      BY <1>0, <2>2, <3>1, RowChanges DEF RequestsSafe
    <3>3. pc'[q] = "respond" /\ pc[q] = "commit"
      BY <3>2 DEF CommitRequest, Then, Goto, TypeOK
    <3> QED BY <2>1, <3>3
  <2> QED BY <1>0, <2>1, <2>2, SameWrites
<1>3. ASSUME NEW a \in Apps, Apply(a)
      PROVE  WritesOf(q)'
  <2>1. pc[q] \in HasLock => application'[call[q].app] = application[call[q].app]
    BY <1>0, <1>3 DEF Apply, createApplication, RequestsSafe, SeenIsLegal, InTransaction, HasLock, TypeOK,
       TablesTypeOK
  <2> QED BY <1>0, <1>3, <2>1, SameWrites DEF Apply, createApplication, requestVars
<1>4. CASE UNCHANGED vars
  BY <1>0, <1>4, SameWrites DEF vars, tableVars, tables, requestVars
<1> QED BY <1>1, <1>2, <1>3, <1>4 DEF Next, Quiescent

LEMMA SafeStep ==
  ASSUME TypeOK, RequestsSafe, [Next]_vars
  PROVE  RequestsSafe'
BY SeenStep, TakenStep, GuardStep, WritesStep DEF RequestsSafe

-----------------------------------------------------------------------------
(***************************************************************************)
(* The first theorem: types, and what a request in flight relies on.       *)
(***************************************************************************)

LEMMA InitFlight == Init => TypeOK /\ InFlight
<1> SUFFICES ASSUME Init
             PROVE  TypeOK /\ InFlight
  OBVIOUS
<1> USE DEF Init, TablesInit
<1>1. NoWrites \in Buffer
  BY DEF NoWrites, Buffer
<1>2. TypeOK
  BY <1>1 DEF TypeOK, TablesTypeOK, Statements
<1>3. SeenIsLegal /\ LocksAreHeld /\ GuardStillHolds
  BY DEF SeenIsLegal, LocksAreHeld, GuardStillHolds, InTransaction, HasLock
<1>4. WritesSoFar
  BY DEF WritesSoFar, WritesOf, HasLock, NoWrites
<1> QED BY <1>2, <1>3, <1>4 DEF InFlight

\* Every reachable state is well typed, and in every one of them a request that
\* is past its guarded update holds its row's lock alone and still satisfies
\* the guard: nothing a recruiter's write decided on can change before its
\* COMMIT (pipeline.service.ts, the three transactions).
THEOREM FlightIsSafe == Spec => [](TypeOK /\ InFlight)
<1>1. TypeOK /\ InFlight /\ [Next]_vars => (TypeOK /\ InFlight)'
  BY TypeStep, SafeStep, LockStep, FlightIsEnough DEF InFlight, RequestsSafe
<1> QED BY InitFlight, <1>1, PTL DEF Spec

LEMMA SafeTheorem == Spec => [](TypeOK /\ RequestsSafe)
BY FlightIsSafe, FlightIsEnough, PTL

-----------------------------------------------------------------------------
(***************************************************************************)
(* What a step may do to the tables: commit one request's writes, enter    *)
(* one application, or nothing.                                            *)
(***************************************************************************)

\* What is known of a request at its COMMIT, and what the COMMIT does.
Publishes(r) ==
  /\ pc[r] = "commit" /\ pc'[r] = "respond"
  /\ call[r].app \in Apps
  /\ seen[r] \in PipelineStage /\ legal(r)
  /\ isActive(call[r].app)
  /\ ~isOutcome(r) => application[call[r].app].currentStage = seen[r]
  /\ application' = [application EXCEPT ![call[r].app] = RowOf(r)]
  /\ stageHistory' = [stageHistory EXCEPT ![call[r].app] = Append(@, HistoryOf(r))]
  /\ auditLog' = [auditLog EXCEPT ![call[r].app] = Append(@, AuditOf(r))]
  /\ stageOverride' = stageOverride \cup (IF overrideIdOf(r) # Null THEN {OverrideOf(r)} ELSE {})

LEMMA CommitPublishes ==
  ASSUME TypeOK, RequestsSafe, NEW r \in Requests, CommitRequest(r)
  PROVE  Publishes(r)
<1>1. pc[r] = "commit" /\ pc'[r] = "respond" /\ call[r].app \in Apps
  BY CallTypes DEF CommitRequest, Then, Goto, TypeOK
<1>2. seen[r] \in PipelineStage /\ legal(r)
  BY <1>1 DEF RequestsSafe, SeenIsLegal, InTransaction
<1>3. updateGuard(r)
  BY <1>1 DEF RequestsSafe, GuardStillHolds, HasLock
<1> QED BY <1>1, <1>2, <1>3, CommitEffect DEF Publishes, updateGuard, outcomeGuard, stageGuard

\* Every step is one of these three, as far as the tables go.
LEMMA TableStep ==
  ASSUME TypeOK, RequestsSafe, [Next]_vars
  PROVE  \/ \E r \in Requests : Publishes(r)
         \/ \E a \in Apps : createApplication(a)
         \/ UNCHANGED tables
<1>1. ASSUME NEW r \in Requests, Handle(r) \/ Fail(r), ~CommitRequest(r)
      PROVE  UNCHANGED tables
  BY <1>1 DEF Handle, loadActiveApplication, changeStage, overrideStage, setOutcome, Refuse, Proceed,
     InsertOverride, Update, LoseUpdate, InsertHistory, RecordAudit, Respond, Fail, Rollback, tableVars
<1> QED BY <1>1, CommitPublishes DEF Next, Quiescent, Apply, vars, tableVars

\* A terminal application is read-only, for every number of requests that read
\* it while it was ACTIVE.
THEOREM TerminalTheorem == Spec => TerminalIsTerminal
<1> DEFINE Terminal(a) == application[a] # Null /\ ~isActive(a)
<1>1. ASSUME TypeOK, RequestsSafe, [Next]_vars, NEW a \in Apps, Terminal(a)
      PROVE  application'[a] = application[a] /\ stageHistory'[a] = stageHistory[a]
  <2>1. CASE \E r \in Requests : Publishes(r)
    BY <1>1, <2>1 DEF Publishes, TypeOK, TablesTypeOK
  <2>2. CASE \E b \in Apps : createApplication(b)
    BY <1>1, <2>2 DEF createApplication, TypeOK, TablesTypeOK
  <2>3. CASE UNCHANGED tables
    BY <2>3 DEF tables
  <2> QED BY <1>1, <2>1, <2>2, <2>3, TableStep
<1>2. TypeOK /\ RequestsSafe /\ [Next]_vars =>
        [\A a \in Apps : Terminal(a) =>
           application'[a] = application[a] /\ stageHistory'[a] = stageHistory[a]]_vars
  BY <1>1
<1> QED BY <1>2, SafeTheorem, PTL DEF Spec, TerminalIsTerminal

-----------------------------------------------------------------------------
(***************************************************************************)
(* The history explains the row.                                           *)
(***************************************************************************)

\* What HistoryExplainsRow says of one history and the row it is of.
Explains(h, row) ==
  /\ Len(h) >= 1
  /\ h[1] = EntryRow
  /\ \A i \in 2 .. Len(h) :
       /\ h[i].fromStatus = "ACTIVE" /\ h[i - 1].toStatus = "ACTIVE"
       /\ isMove(h[i]) => h[i].fromStage = h[i - 1].toStage
  /\ row.status = h[Len(h)].toStatus
  /\ IF row.status = "ACTIVE" THEN row.currentStage = h[Len(h)].toStage
     ELSE Len(h) >= 2 /\ row.currentStage = h[Len(h) - 1].toStage

\* A row that starts where the history of an ACTIVE application ends goes on it.
LEMMA ExplainsOneMore ==
  ASSUME NEW h \in Seq(HistoryRow), NEW row, Explains(h, row), row.status = "ACTIVE",
         NEW new, NEW next,
         new.fromStatus = "ACTIVE", new.toStatus = next.status,
         isMove(new) => new.fromStage = row.currentStage,
         next.currentStage = IF next.status = "ACTIVE" THEN new.toStage ELSE row.currentStage
  PROVE  Explains(Append(h, new), next)
<1> DEFINE n == Len(h)
<1>0. n \in Nat /\ n >= 1 /\ h[n].toStatus = "ACTIVE" /\ row.currentStage = h[n].toStage
  BY DEF Explains
<1>1. /\ Len(Append(h, new)) = n + 1
      /\ \A i \in 1 .. n : Append(h, new)[i] = h[i]
      /\ Append(h, new)[n + 1] = new
  BY <1>0
<1>2. Append(h, new)[1] = EntryRow
  BY <1>0, <1>1 DEF Explains
<1>3. ASSUME NEW i \in 2 .. n + 1
      PROVE  /\ Append(h, new)[i].fromStatus = "ACTIVE" /\ Append(h, new)[i - 1].toStatus = "ACTIVE"
             /\ isMove(Append(h, new)[i]) => Append(h, new)[i].fromStage = Append(h, new)[i - 1].toStage
  <2>1. CASE i = n + 1
    BY <1>0, <1>1, <2>1
  <2>2. CASE i \in 2 .. n
    BY <1>0, <1>1, <2>2 DEF Explains
  <2> QED BY <1>0, <2>1, <2>2
<1> QED BY <1>0, <1>1, <1>2, <1>3 DEF Explains

LEMMA HistoryStep ==
  ASSUME TypeOK, RequestsSafe, HistoryExplainsRow, [Next]_vars
  PROVE  HistoryExplainsRow'
<1> SUFFICES ASSUME NEW a \in Apps
             PROVE  IF application'[a] = Null THEN stageHistory'[a] = <<>>
                    ELSE Explains(stageHistory'[a], application'[a])
  BY DEF HistoryExplainsRow, Explains
<1> DEFINE h == stageHistory[a]
           row == application[a]
<1>0. /\ IF row = Null THEN h = <<>> ELSE Explains(h, row)
      /\ h \in Seq(HistoryRow)
  BY DEF HistoryExplainsRow, TypeOK, TablesTypeOK, Explains
<1>1. CASE stageHistory'[a] = h /\ application'[a] = row
  BY <1>0, <1>1
<1>2. ASSUME NEW r \in Requests, Publishes(r), call[r].app = a
      PROVE  application'[a] # Null /\ Explains(stageHistory'[a], application'[a])
  <2> DEFINE new == HistoryOf(r)
  <2>1. application'[a] = RowOf(r) /\ stageHistory'[a] = Append(h, new)
    BY <1>2 DEF Publishes, TypeOK, TablesTypeOK
  <2>2. row # Null /\ row.status = "ACTIVE" /\ row \in ApplicationRow
    BY <1>2 DEF Publishes, isActive, TypeOK, TablesTypeOK
  <2>3. RowOf(r) # Null
    BY <1>2, <2>2, RowOfType
  <2>4. /\ new.fromStatus = "ACTIVE" /\ new.toStatus = RowOf(r).status
        /\ isMove(new) => new.fromStage = row.currentStage
        /\ RowOf(r).currentStage = IF RowOf(r).status = "ACTIVE" THEN new.toStage ELSE row.currentStage
    <3>1. CASE isOutcome(r)
      BY <1>2, <2>2, <3>1, CallTypes DEF RowOf, HistoryOf, isMove, ApplicationRow
    <3>2. CASE ~isOutcome(r)
      BY <1>2, <2>2, <3>2, CallTypes DEF RowOf, HistoryOf, isMove, ApplicationRow, Publishes
    <3> QED BY <3>1, <3>2
  <2> HIDE DEF new
  <2>5. Explains(Append(h, new), RowOf(r))
    BY <1>0, <2>2, <2>4, ExplainsOneMore
  <2> QED BY <2>1, <2>3, <2>5
<1>3. ASSUME NEW b \in Apps, createApplication(b), b = a
      PROVE  application'[a] # Null /\ Explains(stageHistory'[a], application'[a])
  <2>1. h = <<>>
    BY <1>0, <1>3 DEF createApplication
  <2>2. stageHistory'[a] = <<EntryRow>>
    BY <1>3, <2>1 DEF createApplication, TypeOK, TablesTypeOK
  <2>3. application'[a] = [status |-> "ACTIVE", currentStage |-> "APPLIED"]
    BY <1>3 DEF createApplication, TypeOK, TablesTypeOK
  <2>4. application'[a] # Null
    BY <2>3 DEF ApplicationRow, ApplicationStatus, PipelineStage
  <2> QED BY <2>2, <2>3, <2>4 DEF EntryRow, Explains
<1>4. ASSUME NEW r \in Requests, Publishes(r), call[r].app # a
      PROVE  stageHistory'[a] = h /\ application'[a] = row
  BY <1>4 DEF Publishes, TypeOK, TablesTypeOK
<1>5. ASSUME NEW b \in Apps, createApplication(b), b # a
      PROVE  stageHistory'[a] = h /\ application'[a] = row
  BY <1>5 DEF createApplication, TypeOK, TablesTypeOK
<1>6. CASE UNCHANGED tables
  BY <1>1, <1>6 DEF tables
<1> QED BY <1>1, <1>2, <1>3, <1>4, <1>5, <1>6, TableStep

\* For every set of requests and whatever fails among them, an application's
\* two columns are what its history says (guarded update and history row
\* commit together).
THEOREM HistoryTheorem == Spec => []HistoryExplainsRow
<1>1. Init => HistoryExplainsRow
  BY DEF Init, TablesInit, HistoryExplainsRow
<1> QED BY <1>1, HistoryStep, SafeTheorem, PTL DEF Spec

-----------------------------------------------------------------------------
(***************************************************************************)
(* How the histories and the audit logs grow.                              *)
(***************************************************************************)

\* A COMMIT adds one row to the history of its application, which has an entry
\* row already, and leaves the other histories alone.
LEMMA PublishedHistory ==
  ASSUME TypeOK, HistoryExplainsRow, NEW r \in Requests, Publishes(r)
  PROVE  /\ r \in Transactions /\ r # Null
         /\ LET h == stageHistory[call[r].app]
                g == stageHistory'[call[r].app]
            IN  /\ Len(h) \in Nat /\ Len(h) >= 1 /\ Len(g) = Len(h) + 1
                /\ \A i \in 1 .. Len(h) : g[i] = h[i]
                /\ g[Len(h) + 1] = HistoryOf(r)
         /\ \A a \in Apps : a # call[r].app => stageHistory'[a] = stageHistory[a]
<1> DEFINE a == call[r].app
           h == stageHistory[a]
<1>1. a \in Apps /\ h \in Seq(HistoryRow) /\ application[a] # Null
  BY DEF Publishes, isActive, TypeOK, TablesTypeOK
<1>2. Len(h) \in Nat /\ Len(h) >= 1
  BY <1>1 DEF HistoryExplainsRow
<1>3. stageHistory'[a] = Append(h, HistoryOf(r))
  BY <1>1 DEF Publishes, TypeOK, TablesTypeOK
<1>4. /\ Len(Append(h, HistoryOf(r))) = Len(h) + 1
      /\ \A i \in 1 .. Len(h) : Append(h, HistoryOf(r))[i] = h[i]
      /\ Append(h, HistoryOf(r))[Len(h) + 1] = HistoryOf(r)
  BY <1>1
<1>5. \A b \in Apps : b # a => stageHistory'[b] = stageHistory[b]
  BY DEF Publishes, TypeOK, TablesTypeOK
<1> QED BY <1>2, <1>3, <1>4, <1>5

\* An application enters with its entry row, and with nothing before it.
LEMMA EnteredHistory ==
  ASSUME TypeOK, HistoryExplainsRow, NEW a \in Apps, createApplication(a)
  PROVE  /\ stageHistory[a] = <<>> /\ stageHistory'[a] = <<EntryRow>>
         /\ \A b \in Apps : b # a => stageHistory'[b] = stageHistory[b]
<1>1. stageHistory[a] = <<>>
  BY DEF createApplication, HistoryExplainsRow
<1> QED BY <1>1 DEF createApplication, TypeOK, TablesTypeOK

-----------------------------------------------------------------------------
(***************************************************************************)
(* No stage is skipped silently.                                           *)
(***************************************************************************)

\* What NoSilentSkip says of one row of application a.
Accounted(row, a, overrides) ==
  IF isMove(row)
  THEN \/ /\ row.overrideId = Null
          /\ STAGE_ORDER[row.toStage] = STAGE_ORDER[row.fromStage] + 1
       \/ /\ row.fromStage # row.toStage
          /\ [id |-> row.overrideId, app |-> a, fromStage |-> row.fromStage,
              toStage |-> row.toStage] \in overrides
  ELSE row.toStatus = "HIRED" => row.fromStage = "OFFER"

\* The stage graph goes one step down the board.
LEMMA OneStepForward ==
  ASSUME NEW from \in PipelineStage, NEW to \in PipelineStage, canTransition(from, to)
  PROVE  STAGE_ORDER[to] = STAGE_ORDER[from] + 1
BY DEF canTransition, ALLOWED_STAGE_TRANSITIONS, STAGE_ORDER, PipelineStage

LEMMA HireFromOffer ==
  ASSUME NEW from \in PipelineStage, canSetOutcome(from, "HIRED")
  PROVE  from = "OFFER"
BY DEF canSetOutcome, ALLOWED_OUTCOMES

\* The row a COMMIT adds is accounted for by what its request established.
LEMMA PublishedAccounted ==
  ASSUME TypeOK, NEW r \in Requests, Publishes(r)
  PROVE  Accounted(HistoryOf(r), call[r].app, stageOverride')
<1>1. seen[r] \in PipelineStage /\ legal(r)
  BY DEF Publishes
<1>2. CASE isOutcome(r)
  <2>1. call[r].target \in {"HIRED", "REJECTED"} /\ canSetOutcome(seen[r], call[r].target)
    BY <1>1, <1>2, CallTypes DEF legal, isOutcome
  <2>2. call[r].target = "HIRED" => seen[r] = "OFFER"
    BY <1>1, <2>1, HireFromOffer
  <2> QED BY <1>2, <2>1, <2>2 DEF Accounted, HistoryOf, isMove
<1>3. CASE call[r].endpoint = "changeStage"
  <2>1. STAGE_ORDER[call[r].target] = STAGE_ORDER[seen[r]] + 1
    BY <1>1, <1>3, CallTypes, OneStepForward DEF legal, isOutcome
  <2> QED BY <1>3, <2>1 DEF Accounted, HistoryOf, isMove, isOutcome, overrideIdOf
<1>4. CASE call[r].endpoint = "overrideStage"
  <2>1. seen[r] # call[r].target
    BY <1>1, <1>4 DEF legal
  <2>2. OverrideOf(r) \in stageOverride'
    BY <1>4 DEF Publishes, overrideIdOf
  <2> QED BY <1>4, <2>1, <2>2 DEF Accounted, HistoryOf, isMove, isOutcome, overrideIdOf, OverrideOf
<1> QED BY <1>2, <1>3, <1>4, CallTypes DEF isOutcome

LEMMA SkipStep ==
  ASSUME TypeOK, RequestsSafe, HistoryExplainsRow, NoSilentSkip, [Next]_vars
  PROVE  NoSilentSkip'
<1>1. \A a \in Apps : \A i \in 2 .. Len(stageHistory[a]) :
        Accounted(stageHistory[a][i], a, stageOverride)
  BY DEF NoSilentSkip, Accounted
<1> SUFFICES ASSUME NEW a \in Apps, NEW i \in 2 .. Len(stageHistory'[a])
             PROVE  Accounted(stageHistory'[a][i], a, stageOverride')
  BY DEF NoSilentSkip, Accounted
<1>2. ASSUME NEW r \in Requests, Publishes(r)
      PROVE  Accounted(stageHistory'[a][i], a, stageOverride')
  <2>1. stageOverride \subseteq stageOverride'
    BY <1>2 DEF Publishes
  <2>2. CASE a = call[r].app /\ i = Len(stageHistory[a]) + 1
    BY <1>2, <2>2, PublishedHistory, PublishedAccounted
  <2>3. CASE ~(a = call[r].app /\ i = Len(stageHistory[a]) + 1)
    <3>1. i \in 2 .. Len(stageHistory[a]) /\ stageHistory'[a][i] = stageHistory[a][i]
      BY <1>2, <2>3, PublishedHistory
    <3> QED BY <1>1, <2>1, <3>1 DEF Accounted
  <2> QED BY <2>2, <2>3
<1>3. ASSUME NEW b \in Apps, createApplication(b)
      PROVE  Accounted(stageHistory'[a][i], a, stageOverride')
  <2>1. a # b
    <3>1. Len(<<EntryRow>>) = 1
      OBVIOUS
    <3> SUFFICES ASSUME a = b PROVE FALSE
      OBVIOUS
    <3>2. stageHistory'[a] = <<EntryRow>>
      BY <1>3, EnteredHistory
    <3>3. i \in 2 .. 1
      BY <3>1, <3>2
    <3> QED BY <3>3
  <2> QED BY <1>1, <1>3, <2>1, EnteredHistory DEF createApplication
<1>4. CASE UNCHANGED tables
  BY <1>1, <1>4 DEF tables
<1> QED BY <1>2, <1>3, <1>4, TableStep

\* For every set of requests: a move in the history is one step forward or has
\* its own override, and nobody is hired by a decision taken off OFFER
\* (pipeline.service.ts, changeStage, overrideStage and setOutcome).
THEOREM SkipTheorem == Spec => []NoSilentSkip
<1>1. Init => NoSilentSkip
  BY DEF Init, TablesInit, NoSilentSkip
<1> QED BY <1>1, SkipStep, SafeTheorem, HistoryTheorem, PTL DEF Spec

-----------------------------------------------------------------------------
(***************************************************************************)
(* The audit log mirrors the history.                                      *)
(***************************************************************************)

\* What AuditMirrorsHistory says of an audit row and its history row.
SameEvent(entry, row) ==
  /\ entry.actor = row.changedBy
  /\ entry.overrideId = row.overrideId
  /\ IF isMove(row) THEN entry.from = row.fromStage /\ entry.to = row.toStage
     ELSE entry.from = "ACTIVE" /\ entry.to = row.toStatus

LEMMA PublishedSameEvent ==
  ASSUME TypeOK, NEW r \in Requests
  PROVE  SameEvent(AuditOf(r), HistoryOf(r))
<1>1. CASE isOutcome(r)
  BY <1>1, CallTypes DEF SameEvent, AuditOf, HistoryOf, isMove
<1>2. CASE ~isOutcome(r)
  BY <1>2, CallTypes DEF SameEvent, AuditOf, HistoryOf, isMove
<1> QED BY <1>1, <1>2

LEMMA MirrorStep ==
  ASSUME TypeOK, RequestsSafe, HistoryExplainsRow, AuditMirrorsHistory, [Next]_vars
  PROVE  AuditMirrorsHistory'
<1>1. \A a \in Apps :
        /\ Len(auditLog[a]) = IF stageHistory[a] = <<>> THEN 0 ELSE Len(stageHistory[a]) - 1
        /\ \A i \in 1 .. Len(auditLog[a]) : SameEvent(auditLog[a][i], stageHistory[a][i + 1])
  BY DEF AuditMirrorsHistory, SameEvent
<1> SUFFICES ASSUME NEW a \in Apps
             PROVE  /\ Len(auditLog'[a]) = IF stageHistory'[a] = <<>> THEN 0 ELSE Len(stageHistory'[a]) - 1
                    /\ \A i \in 1 .. Len(auditLog'[a]) :
                         SameEvent(auditLog'[a][i], stageHistory'[a][i + 1])
  BY DEF AuditMirrorsHistory, SameEvent
<1> DEFINE log == auditLog[a]
           h == stageHistory[a]
<1>0. log \in Seq(AuditRow) /\ h \in Seq(HistoryRow) /\ Len(log) \in Nat
  BY DEF TypeOK, TablesTypeOK
<1>2. ASSUME NEW r \in Requests, Publishes(r), call[r].app = a
      PROVE  /\ stageHistory'[a] # <<>> /\ Len(auditLog'[a]) = Len(stageHistory'[a]) - 1
             /\ \A i \in 1 .. Len(auditLog'[a]) : SameEvent(auditLog'[a][i], stageHistory'[a][i + 1])
  <2>1. auditLog'[a] = Append(log, AuditOf(r))
    BY <1>2 DEF Publishes, TypeOK, TablesTypeOK
  <2>2. /\ Len(Append(log, AuditOf(r))) = Len(log) + 1
        /\ \A i \in 1 .. Len(log) : Append(log, AuditOf(r))[i] = log[i]
        /\ Append(log, AuditOf(r))[Len(log) + 1] = AuditOf(r)
    BY <1>0
  <2>3. /\ Len(h) \in Nat /\ Len(h) >= 1 /\ Len(stageHistory'[a]) = Len(h) + 1
        /\ \A i \in 1 .. Len(h) : stageHistory'[a][i] = h[i]
        /\ stageHistory'[a][Len(h) + 1] = HistoryOf(r)
    BY <1>2, PublishedHistory
  <2>4. Len(log) = Len(h) - 1
    BY <1>1, <2>3
  <2>5. ASSUME NEW i \in 1 .. Len(log) + 1
        PROVE  SameEvent(auditLog'[a][i], stageHistory'[a][i + 1])
    <3>1. CASE i = Len(log) + 1
      BY <1>0, <2>1, <2>2, <2>3, <2>4, <3>1, PublishedSameEvent
    <3>2. CASE i \in 1 .. Len(log)
      <4>1. auditLog'[a][i] = log[i] /\ stageHistory'[a][i + 1] = h[i + 1]
        BY <2>1, <2>2, <2>3, <2>4, <3>2
      <4> QED BY <1>1, <3>2, <4>1
    <3> QED BY <1>0, <3>1, <3>2
  <2> QED BY <2>1, <2>2, <2>3, <2>4, <2>5
<1>3. ASSUME NEW b \in Apps, createApplication(b), b = a
      PROVE  /\ stageHistory'[a] # <<>> /\ Len(stageHistory'[a]) = 1
             /\ Len(auditLog'[a]) = 0
  <2>1. Len(log) = 0
    BY <1>1, <1>3, EnteredHistory
  <2>2. <<EntryRow>> # <<>> /\ Len(<<EntryRow>>) = 1
    OBVIOUS
  <2> QED BY <1>3, <2>1, <2>2, EnteredHistory DEF createApplication
<1>4. CASE auditLog'[a] = log /\ stageHistory'[a] = h
  BY <1>1, <1>4
<1>5. ASSUME NEW r \in Requests, Publishes(r), call[r].app # a
      PROVE  auditLog'[a] = log /\ stageHistory'[a] = h
  BY <1>5 DEF Publishes, TypeOK, TablesTypeOK
<1>6. ASSUME NEW b \in Apps, createApplication(b), b # a
      PROVE  auditLog'[a] = log /\ stageHistory'[a] = h
  BY <1>6, EnteredHistory DEF createApplication
<1>7. CASE UNCHANGED tables
  BY <1>4, <1>7 DEF tables
<1>8. CASE \E r \in Requests : Publishes(r)
  <2>1. PICK r \in Requests : Publishes(r)
    BY <1>8
  <2>2. CASE call[r].app = a
    BY <1>2, <2>1, <2>2
  <2>3. CASE call[r].app # a
    BY <1>4, <1>5, <2>1, <2>3
  <2> QED BY <2>2, <2>3
<1>9. CASE \E b \in Apps : createApplication(b)
  <2>1. PICK b \in Apps : createApplication(b)
    BY <1>9
  <2>2. CASE b = a
    <3>1. stageHistory'[a] # <<>> /\ Len(stageHistory'[a]) = 1 /\ Len(auditLog'[a]) = 0
      BY <1>3, <2>1, <2>2
    <3>2. 1 .. Len(auditLog'[a]) = {}
      BY <3>1
    <3> QED BY <3>1, <3>2
  <2>3. CASE b # a
    BY <1>4, <1>6, <2>1, <2>3
  <2> QED BY <2>2, <2>3
<1> QED BY <1>7, <1>8, <1>9, TableStep

\* For every set of requests, and whatever fails among them: the audit log of
\* an application and its history tell of the same events, in the same order
\* (recordAudit is a statement of the writer's transaction).
THEOREM MirrorTheorem == Spec => []AuditMirrorsHistory
<1>1. Init => AuditMirrorsHistory
  BY DEF Init, TablesInit, AuditMirrorsHistory
<1> QED BY <1>1, MirrorStep, SafeTheorem, HistoryTheorem, PTL DEF Spec

-----------------------------------------------------------------------------
(***************************************************************************)
(* The way of one request through its handler.                             *)
(***************************************************************************)

\* What one step may do to the control of request r.
Control(r) ==
  \/ pc'[r] = pc[r] /\ reply'[r] = reply[r]
  \/ pc[r] \in {"preflight", "update"} /\ pc'[r] = "done" /\ reply'[r] \in Refusals
  \/ pc[r] # "done" /\ pc'[r] = "done" /\ reply'[r] = "INTERNAL_ERROR"
  \/ pc[r] = "respond" /\ pc'[r] = "done" /\ reply'[r] = "OK"
  \/ pc[r] = "commit" /\ pc'[r] = "respond" /\ reply'[r] = reply[r] /\ Publishes(r)
  \/ /\ pc[r] \notin {"respond", "done"} /\ pc'[r] \notin {"respond", "done"}
     /\ reply'[r] = reply[r]

LEMMA OwnStep ==
  ASSUME TypeOK, RequestsSafe, NEW r \in Requests, Handle(r) \/ Fail(r)
  PROVE  Control(r)
<1> USE DEF TypeOK, Goto, Answer, Refuse, Proceed, Then
<1>1. CASE loadActiveApplication(r)
  BY <1>1 DEF loadActiveApplication, Control, Refusals
<1>2. CASE changeStage(r) \/ overrideStage(r) \/ setOutcome(r)
  BY <1>2 DEF changeStage, overrideStage, setOutcome, Loaded, Control, Refusals
<1>3. CASE InsertOverride(r) \/ Update(r) \/ InsertHistory(r) \/ RecordAudit(r)
  BY <1>3 DEF InsertOverride, Update, InsertHistory, RecordAudit, Control
<1>4. CASE LoseUpdate(r)
  BY <1>4 DEF LoseUpdate, Control, Refusals
<1>5. CASE CommitRequest(r)
  BY <1>5, CommitPublishes DEF CommitRequest, Control
<1>6. CASE Respond(r)
  BY <1>6 DEF Respond, Control
<1>7. CASE Fail(r)
  BY <1>7 DEF Fail, Control
<1> QED BY <1>1, <1>2, <1>3, <1>4, <1>5, <1>6, <1>7 DEF Handle

LEMMA OthersStep ==
  ASSUME TypeOK, NEW r \in Requests, NEW q \in Requests, q # r, Handle(q) \/ Fail(q)
  PROVE  pc'[r] = pc[r] /\ reply'[r] = reply[r]
BY DEF TypeOK, Handle, loadActiveApplication, changeStage, overrideStage, setOutcome, Refuse,
   Proceed, Then, InsertOverride, Update, LoseUpdate, InsertHistory, RecordAudit, CommitRequest,
   Respond, Fail, Goto, Answer

LEMMA CallsStay ==
  ASSUME [Next]_vars
  PROVE  call' = call
BY DEF Next, Handle, loadActiveApplication, changeStage, overrideStage, setOutcome, Refuse,
   Proceed, Then, InsertOverride, Update, LoseUpdate, InsertHistory, RecordAudit, CommitRequest,
   Respond, Fail, Apply, Quiescent, vars, requestVars

LEMMA ControlStep ==
  ASSUME TypeOK, RequestsSafe, [Next]_vars, NEW r \in Requests
  PROVE  Control(r)
<1>1. ASSUME NEW q \in Requests, Handle(q) \/ Fail(q)
      PROVE  Control(r)
  <2>1. CASE q = r
    BY <1>1, <2>1, OwnStep
  <2>2. CASE q # r
    BY <1>1, <2>2, OthersStep DEF Control
  <2> QED BY <2>1, <2>2
<1>2. CASE UNCHANGED requestVars
  BY <1>2 DEF requestVars, Control
<1> QED BY <1>1, <1>2 DEF Next, Apply, Quiescent, vars

-----------------------------------------------------------------------------
(***************************************************************************)
(* Who has written.                                                        *)
(***************************************************************************)

\* One COMMIT at a time, as the histories tell.
LEMMA OnePublishes ==
  ASSUME TypeOK, HistoryExplainsRow, NEW r \in Requests, NEW t \in Requests,
         Publishes(r), Publishes(t)
  PROVE  r = t
<1> DEFINE a == call[r].app
           b == call[t].app
<1>1. a \in Apps /\ b \in Apps
  BY DEF Publishes
<1>2. /\ Len(stageHistory[a]) \in Nat
      /\ Len(stageHistory'[a]) = Len(stageHistory[a]) + 1
      /\ stageHistory'[a][Len(stageHistory[a]) + 1] = HistoryOf(r)
  BY PublishedHistory
<1>3. a # b => stageHistory'[a] = stageHistory[a]
  BY <1>1, PublishedHistory
<1>4. a = b
  <2> SUFFICES ASSUME a # b PROVE FALSE
    OBVIOUS
  <2>1. Len(stageHistory[a]) = Len(stageHistory[a]) + 1
    BY <1>2, <1>3
  <2> QED BY <1>2, <2>1
<1>5. stageHistory'[b][Len(stageHistory[b]) + 1] = HistoryOf(t)
  BY PublishedHistory
<1>6. HistoryOf(r).changedBy = HistoryOf(t).changedBy
  BY <1>2, <1>4, <1>5
<1> QED BY <1>6 DEF HistoryOf

\* A COMMIT makes its request a writer of its application, and of no other; no
\* other request becomes or ceases to be one.
LEMMA WroteStep ==
  ASSUME TypeOK, RequestsSafe, HistoryExplainsRow, [Next]_vars, NEW t \in Requests, NEW a \in Apps
  PROVE  Wrote(t, a)' <=> Wrote(t, a) \/ (Publishes(t) /\ a = call[t].app)
<1>1. CASE \E r \in Requests : Publishes(r)
  <2>1. PICK r \in Requests : Publishes(r)
    BY <1>1
  <2>2. HistoryOf(r).changedBy = r
    BY DEF HistoryOf
  <2>3. Publishes(t) <=> t = r
    BY <2>1, OnePublishes
  <2>4. CASE a = call[r].app
    <3>1. /\ Len(stageHistory[a]) \in Nat /\ Len(stageHistory'[a]) = Len(stageHistory[a]) + 1
          /\ \A i \in 1 .. Len(stageHistory[a]) : stageHistory'[a][i] = stageHistory[a][i]
          /\ stageHistory'[a][Len(stageHistory[a]) + 1] = HistoryOf(r)
      BY <2>1, <2>4, PublishedHistory
    <3>2. 1 .. Len(stageHistory'[a]) = 1 .. Len(stageHistory[a]) \cup {Len(stageHistory[a]) + 1}
      BY <3>1
    <3>3. Wrote(t, a)' <=> Wrote(t, a) \/ t = r
      BY <2>2, <3>1, <3>2 DEF Wrote
    <3> QED BY <2>3, <2>4, <3>3
  <2>5. CASE a # call[r].app
    <3>1. stageHistory'[a] = stageHistory[a]
      BY <2>1, <2>5, PublishedHistory
    <3> QED BY <2>3, <2>5, <3>1 DEF Wrote
  <2> QED BY <2>4, <2>5
<1>2. CASE \E b \in Apps : createApplication(b)
  <2>1. PICK b \in Apps : createApplication(b)
    BY <1>2
  <2>2. stageHistory[b] = <<>> /\ stageHistory'[b] = <<EntryRow>>
        /\ \A c \in Apps : c # b => stageHistory'[c] = stageHistory[c]
    BY <2>1, EnteredHistory
  <2>3. ~Publishes(t)
    <3> SUFFICES ASSUME Publishes(t) PROVE FALSE
      OBVIOUS
    <3>1. call[t].app \in Apps /\ call[t].app # b
      BY <2>1 DEF Publishes, createApplication, isActive
    <3>2. stageHistory'[b] = stageHistory[b]
      BY <3>1, PublishedHistory
    <3> QED BY <2>2, <3>2
  <2>4. CASE a = b
    <3>1. ~Wrote(t, a)
      BY <2>2, <2>4 DEF Wrote
    <3>2. Len(<<EntryRow>>) = 1 /\ <<EntryRow>>[1] = EntryRow /\ EntryRow.changedBy = Null
      BY DEF EntryRow
    <3>3. t # Null
      OBVIOUS
    <3>4. ~Wrote(t, a)'
      BY <2>2, <2>4, <3>2, <3>3 DEF Wrote
    <3> QED BY <2>3, <3>1, <3>4
  <2>5. CASE a # b
    BY <2>2, <2>3, <2>5 DEF Wrote
  <2> QED BY <2>4, <2>5
<1>3. CASE UNCHANGED tables
  <2>1. ~Publishes(t)
    <3> SUFFICES ASSUME Publishes(t) PROVE FALSE
      OBVIOUS
    <3>1. LET h == stageHistory[call[t].app]
          IN  Len(h) \in Nat /\ Len(stageHistory'[call[t].app]) = Len(h) + 1
      BY PublishedHistory
    <3> QED BY <1>3, <3>1 DEF tables
  <2> QED BY <1>3, <2>1 DEF tables, Wrote
<1> QED BY <1>1, <1>2, <1>3, TableStep

-----------------------------------------------------------------------------
(***************************************************************************)
(* Honest answers.                                                         *)
(***************************************************************************)

\* What a request has written, at each point of its handler.
WrittenSoFar ==
  \A r \in Requests :
    /\ reply[r] # Null => pc[r] = "done"
    /\ pc[r] \notin {"respond", "done"} => \A a \in Apps : ~Wrote(r, a)
    /\ pc[r] = "respond" => Wrote(r, call[r].app)

\* The two halves of HonestAnswers.
TruthfulReplies ==
  \A r \in Requests :
    /\ reply[r] = "OK" => Wrote(r, call[r].app)
    /\ reply[r] \in Refusals => \A a \in Apps : ~Wrote(r, a)

\* Every row after the entry row is a request's, and a request has one row.
RowsHaveWriters ==
  \A a \in Apps : \A i \in 2 .. Len(stageHistory[a]) : stageHistory[a][i].changedBy \in Requests

OneRowPerRequest ==
  \A a \in Apps, b \in Apps : \A i \in 2 .. Len(stageHistory[a]), j \in 2 .. Len(stageHistory[b]) :
    stageHistory[a][i].changedBy = stageHistory[b][j].changedBy => a = b /\ i = j

Honesty == WrittenSoFar /\ TruthfulReplies /\ RowsHaveWriters /\ OneRowPerRequest

LEMMA WrittenStep ==
  ASSUME TypeOK, RequestsSafe, HistoryExplainsRow, WrittenSoFar, TruthfulReplies, [Next]_vars
  PROVE  WrittenSoFar' /\ TruthfulReplies'
<1> SUFFICES ASSUME NEW r \in Requests, NEW own \in Apps, own = call[r].app
             PROVE  /\ reply'[r] # Null => pc'[r] = "done"
                    /\ pc'[r] \notin {"respond", "done"} => \A a \in Apps : ~Wrote(r, a)'
                    /\ pc'[r] = "respond" => Wrote(r, own)'
                    /\ reply'[r] = "OK" => Wrote(r, own)'
                    /\ reply'[r] \in Refusals => \A a \in Apps : ~Wrote(r, a)'
  BY CallsStay, CallTypes DEF WrittenSoFar, TruthfulReplies, Wrote
<1>2. /\ reply[r] # Null => pc[r] = "done"
      /\ pc[r] \notin {"respond", "done"} => \A a \in Apps : ~Wrote(r, a)
      /\ pc[r] = "respond" => Wrote(r, own)
      /\ reply[r] = "OK" => Wrote(r, own)
      /\ reply[r] \in Refusals => \A a \in Apps : ~Wrote(r, a)
  BY DEF WrittenSoFar, TruthfulReplies
<1>3. \A a \in Apps : Wrote(r, a)' <=> Wrote(r, a) \/ (Publishes(r) /\ a = own)
  BY WroteStep
<1>4. Publishes(r) => pc[r] = "commit" /\ pc'[r] = "respond"
  BY DEF Publishes
<1>5. Null \notin Refusals /\ Null # "OK" /\ "OK" \notin Refusals
      /\ "INTERNAL_ERROR" \notin Refusals
  BY DEF Refusals, Replies
<1>6. CASE pc'[r] = pc[r] /\ reply'[r] = reply[r]
  BY <1>2, <1>3, <1>4, <1>6
<1>7. CASE pc[r] \in {"preflight", "update"} /\ pc'[r] = "done" /\ reply'[r] \in Refusals
  BY <1>2, <1>3, <1>4, <1>5, <1>7
<1>8. CASE pc[r] # "done" /\ pc'[r] = "done" /\ reply'[r] = "INTERNAL_ERROR"
  BY <1>5, <1>8
<1>9. CASE pc[r] = "respond" /\ pc'[r] = "done" /\ reply'[r] = "OK"
  BY <1>2, <1>3, <1>5, <1>9
<1>10. CASE pc[r] = "commit" /\ pc'[r] = "respond" /\ reply'[r] = reply[r] /\ Publishes(r)
  BY <1>2, <1>3, <1>5, <1>10
<1>11. CASE /\ pc[r] \notin {"respond", "done"} /\ pc'[r] \notin {"respond", "done"}
            /\ reply'[r] = reply[r]
  BY <1>2, <1>3, <1>4, <1>5, <1>11
<1> QED BY <1>6, <1>7, <1>8, <1>9, <1>10, <1>11, ControlStep DEF Control

\* The rows of the next state: the old ones, and after a COMMIT one more.
LEMMA RowsStep ==
  ASSUME TypeOK, RequestsSafe, HistoryExplainsRow, [Next]_vars,
         NEW a \in Apps, NEW i \in 2 .. Len(stageHistory'[a])
  PROVE  \/ i \in 2 .. Len(stageHistory[a]) /\ stageHistory'[a][i] = stageHistory[a][i]
         \/ \E r \in Requests :
              /\ Publishes(r) /\ a = call[r].app
              /\ i = Len(stageHistory[a]) + 1 /\ stageHistory'[a][i] = HistoryOf(r)
<1>1. CASE \E r \in Requests : Publishes(r)
  <2>1. PICK r \in Requests : Publishes(r)
    BY <1>1
  <2>2. CASE a = call[r].app /\ i = Len(stageHistory[a]) + 1
    BY <2>1, <2>2, PublishedHistory
  <2>3. CASE ~(a = call[r].app /\ i = Len(stageHistory[a]) + 1)
    BY <2>1, <2>3, PublishedHistory
  <2> QED BY <2>2, <2>3
<1>2. CASE \E b \in Apps : createApplication(b)
  <2>1. PICK b \in Apps : createApplication(b)
    BY <1>2
  <2>2. a # b
    <3>1. Len(<<EntryRow>>) = 1
      OBVIOUS
    <3> SUFFICES ASSUME a = b PROVE FALSE
      OBVIOUS
    <3>2. stageHistory'[a] = <<EntryRow>>
      BY <2>1, EnteredHistory
    <3>3. i \in 2 .. 1
      BY <3>1, <3>2
    <3> QED BY <3>3
  <2> QED BY <2>1, <2>2, EnteredHistory
<1>3. CASE UNCHANGED tables
  BY <1>3 DEF tables
<1> QED BY <1>1, <1>2, <1>3, TableStep

LEMMA UniqueStep ==
  ASSUME TypeOK, RequestsSafe, HistoryExplainsRow, Honesty, [Next]_vars
  PROVE  RowsHaveWriters' /\ OneRowPerRequest'
<1>1. ASSUME NEW a \in Apps, NEW i \in 2 .. Len(stageHistory'[a])
      PROVE  stageHistory'[a][i].changedBy \in Requests
  <2>1. CASE i \in 2 .. Len(stageHistory[a]) /\ stageHistory'[a][i] = stageHistory[a][i]
    BY <2>1 DEF Honesty, RowsHaveWriters
  <2>2. CASE \E r \in Requests : stageHistory'[a][i] = HistoryOf(r)
    BY <2>2 DEF HistoryOf
  <2> QED BY <2>1, <2>2, RowsStep
<1>2. \A r \in Requests : Publishes(r) => \A a \in Apps : ~Wrote(r, a)
  BY DEF Publishes, Honesty, WrittenSoFar
<1>3. \A r \in Requests : HistoryOf(r).changedBy = r
  BY DEF HistoryOf
<1>4. \A a \in Apps : \A i \in 2 .. Len(stageHistory[a]) : Wrote(stageHistory[a][i].changedBy, a)
  BY DEF Wrote, TypeOK, TablesTypeOK
<1>5. ASSUME NEW a \in Apps, NEW b \in Apps,
             NEW i \in 2 .. Len(stageHistory'[a]), NEW j \in 2 .. Len(stageHistory'[b]),
             stageHistory'[a][i].changedBy = stageHistory'[b][j].changedBy
      PROVE  a = b /\ i = j
  <2> DEFINE Old(c, n) == n \in 2 .. Len(stageHistory[c]) /\ stageHistory'[c][n] = stageHistory[c][n]
             New(c, n) == \E r \in Requests :
                            /\ Publishes(r) /\ c = call[r].app
                            /\ n = Len(stageHistory[c]) + 1 /\ stageHistory'[c][n] = HistoryOf(r)
  <2>1. (Old(a, i) \/ New(a, i)) /\ (Old(b, j) \/ New(b, j))
    BY RowsStep
  <2>2. CASE Old(a, i) /\ Old(b, j)
    BY <1>5, <2>2 DEF Honesty, OneRowPerRequest
  <2>3. CASE New(a, i) /\ New(b, j)
    BY <1>3, <1>5, <2>3, OnePublishes
  <2>4. CASE Old(a, i) /\ New(b, j)
    BY <1>2, <1>3, <1>4, <1>5, <2>4
  <2>5. CASE New(a, i) /\ Old(b, j)
    BY <1>2, <1>3, <1>4, <1>5, <2>5
  <2> QED BY <2>1, <2>2, <2>3, <2>4, <2>5
<1> QED BY <1>1, <1>5 DEF RowsHaveWriters, OneRowPerRequest

LEMMA InitHonesty ==
  ASSUME Init
  PROVE  Honesty
<1>1. \A a \in Apps : 1 .. Len(stageHistory[a]) = {} /\ 2 .. Len(stageHistory[a]) = {}
  BY DEF Init, TablesInit
<1>2. \A r \in Requests, a \in Apps : ~Wrote(r, a)
  BY <1>1 DEF Wrote
<1>3. \A r \in Requests : reply[r] = Null /\ pc[r] = "preflight"
  BY DEF Init
<1>4. Null # "OK" /\ Null \notin Refusals
  BY DEF Replies
<1>5. WrittenSoFar
  BY <1>2, <1>3 DEF WrittenSoFar
<1>6. TruthfulReplies
  BY <1>2, <1>3, <1>4 DEF TruthfulReplies
<1>7. RowsHaveWriters /\ OneRowPerRequest
  BY <1>1 DEF RowsHaveWriters, OneRowPerRequest
<1> QED BY <1>5, <1>6, <1>7 DEF Honesty

\* For every set of requests, whatever races and whatever fails among them: a
\* success answers a change that is in the history, a refusal one that is not,
\* and a request writes one row at most (the three transactions, and
\* lib/errors.ts for the refusals).
THEOREM HonestyTheorem == Spec => []HonestAnswers
<1>1. TypeOK /\ RequestsSafe /\ HistoryExplainsRow /\ Honesty /\ [Next]_vars => Honesty'
  BY WrittenStep, UniqueStep DEF Honesty
<1>2. Init => Honesty
  BY InitHonesty
<1>3. Honesty => HonestAnswers
  BY DEF Honesty, TruthfulReplies, OneRowPerRequest, HonestAnswers
<1> QED BY <1>1, <1>2, <1>3, SafeTheorem, HistoryTheorem, PTL DEF Spec

-----------------------------------------------------------------------------
(***************************************************************************)
(* Overrides and their moves.                                              *)
(***************************************************************************)

\* A row refers to the override of its own request or to none.
OwnOverride ==
  \A a \in Apps : \A i \in 1 .. Len(stageHistory[a]) :
    stageHistory[a][i].overrideId \in {Null, stageHistory[a][i].changedBy}

LEMMA OwnOverrideStep ==
  ASSUME TypeOK, RequestsSafe, HistoryExplainsRow, OwnOverride, [Next]_vars
  PROVE  OwnOverride'
<1> SUFFICES ASSUME NEW a \in Apps, NEW i \in 1 .. Len(stageHistory'[a])
             PROVE  stageHistory'[a][i].overrideId \in {Null, stageHistory'[a][i].changedBy}
  BY DEF OwnOverride
<1>1. CASE \E r \in Requests : Publishes(r)
  <2>1. PICK r \in Requests : Publishes(r)
    BY <1>1
  <2>2. CASE a = call[r].app /\ i = Len(stageHistory[a]) + 1
    <3>1. stageHistory'[a][i] = HistoryOf(r)
      BY <2>1, <2>2, PublishedHistory
    <3> QED BY <3>1 DEF HistoryOf, overrideIdOf
  <2>3. CASE ~(a = call[r].app /\ i = Len(stageHistory[a]) + 1)
    <3>1. i \in 1 .. Len(stageHistory[a]) /\ stageHistory'[a][i] = stageHistory[a][i]
      BY <2>1, <2>3, PublishedHistory
    <3> QED BY <3>1 DEF OwnOverride
  <2> QED BY <2>2, <2>3
<1>2. CASE \E b \in Apps : createApplication(b)
  <2>1. PICK b \in Apps : createApplication(b)
    BY <1>2
  <2>2. CASE a = b
    <3>1. Len(<<EntryRow>>) = 1 /\ <<EntryRow>>[1] = EntryRow
      OBVIOUS
    <3>2. stageHistory'[a] = <<EntryRow>>
      BY <2>1, <2>2, EnteredHistory
    <3>3. stageHistory'[a][i] = EntryRow
      BY <3>1, <3>2
    <3> QED BY <3>3 DEF EntryRow
  <2>3. CASE a # b
    <3>1. stageHistory'[a] = stageHistory[a]
      BY <2>1, <2>3, EnteredHistory
    <3> QED BY <3>1 DEF OwnOverride
  <2> QED BY <2>2, <2>3
<1>3. CASE UNCHANGED tables
  BY <1>3 DEF tables, OwnOverride
<1> QED BY <1>1, <1>2, <1>3, TableStep

LEMMA OrphanStep ==
  ASSUME TypeOK, RequestsSafe, HistoryExplainsRow, Honesty, OwnOverride, NoOrphanOverride, [Next]_vars
  PROVE  NoOrphanOverride'
<1> SUFFICES ASSUME NEW o \in stageOverride'
             PROVE  /\ \E i \in 2 .. Len(stageHistory'[o.app]) :
                         stageHistory'[o.app][i].overrideId = o.id
                    /\ \A a \in Apps : \A i \in 1 .. Len(stageHistory'[a]) :
                         stageHistory'[a][i].overrideId = o.id => a = o.app
  BY DEF NoOrphanOverride
<1>0. ASSUME o \in stageOverride
      PROVE  /\ o.id \in Transactions /\ o.id # Null /\ o.app \in Apps
             /\ \E i \in 2 .. Len(stageHistory[o.app]) : stageHistory[o.app][i].overrideId = o.id
             /\ \A a \in Apps : \A i \in 1 .. Len(stageHistory[a]) :
                  stageHistory[a][i].overrideId = o.id => a = o.app
  BY <1>0 DEF NoOrphanOverride, TypeOK, TablesTypeOK, OverrideRow
<1>1. CASE \E r \in Requests : Publishes(r)
  <2>1. PICK r \in Requests : Publishes(r)
    BY <1>1
  <2>2. PICK own \in Apps : own = call[r].app
    BY CallTypes
  <2>3. \A a \in Apps : ~Wrote(r, a)
    BY <2>1 DEF Publishes, Honesty, WrittenSoFar
  <2>4. r # Null /\ HistoryOf(r).overrideId = overrideIdOf(r) /\ overrideIdOf(r) \in {Null, r}
    BY DEF HistoryOf, overrideIdOf
  <2>5. \A a \in Apps : \A i \in 1 .. Len(stageHistory[a]) : stageHistory[a][i].overrideId # r
    BY <2>3, <2>4 DEF OwnOverride, Wrote
  <2>6. /\ Len(stageHistory[own]) \in Nat /\ Len(stageHistory[own]) >= 1
        /\ Len(stageHistory'[own]) = Len(stageHistory[own]) + 1
        /\ \A i \in 1 .. Len(stageHistory[own]) : stageHistory'[own][i] = stageHistory[own][i]
        /\ stageHistory'[own][Len(stageHistory[own]) + 1] = HistoryOf(r)
        /\ \A a \in Apps : a # own => stageHistory'[a] = stageHistory[a]
    BY <2>1, <2>2, PublishedHistory
  <2>7. CASE o \in stageOverride
    <3>1. PICK i \in 2 .. Len(stageHistory[o.app]) : stageHistory[o.app][i].overrideId = o.id
      BY <1>0, <2>7
    <3>2. i \in 1 .. Len(stageHistory[o.app])
      BY <3>1
    <3>3. o.id # r
      BY <1>0, <2>5, <2>7, <3>1, <3>2
    <3>4. i \in 2 .. Len(stageHistory'[o.app]) /\ stageHistory'[o.app][i].overrideId = o.id
      BY <1>0, <2>6, <2>7, <3>1, <3>2
    <3>5. ASSUME NEW a \in Apps, NEW j \in 1 .. Len(stageHistory'[a]),
                 stageHistory'[a][j].overrideId = o.id
          PROVE  a = o.app
      <4>1. CASE a = own /\ j = Len(stageHistory[own]) + 1
        BY <1>0, <2>4, <2>6, <2>7, <3>3, <3>5, <4>1
      <4>2. CASE ~(a = own /\ j = Len(stageHistory[own]) + 1)
        <5>1. j \in 1 .. Len(stageHistory[a]) /\ stageHistory'[a][j] = stageHistory[a][j]
          BY <2>6, <4>2
        <5> QED BY <1>0, <2>7, <3>5, <5>1
      <4> QED BY <4>1, <4>2
    <3> QED BY <3>4, <3>5
  <2>8. CASE o \notin stageOverride
    <3>1. overrideIdOf(r) = r /\ o = OverrideOf(r)
      BY <2>1, <2>4, <2>8 DEF Publishes
    <3>2. o.id = r /\ o.app = own
      BY <2>2, <3>1 DEF OverrideOf
    <3>3. Len(stageHistory[own]) + 1 \in 2 .. Len(stageHistory'[own])
      BY <2>6
    <3>4. stageHistory'[own][Len(stageHistory[own]) + 1].overrideId = r
      BY <2>4, <2>6, <3>1
    <3>5. ASSUME NEW a \in Apps, NEW j \in 1 .. Len(stageHistory'[a]),
                 stageHistory'[a][j].overrideId = r
          PROVE  a = own
      BY <2>5, <2>6, <3>5
    <3> QED BY <3>2, <3>3, <3>4, <3>5
  <2> QED BY <2>7, <2>8
<1>2. CASE \E b \in Apps : createApplication(b)
  <2>1. PICK b \in Apps : createApplication(b)
    BY <1>2
  <2>2. o \in stageOverride
    BY <2>1 DEF createApplication
  <2>3. PICK i \in 2 .. Len(stageHistory[o.app]) : stageHistory[o.app][i].overrideId = o.id
    BY <1>0, <2>2
  <2>4. stageHistory[b] = <<>> /\ stageHistory'[b] = <<EntryRow>>
        /\ \A a \in Apps : a # b => stageHistory'[a] = stageHistory[a]
    BY <2>1, EnteredHistory
  <2>5. o.app # b
    <3>1. Len(<<>>) = 0
      OBVIOUS
    <3> QED BY <2>3, <2>4, <3>1
  <2>6. \A j \in 1 .. Len(stageHistory'[b]) : stageHistory'[b][j].overrideId = Null
    <3>1. Len(<<EntryRow>>) = 1 /\ <<EntryRow>>[1] = EntryRow /\ EntryRow.overrideId = Null
      BY DEF EntryRow
    <3> QED BY <2>4, <3>1
  <2> QED BY <1>0, <2>2, <2>3, <2>4, <2>5, <2>6
<1>3. CASE UNCHANGED tables
  BY <1>0, <1>3 DEF tables
<1> QED BY <1>1, <1>2, <1>3, TableStep

\* For every set of requests: an override row has its move in the history of
\* its application, whatever raced the override and wherever it failed (the
\* insert ahead of the guarded update, pipeline.service.ts, overrideStage).
THEOREM OrphanTheorem == Spec => []NoOrphanOverride
<1>1. TypeOK /\ RequestsSafe /\ HistoryExplainsRow /\ Honesty /\ [Next]_vars => Honesty'
  BY WrittenStep, UniqueStep DEF Honesty
<1>2. TypeOK /\ RequestsSafe /\ HistoryExplainsRow /\ Honesty /\ OwnOverride /\ NoOrphanOverride
        /\ [Next]_vars => OwnOverride' /\ NoOrphanOverride'
  BY OwnOverrideStep, OrphanStep
<1>3. Init => Honesty
  BY InitHonesty
<1>4. Init => OwnOverride /\ NoOrphanOverride
  <2>1. ASSUME Init PROVE \A a \in Apps : 1 .. Len(stageHistory[a]) = {}
    BY <2>1 DEF Init, TablesInit
  <2> QED BY <2>1 DEF Init, TablesInit, OwnOverride, NoOrphanOverride
<1> QED BY <1>1, <1>2, <1>3, <1>4, SafeTheorem, HistoryTheorem, PTL DEF Spec

-----------------------------------------------------------------------------
(***************************************************************************)
(* Conflicts and their winners.                                            *)
(***************************************************************************)

\* What ConflictHasWinner says of a request that was answered STAGE_CONFLICT.
Beaten(r) ==
  \E i \in 2 .. Len(stageHistory[call[r].app]) :
    LET row == stageHistory[call[r].app][i]
    IN  row.changedBy # r /\ (row.fromStage = seen[r] \/ ~isMove(row))

\* Until its guarded update, what a request read is still so or has been changed.
ReadStandsOrBeaten ==
  \A r \in Requests :
    pc[r] \in {"override", "update"} => updateGuard(r) \/ Beaten(r)

\* Rows stay in the history, and seen stays after the pre-flight.
LEMMA BeatenStays ==
  ASSUME TypeOK, RequestsSafe, HistoryExplainsRow, [Next]_vars, NEW r \in Requests, Beaten(r),
         seen'[r] = seen[r]
  PROVE  Beaten(r)'
<1>1. PICK own \in Apps : own = call[r].app
  BY CallTypes
<1>2. PICK i \in 2 .. Len(stageHistory[own]) :
        LET row == stageHistory[own][i]
        IN  row.changedBy # r /\ (row.fromStage = seen[r] \/ ~isMove(row))
  BY <1>1 DEF Beaten
<1>3. i \in 2 .. Len(stageHistory'[own]) /\ stageHistory'[own][i] = stageHistory[own][i]
  <2>1. CASE \E q \in Requests : Publishes(q)
    <3>1. PICK q \in Requests : Publishes(q)
      BY <2>1
    <3> QED BY <1>2, <3>1, PublishedHistory
  <2>2. CASE \E b \in Apps : createApplication(b)
    <3>1. PICK b \in Apps : createApplication(b)
      BY <2>2
    <3>2. own # b
      <4>1. Len(<<>>) = 0
        OBVIOUS
      <4> SUFFICES ASSUME own = b PROVE FALSE
        OBVIOUS
      <4>2. stageHistory[own] = <<>>
        BY <3>1, EnteredHistory
      <4> QED BY <1>2, <4>1, <4>2
    <3> QED BY <1>2, <3>1, <3>2, EnteredHistory
  <2>3. CASE UNCHANGED tables
    BY <1>2, <2>3 DEF tables
  <2> QED BY <2>1, <2>2, <2>3, TableStep
<1>4. own = call'[r].app
  BY <1>1, CallsStay
<1> QED BY <1>2, <1>3, <1>4 DEF Beaten, isMove

LEMMA SeenStays ==
  ASSUME TypeOK, [Next]_vars, NEW r \in Requests, pc[r] # "preflight"
  PROVE  seen'[r] = seen[r]
BY DEF TypeOK, Next, Handle, loadActiveApplication, changeStage, overrideStage, setOutcome, Loaded,
   Refuse, Proceed, Then, InsertOverride, Update, LoseUpdate, InsertHistory, RecordAudit,
   CommitRequest, Respond, Fail, Answer, Apply, Quiescent, vars, requestVars

\* A move leaves its application ACTIVE.
LEMMA RowOfMove ==
  ASSUME TypeOK, NEW r \in Requests, isActive(call[r].app), ~isOutcome(r)
  PROVE  RowOf(r) # Null /\ RowOf(r).status = "ACTIVE"
<1>1. application[call[r].app] \in ApplicationRow
  BY CallTypes DEF isActive, TypeOK, TablesTypeOK
<1> QED BY <1>1, RowOfType DEF RowOf, isActive, ApplicationRow

\* A COMMIT of another request that takes the guard of r away beats r.
LEMMA GuardOrBeaten ==
  ASSUME TypeOK, RequestsSafe, HistoryExplainsRow, [Next]_vars,
         NEW r \in Requests, pc[r] \in {"override", "update"}, pc'[r] \in {"override", "update"},
         updateGuard(r)
  PROVE  updateGuard(r)' \/ Beaten(r)'
<1>1. PICK own \in Apps : own = call[r].app
  BY CallTypes
<1>2. own = call'[r].app /\ call'[r] = call[r] /\ seen'[r] = seen[r]
  BY <1>1, CallsStay, SeenStays
<1>3. updateGuard(r)' <=> /\ application'[own] # Null /\ application'[own].status = "ACTIVE"
                          /\ ~isOutcome(r) => application'[own].currentStage = seen[r]
  BY <1>1, <1>2 DEF updateGuard, outcomeGuard, stageGuard, isActive, isOutcome
<1>4. /\ application[own] # Null /\ application[own].status = "ACTIVE"
      /\ ~isOutcome(r) => application[own].currentStage = seen[r]
  BY <1>1 DEF updateGuard, outcomeGuard, stageGuard, isActive
<1>5. CASE \E q \in Requests : Publishes(q)
  <2>1. PICK q \in Requests : Publishes(q)
    BY <1>5
  <2>2. q # r
    BY <2>1 DEF Publishes
  <2>3. CASE call[q].app # own
    <3>1. application'[own] = application[own]
      BY <2>1, <2>3 DEF Publishes, TypeOK, TablesTypeOK
    <3> QED BY <1>3, <1>4, <3>1
  <2>4. CASE call[q].app = own
    <3>1. LET n == Len(stageHistory[own]) + 1
          IN  n \in 2 .. Len(stageHistory'[own]) /\ stageHistory'[own][n] = HistoryOf(q)
      BY <2>1, <2>4, PublishedHistory
    <3>2. application'[own] = RowOf(q)
      BY <2>1, <2>4 DEF Publishes, TypeOK, TablesTypeOK
    <3>3. /\ HistoryOf(q).changedBy = q /\ HistoryOf(q).fromStage = seen[q]
          /\ isMove(HistoryOf(q)) <=> HistoryOf(q).toStatus = "ACTIVE"
      BY DEF HistoryOf, isMove
    <3>4. CASE isOutcome(q)
      <4>1. ~isMove(HistoryOf(q))
        BY <3>3, <3>4, CallTypes DEF HistoryOf
      <4> QED BY <1>2, <2>2, <3>1, <3>3, <4>1 DEF Beaten, isMove
    <3>5. CASE ~isOutcome(q) /\ ~isOutcome(r)
      <4>1. seen[q] = seen[r]
        BY <1>4, <2>1, <2>4, <3>5 DEF Publishes
      <4> QED BY <1>2, <2>2, <3>1, <3>3, <4>1 DEF Beaten, isMove
    <3>6. CASE ~isOutcome(q) /\ isOutcome(r)
      <4>1. RowOf(q) # Null /\ RowOf(q).status = "ACTIVE"
        BY <2>1, <3>6, RowOfMove DEF Publishes
      <4> QED BY <1>3, <3>2, <3>6, <4>1
    <3> QED BY <3>4, <3>5, <3>6
  <2> QED BY <2>3, <2>4
<1>6. CASE \E b \in Apps : createApplication(b)
  <2>1. application'[own] = application[own]
    BY <1>4, <1>6 DEF createApplication, TypeOK, TablesTypeOK
  <2> QED BY <1>3, <1>4, <2>1
<1>7. CASE UNCHANGED tables
  BY <1>3, <1>4, <1>7 DEF tables
<1> QED BY <1>5, <1>6, <1>7, TableStep

\* A pre-flight that passes has just evaluated what the guard will ask.
LEMMA GuardAtPreflight ==
  ASSUME TypeOK, RequestsSafe, [Next]_vars, NEW r \in Requests,
         pc[r] = "preflight", pc'[r] \in {"override", "update"}
  PROVE  updateGuard(r)'
<1>1. Handle(r)
  <2>1. PICK q \in Requests : Handle(q) \/ Fail(q)
    BY DEF Next, Apply, Quiescent, vars, requestVars
  <2>2. q = r
    BY <2>1, OthersStep
  <2>3. ~Fail(r)
    BY DEF Fail, Answer, Goto, TypeOK
  <2> QED BY <2>1, <2>2, <2>3
<1>2. changeStage(r) \/ overrideStage(r) \/ setOutcome(r)
  BY <1>1 DEF Handle, loadActiveApplication, Refuse, Answer, Goto, TypeOK, InsertOverride, Update,
     LoseUpdate, InsertHistory, RecordAudit, CommitRequest, Respond
<1>3. /\ isActive(call[r].app) /\ UNCHANGED <<application, call>>
      /\ seen'[r] = application[call[r].app].currentStage
  BY <1>2 DEF changeStage, overrideStage, setOutcome, Loaded, Refuse, Proceed, Answer, Goto, TypeOK,
     tableVars, tables
<1> QED BY <1>3 DEF updateGuard, outcomeGuard, stageGuard, isActive, isOutcome

LEMMA ReadStep ==
  ASSUME TypeOK, RequestsSafe, HistoryExplainsRow, ReadStandsOrBeaten, [Next]_vars
  PROVE  ReadStandsOrBeaten'
<1> SUFFICES ASSUME NEW r \in Requests, pc'[r] \in {"override", "update"}
             PROVE  updateGuard(r)' \/ Beaten(r)'
  BY DEF ReadStandsOrBeaten
<1>1. CASE pc[r] = "preflight"
  BY <1>1, GuardAtPreflight
<1>2. CASE pc[r] \in {"override", "update"}
  <2>1. seen'[r] = seen[r]
    BY <1>2, SeenStays
  <2>2. CASE updateGuard(r)
    BY <1>2, <2>2, GuardOrBeaten
  <2>3. CASE Beaten(r)
    BY <2>1, <2>3, BeatenStays
  <2> QED BY <1>2, <2>2, <2>3 DEF ReadStandsOrBeaten
<1>3. CASE pc[r] \notin {"preflight", "override", "update"}
  <2>1. \A q \in Requests : Handle(q) \/ Fail(q) => q = r
    BY <1>3, OthersStep
  <2> QED BY <1>3, <2>1 DEF Next, Apply, Quiescent, vars, requestVars, Handle, loadActiveApplication,
     changeStage, overrideStage, setOutcome, Loaded, Refuse, Proceed, Then, InsertOverride, Update,
     LoseUpdate, InsertHistory, RecordAudit, CommitRequest, Respond, Fail, Answer, Goto, TypeOK
<1> QED BY <1>1, <1>2, <1>3

LEMMA ConflictStep ==
  ASSUME TypeOK, RequestsSafe, HistoryExplainsRow, WrittenSoFar, ReadStandsOrBeaten, ConflictHasWinner,
         [Next]_vars
  PROVE  ConflictHasWinner'
<1> SUFFICES ASSUME NEW r \in Requests, reply'[r] = "STAGE_CONFLICT"
             PROVE  Beaten(r)'
  BY DEF ConflictHasWinner, Beaten
<1>1. CASE reply[r] = "STAGE_CONFLICT"
  <2>1. Beaten(r)
    BY <1>1 DEF ConflictHasWinner, Beaten
  <2>2. pc[r] # "preflight"
    BY <1>1 DEF WrittenSoFar, Replies, Refusals
  <2> QED BY <2>1, <2>2, SeenStays, BeatenStays
<1>2. CASE reply[r] # "STAGE_CONFLICT"
  <2>1. PICK q \in Requests : Handle(q) \/ Fail(q)
    BY <1>2 DEF Next, Apply, Quiescent, vars, requestVars
  <2>2. q = r
    BY <1>2, <2>1, OthersStep
  <2>3. LoseUpdate(r)
    BY <1>2, <2>1, <2>2 DEF Handle, loadActiveApplication, changeStage, overrideStage, setOutcome,
       Refuse, Proceed, Then, InsertOverride, Update, InsertHistory, RecordAudit, CommitRequest,
       Respond, Fail, Answer, TypeOK
  <2>4. Beaten(r)
    BY <2>3 DEF LoseUpdate, ReadStandsOrBeaten
  <2>5. seen'[r] = seen[r]
    BY <2>3 DEF LoseUpdate
  <2> QED BY <2>4, <2>5, BeatenStays
<1> QED BY <1>1, <1>2

\* For every set of requests: a 409 STAGE_CONFLICT has a winner, a committed
\* row of another request that moved the application off the stage the loser
\* had read, or closed it (pipeline.service.ts, the three count = 0 branches).
THEOREM ConflictTheorem == Spec => []ConflictHasWinner
<1>1. TypeOK /\ RequestsSafe /\ HistoryExplainsRow /\ Honesty /\ [Next]_vars => Honesty'
  BY WrittenStep, UniqueStep DEF Honesty
<1>2. TypeOK /\ RequestsSafe /\ HistoryExplainsRow /\ Honesty /\ ReadStandsOrBeaten /\ ConflictHasWinner
        /\ [Next]_vars => ReadStandsOrBeaten' /\ ConflictHasWinner'
  BY ReadStep, ConflictStep DEF Honesty
<1>3. Init => Honesty
  BY InitHonesty
<1>4. Init => ReadStandsOrBeaten /\ ConflictHasWinner
  BY DEF Init, ReadStandsOrBeaten, ConflictHasWinner, Replies, Refusals
<1> QED BY <1>1, <1>2, <1>3, <1>4, SafeTheorem, HistoryTheorem, PTL DEF Spec

-----------------------------------------------------------------------------
(***************************************************************************)
(* Pipeline implements Lifecycle: each COMMIT is one abstract step, every  *)
(* other step but applying is none.                                        *)
(***************************************************************************)

\* The stage a request saw is one its application has been at.
SeenVisited ==
  \A r \in Requests :
    pc[r] \in InTransaction =>
      \E i \in 1 .. Len(stageHistory[call[r].app]) : stageHistory[call[r].app][i].toStage = seen[r]

\* An application that is ACTIVE stands where its last history row left it.
LEMMA CurrentIsVisited ==
  ASSUME TypeOK, HistoryExplainsRow, NEW a \in Apps, isActive(a)
  PROVE  /\ Len(stageHistory[a]) \in 1 .. Len(stageHistory[a])
         /\ stageHistory[a][Len(stageHistory[a])].toStage = application[a].currentStage
BY DEF TypeOK, TablesTypeOK, HistoryExplainsRow, isActive

\* Rows stay where they are, for an application that has one.
LEMMA HistoryStays ==
  ASSUME TypeOK, RequestsSafe, HistoryExplainsRow, [Next]_vars, NEW a \in Apps
  PROVE  \A i \in 1 .. Len(stageHistory[a]) :
           i \in 1 .. Len(stageHistory'[a]) /\ stageHistory'[a][i] = stageHistory[a][i]
<1> SUFFICES ASSUME NEW i \in 1 .. Len(stageHistory[a])
             PROVE  i \in 1 .. Len(stageHistory'[a]) /\ stageHistory'[a][i] = stageHistory[a][i]
  OBVIOUS
<1>1. CASE \E q \in Requests : Publishes(q)
  <2>1. PICK q \in Requests : Publishes(q)
    BY <1>1
  <2> QED BY <2>1, PublishedHistory
<1>2. CASE \E b \in Apps : createApplication(b)
  <2>1. PICK b \in Apps : createApplication(b)
    BY <1>2
  <2>2. a # b
    <3>1. Len(<<>>) = 0
      OBVIOUS
    <3> SUFFICES ASSUME a = b PROVE FALSE
      OBVIOUS
    <3>2. stageHistory[a] = <<>>
      BY <2>1, EnteredHistory
    <3> QED BY <3>1, <3>2
  <2> QED BY <2>1, <2>2, EnteredHistory
<1>3. CASE UNCHANGED tables
  BY <1>3 DEF tables
<1> QED BY <1>1, <1>2, <1>3, TableStep

LEMMA VisitedStep ==
  ASSUME TypeOK, RequestsSafe, HistoryExplainsRow, SeenVisited, [Next]_vars
  PROVE  SeenVisited'
<1> SUFFICES ASSUME NEW r \in Requests, pc'[r] \in InTransaction,
                    NEW own \in Apps, own = call[r].app
             PROVE  \E i \in 1 .. Len(stageHistory'[own]) : stageHistory'[own][i].toStage = seen'[r]
  BY CallsStay, CallTypes DEF SeenVisited
<1>1. CASE pc[r] \in InTransaction
  <2>1. seen'[r] = seen[r]
    BY <1>1, SeenStays DEF InTransaction
  <2>2. PICK i \in 1 .. Len(stageHistory[own]) : stageHistory[own][i].toStage = seen[r]
    BY <1>1 DEF SeenVisited
  <2>3. i \in 1 .. Len(stageHistory'[own]) /\ stageHistory'[own][i] = stageHistory[own][i]
    BY HistoryStays
  <2> QED BY <2>1, <2>2, <2>3
<1>2. CASE pc[r] \notin InTransaction
  <2>1. PICK q \in Requests : Handle(q) \/ Fail(q)
    BY <1>2 DEF Next, Apply, Quiescent, vars, requestVars
  <2>2. q = r
    BY <1>2, <2>1, OthersStep
  <2>3. changeStage(r) \/ overrideStage(r) \/ setOutcome(r)
    BY <1>2, <2>1, <2>2 DEF Handle, loadActiveApplication, Refuse, Answer, Goto, TypeOK, Then,
       InsertOverride, Update, LoseUpdate, InsertHistory, RecordAudit, CommitRequest, Respond, Fail,
       InTransaction
  <2>4. isActive(own) /\ seen'[r] = application[own].currentStage
    BY <2>3 DEF changeStage, overrideStage, setOutcome, Loaded, Refuse, Proceed, Answer, Goto, TypeOK,
       InTransaction
  <2>5. PICK i \in 1 .. Len(stageHistory[own]) : stageHistory[own][i].toStage = seen'[r]
    BY <2>4, CurrentIsVisited
  <2>6. i \in 1 .. Len(stageHistory'[own]) /\ stageHistory'[own][i] = stageHistory[own][i]
    BY HistoryStays
  <2> QED BY <2>5, <2>6
<1> QED BY <1>1, <1>2

-----------------------------------------------------------------------------
(***************************************************************************)
(* The step simulation.                                                    *)
(***************************************************************************)

LEMMA SameRules ==
  /\ Abstract!PipelineStage = PipelineStage
  /\ \A s \in PipelineStage : \A t : canTransition(s, t) <=> Abstract!canTransition(s, t)
  /\ \A s \in PipelineStage : \A t : canSetOutcome(s, t) <=> Abstract!canSetOutcome(s, t)
BY DEF PipelineStage, Abstract!PipelineStage, canTransition, Abstract!canTransition, canSetOutcome,
   Abstract!canSetOutcome, ALLOWED_STAGE_TRANSITIONS, Abstract!ALLOWED_STAGE_TRANSITIONS,
   ALLOWED_OUTCOMES, Abstract!ALLOWED_OUTCOMES

LEMMA PublishRefines ==
  ASSUME TypeOK, RequestsSafe, WrittenSoFar, OwnOverride, SeenVisited, NEW r \in Requests, Publishes(r)
  PROVE  Abstract!Next
<1>1. PICK own \in Apps : own = call[r].app
  BY CallTypes
<1>2. /\ application' = [application EXCEPT ![own] = RowOf(r)]
      /\ stageHistory' = [stageHistory EXCEPT ![own] = Append(@, HistoryOf(r))]
      /\ seen[r] \in PipelineStage /\ legal(r) /\ isActive(own)
      /\ ~isOutcome(r) => application[own].currentStage = seen[r]
  BY <1>1 DEF Publishes
<1>3. Abstract!Live(own)
  BY <1>2 DEF isActive, Abstract!Live
<1>4. r \in Transactions
  OBVIOUS
<1>5. CASE isOutcome(r)
  <2>1. call[r].target \in {"HIRED", "REJECTED"} /\ canSetOutcome(seen[r], call[r].target)
    BY <1>2, <1>5, CallTypes DEF legal, isOutcome
  <2>2. Abstract!Record(own, [fromStage |-> seen[r], toStage |-> seen[r], fromStatus |-> "ACTIVE",
          toStatus |-> call[r].target, changedBy |-> r, overrideId |-> Null])
    BY <1>2, <1>5 DEF Abstract!Record, HistoryOf, overrideIdOf, isOutcome
  <2>3. seen[r] \in Abstract!Visited(own)
    BY <1>1 DEF Publishes, SeenVisited, InTransaction, Abstract!Visited
  <2>4. application' = [application EXCEPT ![own].status = call[r].target]
    BY <1>1, <1>2, <1>5 DEF RowOf
  <2>5. Abstract!Close(own, call[r].target, seen[r], r)
    BY <1>2, <1>3, <2>1, <2>2, <2>3, <2>4, SameRules DEF Abstract!Close
  <2> QED BY <1>2, <1>4, <2>1, <2>5, SameRules DEF Abstract!Next
<1>6. CASE ~isOutcome(r)
  <2>1. call[r].target \in PipelineStage /\ call[r].endpoint \in {"changeStage", "overrideStage"}
    BY <1>6, CallTypes DEF isOutcome
  <2>2. Abstract!Record(own, [fromStage |-> application[own].currentStage, toStage |-> call[r].target,
          fromStatus |-> "ACTIVE", toStatus |-> "ACTIVE", changedBy |-> r,
          overrideId |-> overrideIdOf(r)])
    BY <1>2, <1>6 DEF Abstract!Record, HistoryOf
  <2>3. application' = [application EXCEPT ![own].currentStage = call[r].target]
    BY <1>1, <1>2, <1>6 DEF RowOf
  <2>4. Abstract!Move(own, call[r].target, r, overrideIdOf(r))
    BY <1>3, <2>2, <2>3 DEF Abstract!Move
  <2>5. CASE call[r].endpoint = "changeStage"
    <3>1. canTransition(application[own].currentStage, call[r].target) /\ overrideIdOf(r) = Null
      BY <1>2, <1>6, <2>5 DEF legal, overrideIdOf
    <3>2. Abstract!Advance(own, call[r].target, r)
      BY <1>2, <1>3, <1>6, <2>4, <3>1, SameRules DEF Abstract!Advance
    <3> QED BY <1>4, <2>1, <3>2, SameRules DEF Abstract!Next
  <2>6. CASE call[r].endpoint = "overrideStage"
    <3>1. call[r].target # application[own].currentStage /\ overrideIdOf(r) = r
      BY <1>2, <1>6, <2>6 DEF legal, overrideIdOf
    <3>2. \A a \in Apps : ~Wrote(r, a)
      BY DEF Publishes, WrittenSoFar
    <3>3. Abstract!Unused(r)
      BY <3>2 DEF OwnOverride, Wrote, Abstract!Unused
    <3>4. Abstract!Override(own, call[r].target, r)
      BY <1>3, <2>4, <3>1, <3>3 DEF Abstract!Override
    <3> QED BY <1>4, <2>1, <3>4, SameRules DEF Abstract!Next
  <2> QED BY <2>1, <2>5, <2>6
<1> QED BY <1>5, <1>6

LEMMA StepRefines ==
  ASSUME TypeOK, RequestsSafe, WrittenSoFar, OwnOverride, SeenVisited, [Next]_vars
  PROVE  [Abstract!Next]_(Abstract!vars)
<1>1. CASE \E r \in Requests : Publishes(r)
  BY <1>1, PublishRefines
<1>2. CASE \E a \in Apps : createApplication(a)
  <2>1. PICK a \in Apps : createApplication(a)
    BY <1>2
  <2>2. Abstract!Enter(a)
    BY <2>1 DEF createApplication, EntryRow, Abstract!Enter, Abstract!Record
  <2> QED BY <2>2 DEF Abstract!Next
<1>3. CASE UNCHANGED tables
  BY <1>3 DEF tables, Abstract!vars
<1> QED BY <1>1, <1>2, <1>3, TableStep

\* For every set of applications and requests, what the statements of the
\* three transactions commit is a behaviour of the abstract life of an
\* application (pipeline.service.ts; applications.service.ts, createApplication).
THEOREM RefinementTheorem == Spec => ImplementsLifecycle
<1>1. Init => Abstract!Init
  BY DEF Init, TablesInit, Abstract!Init
<1>2. Init => Honesty
  BY InitHonesty
<1>3. Init => OwnOverride /\ SeenVisited
  <2>1. ASSUME Init PROVE \A a \in Apps : 1 .. Len(stageHistory[a]) = {}
    BY <2>1 DEF Init, TablesInit
  <2> QED BY <2>1 DEF Init, OwnOverride, SeenVisited, InTransaction
<1>4. TypeOK /\ RequestsSafe /\ HistoryExplainsRow /\ Honesty /\ [Next]_vars => Honesty'
  BY WrittenStep, UniqueStep DEF Honesty
<1>5. TypeOK /\ RequestsSafe /\ HistoryExplainsRow /\ OwnOverride /\ SeenVisited /\ [Next]_vars
        => OwnOverride' /\ SeenVisited'
  BY OwnOverrideStep, VisitedStep
<1>6. TypeOK /\ RequestsSafe /\ Honesty /\ OwnOverride /\ SeenVisited /\ [Next]_vars
        => [Abstract!Next]_(Abstract!vars)
  BY StepRefines DEF Honesty
<1> QED BY <1>1, <1>2, <1>3, <1>4, <1>5, <1>6, SafeTheorem, HistoryTheorem, PTL
     DEF Spec, ImplementsLifecycle, Abstract!Spec
=============================================================================
