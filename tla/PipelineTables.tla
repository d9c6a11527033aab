--------------------------- MODULE PipelineTables ---------------------------
(***************************************************************************)
(* The rows of one application and the statements that write them: the     *)
(* tables Application, StageHistory, StageOverride and AuditLog (its       *)
(* APPLICATION entries), the row lock an UPDATE takes, and what a          *)
(* transaction has written and not committed.                              *)
(*                                                                         *)
(* The database is PostgreSQL at its default isolation, READ COMMITTED:    *)
(* no transaction in src/ asks for another level.  A statement reads what  *)
(* is committed when it runs.  An UPDATE whose WHERE does not match the    *)
(* committed row counts 0 at once; one that matches waits for the row lock *)
(* and evaluates its WHERE again on the row it then finds.  A transaction's *)
(* writes become visible together at COMMIT or not at all.                 *)
(***************************************************************************)
EXTENDS PipelineRules, Sequences

CONSTANTS
  Apps,          \* application ids
  Transactions,  \* one member per request that opens a transaction
  Null           \* SQL NULL, and "no row"

\* stageEnteredAt, the role and the candidate are left out: no guard reads them.
ApplicationRow == [status : ApplicationStatus, currentStage : PipelineStage]

ASSUME NullAssumption ==
  Null \notin Transactions \cup PipelineStage \cup ApplicationStatus \cup ApplicationRow

VARIABLES
  application,    \* Application rows by id; Null before the candidate applied
  stageHistory,   \* StageHistory rows by application, in id order
  stageOverride,  \* StageOverride rows
  auditLog,       \* AuditLog rows with entityType APPLICATION, by entityId
  lock,           \* the transaction that holds an Application row's lock
  buffer          \* each transaction's uncommitted writes

tables == <<application, stageHistory, stageOverride, auditLog>>
tableVars == <<tables, lock, buffer>>

\* changedBy is Null on the entry row, which the candidate writes.  An
\* override has the id of the one transaction that can insert it.
HistoryRow ==
  [fromStage  : PipelineStage \cup {Null},     toStage  : PipelineStage,
   fromStatus : ApplicationStatus \cup {Null}, toStatus : ApplicationStatus,
   changedBy  : Transactions \cup {Null},      overrideId : Transactions \cup {Null}]

OverrideRow ==
  [id : Transactions, app : Apps, fromStage : PipelineStage, toStage : PipelineStage]

\* metadata keeps the ends of the column that changed; overrideId and skipped
\* are Null on the two actions whose metadata has no such key.
AuditRow ==
  [action : {"CANDIDATE_STAGE_CHANGED", "STAGE_OVERRIDE_CREATED", "APPLICATION_OUTCOME_SET"},
   actor : Transactions,
   from : PipelineStage \cup ApplicationStatus, to : PipelineStage \cup ApplicationStatus,
   overrideId : Transactions \cup {Null}, skipped : 0 .. 2 \cup {Null}]

NoWrites == [row |-> Null, override |-> {}, history |-> <<>>, audit |-> <<>>]

Buffer ==
  [row : ApplicationRow \cup {Null}, override : SUBSET OverrideRow,
   history : Seq(HistoryRow), audit : Seq(AuditRow)]

TablesTypeOK ==
  /\ application \in [Apps -> ApplicationRow \cup {Null}]
  /\ stageHistory \in [Apps -> Seq(HistoryRow)]
  /\ stageOverride \subseteq OverrideRow
  /\ auditLog \in [Apps -> Seq(AuditRow)]
  /\ lock \in [Apps -> Transactions \cup {Null}]
  /\ buffer \in [Transactions -> Buffer]

TablesInit ==
  /\ application = [a \in Apps |-> Null]
  /\ stageHistory = [a \in Apps |-> <<>>]
  /\ stageOverride = {}
  /\ auditLog = [a \in Apps |-> <<>>]
  /\ lock = [a \in Apps |-> Null]
  /\ buffer = [t \in Transactions |-> NoWrites]

isActive(a) == application[a] # Null /\ application[a].status = "ACTIVE"

-----------------------------------------------------------------------------
(***************************************************************************)
(* Statements.                                                             *)
(***************************************************************************)

\* Mutants: the stage, or the status, dropped from the WHERE.
stageGuardStatusOnly(a, fromStage) == isActive(a) /\ fromStage \in PipelineStage
outcomeGuardIdOnly(a) == application[a] # Null

\* The WHERE of guardedStageUpdate and of guardedOutcomeUpdate.
stageGuard(a, fromStage) == isActive(a) /\ application[a].currentStage = fromStage
outcomeGuard(a) == isActive(a)

\* An UPDATE of one matching Application row: wait for its lock, take it.
UpdateRow(t, a, row) ==
  /\ lock[a] = Null
  /\ lock' = [lock EXCEPT ![a] = t]
  /\ buffer' = [buffer EXCEPT ![t].row = row]

\* guardedStageUpdate and guardedOutcomeUpdate when they count one row.
guardedStageUpdate(t, a, fromStage, toStage) ==
  /\ stageGuard(a, fromStage)
  /\ UpdateRow(t, a, [application[a] EXCEPT !.currentStage = toStage])

guardedOutcomeUpdate(t, a, toStatus) ==
  /\ outcomeGuard(a)
  /\ UpdateRow(t, a, [application[a] EXCEPT !.status = toStatus])

insertOverride(t, row) ==
  buffer' = [buffer EXCEPT ![t].override = @ \cup {row}]

insertHistory(t, row) ==
  buffer' = [buffer EXCEPT ![t].history = Append(@, row)]

recordAudit(t, row) ==
  buffer' = [buffer EXCEPT ![t].audit = Append(@, row)]

\* Mutant: a lock outlives its transaction.
EndTransactionKeepsLock(t) == buffer' = [buffer EXCEPT ![t] = NoWrites] /\ UNCHANGED lock

\* End of a transaction: its buffer is gone and every lock it holds is free.
EndTransaction(t) ==
  /\ buffer' = [buffer EXCEPT ![t] = NoWrites]
  /\ lock' = [a \in Apps |-> IF lock[a] = t THEN Null ELSE lock[a]]

\* Mutant: the audit row written through the wrong client and lost.
CommitWithoutAudit(t, a) ==
  /\ application' = [application EXCEPT ![a] = IF buffer[t].row = Null THEN @ ELSE buffer[t].row]
  /\ stageHistory' = [stageHistory EXCEPT ![a] = @ \o buffer[t].history]
  /\ stageOverride' = stageOverride \cup buffer[t].override
  /\ UNCHANGED auditLog
  /\ EndTransaction(t)

Commit(t, a) ==
  /\ application' = [application EXCEPT ![a] = IF buffer[t].row = Null THEN @ ELSE buffer[t].row]
  /\ stageHistory' = [stageHistory EXCEPT ![a] = @ \o buffer[t].history]
  /\ stageOverride' = stageOverride \cup buffer[t].override
  /\ auditLog' = [auditLog EXCEPT ![a] = @ \o buffer[t].audit]
  /\ EndTransaction(t)

\* Mutant: the override inserted before the transaction, so nothing undoes it.
RollbackKeepsOverride(t) ==
  /\ stageOverride' = stageOverride \cup buffer[t].override
  /\ EndTransaction(t)
  /\ UNCHANGED <<application, stageHistory, auditLog>>

Rollback(t) == EndTransaction(t) /\ UNCHANGED tables

\* createApplication's two inserts, which commit together.  No other request
\* can name the row before, and the role lookup ahead of them reads no row of
\* this module.
EntryRow ==
  [fromStage |-> Null, toStage |-> "APPLIED", fromStatus |-> Null, toStatus |-> "ACTIVE",
   changedBy |-> Null, overrideId |-> Null]

\* Mutant: the row with no entry row behind it.
createApplicationWithoutEntry(a) ==
  /\ application[a] = Null
  /\ application' = [application EXCEPT ![a] = [status |-> "ACTIVE", currentStage |-> "APPLIED"]]
  /\ UNCHANGED <<stageHistory, stageOverride, auditLog, lock, buffer>>

createApplication(a) ==
  /\ application[a] = Null
  /\ application' = [application EXCEPT ![a] = [status |-> "ACTIVE", currentStage |-> "APPLIED"]]
  /\ stageHistory' = [stageHistory EXCEPT ![a] = Append(@, EntryRow)]
  /\ UNCHANGED <<stageOverride, auditLog, lock, buffer>>
=============================================================================
