------------------------------ MODULE Pipeline ------------------------------
(***************************************************************************)
(* The recruiter's three pipeline writes (pipeline.service.ts): changeStage, *)
(* overrideStage and setOutcome, with a candidate's createApplication      *)
(* beside them.  One action per await: the read before the transaction,    *)
(* each statement of the transaction, its COMMIT, the answer.  Between two *)
(* of them any other request may run, and any of them may fail.            *)
(***************************************************************************)
EXTENDS PipelineTables

CONSTANT Requests  \* the recruiters' requests; each is served once

ASSUME RequestsAssumption == Requests \subseteq Transactions

VARIABLES
  call,   \* what each request asks: the endpoint, :applicationId and the body
  pc,     \* the statement each handler awaits next
  seen,   \* the currentStage its pre-flight read returned
  reply   \* the answer, Null until there is one

requestVars == <<call, pc, seen, reply>>
vars == <<tableVars, requestVars>>

\* The bodies the schemas let through.
Calls ==
  [endpoint : {"changeStage", "overrideStage"}, app : Apps, target : PipelineStage]
    \cup [endpoint : {"setOutcome"}, app : Apps, target : {"HIRED", "REJECTED"}]

InTransaction == {"override", "update", "history", "audit", "commit"}
Statements == {"preflight"} \cup InTransaction \cup {"respond", "done"}
Refusals ==
  {"NOT_FOUND", "APPLICATION_NOT_ACTIVE", "INVALID_STAGE_TRANSITION", "VALIDATION_ERROR",
   "STAGE_CONFLICT"}
Replies == {"OK", "INTERNAL_ERROR"} \cup Refusals

ASSUME RepliesAssumption == Null \notin Replies

Init ==
  /\ TablesInit
  /\ call \in [Requests -> Calls]
  /\ pc = [r \in Requests |-> "preflight"]
  /\ seen = [r \in Requests |-> Null]
  /\ reply = [r \in Requests |-> Null]

Goto(r, statement) == pc' = [pc EXCEPT ![r] = statement]

Answer(r, what) == Goto(r, "done") /\ reply' = [reply EXCEPT ![r] = what]

-----------------------------------------------------------------------------
(***************************************************************************)
(* Before the transaction: one read, and the rule applied to what it saw.  *)
(***************************************************************************)

Refuse(r, code) == Answer(r, code) /\ UNCHANGED <<tableVars, call, seen>>

\* The pre-flight passed: remember the stage it saw, open the transaction.
Proceed(r, statement) ==
  /\ seen' = [seen EXCEPT ![r] = application[call[r].app].currentStage]
  /\ Goto(r, statement)
  /\ UNCHANGED <<tableVars, call, reply>>

\* The refusals of loadActiveApplication, shared by the three writes.
loadActiveApplication(r) ==
  /\ pc[r] = "preflight"
  /\ \/ application[call[r].app] = Null /\ Refuse(r, "NOT_FOUND")
     \/ /\ application[call[r].app] # Null
        /\ ~isActive(call[r].app)
        /\ Refuse(r, "APPLICATION_NOT_ACTIVE")

Loaded(r, endpoint) ==
  pc[r] = "preflight" /\ call[r].endpoint = endpoint /\ isActive(call[r].app)

stageMoveAllowed(a, toStage) == canTransition(application[a].currentStage, toStage)

overrideAllowed(a, toStage) == application[a].currentStage # toStage

outcomeAllowed(a, toStatus) == canSetOutcome(application[a].currentStage, toStatus)

changeStage(r) ==
  /\ Loaded(r, "changeStage")
  /\ IF stageMoveAllowed(call[r].app, call[r].target)
     THEN Proceed(r, "update")
     ELSE Refuse(r, "INVALID_STAGE_TRANSITION")

\* The override row is inserted first, ahead of the guarded update.
overrideStage(r) ==
  /\ Loaded(r, "overrideStage")
  /\ IF overrideAllowed(call[r].app, call[r].target)
     THEN Proceed(r, "override")
     ELSE Refuse(r, "VALIDATION_ERROR")

setOutcome(r) ==
  /\ Loaded(r, "setOutcome")
  /\ IF outcomeAllowed(call[r].app, call[r].target)
     THEN Proceed(r, "update")
     ELSE Refuse(r, "INVALID_STAGE_TRANSITION")

-----------------------------------------------------------------------------
(***************************************************************************)
(* The statements of the transaction.                                      *)
(***************************************************************************)

isOutcome(r) == call[r].endpoint = "setOutcome"
overrideIdOf(r) == IF call[r].endpoint = "overrideStage" THEN r ELSE Null

OverrideOf(r) ==
  [id |-> r, app |-> call[r].app, fromStage |-> seen[r], toStage |-> call[r].target]

\* Both stage ends of an outcome's row are the stage the pre-flight saw.
HistoryOf(r) ==
  [fromStage  |-> seen[r],
   toStage    |-> IF isOutcome(r) THEN seen[r] ELSE call[r].target,
   fromStatus |-> "ACTIVE",
   toStatus   |-> IF isOutcome(r) THEN call[r].target ELSE "ACTIVE",
   changedBy  |-> r,
   overrideId |-> overrideIdOf(r)]

AuditOf(r) ==
  [action |-> CASE call[r].endpoint = "changeStage"   -> "CANDIDATE_STAGE_CHANGED"
                [] call[r].endpoint = "overrideStage" -> "STAGE_OVERRIDE_CREATED"
                [] call[r].endpoint = "setOutcome"    -> "APPLICATION_OUTCOME_SET",
   actor      |-> r,
   from       |-> IF isOutcome(r) THEN "ACTIVE" ELSE seen[r],
   to         |-> call[r].target,
   overrideId |-> overrideIdOf(r),
   skipped    |-> IF call[r].endpoint = "overrideStage"
                  THEN stagesSkipped(seen[r], call[r].target) ELSE Null]

Then(r, statement) == Goto(r, statement) /\ UNCHANGED <<call, seen, reply>>

InsertOverride(r) ==
  /\ pc[r] = "override"
  /\ insertOverride(r, OverrideOf(r))
  /\ UNCHANGED <<tables, lock>>
  /\ Then(r, "update")

\* Mutant: a locked row reads as a row that does not match.
updateGuardNoWait(r) ==
  /\ lock[call[r].app] = Null
  /\ IF isOutcome(r) THEN outcomeGuard(call[r].app) ELSE stageGuard(call[r].app, seen[r])

updateGuard(r) ==
  IF isOutcome(r) THEN outcomeGuard(call[r].app) ELSE stageGuard(call[r].app, seen[r])

Update(r) ==
  /\ pc[r] = "update"
  /\ IF isOutcome(r)
     THEN guardedOutcomeUpdate(r, call[r].app, call[r].target)
     ELSE guardedStageUpdate(r, call[r].app, seen[r], call[r].target)
  /\ UNCHANGED tables
  /\ Then(r, "history")

\* count = 0: the throw aborts the transaction, a pending override row with it.
LoseUpdate(r) ==
  /\ pc[r] = "update"
  /\ ~updateGuard(r)
  /\ Rollback(r)
  /\ Answer(r, "STAGE_CONFLICT")
  /\ UNCHANGED <<call, seen>>

InsertHistory(r) ==
  /\ pc[r] = "history"
  /\ insertHistory(r, HistoryOf(r))
  /\ UNCHANGED <<tables, lock>>
  /\ Then(r, "audit")

RecordAudit(r) ==
  /\ pc[r] = "audit"
  /\ recordAudit(r, AuditOf(r))
  /\ UNCHANGED <<tables, lock>>
  /\ Then(r, "commit")

CommitRequest(r) ==
  /\ pc[r] = "commit"
  /\ Commit(r, call[r].app)
  /\ Then(r, "respond")

Respond(r) ==
  /\ pc[r] = "respond"
  /\ Answer(r, "OK")
  /\ UNCHANGED <<tableVars, call, seen>>

\* Mutant: the error swallowed and the success body sent.
FailSwallowed(r) ==
  /\ pc[r] # "done"
  /\ Rollback(r)
  /\ Answer(r, "OK")
  /\ UNCHANGED <<call, seen>>

\* A statement throws, the transaction's time limit passes, or the connection
\* drops after the COMMIT: what was not committed is rolled back, and the
\* error handler answers 500.
Fail(r) ==
  /\ pc[r] # "done"
  /\ Rollback(r)
  /\ Answer(r, "INTERNAL_ERROR")
  /\ UNCHANGED <<call, seen>>

-----------------------------------------------------------------------------
Handle(r) ==
  \/ loadActiveApplication(r)
  \/ changeStage(r)
  \/ overrideStage(r)
  \/ setOutcome(r)
  \/ InsertOverride(r)
  \/ Update(r)
  \/ LoseUpdate(r)
  \/ InsertHistory(r)
  \/ RecordAudit(r)
  \/ CommitRequest(r)
  \/ Respond(r)

Apply(a) == createApplication(a) /\ UNCHANGED requestVars

\* Every request has been answered: nothing is left to do but apply.
Quiescent == (\A r \in Requests : pc[r] = "done") /\ UNCHANGED vars

Next ==
  \/ \E r \in Requests : Handle(r) \/ Fail(r)
  \/ \E a \in Apps : Apply(a)
  \/ Quiescent

\* Node and PostgreSQL keep running a handler that can take a step.  A request
\* is served once, so it waits for a lock at most once per other request and
\* weak fairness is enough.
Fairness == \A r \in Requests : WF_vars(Handle(r))

Spec == Init /\ [][Next]_vars
FairSpec == Spec /\ Fairness

-----------------------------------------------------------------------------
(***************************************************************************)
(* Properties.                                                             *)
(***************************************************************************)

TypeOK ==
  /\ TablesTypeOK
  /\ call \in [Requests -> Calls]
  /\ pc \in [Requests -> Statements]
  /\ seen \in [Requests -> PipelineStage \cup {Null}]
  /\ reply \in [Requests -> Replies \cup {Null}]

isMove(row) == row.fromStatus = "ACTIVE" /\ row.toStatus = "ACTIVE"

\* The stage and the status of an application are what its history says: it
\* starts with the entry row, every row starts from the status the row before
\* it left, every move from the stage the row before it left, and the row's
\* two columns are where the last row of each kind ended (guarded updates and
\* their history inserts commit together; nothing is lost or written twice).
HistoryExplainsRow ==
  \A a \in Apps :
    LET h == stageHistory[a]
        n == Len(h)
        row == application[a]
    IN  IF row = Null THEN h = <<>>
        ELSE /\ n >= 1
             /\ h[1] = EntryRow
             /\ \A i \in 2 .. n :
                  /\ h[i].fromStatus = "ACTIVE" /\ h[i - 1].toStatus = "ACTIVE"
                  /\ isMove(h[i]) => h[i].fromStage = h[i - 1].toStage
             /\ row.status = h[n].toStatus
             /\ IF row.status = "ACTIVE" THEN row.currentStage = h[n].toStage
                ELSE n >= 2 /\ row.currentStage = h[n - 1].toStage

\* No stage is skipped quietly: each move in the history is one step forward on
\* the board, or has its own override row, for this application and with the
\* same two ends; an outcome was legal from the stage its row names.
NoSilentSkip ==
  \A a \in Apps : \A i \in 2 .. Len(stageHistory[a]) :
    LET row == stageHistory[a][i]
    IN  IF isMove(row)
        THEN \/ /\ row.overrideId = Null
                /\ STAGE_ORDER[row.toStage] = STAGE_ORDER[row.fromStage] + 1
             \/ /\ row.fromStage # row.toStage
                /\ [id |-> row.overrideId, app |-> a, fromStage |-> row.fromStage,
                    toStage |-> row.toStage] \in stageOverride
        ELSE row.toStatus = "HIRED" => row.fromStage = "OFFER"

\* "No orphan override exists for a move that did not happen": a committed
\* override row is referenced by a history row of its application, and by no
\* other (pipeline.service.ts, overrideStage's count = 0 branch).
NoOrphanOverride ==
  \A o \in stageOverride :
    /\ \E i \in 2 .. Len(stageHistory[o.app]) : stageHistory[o.app][i].overrideId = o.id
    /\ \A a \in Apps : \A i \in 1 .. Len(stageHistory[a]) :
         stageHistory[a][i].overrideId = o.id => a = o.app

\* The audit trail of an application tells the same story as its history after
\* the entry row: the same actors, in the same order, with the same ends.
AuditMirrorsHistory ==
  \A a \in Apps :
    LET h == stageHistory[a]
        log == auditLog[a]
    IN  /\ Len(log) = IF h = <<>> THEN 0 ELSE Len(h) - 1
        /\ \A i \in 1 .. Len(log) :
             /\ log[i].actor = h[i + 1].changedBy
             /\ log[i].overrideId = h[i + 1].overrideId
             /\ IF isMove(h[i + 1])
                THEN log[i].from = h[i + 1].fromStage /\ log[i].to = h[i + 1].toStage
                ELSE log[i].from = "ACTIVE" /\ log[i].to = h[i + 1].toStatus

Wrote(t, a) == \E i \in 1 .. Len(stageHistory[a]) : stageHistory[a][i].changedBy = t

\* A 200 or 201 means the change is in the history, a refusal means it is not,
\* and no request ever writes two rows, whatever raced it or failed.
HonestAnswers ==
  /\ \A r \in Requests :
       /\ reply[r] = "OK" => Wrote(r, call[r].app)
       /\ reply[r] \in Refusals => \A a \in Apps : ~Wrote(r, a)
  /\ \A a \in Apps, b \in Apps : \A i \in 2 .. Len(stageHistory[a]), j \in 2 .. Len(stageHistory[b]) :
       stageHistory[a][i].changedBy = stageHistory[b][j].changedBy => a = b /\ i = j

\* A 409 STAGE_CONFLICT is never spurious: somebody else moved the application
\* off the stage the loser had read, or closed it.
ConflictHasWinner ==
  \A r \in Requests :
    reply[r] = "STAGE_CONFLICT" =>
      \E i \in 2 .. Len(stageHistory[call[r].app]) :
        LET row == stageHistory[call[r].app][i]
        IN  row.changedBy # r /\ (row.fromStage = seen[r] \/ ~isMove(row))

\* "Terminal is terminal": no step changes the row or adds to the history of an
\* application that is HIRED or REJECTED, not even one whose request read it
\* while it was ACTIVE.
TerminalIsTerminal ==
  [][\A a \in Apps :
       application[a] # Null /\ ~isActive(a) =>
         application'[a] = application[a] /\ stageHistory'[a] = stageHistory[a]]_vars

\* Every request is answered: whatever order the requests lock the row in, none
\* waits for ever.
AllAnswered == \A r \in Requests : <>(reply[r] # Null)

\* The statements implement the abstract life of an application.
Abstract == INSTANCE Lifecycle WITH Actors <- Transactions
ImplementsLifecycle == Abstract!Spec

\* HIRED is legal only from OFFER (pipeline.rules.ts:64-67 and EC-04 of the
\* pipeline spec: an outcome racing a stage move matches zero rows).  The
\* outcome's guard is on status alone, so a hire decided at OFFER commits on an
\* application an override has meanwhile moved back.
HiredOnlyFromOffer ==
  \A a \in Apps :
    application[a] # Null /\ application[a].status = "HIRED" =>
      application[a].currentStage = "OFFER"

-----------------------------------------------------------------------------
(***************************************************************************)
(* The inductive invariant: what a request in flight may rely on.          *)
(***************************************************************************)

HasLock == {"history", "audit", "commit"}

\* What the pre-flight established about the stage it saw.
legal(r) ==
  CASE call[r].endpoint = "changeStage"   -> canTransition(seen[r], call[r].target)
    [] call[r].endpoint = "overrideStage" -> seen[r] # call[r].target
    [] call[r].endpoint = "setOutcome"    -> canSetOutcome(seen[r], call[r].target)

SeenIsLegal ==
  \A r \in Requests :
    /\ pc[r] \in InTransaction =>
         /\ seen[r] \in PipelineStage /\ legal(r)
         /\ application[call[r].app] # Null
         /\ pc[r] = "override" => call[r].endpoint = "overrideStage"
    /\ pc[r] = "done" <=> reply[r] # Null

\* From its guarded update to its COMMIT a request holds the row's lock, alone.
LocksAreHeld ==
  /\ \A r \in Requests : pc[r] \in HasLock => lock[call[r].app] = r
  /\ \A a \in Apps : lock[a] # Null =>
       lock[a] \in Requests /\ pc[lock[a]] \in HasLock /\ call[lock[a]].app = a

\* While it holds the lock, the guard it passed stays true.
GuardStillHolds == \A r \in Requests : pc[r] \in HasLock => updateGuard(r)

RowOf(r) ==
  IF isOutcome(r) THEN [application[call[r].app] EXCEPT !.status = call[r].target]
                  ELSE [application[call[r].app] EXCEPT !.currentStage = call[r].target]

\* What a request has written so far is settled by the statement it is at.
WritesOf(r) ==
  /\ buffer[r].row = IF pc[r] \in HasLock THEN RowOf(r) ELSE Null
  /\ buffer[r].override = IF overrideIdOf(r) # Null /\ pc[r] \in HasLock \cup {"update"}
                          THEN {OverrideOf(r)} ELSE {}
  /\ buffer[r].history = IF pc[r] \in {"audit", "commit"} THEN <<HistoryOf(r)>> ELSE <<>>
  /\ buffer[r].audit = IF pc[r] = "commit" THEN <<AuditOf(r)>> ELSE <<>>

WritesSoFar == \A r \in Requests : WritesOf(r)

InFlight == SeenIsLegal /\ LocksAreHeld /\ GuardStillHolds /\ WritesSoFar
=============================================================================
