--------------------------- MODULE InterviewsProofs ---------------------------
(***************************************************************************)
(* Theorems about Interviews, for every set of applications, rounds,       *)
(* requests and verdicts: a verdict is applied whole or not at all, what   *)
(* it answers is true, a round is decided once, and with verdicts beside   *)
(* the recruiters' writes an application still leads the life of Lifecycle.*)
(* Then of Timeline: what the views of an application hold, read one       *)
(* SELECT after the other beside all of these.                             *)
(***************************************************************************)
EXTENDS Timeline, PipelineProofs

USE NullAssumption, RequestsAssumption, RepliesAssumption, RoundStagesAssumption,
    VerdictsAssumption, InterviewsNull

\* The statements at which a verdict holds its round, and those at which it has
\* written its application too.
HasRound == {"update", "history", "audit", "commit"}
Moves(v) == ~selected(v) \/ toStage(v) # Null
HasApplication(v) == step[v] \in {"history", "audit"} \/ (step[v] = "commit" /\ Moves(v))

\* A round is one of an application that is there, and is made once.
RoundsHaveApplications ==
  \A i \in Rounds :
    /\ interview[i] # Null => application[interview[i].app] # Null
    /\ scheduling[i] # Null => interview[i] = Null /\ application[scheduling[i].app] # Null

\* What a verdict has found on its way.
RoundIsFound(v) ==
  /\ step[v] \notin {"readRound", "done"} => roundOf(v) # Null
  /\ step[v] \in {"claim"} \cup HasRound => saw[v] \in PipelineStage /\ verdictAllowed(v, saw[v])
  /\ step[v] \in {"update", "history", "audit"} => Moves(v)

\* A verdict that has claimed its round holds it, undecided; one that has
\* written its application holds that too, as its guard found it.
ClaimsAreHeld(v) ==
  /\ step[v] \in HasRound => interviewLock[verdict[v].round] = v /\ claimGuard(verdict[v].round)
  /\ HasApplication(v) => lock[appOf(v)] = v /\ applicationGuard(v)

\* What a verdict has written so far is settled by the statement it is at.
VerdictRow(v) ==
  IF selected(v) THEN [application[appOf(v)] EXCEPT !.currentStage = toStage(v)]
                 ELSE [application[appOf(v)] EXCEPT !.status = "REJECTED"]
VerdictWrites(v) ==
  /\ buffer[v].row = IF HasApplication(v) THEN VerdictRow(v) ELSE Null
  /\ buffer[v].override = {}
  /\ buffer[v].history = IF HasApplication(v) /\ step[v] # "history" THEN <<VerdictHistory(v)>> ELSE <<>>
  /\ buffer[v].audit = IF HasApplication(v) /\ step[v] = "commit" THEN <<VerdictAudit(v)>> ELSE <<>>

VerdictsAreDue ==
  \A v \in Verdicts : RoundIsFound(v) /\ ClaimsAreHeld(v) /\ VerdictWrites(v)

\* A decision is one of the verdict that it names, on the round it was asked
\* for, and a round's audit is as long as its life.
DecisionsAreOwn ==
  \A i \in Rounds :
    /\ interview[i] = Null => Len(interviewAudit[i]) = 0
    /\ interview[i] # Null =>
         /\ (interview[i].outcome = Null) <=> (interview[i].decidedBy = Null)
         /\ interview[i].outcome = Null => Len(interviewAudit[i]) = 1
         /\ interview[i].outcome # Null =>
              /\ verdict[interview[i].decidedBy].round = i
              /\ interview[i].status = "COMPLETED"

\* A verdict is on its round from its COMMIT on.
mine(v) == roundOf(v) # Null /\ roundOf(v).decidedBy = v
AnswersAreTrue ==
  \A v \in Verdicts :
    /\ step[v] \notin {"respond", "done"} => ~mine(v)
    /\ step[v] = "respond" => mine(v)
    /\ answer[v] # Null => step[v] = "done"
    /\ answer[v] = "OK" => mine(v)
    /\ answer[v] \in VerdictRefusals => ~mine(v)
    /\ \A a \in Apps : Wrote(v, a) => mine(v) /\ a = appOf(v)

\* The inductive invariant.
IInv ==
  /\ InterviewsTypeOK /\ RequestsSafe
  /\ RoundsHaveApplications /\ VerdictsAreDue
  /\ DecisionsAreOwn /\ AnswersAreTrue /\ CommittedWhole

\* The stage a verdict saw is one its application has been at.
SawVisited ==
  \A v \in Verdicts :
    step[v] \in {"claim"} \cup HasRound =>
      \E n \in 1 .. Len(stageHistory[appOf(v)]) : stageHistory[appOf(v)][n].toStage = saw[v]

\* And what the refinement needs.
LifeIsTold ==
  /\ HistoryExplainsRow /\ WrittenSoFar /\ OwnOverride /\ SeenVisited
  /\ SawVisited /\ SelectedHasBeenThere

-----------------------------------------------------------------------------
(***************************************************************************)
(* Types.                                                                  *)
(***************************************************************************)

\* Who a verdict is, and where its round and its application are.
LEMMA VerdictTypes ==
  ASSUME InterviewsTypeOK, NEW v \in Verdicts
  PROVE  /\ v \in Transactions /\ v \notin Requests /\ v # Null
         /\ verdict[v].round \in Rounds /\ verdict[v].decision \in {"SELECTED", "REJECTED"}
         /\ saw[v] \in PipelineStage \cup {Null} /\ step[v] \in VerdictSteps
         /\ buffer[v] \in Buffer
         /\ roundOf(v) # Null =>
              /\ roundOf(v) \in InterviewRow /\ appOf(v) \in Apps
              /\ roundOf(v).stage \in RoundStages /\ roundOf(v).stage \in PipelineStage
<1>1. /\ verdict[v] \in Decisions /\ saw[v] \in PipelineStage \cup {Null} /\ step[v] \in VerdictSteps
      /\ interview \in [Rounds -> InterviewRow \cup {Null}]
  BY DEF InterviewsTypeOK
<1>2. verdict[v].round \in Rounds /\ verdict[v].decision \in {"SELECTED", "REJECTED"}
  BY <1>1 DEF Decisions, InterviewOutcome
<1>3. roundOf(v) # Null => roundOf(v) \in InterviewRow
  BY <1>1, <1>2 DEF roundOf
<1>4. buffer[v] \in Buffer
  BY DEF InterviewsTypeOK, TypeOK, TablesTypeOK
<1> QED BY <1>1, <1>2, <1>3, <1>4 DEF appOf, InterviewRow

\* The stage a verdict moves to is one, and so are the ends of its rows.
LEMMA VerdictRowTypes ==
  ASSUME InterviewsTypeOK, NEW v \in Verdicts, roundOf(v) # Null, saw[v] \in PipelineStage, Moves(v)
  PROVE  /\ selected(v) => toStage(v) = roundOf(v).stage /\ toStage(v) \in PipelineStage
         /\ VerdictHistory(v) \in HistoryRow
         /\ VerdictAudit(v) \in AuditRow
         /\ application[appOf(v)] # Null => VerdictRow(v) \in ApplicationRow
<1>1. v \in Transactions /\ appOf(v) \in Apps /\ roundOf(v).stage \in PipelineStage
  BY VerdictTypes
<1>2. selected(v) => toStage(v) = roundOf(v).stage /\ toStage(v) \in PipelineStage
  BY <1>1 DEF Moves, toStage, moveFrom
<1>3. VerdictHistory(v) \in HistoryRow
  BY <1>1, <1>2 DEF VerdictHistory, HistoryRow, ApplicationStatus
<1>4. VerdictAudit(v) \in AuditRow
  BY <1>1, <1>2 DEF VerdictAudit, AuditRow, ApplicationStatus
<1>5. ASSUME application[appOf(v)] # Null
      PROVE  VerdictRow(v) \in ApplicationRow
  <2>1. application[appOf(v)] \in ApplicationRow
    BY <1>1, <1>5 DEF InterviewsTypeOK, TypeOK, TablesTypeOK
  <2>2. CASE selected(v)
    <3>1. [application[appOf(v)] EXCEPT !.currentStage = toStage(v)] \in ApplicationRow
      BY <1>2, <2>1, <2>2 DEF ApplicationRow
    <3> QED BY <2>2, <3>1 DEF VerdictRow
  <2>3. CASE ~selected(v)
    <3>1. [application[appOf(v)] EXCEPT !.status = "REJECTED"] \in ApplicationRow
      BY <2>1 DEF ApplicationRow, ApplicationStatus
    <3> QED BY <2>3, <3>1 DEF VerdictRow
  <2> QED BY <2>2, <2>3
<1> QED BY <1>2, <1>3, <1>4, <1>5

-----------------------------------------------------------------------------
(***************************************************************************)
(* The steps of a verdict, by what they do.                                *)
(***************************************************************************)
VerdictStep(v) == recordDecision(v) \/ FailVerdict(v)

\* Whatever ends a verdict's transaction with nothing written.
Aborts(v) ==
  \/ step[v] = "claim" /\ ~claimGuard(verdict[v].round) /\ AbortVerdict(v, "DECISION_ALREADY_RECORDED")
  \/ step[v] = "update" /\ ~applicationGuard(v) /\ AbortVerdict(v, "STAGE_CONFLICT")
  \/ step[v] # "done" /\ AbortVerdict(v, "INTERNAL_ERROR")

\* Whatever is outside the transaction: reads and the answer.
Passes(v) ==
  /\ UNCHANGED <<vars, roundVars, verdict>>
  /\ \/ step[v] = "readRound" /\ AnswerVerdict(v, "NOT_FOUND")
     \/ step[v] = "readRound" /\ AnswerVerdict(v, "INTERVIEW_CANCELLED")
     \/ step[v] = "readRound" /\ roundOf(v) # Null /\ Advance(v, "readApplication")
     \/ step[v] = "readApplication" /\ AnswerVerdict(v, "APPLICATION_NOT_ACTIVE")
     \/ step[v] = "readApplication" /\ AnswerVerdict(v, "INVALID_STAGE_TRANSITION")
     \/ /\ step[v] = "readApplication" /\ isActive(appOf(v))
        /\ verdictAllowed(v, application[appOf(v)].currentStage)
        /\ saw' = [saw EXCEPT ![v] = application[appOf(v)].currentStage]
        /\ step' = [step EXCEPT ![v] = "claim"] /\ answer' = answer
     \/ step[v] = "respond" /\ AnswerVerdict(v, "OK")

LEMMA VerdictCases ==
  ASSUME NEW v \in Verdicts, VerdictStep(v)
  PROVE  \/ Passes(v) \/ Claim(v) \/ Aborts(v)
         \/ UpdateApplication(v) \/ InsertVerdictHistory(v) \/ AuditVerdict(v) \/ CommitVerdict(v)
<1>1. CASE ReadRound(v)
  BY <1>1 DEF ReadRound, RefuseVerdict, AnswerVerdict, Advance, Passes
<1>2. CASE ReadApplication(v)
  BY <1>2 DEF ReadApplication, RefuseVerdict, AnswerVerdict, Passes
<1>3. CASE RespondVerdict(v)
  BY <1>3 DEF RespondVerdict, RefuseVerdict, AnswerVerdict, Passes
<1>4. CASE LoseClaim(v) \/ LoseApplication(v) \/ FailVerdict(v)
  BY <1>4 DEF LoseClaim, LoseApplication, FailVerdict, Aborts
<1> QED BY <1>1, <1>2, <1>3, <1>4 DEF VerdictStep, recordDecision

\* A verdict's step is its own.
LEMMA OthersWait ==
  ASSUME InterviewsTypeOK, NEW v \in Verdicts, VerdictStep(v)
  PROVE  /\ verdict' = verdict /\ scheduling' = scheduling /\ UNCHANGED requestVars
         /\ \A u \in Verdicts \ {v} : step'[u] = step[u] /\ saw'[u] = saw[u] /\ answer'[u] = answer[u]
         /\ \A t \in Transactions \ {v} : buffer'[t] = buffer[t]
         /\ \A t \in Transactions \ {v} : \A a \in Apps : lock[a] = t => lock'[a] = t
         /\ \A u \in Verdicts \ {v} : \A i \in Rounds : interviewLock[i] = u => interviewLock'[i] = u
         /\ CommitVerdict(v) \/ UNCHANGED <<tables, interview, interviewAudit>>
<1>0. /\ step \in [Verdicts -> VerdictSteps] /\ saw \in [Verdicts -> PipelineStage \cup {Null}]
      /\ answer \in [Verdicts -> VerdictRefusals \cup {"OK", "INTERNAL_ERROR", Null}]
      /\ buffer \in [Transactions -> Buffer] /\ lock \in [Apps -> Transactions \cup {Null}]
      /\ interviewLock \in [Rounds -> Verdicts \cup {Null}] /\ Null \notin Verdicts
      /\ v \in Transactions /\ Null \notin Transactions
  BY VerdictTypes DEF InterviewsTypeOK, TypeOK, TablesTypeOK
<1>1. CASE Passes(v)
  BY <1>0, <1>1 DEF Passes, AnswerVerdict, Advance, roundVars, vars, tableVars
<1>2. CASE Claim(v)
  BY <1>0, <1>2 DEF Claim, Advance, vars, tableVars
<1>3. CASE Aborts(v)
  BY <1>0, <1>3 DEF Aborts, AbortVerdict, Rollback, EndTransaction, ReleaseRound, AnswerVerdict
<1>4. CASE UpdateApplication(v)
  BY <1>0, <1>4 DEF UpdateApplication, guardedStageUpdate, guardedOutcomeUpdate, UpdateRow, Advance, roundVars
<1>5. CASE InsertVerdictHistory(v) \/ AuditVerdict(v)
  BY <1>0, <1>5 DEF InsertVerdictHistory, AuditVerdict, insertHistory, recordAudit, Advance, roundVars
<1>6. CASE CommitVerdict(v)
  BY <1>0, <1>6 DEF CommitVerdict, Commit, EndTransaction, ReleaseRound, Advance
<1> QED BY <1>1, <1>2, <1>3, <1>4, <1>5, <1>6, VerdictCases

-----------------------------------------------------------------------------
(***************************************************************************)
(* What a step leaves alone: the buffer and the rows of a transaction that *)
(* does not take it, and the rounds it holds.                              *)
(***************************************************************************)
Spares(t) ==
  /\ buffer'[t] = buffer[t]
  /\ \A a \in Apps :
       lock[a] = t /\ application[a] # Null => lock'[a] = t /\ application'[a] = application[a]

ApplicationsStay == \A a \in Apps : application[a] # Null => application'[a] # Null

\* Requests are safe from whatever spares them.
LEMMA SafeIfSpared ==
  ASSUME TypeOK, RequestsSafe, UNCHANGED requestVars, ApplicationsStay,
         \A r \in Requests : Spares(r)
  PROVE  RequestsSafe'
<1>1. call' = call /\ pc' = pc /\ seen' = seen /\ reply' = reply
  BY DEF requestVars
<1>2. SeenIsLegal'
  BY <1>1, CallTypes DEF RequestsSafe, SeenIsLegal, ApplicationsStay, legal
<1>3. ASSUME NEW r \in Requests, pc[r] \in HasLock
      PROVE  lock'[call[r].app] = r /\ application'[call[r].app] = application[call[r].app]
  <2>1. lock[call[r].app] = r /\ application[call[r].app] # Null /\ call[r].app \in Apps
    BY <1>3, CallTypes DEF RequestsSafe, LocksAreTaken, SeenIsLegal, HasLock, InTransaction
  <2> QED BY <2>1 DEF Spares
<1>4. LocksAreTaken' /\ GuardStillHolds'
  BY <1>1, <1>3 DEF RequestsSafe, LocksAreTaken, GuardStillHolds, updateGuard, isOutcome, outcomeGuard,
     stageGuard, isActive
<1>5. WritesSoFar'
  <2> SUFFICES ASSUME NEW r \in Requests
               PROVE  WritesOf(r)'
    BY DEF WritesSoFar
  <2>1. WritesOf(r) /\ buffer'[r] = buffer[r]
    BY DEF RequestsSafe, WritesSoFar, Spares
  <2> QED BY <1>1, <1>3, <2>1, SameWrites
<1> QED BY <1>2, <1>4, <1>5 DEF RequestsSafe

\* A recruiter's or a candidate's step spares every verdict.
LEMMA RequestsSpare ==
  ASSUME TypeOK, RequestsSafe, [Next]_vars, NEW t \in Transactions \ Requests
  PROVE  Spares(t) /\ ApplicationsStay
<1>0. /\ lock \in [Apps -> Transactions \cup {Null}] /\ buffer \in [Transactions -> Buffer]
      /\ t # Null /\ t \in Transactions
  BY DEF TypeOK, TablesTypeOK
<1>1. ApplicationsStay
  BY RowsStay DEF ApplicationsStay
<1>2. buffer'[t] = buffer[t]
  BY OthersUntouched DEF Next, Apply, createApplication, Quiescent, vars, tableVars
<1>3. ASSUME NEW a \in Apps, lock[a] = t, application[a] # Null
      PROVE  lock'[a] = t /\ application'[a] = application[a]
  <2>1. application'[a] = application[a]
    BY <1>0, <1>3, RowChanges DEF RequestsSafe
  <2>2. ASSUME NEW r \in Requests, Handle(r) \/ Fail(r)
        PROVE  lock'[a] = t
    <3>1. CASE loadActiveApplication(r) \/ changeStage(r) \/ overrideStage(r) \/ setOutcome(r) \/ Respond(r)
      BY <1>3, <3>1 DEF loadActiveApplication, changeStage, overrideStage, setOutcome, Respond, Refuse,
         Proceed, tableVars
    <3>2. CASE InsertOverride(r) \/ InsertHistory(r) \/ RecordAudit(r)
      BY <1>3, <3>2 DEF InsertOverride, InsertHistory, RecordAudit
    <3>3. CASE Update(r)
      BY <1>0, <1>3, <3>3 DEF Update, guardedOutcomeUpdate, guardedStageUpdate, UpdateRow
    <3>4. CASE LoseUpdate(r) \/ CommitRequest(r) \/ Fail(r)
      BY <1>0, <1>3, <3>4 DEF LoseUpdate, CommitRequest, Fail, Rollback, Commit, EndTransaction
    <3> QED BY <2>2, <3>1, <3>2, <3>3, <3>4 DEF Handle
  <2>3. (\E b \in Apps : Apply(b)) \/ UNCHANGED vars => lock'[a] = t
    BY <1>3 DEF Apply, createApplication, vars, tableVars
  <2> QED BY <2>1, <2>2, <2>3 DEF Next, Quiescent
<1> QED BY <1>1, <1>2, <1>3 DEF Spares

\* What a verdict's COMMIT does to the tables, and what is known of it then.
VerdictPublishes(v) ==
  /\ isActive(appOf(v)) /\ Moves(v)
  /\ selected(v) => application[appOf(v)].currentStage = saw[v]
  /\ application' = [application EXCEPT ![appOf(v)] = VerdictRow(v)]
  /\ stageHistory' = [stageHistory EXCEPT ![appOf(v)] = Append(@, VerdictHistory(v))]
  /\ auditLog' = [auditLog EXCEPT ![appOf(v)] = Append(@, VerdictAudit(v))]
  /\ stageOverride' = stageOverride

LEMMA CommitOfVerdict ==
  ASSUME InterviewsTypeOK, RoundsHaveApplications, VerdictsAreDue, NEW v \in Verdicts, CommitVerdict(v)
  PROVE  /\ roundOf(v) # Null /\ saw[v] \in PipelineStage /\ verdictAllowed(v, saw[v])
         /\ application[appOf(v)] # Null
         /\ claimGuard(verdict[v].round) /\ interviewLock[verdict[v].round] = v
         /\ Moves(v) => VerdictPublishes(v) /\ lock[appOf(v)] = v
         /\ ~Moves(v) => UNCHANGED tables
<1>1. v \in Transactions /\ step[v] = "commit" /\ verdict[v].round \in Rounds
  BY VerdictTypes DEF CommitVerdict
<1>2. RoundIsFound(v) /\ ClaimsAreHeld(v) /\ VerdictWrites(v)
  BY DEF VerdictsAreDue
<1>3. /\ roundOf(v) # Null /\ saw[v] \in PipelineStage /\ verdictAllowed(v, saw[v])
      /\ claimGuard(verdict[v].round) /\ interviewLock[verdict[v].round] = v
  BY <1>1, <1>2 DEF RoundIsFound, ClaimsAreHeld, HasRound
<1>4. appOf(v) \in Apps /\ application[appOf(v)] # Null
  BY <1>1, <1>3, VerdictTypes DEF RoundsHaveApplications, roundOf, appOf
<1>5. stageHistory[appOf(v)] \in Seq(HistoryRow) /\ auditLog[appOf(v)] \in Seq(AuditRow)
      /\ application \in [Apps -> ApplicationRow \cup {Null}]
      /\ stageHistory \in [Apps -> Seq(HistoryRow)] /\ auditLog \in [Apps -> Seq(AuditRow)]
  BY <1>4 DEF InterviewsTypeOK, TypeOK, TablesTypeOK
<1>6. Commit(v, appOf(v))
  BY DEF CommitVerdict
<1>7. ASSUME Moves(v)
      PROVE  VerdictPublishes(v) /\ lock[appOf(v)] = v
  <2>1. HasApplication(v)
    BY <1>1, <1>7 DEF HasApplication
  <2>2. lock[appOf(v)] = v /\ applicationGuard(v)
    BY <1>2, <2>1 DEF ClaimsAreHeld
  <2>3. /\ buffer[v].row = VerdictRow(v) /\ buffer[v].override = {}
        /\ buffer[v].history = <<VerdictHistory(v)>> /\ buffer[v].audit = <<VerdictAudit(v)>>
    BY <1>1, <1>2, <2>1 DEF VerdictWrites
  <2>4. VerdictRow(v) # Null
    BY <1>3, <1>4, <1>7, VerdictRowTypes
  <2>5. /\ stageHistory[appOf(v)] \o <<VerdictHistory(v)>> = Append(stageHistory[appOf(v)], VerdictHistory(v))
        /\ auditLog[appOf(v)] \o <<VerdictAudit(v)>> = Append(auditLog[appOf(v)], VerdictAudit(v))
    BY <1>5
  <2>6. isActive(appOf(v)) /\ (selected(v) => application[appOf(v)].currentStage = saw[v])
    BY <2>2 DEF applicationGuard, stageGuard, outcomeGuard
  <2> QED BY <1>4, <1>5, <1>6, <1>7, <2>2, <2>3, <2>4, <2>5, <2>6 DEF Commit, VerdictPublishes
<1>8. ASSUME ~Moves(v)
      PROVE  UNCHANGED tables
  <2>1. ~HasApplication(v)
    BY <1>1, <1>8 DEF HasApplication
  <2>2. /\ buffer[v].row = Null /\ buffer[v].override = {}
        /\ buffer[v].history = <<>> /\ buffer[v].audit = <<>>
    BY <1>2, <2>1 DEF VerdictWrites
  <2>3. stageHistory[appOf(v)] \o <<>> = stageHistory[appOf(v)] /\ auditLog[appOf(v)] \o <<>> = auditLog[appOf(v)]
    BY <1>5
  <2>4. /\ application' = [application EXCEPT ![appOf(v)] = application[appOf(v)]]
        /\ stageHistory' = [stageHistory EXCEPT ![appOf(v)] = stageHistory[appOf(v)]]
        /\ auditLog' = [auditLog EXCEPT ![appOf(v)] = auditLog[appOf(v)]]
        /\ stageOverride' = stageOverride
    BY <1>6, <2>2, <2>3 DEF Commit
  <2> QED BY <1>4, <1>5, <2>4 DEF tables
<1> QED BY <1>3, <1>4, <1>7, <1>8

\* A verdict's step spares every other transaction.
LEMMA VerdictSpares ==
  ASSUME InterviewsTypeOK, RoundsHaveApplications, VerdictsAreDue, NEW v \in Verdicts, VerdictStep(v)
  PROVE  (\A t \in Transactions \ {v} : Spares(t)) /\ ApplicationsStay
<1>1. CASE UNCHANGED tables
  BY <1>1, OthersWait DEF Spares, ApplicationsStay, tables
<1>2. CASE CommitVerdict(v) /\ Moves(v)
  <2>1. /\ lock[appOf(v)] = v /\ roundOf(v) # Null /\ saw[v] \in PipelineStage
        /\ application[appOf(v)] # Null
        /\ application' = [application EXCEPT ![appOf(v)] = VerdictRow(v)]
    BY <1>2, CommitOfVerdict DEF VerdictPublishes
  <2>2. VerdictRow(v) # Null
    BY <1>2, <2>1, VerdictRowTypes
  <2>3. appOf(v) \in Apps /\ application \in [Apps -> ApplicationRow \cup {Null}]
    BY <2>1, VerdictTypes DEF InterviewsTypeOK, TypeOK, TablesTypeOK
  <2> QED BY <2>1, <2>2, <2>3, OthersWait DEF Spares, ApplicationsStay
<1> QED BY <1>1, <1>2, OthersWait, CommitOfVerdict

-----------------------------------------------------------------------------
(***************************************************************************)
(* Types are kept.                                                         *)
(***************************************************************************)
LEMMA VerdictTypesKept ==
  ASSUME InterviewsTypeOK, RoundsHaveApplications, VerdictsAreDue, NEW v \in Verdicts, VerdictStep(v)
  PROVE  InterviewsTypeOK'
<1> USE DEF InterviewsTypeOK, TypeOK
<1>0. /\ v \in Transactions /\ verdict[v].round \in Rounds
      /\ verdict[v].decision \in {"SELECTED", "REJECTED"} /\ buffer[v] \in Buffer
      /\ roundOf(v) # Null => roundOf(v) \in InterviewRow /\ appOf(v) \in Apps
                              /\ roundOf(v).stage \in RoundStages
  BY VerdictTypes
<1>a. NoWrites \in Buffer
  BY DEF NoWrites, Buffer
<1>b. /\ RoundIsFound(v) /\ ClaimsAreHeld(v)
      /\ UNCHANGED <<call, pc, seen, reply, verdict, scheduling>>
  BY OthersWait DEF VerdictsAreDue, requestVars
\* The verdict's own columns.
<1>c. /\ step' \in [Verdicts -> VerdictSteps]
      /\ saw' \in [Verdicts -> PipelineStage \cup {Null}]
      /\ answer' \in [Verdicts -> VerdictRefusals \cup {"OK", "INTERNAL_ERROR", Null}]
  <2>1. CASE Passes(v)
    <3>1. step[v] = "readApplication" /\ isActive(appOf(v)) => application[appOf(v)].currentStage \in PipelineStage
      BY <1>0, <1>b DEF RoundIsFound, isActive, TablesTypeOK, ApplicationRow
    <3> QED BY <2>1, <3>1 DEF Passes, AnswerVerdict, Advance, VerdictSteps, VerdictRefusals
  <2>2. CASE Aborts(v)
    BY <2>2 DEF Aborts, AbortVerdict, AnswerVerdict, VerdictSteps, VerdictRefusals
  <2>3. CASE Claim(v) \/ UpdateApplication(v) \/ InsertVerdictHistory(v) \/ AuditVerdict(v) \/ CommitVerdict(v)
    BY <2>3 DEF Claim, UpdateApplication, InsertVerdictHistory, AuditVerdict, CommitVerdict, Advance, VerdictSteps
  <2> QED BY <2>1, <2>2, <2>3, VerdictCases
<1>1. CASE Passes(v)
  BY <1>1, <1>b, <1>c DEF Passes, roundVars, vars, tableVars, tables, TablesTypeOK
<1>2. CASE Claim(v)
  <2>1. interviewLock' \in [Rounds -> Verdicts \cup {Null}]
    BY <1>0, <1>2 DEF Claim
  <2> QED BY <1>2, <1>b, <1>c, <2>1 DEF Claim, vars, tableVars, tables, TablesTypeOK
<1>3. CASE Aborts(v)
  <2>1. Rollback(v) /\ ReleaseRound(v) /\ UNCHANGED <<interview, interviewAudit>>
    BY <1>3 DEF Aborts, AbortVerdict
  <2> QED BY <1>a, <1>b, <1>c, <2>1 DEF Rollback, EndTransaction, ReleaseRound, tables, TablesTypeOK
<1>4. CASE UpdateApplication(v)
  <2>1. roundOf(v) # Null /\ saw[v] \in PipelineStage /\ Moves(v)
    BY <1>4, <1>b DEF RoundIsFound, HasRound, UpdateApplication
  <2>2. application[appOf(v)] # Null
    BY <1>4 DEF UpdateApplication, guardedStageUpdate, guardedOutcomeUpdate, stageGuard, outcomeGuard, isActive
  <2>3. UpdateRow(v, appOf(v), VerdictRow(v)) /\ VerdictRow(v) \in ApplicationRow
    BY <1>4, <2>1, <2>2, VerdictRowTypes DEF UpdateApplication, guardedStageUpdate, guardedOutcomeUpdate, VerdictRow
  <2>4. [buffer[v] EXCEPT !.row = VerdictRow(v)] \in Buffer
    BY <1>0, <2>3 DEF Buffer
  <2> QED BY <1>0, <1>4, <1>b, <1>c, <2>1, <2>3, <2>4 DEF UpdateRow, UpdateApplication, roundVars, tables, TablesTypeOK
<1>5. CASE InsertVerdictHistory(v) \/ AuditVerdict(v)
  <2>1. roundOf(v) # Null /\ saw[v] \in PipelineStage /\ Moves(v)
    BY <1>5, <1>b DEF RoundIsFound, HasRound, InsertVerdictHistory, AuditVerdict
  <2>2. /\ [buffer[v] EXCEPT !.history = Append(@, VerdictHistory(v))] \in Buffer
        /\ [buffer[v] EXCEPT !.audit = Append(@, VerdictAudit(v))] \in Buffer
    BY <1>0, <2>1, VerdictRowTypes, HistoryBuffered, AuditBuffered
  <2>3. buffer' \in [Transactions -> Buffer]
    <3>1. CASE InsertVerdictHistory(v)
      BY <1>0, <2>2, <3>1 DEF InsertVerdictHistory, insertHistory, TablesTypeOK
    <3>2. CASE AuditVerdict(v)
      BY <1>0, <2>2, <3>2 DEF AuditVerdict, recordAudit, TablesTypeOK
    <3> QED BY <1>5, <3>1, <3>2
  <2>4. UNCHANGED <<tables, lock, interview, interviewLock, interviewAudit>>
    BY <1>5 DEF InsertVerdictHistory, AuditVerdict, roundVars
  <2> QED BY <1>b, <1>c, <2>3, <2>4 DEF tables, TablesTypeOK
<1>6. CASE CommitVerdict(v)
  <2>1. roundOf(v) # Null /\ interview[verdict[v].round] \in InterviewRow
    BY <1>0, <1>6, CommitOfVerdict DEF roundOf
  <2>2. TablesTypeOK'
    BY <1>0, <1>6, <2>1, CommitTypes DEF CommitVerdict
  <2>3. interview' \in [Rounds -> InterviewRow \cup {Null}]
    BY <1>0, <1>6, <2>1 DEF CommitVerdict, InterviewRow, InterviewStatus, InterviewOutcome
  <2>4. toStage(v) \in RoundStages \cup {Null}
    BY <1>0, <2>1 DEF toStage, moveFrom
  <2>5. interviewAudit' \in [Rounds -> Seq(InterviewAuditRow)]
    <3> DEFINE entry == [action |-> "INTERVIEW_DECISION_RECORDED", actor |-> v, outcome |-> verdict[v].decision,
          toStage |-> toStage(v), toStatus |-> IF selected(v) THEN Null ELSE "REJECTED"]
    <3>1. entry \in InterviewAuditRow
      BY <1>0, <2>4 DEF InterviewAuditRow, InterviewOutcome
    <3>2. interviewAudit' = [interviewAudit EXCEPT ![verdict[v].round] = Append(@, entry)]
      BY <1>6 DEF CommitVerdict
    <3> HIDE DEF entry
    <3> QED BY <1>0, <3>1, <3>2
  <2>6. interviewLock' \in [Rounds -> Verdicts \cup {Null}]
    BY <1>6 DEF CommitVerdict, ReleaseRound
  <2> QED BY <1>b, <1>c, <2>2, <2>3, <2>5, <2>6
<1> QED BY <1>1, <1>2, <1>3, <1>4, <1>5, <1>6, VerdictCases

\* What a step outside the verdicts does to the rounds.
LEMMA RoundCases ==
  ASSUME InterviewsTypeOK, RoundsHaveApplications, RoundStep
  PROVE  /\ UNCHANGED <<vars, verdictVars, interviewLock>>
         /\ \E i \in Rounds :
              \/ /\ interview[i] = Null /\ UNCHANGED <<interview, interviewAudit>>
                 /\ \E s \in Schedules \cup {Null} :
                      /\ scheduling' = [scheduling EXCEPT ![i] = s]
                      /\ s # Null => application[s.app] # Null
              \/ /\ interview[i] = Null /\ scheduling[i] \in Schedules /\ createInterview(i)
              \/ \E status \in {"COMPLETED", "CANCELLED"} : updateInterviewStatus(i, status)
<1>1. PICK i \in Rounds :
        \/ \E a \in Apps, stage \in RoundStages : FindActiveApplication(i, a, stage)
        \/ createInterview(i)
        \/ FailScheduling(i)
        \/ \E status \in {"COMPLETED", "CANCELLED"} : updateInterviewStatus(i, status)
  BY DEF RoundStep
<1>2. scheduling[i] # Null => interview[i] = Null /\ scheduling[i] \in Schedules
  BY DEF RoundsHaveApplications, InterviewsTypeOK
<1>3. ASSUME NEW a \in Apps, NEW stage \in RoundStages, FindActiveApplication(i, a, stage)
      PROVE  /\ interview[i] = Null /\ UNCHANGED <<interview, interviewAudit>>
             /\ \E s \in Schedules \cup {Null} :
                  scheduling' = [scheduling EXCEPT ![i] = s] /\ (s # Null => application[s.app] # Null)
  <2> DEFINE s == [app |-> a, stage |-> stage]
  <2>1. s \in Schedules /\ s.app = a
    BY DEF Schedules
  <2> QED BY <1>3, <2>1 DEF FindActiveApplication, isActive
<1>4. CASE FailScheduling(i)
  BY <1>2, <1>4 DEF FailScheduling
<1>5. UNCHANGED <<vars, verdictVars, interviewLock>>
  BY <1>1 DEF FindActiveApplication, createInterview, FailScheduling, updateInterviewStatus
<1> QED BY <1>1, <1>2, <1>3, <1>4, <1>5 DEF createInterview

\* A round's row of the right type stays one.
LEMMA RoundTypesKept ==
  ASSUME InterviewsTypeOK, RoundsHaveApplications, RoundStep
  PROVE  InterviewsTypeOK'
<1> USE DEF InterviewsTypeOK
<1>1. UNCHANGED <<vars, verdictVars, interviewLock>>
  BY RoundCases
<1>2. TypeOK' /\ UNCHANGED <<verdict, step, saw, answer, interviewLock>>
  BY <1>1 DEF vars, tableVars, tables, requestVars, verdictVars, TypeOK, TablesTypeOK
<1>3. ASSUME NEW i \in Rounds, interview[i] = Null, scheduling[i] \in Schedules, createInterview(i)
      PROVE  /\ interview' \in [Rounds -> InterviewRow \cup {Null}]
             /\ interviewAudit' \in [Rounds -> Seq(InterviewAuditRow)]
             /\ scheduling' \in [Rounds -> Schedules \cup {Null}]
  <2> DEFINE row == [app |-> scheduling[i].app, stage |-> scheduling[i].stage, status |-> "SCHEDULED",
                     outcome |-> Null, decidedBy |-> Null]
             entry == [action |-> "INTERVIEW_CREATED", actor |-> Null, outcome |-> Null, toStage |-> Null,
                       toStatus |-> Null]
  <2>1. row \in InterviewRow
    BY <1>3 DEF Schedules, InterviewRow, InterviewStatus
  <2>2. entry \in InterviewAuditRow
    BY DEF InterviewAuditRow
  <2>3. /\ interview' = [interview EXCEPT ![i] = row]
        /\ interviewAudit' = [interviewAudit EXCEPT ![i] = Append(@, entry)]
        /\ scheduling' = [scheduling EXCEPT ![i] = Null]
    BY <1>3 DEF createInterview
  <2> HIDE DEF row, entry
  <2> QED BY <2>1, <2>2, <2>3
<1>4. ASSUME NEW i \in Rounds, NEW status \in {"COMPLETED", "CANCELLED"}, updateInterviewStatus(i, status)
      PROVE  /\ interview' \in [Rounds -> InterviewRow \cup {Null}]
             /\ interviewAudit' = interviewAudit /\ scheduling' = scheduling
  <2>1. interview[i] \in InterviewRow
    BY <1>4 DEF updateInterviewStatus, statusGuard
  <2>2. [interview[i] EXCEPT !.status = status] \in InterviewRow
    BY <2>1 DEF InterviewRow, InterviewStatus
  <2> QED BY <1>4, <2>2 DEF updateInterviewStatus
<1>5. ASSUME NEW i \in Rounds, NEW s \in Schedules \cup {Null}, UNCHANGED <<interview, interviewAudit>>,
             scheduling' = [scheduling EXCEPT ![i] = s]
      PROVE  /\ interview' \in [Rounds -> InterviewRow \cup {Null}]
             /\ interviewAudit' \in [Rounds -> Seq(InterviewAuditRow)]
             /\ scheduling' \in [Rounds -> Schedules \cup {Null}]
  BY <1>5
<1>6. /\ interview' \in [Rounds -> InterviewRow \cup {Null}]
      /\ interviewAudit' \in [Rounds -> Seq(InterviewAuditRow)]
      /\ scheduling' \in [Rounds -> Schedules \cup {Null}]
  BY <1>3, <1>4, <1>5, RoundCases
<1> QED BY <1>2, <1>6

-----------------------------------------------------------------------------
(***************************************************************************)
(* What a verdict relies on.                                               *)
(***************************************************************************)
Due(v) == RoundIsFound(v) /\ ClaimsAreHeld(v) /\ VerdictWrites(v)

\* Rounds stay rounds of their application, and a held one does not change.
SparesRounds(v) ==
  \A i \in Rounds : interview[i] # Null =>
    /\ interview'[i] # Null
    /\ interview'[i].app = interview[i].app /\ interview'[i].stage = interview[i].stage
    /\ interviewLock[i] = v => interviewLock'[i] = v /\ interview'[i] = interview[i]

LEMMA DueIfSpared ==
  ASSUME InterviewsTypeOK, RoundsHaveApplications, NEW v \in Verdicts, Due(v),
         Spares(v), SparesRounds(v),
         verdict' = verdict, step'[v] = step[v], saw'[v] = saw[v]
  PROVE  Due(v)'
<1>1. PICK i \in Rounds : i = verdict[v].round
  BY VerdictTypes
<1>2. i = verdict'[v].round /\ (selected(v)' <=> selected(v))
  BY <1>1 DEF selected
<1>3. roundOf(v) = interview[i] /\ roundOf(v)' = interview'[i]
  BY <1>1, <1>2 DEF roundOf
<1>4. CASE interview[i] = Null
  <2>1. step[v] \in {"readRound", "done"}
    BY <1>3, <1>4 DEF Due, RoundIsFound
  <2>2. ~HasApplication(v) /\ ~HasApplication(v)' /\ buffer'[v] = buffer[v]
    BY <2>1 DEF HasApplication, Spares
  <2> QED BY <2>1, <2>2 DEF Due, RoundIsFound, ClaimsAreHeld, VerdictWrites, HasRound
<1>5. CASE interview[i] # Null
  <2>1. PICK a \in Apps : a = interview[i].app /\ application[a] # Null
    BY <1>1, <1>3, <1>5, VerdictTypes DEF RoundsHaveApplications, appOf
  <2>2. /\ appOf(v) = a /\ appOf(v)' = a
        /\ interview'[i] # Null /\ interview'[i].stage = interview[i].stage
    BY <1>3, <1>5, <2>1 DEF appOf, SparesRounds
  <2>3. /\ toStage(v)' = toStage(v) /\ (Moves(v)' <=> Moves(v))
        /\ \A s : verdictAllowed(v, s)' <=> verdictAllowed(v, s)
    BY <1>2, <1>3, <2>2 DEF toStage, moveFrom, Moves, verdictAllowed
  <2>4. HasApplication(v)' <=> HasApplication(v)
    BY <2>3 DEF HasApplication
  <2>5. RoundIsFound(v)'
    BY <1>3, <2>2, <2>3 DEF Due, RoundIsFound
  <2>6. HasApplication(v) => lock[a] = v /\ applicationGuard(v)
    BY <2>2 DEF Due, ClaimsAreHeld
  <2>7. HasApplication(v) => lock'[a] = v /\ application'[a] = application[a]
    BY <2>1, <2>6 DEF Spares
  <2>8. ClaimsAreHeld(v)'
    <3>1. step[v] \in HasRound => interviewLock'[i] = v /\ claimGuard(i)'
      BY <1>1, <1>5 DEF Due, ClaimsAreHeld, SparesRounds, claimGuard
    <3>2. HasApplication(v) => applicationGuard(v)'
      BY <1>2, <2>2, <2>6, <2>7 DEF applicationGuard, stageGuard, outcomeGuard, isActive
    <3> QED BY <1>2, <2>2, <2>4, <2>7, <3>1, <3>2 DEF ClaimsAreHeld, claimGuard
  <2>9. VerdictWrites(v)'
    <3>1. VerdictHistory(v)' = VerdictHistory(v) /\ VerdictAudit(v)' = VerdictAudit(v)
      BY <1>2, <2>3 DEF VerdictHistory, VerdictAudit
    <3>2. HasApplication(v) => VerdictRow(v)' = VerdictRow(v)
      BY <1>2, <2>2, <2>3, <2>7 DEF VerdictRow
    <3> QED BY <2>4, <3>1, <3>2 DEF Due, VerdictWrites, Spares
  <2> QED BY <2>5, <2>8, <2>9 DEF Due
<1> QED BY <1>4, <1>5

\* Each statement leaves its verdict with what the next one relies on.
LEMMA DueOfOwn ==
  ASSUME InterviewsTypeOK, RoundsHaveApplications, NEW v \in Verdicts, Due(v), VerdictsAreDue, VerdictStep(v)
  PROVE  Due(v)'
<1>1. PICK i \in Rounds : i = verdict[v].round
  BY VerdictTypes
<1>2. verdict' = verdict /\ i = verdict'[v].round /\ (selected(v)' <=> selected(v))
  BY <1>1, OthersWait DEF selected
<1>3. roundOf(v) = interview[i] /\ roundOf(v)' = interview'[i]
  BY <1>1, <1>2 DEF roundOf
<1>4. /\ v \in Transactions /\ v # Null /\ buffer[v] \in Buffer
      /\ buffer \in [Transactions -> Buffer] /\ lock \in [Apps -> Transactions \cup {Null}]
      /\ step \in [Verdicts -> VerdictSteps] /\ saw \in [Verdicts -> PipelineStage \cup {Null}]
      /\ interviewLock \in [Rounds -> Verdicts \cup {Null}]
  BY VerdictTypes DEF InterviewsTypeOK, TypeOK, TablesTypeOK
\* A transaction that has ended, or one that has not begun, has nothing.
<1>5. ASSUME buffer'[v] = NoWrites, step'[v] \in {"respond", "done"}, roundOf(v)' # Null \/ step'[v] = "done"
      PROVE  Due(v)'
  <2>1. ~HasApplication(v)'
    BY <1>5 DEF HasApplication
  <2> QED BY <1>5, <2>1 DEF Due, RoundIsFound, ClaimsAreHeld, VerdictWrites, HasRound, NoWrites
<1>6. CASE Passes(v)
  <2>1. /\ step[v] \in {"readRound", "readApplication", "respond"}
        /\ step'[v] \in {"readApplication", "claim", "done"}
        /\ UNCHANGED <<interview, buffer>>
    BY <1>4, <1>6 DEF Passes, AnswerVerdict, Advance, roundVars, vars, tableVars
  <2>2. ~HasApplication(v) /\ ~HasApplication(v)'
    BY <2>1 DEF HasApplication
  <2>3. VerdictWrites(v)'
    BY <2>1, <2>2 DEF Due, VerdictWrites
  <2>4. step'[v] # "done" => interview[i] # Null
    BY <1>3, <1>4, <1>6, <2>1 DEF Passes, AnswerVerdict, Advance, Due, RoundIsFound
  <2>5. step'[v] = "claim" => saw'[v] \in PipelineStage /\ verdictAllowed(v, saw'[v])
    <3> SUFFICES ASSUME step'[v] = "claim"
                 PROVE  saw'[v] \in PipelineStage /\ verdictAllowed(v, saw'[v])
      OBVIOUS
    <3>1. /\ isActive(appOf(v)) /\ verdictAllowed(v, application[appOf(v)].currentStage)
          /\ saw'[v] = application[appOf(v)].currentStage
      BY <1>4, <1>6 DEF Passes, AnswerVerdict, Advance
    <3>2. application[appOf(v)] \in ApplicationRow
      BY <1>3, <2>4, <3>1, VerdictTypes DEF isActive, InterviewsTypeOK, TypeOK, TablesTypeOK
    <3> QED BY <3>1, <3>2 DEF ApplicationRow
  <2>6. \A s : verdictAllowed(v, s)' <=> verdictAllowed(v, s)
    BY <1>2, <1>3, <2>1 DEF verdictAllowed, moveFrom
  <2>7. RoundIsFound(v)' /\ ClaimsAreHeld(v)'
    BY <1>3, <2>1, <2>2, <2>4, <2>5, <2>6 DEF RoundIsFound, ClaimsAreHeld, HasRound
  <2> QED BY <2>3, <2>7 DEF Due
<1>7. CASE Aborts(v)
  BY <1>4, <1>5, <1>7 DEF Aborts, AbortVerdict, Rollback, EndTransaction, AnswerVerdict
<1>8. CASE CommitVerdict(v)
  <2>1. interview'[i] # Null
    <3>1. InterviewsTypeOK'
      BY VerdictTypesKept
    <3>2. interview[i] # Null
      BY <1>3, <1>8, CommitOfVerdict
    <3>3. interview'[i] = [interview[i] EXCEPT !.status = "COMPLETED", !.outcome = verdict[v].decision, !.decidedBy = v]
      BY <1>1, <1>8 DEF CommitVerdict, InterviewsTypeOK
    <3>4. interview[i] \in InterviewRow
      BY <3>2 DEF InterviewsTypeOK
    <3>5. interview'[i] \in InterviewRow
      BY <1>1, <3>3, <3>4, VerdictTypes DEF InterviewRow, InterviewStatus, InterviewOutcome
    <3> QED BY <3>5
  <2> QED BY <1>3, <1>4, <1>5, <1>8, <2>1 DEF CommitVerdict, Commit, EndTransaction, Advance
\* Inside the transaction.
<1>9. ASSUME Claim(v) \/ UpdateApplication(v) \/ InsertVerdictHistory(v) \/ AuditVerdict(v)
      PROVE  Due(v)'
  <2>1. /\ step[v] \in {"claim", "update", "history", "audit"}
        /\ step'[v] \in HasRound /\ UNCHANGED <<interview, application>> /\ saw' = saw
    BY <1>4, <1>9 DEF Claim, UpdateApplication, InsertVerdictHistory, AuditVerdict, Advance, roundVars, tables,
       tableVars, vars, HasRound
  <2>2. /\ interview[i] # Null /\ saw[v] \in PipelineStage /\ verdictAllowed(v, saw[v])
        /\ appOf(v) \in Apps
    BY <1>3, <2>1, VerdictTypes DEF Due, RoundIsFound, HasRound
  <2>3. PICK a \in Apps : a = appOf(v)
    BY <2>2
  <2>4. /\ appOf(v)' = a /\ toStage(v)' = toStage(v) /\ (Moves(v)' <=> Moves(v))
        /\ \A s : verdictAllowed(v, s)' <=> verdictAllowed(v, s)
        /\ (applicationGuard(v)' <=> applicationGuard(v)) /\ (claimGuard(i)' <=> claimGuard(i))
        /\ VerdictRow(v)' = VerdictRow(v)
        /\ VerdictHistory(v)' = VerdictHistory(v) /\ VerdictAudit(v)' = VerdictAudit(v)
    <3>1. appOf(v)' = a
      BY <1>3, <2>1, <2>3 DEF appOf
    <3>2. toStage(v)' = toStage(v)
      BY <1>2, <1>3, <2>1 DEF toStage, moveFrom
    <3> QED BY <1>2, <1>3, <2>1, <2>3, <3>1, <3>2 DEF Moves, verdictAllowed, moveFrom, applicationGuard,
         stageGuard, outcomeGuard, isActive, claimGuard, VerdictRow, VerdictHistory, VerdictAudit
  <2>5. interviewLock'[i] = v /\ claimGuard(i)
    BY <1>1, <1>4, <1>9 DEF Claim, UpdateApplication, InsertVerdictHistory, AuditVerdict, roundVars, Due,
       ClaimsAreHeld, HasRound
  <2>6. CASE Claim(v)
    <3>1. /\ step[v] = "claim" /\ buffer' = buffer
          /\ step'[v] = IF selected(v) /\ toStage(v) = Null THEN "commit" ELSE "update"
      BY <1>4, <2>6 DEF Claim, Advance, vars, tableVars
    <3>2. /\ ~HasApplication(v) /\ ~HasApplication(v)'
          /\ step'[v] \in {"update", "history", "audit"} => Moves(v)
      BY <2>4, <3>1 DEF HasApplication, Moves
    <3>3. RoundIsFound(v)'
      BY <1>3, <2>1, <2>2, <2>4, <3>2 DEF RoundIsFound
    <3>4. ClaimsAreHeld(v)' /\ VerdictWrites(v)'
      BY <1>2, <2>4, <2>5, <3>1, <3>2 DEF ClaimsAreHeld, VerdictWrites, Due
    <3> QED BY <3>3, <3>4 DEF Due
  <2>7. CASE UpdateApplication(v)
    <3>1. /\ step[v] = "update" /\ step'[v] = "history" /\ applicationGuard(v)
          /\ lock' = [lock EXCEPT ![a] = v] /\ buffer' = [buffer EXCEPT ![v].row = VerdictRow(v)]
      BY <1>4, <2>3, <2>7 DEF UpdateApplication, guardedStageUpdate, guardedOutcomeUpdate, UpdateRow, Advance,
         VerdictRow, applicationGuard
    <3>2. Moves(v) /\ ~HasApplication(v) /\ HasApplication(v)'
      BY <3>1 DEF HasApplication, Due, RoundIsFound
    <3>3. RoundIsFound(v)'
      BY <1>3, <2>1, <2>2, <2>4, <3>2 DEF RoundIsFound
    <3>4. ClaimsAreHeld(v)'
      BY <1>2, <1>4, <2>4, <2>5, <3>1 DEF ClaimsAreHeld
    <3>5. VerdictWrites(v)'
      BY <1>4, <2>4, <3>1, <3>2 DEF VerdictWrites, Due, Buffer
    <3> QED BY <3>3, <3>4, <3>5 DEF Due
  <2>8. CASE InsertVerdictHistory(v)
    <3>1. /\ step[v] = "history" /\ step'[v] = "audit" /\ lock' = lock
          /\ buffer' = [buffer EXCEPT ![v].history = Append(@, VerdictHistory(v))]
      BY <1>4, <2>8 DEF InsertVerdictHistory, insertHistory, Advance
    <3>2. Moves(v) /\ HasApplication(v) /\ HasApplication(v)'
      BY <3>1 DEF HasApplication, Due, RoundIsFound
    <3>3. RoundIsFound(v)'
      BY <1>3, <2>1, <2>2, <2>4, <3>2 DEF RoundIsFound
    <3>4. ClaimsAreHeld(v)'
      BY <1>2, <2>3, <2>4, <2>5, <3>1, <3>2 DEF ClaimsAreHeld, Due
    <3>5. Append(<<>>, VerdictHistory(v)) = <<VerdictHistory(v)>>
      OBVIOUS
    <3>6. VerdictWrites(v)'
      BY <1>4, <2>4, <3>1, <3>2, <3>5 DEF VerdictWrites, Due, Buffer
    <3> QED BY <3>3, <3>4, <3>6 DEF Due
  <2>9. CASE AuditVerdict(v)
    <3>1. /\ step[v] = "audit" /\ step'[v] = "commit" /\ lock' = lock
          /\ buffer' = [buffer EXCEPT ![v].audit = Append(@, VerdictAudit(v))]
      BY <1>4, <2>9 DEF AuditVerdict, recordAudit, Advance
    <3>2. Moves(v) /\ HasApplication(v) /\ HasApplication(v)'
      BY <2>4, <3>1 DEF HasApplication, Due, RoundIsFound
    <3>3. RoundIsFound(v)'
      BY <1>3, <2>1, <2>2, <2>4, <3>2 DEF RoundIsFound
    <3>4. ClaimsAreHeld(v)'
      BY <1>2, <2>3, <2>4, <2>5, <3>1, <3>2 DEF ClaimsAreHeld, Due
    <3>5. Append(<<>>, VerdictAudit(v)) = <<VerdictAudit(v)>>
      OBVIOUS
    <3>6. VerdictWrites(v)'
      BY <1>4, <2>4, <3>1, <3>2, <3>5 DEF VerdictWrites, Due, Buffer
    <3> QED BY <3>3, <3>4, <3>6 DEF Due
  <2> QED BY <1>9, <2>6, <2>7, <2>8, <2>9
<1> QED BY <1>6, <1>7, <1>8, <1>9, VerdictCases

-----------------------------------------------------------------------------
(***************************************************************************)
(* The steps of the three kinds, and what each of them keeps.              *)
(***************************************************************************)
LEMMA PipelineStepIsNext ==
  ASSUME PipelineStep
  PROVE  [Next]_vars /\ UNCHANGED <<roundVars, verdictVars>>
BY DEF PipelineStep, Next, interviewVars

\* The round a verdict decides is its own.
LEMMA RoundOfCommit ==
  ASSUME InterviewsTypeOK, RoundsHaveApplications, VerdictsAreDue, NEW v \in Verdicts, CommitVerdict(v),
         NEW i \in Rounds, i = verdict[v].round
  PROVE  /\ interview[i] # Null /\ claimGuard(i) /\ interviewLock[i] = v
         /\ interview'[i].app = interview[i].app /\ interview'[i].stage = interview[i].stage
         /\ interview'[i].status = "COMPLETED" /\ interview'[i].outcome = verdict[v].decision
         /\ interview'[i].decidedBy = v /\ interview'[i] # Null
         /\ \A j \in Rounds : j # i => interview'[j] = interview[j] /\ interviewAudit'[j] = interviewAudit[j]
<1>1. interview[i] # Null /\ claimGuard(i) /\ interviewLock[i] = v
  BY CommitOfVerdict DEF roundOf
<1>2. interview[i] \in InterviewRow
  BY <1>1 DEF InterviewsTypeOK
<1>3. interview'[i] = [interview[i] EXCEPT !.status = "COMPLETED", !.outcome = verdict[v].decision, !.decidedBy = v]
  BY DEF CommitVerdict, InterviewsTypeOK
<1>4. interview'[i] \in InterviewRow
  BY <1>2, <1>3, VerdictTypes DEF InterviewRow, InterviewStatus, InterviewOutcome
<1> QED BY <1>1, <1>2, <1>3, <1>4 DEF InterviewRow, CommitVerdict, InterviewsTypeOK

LEMMA VerdictSparesRounds ==
  ASSUME InterviewsTypeOK, RoundsHaveApplications, VerdictsAreDue, NEW v \in Verdicts, VerdictStep(v),
         NEW u \in Verdicts, u # v
  PROVE  SparesRounds(u)
<1>1. PICK i \in Rounds : i = verdict[v].round
  BY VerdictTypes
<1>2. CASE CommitVerdict(v)
  BY <1>1, <1>2, RoundOfCommit, OthersWait DEF SparesRounds
<1>3. CASE UNCHANGED interview
  BY <1>3, OthersWait DEF SparesRounds
<1> QED BY <1>2, <1>3, OthersWait

\* createInterview and updateInterviewStatus, as far as the rounds go.
LEMMA RoundStepSpares ==
  ASSUME InterviewsTypeOK, RoundsHaveApplications, RoundStep
  PROVE  /\ UNCHANGED <<vars, verdictVars, interviewLock>>
         /\ \A v \in Verdicts : Spares(v) /\ SparesRounds(v)
         /\ \A i \in Rounds :
              \/ interview'[i] = interview[i] /\ interviewAudit'[i] = interviewAudit[i]
              \/ /\ interview[i] = Null /\ scheduling[i] \in Schedules
                 /\ interview'[i] # Null /\ interview'[i].app = scheduling[i].app
                 /\ interview'[i].outcome = Null /\ interview'[i].decidedBy = Null
                 /\ \E entry \in InterviewAuditRow : interviewAudit'[i] = Append(interviewAudit[i], entry)
              \/ /\ interview[i] # Null /\ interview[i].status = "SCHEDULED" /\ interviewLock[i] = Null
                 /\ interview'[i] # Null /\ interview'[i].app = interview[i].app
                 /\ interview'[i].stage = interview[i].stage
                 /\ interview'[i].outcome = interview[i].outcome
                 /\ interview'[i].decidedBy = interview[i].decidedBy
                 /\ interviewAudit'[i] = interviewAudit[i]
<1> USE DEF InterviewsTypeOK
<1>1. UNCHANGED <<vars, verdictVars, interviewLock>>
  BY RoundCases
<1>2. \A v \in Verdicts : Spares(v)
  BY <1>1 DEF Spares, vars, tableVars, tables
<1>3. ASSUME NEW i \in Rounds, interview[i] = Null, scheduling[i] \in Schedules, createInterview(i)
      PROVE  /\ interview'[i] # Null /\ interview'[i].app = scheduling[i].app
             /\ interview'[i].outcome = Null /\ interview'[i].decidedBy = Null
             /\ \E entry \in InterviewAuditRow : interviewAudit'[i] = Append(interviewAudit[i], entry)
             /\ \A j \in Rounds : j # i => interview'[j] = interview[j] /\ interviewAudit'[j] = interviewAudit[j]
  <2> DEFINE entry == [action |-> "INTERVIEW_CREATED", actor |-> Null, outcome |-> Null, toStage |-> Null,
                       toStatus |-> Null]
  <2>1. entry \in InterviewAuditRow
    BY DEF InterviewAuditRow
  <2>2. /\ interview' = [interview EXCEPT ![i] =
             [app |-> scheduling[i].app, stage |-> scheduling[i].stage, status |-> "SCHEDULED",
              outcome |-> Null, decidedBy |-> Null]]
        /\ interviewAudit' = [interviewAudit EXCEPT ![i] = Append(@, entry)]
    BY <1>3 DEF createInterview
  <2>3. interview'[i] \in InterviewRow
    BY <1>3, <2>2 DEF Schedules, InterviewRow, InterviewStatus
  <2> HIDE DEF entry
  <2>4. interview'[i] # Null
    BY <2>3
  <2>5. \A j \in Rounds : j # i => interview'[j] = interview[j] /\ interviewAudit'[j] = interviewAudit[j]
    BY <2>2
  <2> QED BY <2>1, <2>2, <2>4, <2>5
<1>4. ASSUME NEW i \in Rounds, NEW status \in {"COMPLETED", "CANCELLED"}, updateInterviewStatus(i, status)
      PROVE  /\ interview[i] # Null /\ interview[i].status = "SCHEDULED" /\ interviewLock[i] = Null
             /\ interview'[i] # Null /\ interview'[i].app = interview[i].app
             /\ interview'[i].stage = interview[i].stage
             /\ interview'[i].outcome = interview[i].outcome
             /\ interview'[i].decidedBy = interview[i].decidedBy
             /\ \A j \in Rounds : interviewAudit'[j] = interviewAudit[j] /\ (j # i => interview'[j] = interview[j])
  <2>1. interview[i] \in InterviewRow /\ interview[i].status = "SCHEDULED" /\ interviewLock[i] = Null
    BY <1>4 DEF updateInterviewStatus, statusGuard
  <2>2. interview' = [interview EXCEPT ![i].status = status] /\ interviewAudit' = interviewAudit
    BY <1>4 DEF updateInterviewStatus
  <2>3. interview'[i] = [interview[i] EXCEPT !.status = status]
    BY <2>2
  <2>4. interview'[i] \in InterviewRow
    BY <2>1, <2>3 DEF InterviewRow, InterviewStatus
  <2> QED BY <2>1, <2>2, <2>3, <2>4 DEF InterviewRow
<1>5. \A i \in Rounds :
        \/ interview'[i] = interview[i] /\ interviewAudit'[i] = interviewAudit[i]
        \/ /\ interview[i] = Null /\ scheduling[i] \in Schedules
           /\ interview'[i] # Null /\ interview'[i].app = scheduling[i].app
           /\ interview'[i].outcome = Null /\ interview'[i].decidedBy = Null
           /\ \E entry \in InterviewAuditRow : interviewAudit'[i] = Append(interviewAudit[i], entry)
        \/ /\ interview[i] # Null /\ interview[i].status = "SCHEDULED" /\ interviewLock[i] = Null
           /\ interview'[i] # Null /\ interview'[i].app = interview[i].app
           /\ interview'[i].stage = interview[i].stage
           /\ interview'[i].outcome = interview[i].outcome
           /\ interview'[i].decidedBy = interview[i].decidedBy
           /\ interviewAudit'[i] = interviewAudit[i]
  <2> SUFFICES ASSUME NEW j \in Rounds, ~(interview'[j] = interview[j] /\ interviewAudit'[j] = interviewAudit[j])
               PROVE  \/ /\ interview[j] = Null /\ scheduling[j] \in Schedules
                         /\ interview'[j] # Null /\ interview'[j].app = scheduling[j].app
                         /\ interview'[j].outcome = Null /\ interview'[j].decidedBy = Null
                         /\ \E entry \in InterviewAuditRow : interviewAudit'[j] = Append(interviewAudit[j], entry)
                      \/ /\ interview[j] # Null /\ interview[j].status = "SCHEDULED" /\ interviewLock[j] = Null
                         /\ interview'[j] # Null /\ interview'[j].app = interview[j].app
                         /\ interview'[j].stage = interview[j].stage
                         /\ interview'[j].outcome = interview[j].outcome
                         /\ interview'[j].decidedBy = interview[j].decidedBy
                         /\ interviewAudit'[j] = interviewAudit[j]
    OBVIOUS
  <2>1. PICK i \in Rounds :
          \/ UNCHANGED <<interview, interviewAudit>>
          \/ interview[i] = Null /\ scheduling[i] \in Schedules /\ createInterview(i)
          \/ \E status \in {"COMPLETED", "CANCELLED"} : updateInterviewStatus(i, status)
    BY RoundCases
  <2>2. CASE createInterview(i) /\ interview[i] = Null /\ scheduling[i] \in Schedules
    <3>1. j = i
      BY <1>3, <2>2
    <3> QED BY <1>3, <2>2, <3>1
  <2>3. CASE \E status \in {"COMPLETED", "CANCELLED"} : updateInterviewStatus(i, status)
    <3>1. j = i
      BY <1>4, <2>3
    <3> QED BY <1>4, <2>3, <3>1
  <2> QED BY <2>1, <2>2, <2>3
<1>6. \A v \in Verdicts : SparesRounds(v)
  BY <1>1, <1>5 DEF SparesRounds
<1> QED BY <1>1, <1>2, <1>5, <1>6

LEMMA DueKept ==
  ASSUME InterviewsTypeOK, RequestsSafe, RoundsHaveApplications, VerdictsAreDue, [InterviewsNext]_allVars
  PROVE  VerdictsAreDue' /\ RequestsSafe' /\ InterviewsTypeOK'
<1>0. TypeOK /\ \A v \in Verdicts : Due(v)
  BY DEF InterviewsTypeOK, VerdictsAreDue, Due
<1>1. CASE PipelineStep
  <2>1. [Next]_vars /\ UNCHANGED <<roundVars, verdictVars>>
    BY <1>1, PipelineStepIsNext
  <2>2. \A v \in Verdicts : v \in Transactions \ Requests
    BY VerdictTypes
  <2>3. \A v \in Verdicts : Spares(v) /\ SparesRounds(v)
    BY <1>0, <2>1, <2>2, RequestsSpare DEF SparesRounds, roundVars
  <2>4. RequestsSafe' /\ TypeOK'
    BY <1>0, <2>1, SafeStep, TypeStep DEF RequestsSafe
  <2>5. InterviewsTypeOK'
    BY <2>1, <2>4 DEF InterviewsTypeOK, roundVars, verdictVars
  <2>6. VerdictsAreDue'
    BY <1>0, <2>1, <2>3, DueIfSpared DEF VerdictsAreDue, Due, verdictVars
  <2> QED BY <2>4, <2>5, <2>6
<1>2. CASE RoundStep
  <2>1. /\ UNCHANGED <<vars, verdictVars, interviewLock>>
        /\ \A v \in Verdicts : Spares(v) /\ SparesRounds(v)
    BY <1>2, RoundStepSpares
  <2>2. VerdictsAreDue'
    BY <1>0, <2>1, DueIfSpared DEF VerdictsAreDue, Due, verdictVars
  <2>3. RequestsSafe'
    BY <1>0, <2>1, SafeIfSpared DEF Spares, ApplicationsStay, vars, tableVars, tables
  <2> QED BY <1>2, <2>2, <2>3, RoundTypesKept
<1>3. ASSUME NEW v \in Verdicts, VerdictStep(v)
      PROVE  VerdictsAreDue' /\ RequestsSafe' /\ InterviewsTypeOK'
  <2>1. /\ \A t \in Transactions \ {v} : Spares(t)
        /\ ApplicationsStay /\ UNCHANGED requestVars /\ verdict' = verdict
    BY <1>3, VerdictSpares, OthersWait
  <2>2. RequestsSafe'
    BY <1>0, <2>1, SafeIfSpared, VerdictTypes
  <2>3. ASSUME NEW u \in Verdicts PROVE Due(u)'
    <3>1. CASE u = v
      BY <1>0, <1>3, <3>1, DueOfOwn
    <3>2. CASE u # v
      BY <1>0, <1>3, <2>1, <3>2, DueIfSpared, VerdictSparesRounds, OthersWait, VerdictTypes
    <3> QED BY <3>1, <3>2
  <2> QED BY <1>3, <2>2, <2>3, VerdictTypesKept DEF VerdictsAreDue, Due
<1>4. CASE UNCHANGED allVars
  <2>1. [Next]_vars /\ UNCHANGED <<roundVars, verdictVars>>
    BY <1>4 DEF allVars, interviewVars
  <2>2. /\ UNCHANGED <<interview, interviewLock, verdict, step, saw, application, lock, buffer>>
        /\ UNCHANGED requestVars
    BY <1>4 DEF allVars, interviewVars, roundVars, verdictVars, vars, tableVars, tables
  <2>3. \A t \in Transactions : Spares(t)
    BY <2>2 DEF Spares
  <2>4. ApplicationsStay /\ \A v \in Verdicts : SparesRounds(v)
    BY <2>2 DEF ApplicationsStay, SparesRounds
  <2>5. VerdictsAreDue' /\ RequestsSafe'
    BY <1>0, <2>2, <2>3, <2>4, DueIfSpared, SafeIfSpared, VerdictTypes DEF VerdictsAreDue, Due
  <2>6. TypeOK'
    BY <1>0, <2>1, TypeStep DEF RequestsSafe
  <2> QED BY <2>1, <2>5, <2>6 DEF InterviewsTypeOK, roundVars, verdictVars
<1> QED BY <1>1, <1>2, <1>3, <1>4 DEF InterviewsNext, AllServed, VerdictStep

LEMMA ApplicationsStayPut ==
  ASSUME InterviewsTypeOK, RequestsSafe, RoundsHaveApplications, VerdictsAreDue, [InterviewsNext]_allVars
  PROVE  ApplicationsStay
<1>1. CASE PipelineStep
  BY <1>1, PipelineStepIsNext, RowsStay DEF InterviewsTypeOK, ApplicationsStay
<1>2. CASE RoundStep \/ UNCHANGED allVars
  BY <1>2, RoundStepSpares DEF ApplicationsStay, allVars, vars, tableVars, tables
<1> QED BY <1>1, <1>2, VerdictSpares DEF InterviewsNext, AllServed, VerdictStep

LEMMA RoundsKept ==
  ASSUME InterviewsTypeOK, RequestsSafe, RoundsHaveApplications, VerdictsAreDue, [InterviewsNext]_allVars
  PROVE  RoundsHaveApplications'
<1> SUFFICES ASSUME NEW i \in Rounds
             PROVE  /\ interview'[i] # Null => application'[interview'[i].app] # Null
                    /\ scheduling'[i] # Null => interview'[i] = Null /\ application'[scheduling'[i].app] # Null
  BY DEF RoundsHaveApplications
<1>0. /\ interview[i] # Null => interview[i].app \in Apps /\ application[interview[i].app] # Null
      /\ scheduling[i] # Null =>
           interview[i] = Null /\ scheduling[i].app \in Apps /\ application[scheduling[i].app] # Null
      /\ ApplicationsStay
  BY ApplicationsStayPut DEF RoundsHaveApplications, InterviewsTypeOK, InterviewRow, Schedules
<1>1. CASE PipelineStep \/ UNCHANGED allVars
  BY <1>0, <1>1, PipelineStepIsNext DEF roundVars, allVars, interviewVars, ApplicationsStay
<1>2. CASE RoundStep
  <2>1. application' = application
    BY <1>2, RoundCases DEF vars, tableVars, tables
  <2>2. PICK j \in Rounds :
              \/ /\ interview[j] = Null /\ UNCHANGED <<interview, interviewAudit>>
                 /\ \E s \in Schedules \cup {Null} :
                      /\ scheduling' = [scheduling EXCEPT ![j] = s]
                      /\ s # Null => application[s.app] # Null
              \/ /\ interview[j] = Null /\ scheduling[j] \in Schedules /\ createInterview(j)
              \/ \E status \in {"COMPLETED", "CANCELLED"} : updateInterviewStatus(j, status)
    BY <1>2, RoundCases
  <2>3. CASE /\ interview[j] = Null /\ UNCHANGED <<interview, interviewAudit>>
             /\ \E s \in Schedules \cup {Null} :
                  /\ scheduling' = [scheduling EXCEPT ![j] = s]
                  /\ s # Null => application[s.app] # Null
    BY <1>0, <2>1, <2>3 DEF InterviewsTypeOK
  <2>4. CASE interview[j] = Null /\ scheduling[j] \in Schedules /\ createInterview(j)
    <3>1. scheduling' = [scheduling EXCEPT ![j] = Null] /\ (i # j => interview'[i] = interview[i])
      BY <2>4 DEF createInterview, InterviewsTypeOK
    <3>2. i = j => interview'[i].app = scheduling[i].app
      BY <2>4 DEF createInterview, InterviewsTypeOK
    <3> QED BY <1>0, <2>1, <2>4, <3>1, <3>2 DEF InterviewsTypeOK
  <2>5. CASE \E status \in {"COMPLETED", "CANCELLED"} : updateInterviewStatus(j, status)
    <3>1. scheduling' = scheduling
      BY <2>5 DEF updateInterviewStatus
    <3>2. interview[j] # Null
      BY <2>5 DEF updateInterviewStatus, statusGuard
    <3>3. i # j => interview'[i] = interview[i]
      BY <2>5 DEF updateInterviewStatus, InterviewsTypeOK
    <3>4. interview'[j].app = interview[j].app
      BY <1>2, <3>2, RoundStepSpares DEF SparesRounds
    <3> QED BY <1>0, <2>1, <3>1, <3>2, <3>3, <3>4
  <2> QED BY <2>2, <2>3, <2>4, <2>5
<1>3. ASSUME NEW v \in Verdicts, VerdictStep(v)
      PROVE  /\ interview'[i] # Null => application'[interview'[i].app] # Null
             /\ scheduling'[i] # Null => interview'[i] = Null /\ application'[scheduling'[i].app] # Null
  <2>1. scheduling' = scheduling
    BY <1>3, OthersWait
  <2>2. interview'[i] = interview[i] \/ (interview[i] # Null /\ interview'[i].app = interview[i].app)
    BY <1>3, OthersWait, RoundOfCommit, VerdictTypes
  <2> QED BY <1>0, <2>1, <2>2 DEF ApplicationsStay
<1> QED BY <1>1, <1>2, <1>3 DEF InterviewsNext, AllServed, VerdictStep

-----------------------------------------------------------------------------
(***************************************************************************)
(* Who has written what, and what became of a decision.                    *)
(***************************************************************************)

\* Of each application: nothing, or one more row that is not t's.
OthersWrite(t) ==
  \A a \in Apps :
    \/ /\ application'[a] = application[a] /\ stageHistory'[a] = stageHistory[a]
       /\ auditLog'[a] = auditLog[a]
    \/ \E row \in HistoryRow :
         /\ row.changedBy # t /\ stageHistory'[a] = Append(stageHistory[a], row)
         /\ application[a] # Null => isActive(a)
         /\ \/ auditLog'[a] = auditLog[a]
            \/ \E entry \in AuditRow : auditLog'[a] = Append(auditLog[a], entry)

LEMMA SameTablesWrite ==
  ASSUME UNCHANGED tables, NEW t
  PROVE  OthersWrite(t)
BY DEF tables, OthersWrite

LEMMA RequestsWrite ==
  ASSUME TypeOK, RequestsSafe, [Next]_vars, NEW t \in Transactions \ Requests
  PROVE  OthersWrite(t)
<1>1. ASSUME NEW r \in Requests, Publishes(r)
      PROVE  OthersWrite(t)
  <2>1. HistoryOf(r) \in HistoryRow /\ AuditOf(r) \in AuditRow /\ HistoryOf(r).changedBy # t
    BY <1>1, RowTypes DEF Publishes, HistoryOf
  <2> QED BY <1>1, <2>1 DEF Publishes, OthersWrite, TypeOK, TablesTypeOK
<1>2. ASSUME NEW b \in Apps, createApplication(b)
      PROVE  OthersWrite(t)
  <2>1. EntryRow \in HistoryRow /\ EntryRow.changedBy # t
    BY DEF EntryRow, HistoryRow, PipelineStage, ApplicationStatus
  <2> QED BY <1>2, <2>1 DEF createApplication, OthersWrite, TypeOK, TablesTypeOK
<1> QED BY <1>1, <1>2, TableStep, SameTablesWrite

LEMMA VerdictsWrite ==
  ASSUME InterviewsTypeOK, RoundsHaveApplications, VerdictsAreDue, NEW v \in Verdicts, VerdictStep(v),
         NEW t, t # v
  PROVE  OthersWrite(t)
<1>1. CASE CommitVerdict(v) /\ Moves(v)
  <2>1. VerdictPublishes(v) /\ roundOf(v) # Null /\ saw[v] \in PipelineStage
    BY <1>1, CommitOfVerdict
  <2>2. /\ VerdictHistory(v) \in HistoryRow /\ VerdictAudit(v) \in AuditRow
        /\ VerdictHistory(v).changedBy = v
    BY <1>1, <2>1, VerdictRowTypes DEF VerdictHistory
  <2> QED BY <2>1, <2>2 DEF VerdictPublishes, OthersWrite, InterviewsTypeOK, TypeOK, TablesTypeOK
<1> QED BY <1>1, SameTablesWrite, CommitOfVerdict, OthersWait

LEMMA WroteStays ==
  ASSUME TypeOK, NEW t, OthersWrite(t), NEW a \in Apps
  PROVE  Wrote(t, a)' <=> Wrote(t, a)
<1>1. CASE stageHistory'[a] = stageHistory[a]
  BY <1>1 DEF Wrote
<1>2. ASSUME NEW row \in HistoryRow, row.changedBy # t, stageHistory'[a] = Append(stageHistory[a], row)
      PROVE  Wrote(t, a)' <=> Wrote(t, a)
  <2>1. stageHistory[a] \in Seq(HistoryRow) /\ Len(stageHistory[a]) \in Nat
    BY DEF TypeOK, TablesTypeOK
  <2>2. /\ Len(stageHistory'[a]) = Len(stageHistory[a]) + 1
        /\ \A n \in 1 .. Len(stageHistory[a]) : stageHistory'[a][n] = stageHistory[a][n]
        /\ stageHistory'[a][Len(stageHistory[a]) + 1] = row
    BY <1>2, <2>1
  <2>3. 1 .. Len(stageHistory'[a]) = 1 .. Len(stageHistory[a]) \cup {Len(stageHistory[a]) + 1}
    BY <2>1, <2>2
  <2> QED BY <1>2, <2>2, <2>3 DEF Wrote
<1> QED BY <1>1, <1>2 DEF OthersWrite

\* A verdict's own COMMIT gives it one row, in its application, or none.
LEMMA WroteByVerdict ==
  ASSUME InterviewsTypeOK, RoundsHaveApplications, VerdictsAreDue, NEW v \in Verdicts, CommitVerdict(v),
         NEW a \in Apps
  PROVE  Wrote(v, a)' <=> Wrote(v, a) \/ (Moves(v) /\ a = appOf(v))
<1>1. CASE ~Moves(v)
  BY <1>1, CommitOfVerdict DEF tables, Wrote
<1>2. CASE Moves(v)
  <2>1. /\ VerdictPublishes(v) /\ appOf(v) \in Apps
        /\ stageHistory \in [Apps -> Seq(HistoryRow)]
    BY <1>2, CommitOfVerdict, VerdictTypes DEF InterviewsTypeOK, TypeOK, TablesTypeOK
  <2>2. VerdictHistory(v).changedBy = v
    BY DEF VerdictHistory
  <2>3. CASE a = appOf(v)
    <3>1. stageHistory[a] \in Seq(HistoryRow) /\ Len(stageHistory[a]) \in Nat
      BY <2>1
    <3>2. stageHistory'[a] = Append(stageHistory[a], VerdictHistory(v))
      BY <2>1, <2>3 DEF VerdictPublishes
    <3>3. /\ Len(stageHistory'[a]) = Len(stageHistory[a]) + 1
          /\ stageHistory'[a][Len(stageHistory[a]) + 1] = VerdictHistory(v)
      BY <3>1, <3>2
    <3>4. Len(stageHistory[a]) + 1 \in 1 .. Len(stageHistory'[a])
      BY <3>1, <3>3
    <3> QED BY <1>2, <2>2, <2>3, <3>3, <3>4 DEF Wrote
  <2>4. CASE a # appOf(v)
    <3>1. stageHistory'[a] = stageHistory[a]
      BY <2>1, <2>4 DEF VerdictPublishes
    <3> QED BY <2>4, <3>1 DEF Wrote
  <2> QED BY <2>3, <2>4
<1> QED BY <1>1, <1>2

-----------------------------------------------------------------------------
LEMMA DecisionsKept ==
  ASSUME InterviewsTypeOK, RequestsSafe, RoundsHaveApplications, VerdictsAreDue, DecisionsAreOwn,
         [InterviewsNext]_allVars
  PROVE  DecisionsAreOwn'
<1> DEFINE Own(row, log, i) ==
      /\ row = Null => Len(log) = 0
      /\ row # Null =>
           /\ (row.outcome = Null) <=> (row.decidedBy = Null)
           /\ row.outcome = Null => Len(log) = 1
           /\ row.outcome # Null => verdict[row.decidedBy].round = i /\ row.status = "COMPLETED"
<1> SUFFICES ASSUME NEW i \in Rounds
             PROVE  verdict' = verdict /\ Own(interview'[i], interviewAudit'[i], i)
  BY DEF DecisionsAreOwn
<1>0. Own(interview[i], interviewAudit[i], i) /\ interviewAudit[i] \in Seq(InterviewAuditRow)
  BY DEF DecisionsAreOwn, InterviewsTypeOK
<1> HIDE DEF Own
<1>1. CASE PipelineStep \/ UNCHANGED allVars
  BY <1>0, <1>1, PipelineStepIsNext DEF roundVars, verdictVars, allVars, interviewVars
<1>2. CASE RoundStep
  <2>1. verdict' = verdict
    BY <1>2, RoundStepSpares DEF verdictVars
  <2>2. CASE interview'[i] = interview[i] /\ interviewAudit'[i] = interviewAudit[i]
    BY <1>0, <2>1, <2>2
  <2>3. ASSUME interview[i] = Null, interview'[i] # Null, interview'[i].outcome = Null,
               interview'[i].decidedBy = Null,
               NEW entry \in InterviewAuditRow, interviewAudit'[i] = Append(interviewAudit[i], entry)
        PROVE  Own(interview'[i], interviewAudit'[i], i)
    <3>1. Len(interviewAudit'[i]) = 1
      BY <1>0, <2>3 DEF Own
    <3> QED BY <2>3, <3>1 DEF Own
  <2>4. CASE /\ interview[i] # Null /\ interview[i].status = "SCHEDULED"
             /\ interview'[i] # Null /\ interview'[i].outcome = interview[i].outcome
             /\ interview'[i].decidedBy = interview[i].decidedBy
             /\ interviewAudit'[i] = interviewAudit[i]
    <3>1. interview[i].outcome = Null /\ interview[i].decidedBy = Null /\ Len(interviewAudit[i]) = 1
      BY <1>0, <2>4 DEF Own
    <3>2. /\ interview'[i] # Null /\ interview'[i].outcome = Null /\ interview'[i].decidedBy = Null
          /\ Len(interviewAudit'[i]) = 1
      BY <2>4, <3>1
    <3> QED BY <2>1, <3>2 DEF Own
  <2> QED BY <1>2, <2>1, <2>2, <2>3, <2>4, RoundStepSpares
<1>3. ASSUME NEW v \in Verdicts, VerdictStep(v)
      PROVE  verdict' = verdict /\ Own(interview'[i], interviewAudit'[i], i)
  <2>1. verdict' = verdict
    BY <1>3, OthersWait
  <2>2. CASE CommitVerdict(v) /\ i = verdict[v].round
    <3>1. verdict[v].decision # Null /\ v # Null
      BY VerdictTypes DEF InterviewOutcome
    <3>2. /\ interview'[i] # Null /\ interview'[i].decidedBy = v
          /\ interview'[i].outcome = verdict[v].decision /\ interview'[i].status = "COMPLETED"
      BY <2>2, RoundOfCommit
    <3> QED BY <2>1, <2>2, <3>1, <3>2 DEF Own
  <2>3. CASE interview'[i] = interview[i] /\ interviewAudit'[i] = interviewAudit[i]
    BY <1>0, <2>1, <2>3
  <2> QED BY <1>3, <2>1, <2>2, <2>3, OthersWait, RoundOfCommit, VerdictTypes
<1> QED BY <1>1, <1>2, <1>3 DEF InterviewsNext, AllServed, VerdictStep

\* What AnswersAreTrue says of one verdict.
Told(v) ==
  /\ step[v] \notin {"respond", "done"} => ~mine(v)
  /\ step[v] = "respond" => mine(v)
  /\ answer[v] # Null => step[v] = "done"
  /\ answer[v] = "OK" => mine(v)
  /\ answer[v] \in VerdictRefusals => ~mine(v)
  /\ \A a \in Apps : Wrote(v, a) => mine(v) /\ a = appOf(v)

LEMMA ToldIfOthers ==
  ASSUME InterviewsTypeOK, NEW v \in Verdicts, Told(v), OthersWrite(v),
         verdict' = verdict, step'[v] = step[v], answer'[v] = answer[v],
         mine(v)' <=> mine(v), mine(v) => appOf(v)' = appOf(v)
  PROVE  Told(v)'
<1>1. \A a \in Apps : Wrote(v, a)' => Wrote(v, a)
  BY WroteStays DEF InterviewsTypeOK
<1>2. \A a \in Apps : Wrote(v, a)' => mine(v)' /\ a = appOf(v)'
  BY <1>1 DEF Told
<1>3. answer[v] = "OK" => mine(v)'
  BY DEF Told
<1>4. answer[v] \in VerdictRefusals => ~mine(v)'
  BY DEF Told
<1>5. /\ step[v] \notin {"respond", "done"} => ~mine(v)'
      /\ step[v] = "respond" => mine(v)'
      /\ answer[v] # Null => step[v] = "done"
  BY DEF Told
<1> QED BY <1>2, <1>3, <1>4, <1>5 DEF Told

\* A round that keeps who decided it and whose it is keeps its verdict's.
LEMMA MineStays ==
  ASSUME InterviewsTypeOK, NEW v \in Verdicts, verdict' = verdict,
         \A i \in Rounds :
           \/ interview'[i] = interview[i]
           \/ interview[i] = Null /\ interview'[i].decidedBy = Null
           \/ /\ interview[i] # Null /\ interview'[i] # Null /\ interview'[i].app = interview[i].app
              /\ \/ interview'[i].decidedBy = interview[i].decidedBy
                 \/ interview[i].decidedBy # v /\ interview'[i].decidedBy # v
  PROVE  (mine(v)' <=> mine(v)) /\ (mine(v) => appOf(v)' = appOf(v))
<1>1. PICK i \in Rounds : i = verdict[v].round
  BY VerdictTypes
<1>2. roundOf(v) = interview[i] /\ roundOf(v)' = interview'[i] /\ v # Null
  BY <1>1, VerdictTypes DEF roundOf
<1>3. CASE interview'[i] = interview[i]
  BY <1>2, <1>3 DEF mine, appOf
<1>4. CASE interview[i] = Null /\ interview'[i].decidedBy = Null
  BY <1>2, <1>4 DEF mine
<1>5. CASE /\ interview[i] # Null /\ interview'[i] # Null /\ interview'[i].app = interview[i].app
           /\ \/ interview'[i].decidedBy = interview[i].decidedBy
              \/ interview[i].decidedBy # v /\ interview'[i].decidedBy # v
  BY <1>2, <1>5 DEF mine, appOf
<1> QED BY <1>1, <1>3, <1>4, <1>5

LEMMA ToldKept ==
  ASSUME InterviewsTypeOK, RequestsSafe, RoundsHaveApplications, VerdictsAreDue, DecisionsAreOwn,
         AnswersAreTrue, [InterviewsNext]_allVars
  PROVE  AnswersAreTrue'
<1>0. TypeOK /\ \A v \in Verdicts : Told(v)
  BY DEF InterviewsTypeOK, AnswersAreTrue, Told
<1> SUFFICES ASSUME NEW u \in Verdicts
             PROVE  Told(u)'
  BY DEF AnswersAreTrue, Told
<1>1. CASE PipelineStep
  <2>1. [Next]_vars /\ UNCHANGED <<interview, verdict, step, answer>>
    BY <1>1, PipelineStepIsNext DEF roundVars, verdictVars
  <2>2. OthersWrite(u)
    BY <1>0, <2>1, RequestsWrite, VerdictTypes
  <2> QED BY <1>0, <2>1, <2>2, MineStays, ToldIfOthers
<1>2. CASE RoundStep \/ UNCHANGED allVars
  <2>1. UNCHANGED <<tables, verdict, step, answer>>
    BY <1>2, RoundStepSpares DEF vars, tableVars, verdictVars, allVars, interviewVars
  <2>2. OthersWrite(u)
    BY <2>1, SameTablesWrite
  <2>3. (mine(u)' <=> mine(u)) /\ (mine(u) => appOf(u)' = appOf(u))
    BY <1>2, <2>1, MineStays, RoundStepSpares DEF allVars, interviewVars, roundVars
  <2> QED BY <1>0, <2>1, <2>2, <2>3, ToldIfOthers
<1>3. ASSUME NEW v \in Verdicts, VerdictStep(v)
      PROVE  Told(u)'
  <2>0. PICK i \in Rounds : i = verdict[v].round
    BY VerdictTypes
  <2>1. CASE u # v
    <3>1. verdict' = verdict /\ step'[u] = step[u] /\ answer'[u] = answer[u]
      BY <1>3, <2>1, OthersWait
    <3>2. OthersWrite(u)
      BY <1>3, <2>1, VerdictsWrite
    <3>3. CASE CommitVerdict(v)
      <4>1. interview[i].decidedBy = Null
        BY <2>0, <3>3, RoundOfCommit DEF claimGuard, DecisionsAreOwn
      <4>2. (mine(u)' <=> mine(u)) /\ (mine(u) => appOf(u)' = appOf(u))
        BY <2>0, <2>1, <3>1, <3>3, <4>1, RoundOfCommit, MineStays, VerdictTypes
      <4> QED BY <1>0, <3>1, <3>2, <4>2, ToldIfOthers
    <3>4. CASE UNCHANGED interview
      BY <1>0, <3>1, <3>2, <3>4, MineStays, ToldIfOthers
    <3> QED BY <1>3, <3>3, <3>4, OthersWait
  <2>2. CASE u = v
    <3>0. /\ step \in [Verdicts -> VerdictSteps] /\ verdict' = verdict
          /\ answer \in [Verdicts -> VerdictRefusals \cup {"OK", "INTERNAL_ERROR", Null}]
          /\ Null \notin VerdictRefusals /\ Null # "OK" /\ "OK" \notin VerdictRefusals
          /\ "INTERNAL_ERROR" \notin VerdictRefusals
      BY <1>3, OthersWait DEF InterviewsTypeOK, VerdictRefusals, Replies
    <3>1. Told(v)
      BY <1>0
    <3>2. CASE CommitVerdict(v)
      <4>1. step[v] = "commit" /\ step'[v] = "respond" /\ answer' = answer
        BY <3>0, <3>2 DEF CommitVerdict, Advance
      <4>2. answer[v] = Null /\ ~mine(v)
        BY <3>1, <4>1 DEF Told
      <4>3. mine(v)' /\ appOf(v)' = appOf(v)
        BY <2>0, <3>0, <3>2, RoundOfCommit DEF mine, roundOf, appOf
      <4>4. \A a \in Apps : Wrote(v, a)' => a = appOf(v)
        BY <3>1, <3>2, WroteByVerdict DEF Told
      <4> QED BY <2>2, <3>0, <4>1, <4>2, <4>3, <4>4 DEF Told
    <3>3. CASE ~CommitVerdict(v)
      <4>1. UNCHANGED <<tables, interview>>
        BY <1>3, <3>3, OthersWait
      <4>2. /\ mine(v)' <=> mine(v)
            /\ mine(v) => appOf(v)' = appOf(v)
            /\ \A a \in Apps : Wrote(v, a)' <=> Wrote(v, a)
        BY <3>0, <4>1, MineStays DEF tables, Wrote
      <4>3. \/ step'[v] \notin {"respond", "done"} /\ step[v] \notin {"respond", "done"} /\ answer'[v] = answer[v]
            \/ step[v] = "respond" /\ step'[v] = "done" /\ answer'[v] \in {"OK", "INTERNAL_ERROR"}
            \/ /\ step[v] \notin {"respond", "done"} /\ step'[v] = "done"
               /\ answer'[v] \in VerdictRefusals \cup {"INTERNAL_ERROR"}
        <5>1. CASE Passes(v)
          BY <3>0, <5>1 DEF Passes, AnswerVerdict, Advance, VerdictRefusals
        <5>2. CASE Aborts(v)
          BY <3>0, <5>2 DEF Aborts, AbortVerdict, AnswerVerdict, VerdictRefusals
        <5>3. CASE Claim(v) \/ UpdateApplication(v) \/ InsertVerdictHistory(v) \/ AuditVerdict(v)
          BY <3>0, <5>3 DEF Claim, UpdateApplication, InsertVerdictHistory, AuditVerdict, Advance
        <5> QED BY <1>3, <3>3, <5>1, <5>2, <5>3, VerdictCases
      <4> QED BY <2>2, <3>0, <3>1, <4>2, <4>3 DEF Told
    <3> QED BY <3>2, <3>3
  <2> QED BY <2>1, <2>2
<1> QED BY <1>1, <1>2, <1>3 DEF InterviewsNext, AllServed, VerdictStep


-----------------------------------------------------------------------------
(***************************************************************************)
(* The verdict applied.                                                    *)
(***************************************************************************)

\* The parts of CommittedWhole, of verdict v on a round of application a whose
\* audit is log, with the given outcome and stage.
LastRowRejects(v, a) ==
  /\ application[a].status = "REJECTED"
  /\ stageHistory[a][Len(stageHistory[a])].changedBy = v
  /\ stageHistory[a][Len(stageHistory[a])].toStatus = "REJECTED"
OnlyMovesTo(v, a, stage) ==
  \A n \in 1 .. Len(stageHistory[a]) : stageHistory[a][n].changedBy = v =>
    isMove(stageHistory[a][n]) /\ stageHistory[a][n].toStage = stage
Tells(entry, row, v) ==
  /\ entry.actor = v
  /\ IF isMove(row) THEN entry.from = row.fromStage /\ entry.to = row.toStage
                    ELSE entry.from = "ACTIVE" /\ entry.to = row.toStatus
Traced(v, a) ==
  \A n \in 1 .. Len(stageHistory[a]) : stageHistory[a][n].changedBy = v =>
    \E m \in 1 .. Len(auditLog[a]) : Tells(auditLog[a][m], stageHistory[a][n], v)
Applied(log, v, a, outcome, stage) ==
  /\ Len(log) = 2 /\ log[2].actor = v /\ log[2].outcome = outcome
  /\ outcome = "REJECTED" => LastRowRejects(v, a)
  /\ outcome # "REJECTED" => (Wrote(v, a) <=> log[2].toStage # Null) /\ OnlyMovesTo(v, a, stage)
  /\ Traced(v, a)

LEMMA AppliedIsApplied ==
  CommittedWhole <=>
    \A i \in Rounds : decided(i) =>
      Applied(interviewAudit[i], interview[i].decidedBy, interview[i].app,
              interview[i].outcome, interview[i].stage)
BY DEF CommittedWhole, Applied, LastRowRejects, OnlyMovesTo, Tells, Traced

\* Rows of others leave it as it is; a closed application gets none.
LEMMA AppliedIfOthers ==
  ASSUME TypeOK, NEW v, NEW a \in Apps, NEW log, NEW outcome, NEW stage,
         OthersWrite(v), application[a] # Null, Applied(log, v, a, outcome, stage)
  PROVE  Applied(log, v, a, outcome, stage)'
<1> DEFINE h == stageHistory[a]
<1>0. h \in Seq(HistoryRow) /\ Len(h) \in Nat /\ auditLog[a] \in Seq(AuditRow)
  BY DEF TypeOK, TablesTypeOK
<1>1. CASE application'[a] = application[a] /\ stageHistory'[a] = h /\ auditLog'[a] = auditLog[a]
  BY <1>1 DEF Applied, LastRowRejects, OnlyMovesTo, Traced, Wrote
<1>2. ASSUME NEW row \in HistoryRow, row.changedBy # v, stageHistory'[a] = Append(h, row), isActive(a),
             \/ auditLog'[a] = auditLog[a]
             \/ \E entry \in AuditRow : auditLog'[a] = Append(auditLog[a], entry)
      PROVE  Applied(log, v, a, outcome, stage)'
  <2>1. outcome # "REJECTED"
    BY <1>2 DEF Applied, LastRowRejects, isActive
  <2>2. /\ Len(stageHistory'[a]) = Len(h) + 1 /\ stageHistory'[a][Len(h) + 1] = row
        /\ \A n \in 1 .. Len(h) : stageHistory'[a][n] = h[n]
    BY <1>0, <1>2
  <2>3. \A n \in 1 .. Len(stageHistory'[a]) : stageHistory'[a][n].changedBy = v =>
          n \in 1 .. Len(h) /\ stageHistory'[a][n] = h[n]
    BY <1>0, <1>2, <2>2
  <2>4. OnlyMovesTo(v, a, stage)'
    BY <2>1, <2>3 DEF Applied, OnlyMovesTo
  <2>5. \A m \in 1 .. Len(auditLog[a]) : m \in 1 .. Len(auditLog'[a]) /\ auditLog'[a][m] = auditLog[a][m]
    BY <1>0, <1>2
  <2>6. Traced(v, a)'
    BY <2>3, <2>5 DEF Applied, Traced
  <2>7. Wrote(v, a)' <=> Wrote(v, a)
    BY WroteStays
  <2> QED BY <2>1, <2>4, <2>6, <2>7 DEF Applied
<1> QED BY <1>1, <1>2 DEF OthersWrite

\* A verdict's own COMMIT, the first and the only one to write in its name.
LEMMA AppliedByCommit ==
  ASSUME InterviewsTypeOK, RoundsHaveApplications, VerdictsAreDue, DecisionsAreOwn, AnswersAreTrue,
         NEW v \in Verdicts, CommitVerdict(v), NEW i \in Rounds, i = verdict[v].round,
         NEW a, a = interview[i].app, NEW log, log = interviewAudit'[i],
         NEW stage, stage = interview[i].stage, NEW outcome, outcome = verdict[v].decision
  PROVE  Applied(log, v, a, outcome, stage)'
<1> DEFINE entry == [action |-> "INTERVIEW_DECISION_RECORDED", actor |-> v, outcome |-> verdict[v].decision,
                     toStage |-> toStage(v), toStatus |-> IF selected(v) THEN Null ELSE "REJECTED"]
<1>1. /\ roundOf(v) = interview[i] /\ roundOf(v) # Null /\ a = appOf(v) /\ a \in Apps
      /\ interview[i].outcome = Null /\ interview[i] # Null /\ verdict' = verdict
      /\ stage \in PipelineStage /\ v \in Transactions
      /\ verdict[v].decision \in {"SELECTED", "REJECTED"}
      /\ saw[v] \in PipelineStage
  BY CommitOfVerdict, RoundOfCommit, VerdictTypes DEF roundOf, appOf, claimGuard, CommitVerdict, Advance
<1>2. Len(interviewAudit[i]) = 1 /\ interviewAudit[i] \in Seq(InterviewAuditRow)
  BY <1>1 DEF DecisionsAreOwn, InterviewsTypeOK
<1>3. log = Append(interviewAudit[i], entry)
  BY <1>2 DEF CommitVerdict, InterviewsTypeOK
<1>4. entry.actor = v /\ entry.outcome = verdict[v].decision /\ entry.toStage = toStage(v)
  OBVIOUS
<1> HIDE DEF entry
<1>5. Len(log) = 2 /\ log[2] = entry
  BY <1>2, <1>3
<1>6. ~Wrote(v, a)
  BY <1>1 DEF AnswersAreTrue, CommitVerdict
<1>7. CASE ~Moves(v)
  <2>1. selected(v) /\ toStage(v) = Null /\ UNCHANGED tables
    BY <1>7, CommitOfVerdict DEF Moves
  <2>2. verdict[v].decision # "REJECTED"
    BY <2>1 DEF selected
  <2>3. ~Wrote(v, a)' /\ OnlyMovesTo(v, a, stage)' /\ Traced(v, a)'
    BY <1>6, <2>1 DEF Wrote, OnlyMovesTo, Traced, tables
  <2> QED BY <1>1, <1>4, <1>5, <2>1, <2>2, <2>3 DEF Applied
<1>8. CASE Moves(v)
  <2> DEFINE h == stageHistory[a]
             row == VerdictHistory(v)
  <2>0. /\ h \in Seq(HistoryRow) /\ Len(h) \in Nat /\ auditLog[a] \in Seq(AuditRow)
        /\ application \in [Apps -> ApplicationRow \cup {Null}]
        /\ stageHistory \in [Apps -> Seq(HistoryRow)] /\ auditLog \in [Apps -> Seq(AuditRow)]
    BY <1>1 DEF InterviewsTypeOK, TypeOK, TablesTypeOK
  <2>1. /\ isActive(a) /\ application' = [application EXCEPT ![a] = VerdictRow(v)]
        /\ stageHistory'[a] = Append(h, row) /\ auditLog'[a] = Append(auditLog[a], VerdictAudit(v))
    BY <1>1, <1>8, <2>0, CommitOfVerdict DEF VerdictPublishes
  <2>2. row.changedBy = v /\ VerdictAudit(v).actor = v /\ row \in HistoryRow
    BY <1>1, <1>8, CommitOfVerdict, VerdictRowTypes DEF VerdictHistory, VerdictAudit
  <2>3. Tells(VerdictAudit(v), row, v)
    BY <1>1 DEF Tells, VerdictHistory, VerdictAudit, isMove
  <2>4. ~selected(v) => row.toStatus = "REJECTED" /\ application'[a].status = "REJECTED"
    <3>1. application[a] \in ApplicationRow
      BY <1>1, <2>0, <2>1 DEF isActive
    <3>2. ~selected(v) => application'[a] = [application[a] EXCEPT !.status = "REJECTED"]
      BY <1>1, <2>0, <2>1 DEF VerdictRow
    <3>3. [application[a] EXCEPT !.status = "REJECTED"].status = "REJECTED"
      BY <3>1 DEF ApplicationRow
    <3> QED BY <3>2, <3>3 DEF VerdictHistory
  <2>5. selected(v) => isMove(row) /\ row.toStage = stage /\ toStage(v) # Null
    BY <1>1, <1>8 DEF Moves, VerdictHistory, isMove, toStage, moveFrom
  <2> HIDE DEF row
  <2>6. /\ Len(stageHistory'[a]) = Len(h) + 1 /\ stageHistory'[a][Len(h) + 1] = row
        /\ \A n \in 1 .. Len(h) : stageHistory'[a][n] = h[n] /\ h[n].changedBy # v
    <3>1. \A n \in 1 .. Len(h) : h[n].changedBy # v
      BY <1>6 DEF Wrote
    <3>2. h \in Seq(HistoryRow) /\ row \in HistoryRow
      BY <2>0, <2>2
    <3> HIDE DEF h
    <3>3. /\ Len(Append(h, row)) = Len(h) + 1 /\ Append(h, row)[Len(h) + 1] = row
          /\ \A n \in 1 .. Len(h) : Append(h, row)[n] = h[n]
      BY <3>2
    <3> QED BY <2>1, <3>1, <3>3
  <2>7. \A n \in 1 .. Len(stageHistory'[a]) : stageHistory'[a][n].changedBy = v =>
          stageHistory'[a][n] = row
    <3> SUFFICES ASSUME NEW n \in 1 .. Len(stageHistory'[a]), n # Len(h) + 1
                 PROVE  n \in 1 .. Len(h)
      BY <2>6
    <3> QED BY <2>0, <2>6
  <2>8. Len(auditLog[a]) + 1 \in 1 .. Len(auditLog'[a]) /\ auditLog'[a][Len(auditLog[a]) + 1] = VerdictAudit(v)
    BY <2>0, <2>1
  <2>9. Traced(v, a)'
    BY <2>3, <2>7, <2>8 DEF Traced
  <2>10. CASE selected(v)
    <3>1. OnlyMovesTo(v, a, stage)'
      BY <2>5, <2>7, <2>10 DEF OnlyMovesTo
    <3>2. Wrote(v, a)'
      <4>1. Len(h) + 1 \in 1 .. Len(stageHistory'[a])
        BY <2>0, <2>6
      <4> QED BY <2>2, <2>6, <4>1 DEF Wrote
    <3>3. verdict[v].decision # "REJECTED"
      BY <2>10 DEF selected
    <3> QED BY <1>1, <1>4, <1>5, <2>5, <2>9, <2>10, <3>1, <3>2, <3>3 DEF Applied
  <2>11. CASE ~selected(v)
    <3>1. verdict[v].decision = "REJECTED"
      BY <1>1, <2>11 DEF selected
    <3>2. LastRowRejects(v, a)'
      BY <2>2, <2>4, <2>6, <2>11 DEF LastRowRejects
    <3> QED BY <1>1, <1>4, <1>5, <2>9, <3>1, <3>2 DEF Applied
  <2> QED BY <2>10, <2>11
<1> QED BY <1>7, <1>8

\* What CommittedWhole says of one round.
AppliedAt(i) ==
  decided(i) => Applied(interviewAudit[i], interview[i].decidedBy, interview[i].app,
                        interview[i].outcome, interview[i].stage)

LEMMA AppliedAtIfOthers ==
  ASSUME InterviewsTypeOK, RoundsHaveApplications, NEW i \in Rounds, AppliedAt(i),
         interview'[i] = interview[i], interviewAudit'[i] = interviewAudit[i],
         decided(i) => OthersWrite(interview[i].decidedBy)
  PROVE  AppliedAt(i)'
<1> SUFFICES ASSUME decided(i)
             PROVE  AppliedAt(i)'
  BY DEF AppliedAt, decided
<1>1. PICK v, a, log, outcome, stage :
        /\ v = interview[i].decidedBy /\ a = interview[i].app /\ log = interviewAudit[i]
        /\ outcome = interview[i].outcome /\ stage = interview[i].stage
  OBVIOUS
<1>2. interview[i] \in InterviewRow /\ TypeOK
  BY DEF decided, InterviewsTypeOK
<1>3. a \in Apps /\ application[a] # Null
  BY <1>1, <1>2 DEF InterviewRow, RoundsHaveApplications, decided
<1>4. Applied(log, v, a, outcome, stage)
  BY <1>1 DEF AppliedAt
<1>5. Applied(log, v, a, outcome, stage)'
  BY <1>1, <1>2, <1>3, <1>4, AppliedIfOthers
<1> QED BY <1>1, <1>5 DEF AppliedAt

LEMMA AppliedKept ==
  ASSUME IInv, [InterviewsNext]_allVars
  PROVE  CommittedWhole'
<1> USE DEF IInv
<1>0. TypeOK /\ \A i \in Rounds : AppliedAt(i)
  BY AppliedIsApplied DEF InterviewsTypeOK, AppliedAt
<1> SUFFICES ASSUME NEW i \in Rounds
             PROVE  AppliedAt(i)'
  BY DEF CommittedWhole, AppliedAt, Applied, LastRowRejects, OnlyMovesTo, Tells, Traced
<1>1. decided(i) =>
        /\ interview[i].decidedBy \in Verdicts /\ interview[i].decidedBy \in Transactions \ Requests
        /\ verdict[interview[i].decidedBy].round = i /\ interview[i].status = "COMPLETED"
  BY DEF decided, DecisionsAreOwn, InterviewsTypeOK, InterviewRow
<1>2. CASE PipelineStep
  <2>1. [Next]_vars /\ interview' = interview /\ interviewAudit' = interviewAudit
    BY <1>2, PipelineStepIsNext DEF roundVars
  <2>2. decided(i) => OthersWrite(interview[i].decidedBy)
    BY <1>0, <1>1, <2>1, RequestsWrite
  <2> QED BY <1>0, <2>1, <2>2, AppliedAtIfOthers
<1>3. CASE RoundStep \/ UNCHANGED allVars
  <2>1. UNCHANGED tables
    BY <1>3, RoundStepSpares DEF vars, tableVars, allVars
  <2>2. decided(i) => OthersWrite(interview[i].decidedBy)
    BY <2>1, SameTablesWrite
  <2>3. CASE interview'[i] = interview[i] /\ interviewAudit'[i] = interviewAudit[i]
    BY <1>0, <2>2, <2>3, AppliedAtIfOthers
  <2>4. CASE interview'[i].outcome = Null
    BY <2>4 DEF AppliedAt, decided
  <2>5. CASE interview[i] # Null /\ interview[i].status = "SCHEDULED" /\ interview'[i].outcome = interview[i].outcome
    <3>1. interview[i].outcome = Null
      BY <1>1, <2>5 DEF decided
    <3> QED BY <2>4, <2>5, <3>1
  <2>6. UNCHANGED allVars => interview'[i] = interview[i] /\ interviewAudit'[i] = interviewAudit[i]
    BY DEF allVars, interviewVars, roundVars
  <2> QED BY <1>3, <2>3, <2>4, <2>5, <2>6, RoundStepSpares
<1>4. ASSUME NEW v \in Verdicts, VerdictStep(v)
      PROVE  AppliedAt(i)'
  <2>1. CASE CommitVerdict(v) /\ i = verdict[v].round
    <3>1. PICK a, log, stage, outcome :
                /\ a = interview[i].app /\ log = interviewAudit'[i] /\ stage = interview[i].stage
                /\ outcome = verdict[v].decision
      OBVIOUS
    <3>2. Applied(log, v, a, outcome, stage)'
      BY <2>1, <3>1, AppliedByCommit
    <3>3. /\ interview'[i].decidedBy = v /\ interview'[i].app = a /\ interview'[i].stage = stage
          /\ interview'[i].outcome = outcome
      BY <2>1, <3>1, RoundOfCommit
    <3> QED BY <3>1, <3>2, <3>3 DEF AppliedAt
  <2>2. CASE CommitVerdict(v) /\ i # verdict[v].round
    <3>1. interview'[i] = interview[i] /\ interviewAudit'[i] = interviewAudit[i]
      BY <2>2, RoundOfCommit, VerdictTypes
    <3>2. decided(i) => interview[i].decidedBy # v
      BY <1>1, <2>2
    <3>3. decided(i) => OthersWrite(interview[i].decidedBy)
      BY <1>4, <3>2, VerdictsWrite
    <3> QED BY <1>0, <3>1, <3>3, AppliedAtIfOthers
  <2>3. CASE UNCHANGED <<tables, interview, interviewAudit>>
    <3>1. decided(i) => OthersWrite(interview[i].decidedBy)
      BY <2>3, SameTablesWrite
    <3> QED BY <1>0, <2>3, <3>1, AppliedAtIfOthers
  <2> QED BY <1>4, <2>1, <2>2, <2>3, OthersWait
<1> QED BY <1>2, <1>3, <1>4 DEF InterviewsNext, AllServed, VerdictStep

-----------------------------------------------------------------------------
(***************************************************************************)
(* The inductive invariant.                                                *)
(***************************************************************************)

LEMMA InitIInv ==
  ASSUME InterviewsInit
  PROVE  IInv
<1> USE DEF InterviewsInit
<1>1. TypeOK /\ RequestsSafe
  BY InitFlight, FlightIsEnough
<1>2. InterviewsTypeOK
  BY <1>1 DEF InterviewsTypeOK, VerdictSteps
<1>3. RoundsHaveApplications /\ DecisionsAreOwn /\ CommittedWhole
  BY DEF RoundsHaveApplications, DecisionsAreOwn, CommittedWhole, decided
<1>4. VerdictsAreDue
  <2> SUFFICES ASSUME NEW v \in Verdicts
               PROVE  RoundIsFound(v) /\ ClaimsAreHeld(v) /\ VerdictWrites(v)
    BY DEF VerdictsAreDue
  <2>1. step[v] = "readRound" /\ ~HasApplication(v)
    BY DEF HasApplication
  <2>2. buffer[v] = NoWrites
    BY VerdictsAssumption DEF Init, TablesInit
  <2> QED BY <2>1, <2>2 DEF RoundIsFound, ClaimsAreHeld, VerdictWrites, HasRound, NoWrites
<1>5. AnswersAreTrue
  <2> SUFFICES ASSUME NEW v \in Verdicts
               PROVE  Told(v)
    BY DEF AnswersAreTrue, Told
  <2>1. step[v] = "readRound" /\ answer[v] = Null /\ verdict[v].round \in Rounds
    BY DEF Decisions
  <2>2. ~mine(v)
    BY <2>1 DEF mine, roundOf
  <2>3. \A a \in Apps : Len(stageHistory[a]) = 0
    BY DEF Init, TablesInit
  <2>4. \A a \in Apps : ~Wrote(v, a)
    BY <2>3 DEF Wrote
  <2> QED BY <2>1, <2>2, <2>4 DEF Told, VerdictRefusals, Replies
<1> QED BY <1>1, <1>2, <1>3, <1>4, <1>5 DEF IInv

LEMMA StepIInv ==
  ASSUME IInv, [InterviewsNext]_allVars
  PROVE  IInv'
BY DueKept, RoundsKept, DecisionsKept, ToldKept, AppliedKept DEF IInv

\* For every set of applications, rounds, requests and verdicts: a verdict that
\* has its round holds the Interview row's lock from the guarded claim on and
\* the Application row's from the guarded update on, as both guards found them;
\* what it will commit is settled (recordDecision, interviews.service.ts); and
\* the recruiters' requests rely on what they relied on alone.
THEOREM VerdictsTheorem == InterviewsSpec => []IInv
BY InitIInv, StepIInv, PTL DEF InterviewsSpec

\* The type invariant of the two components together.
THEOREM InterviewsTypeTheorem == InterviewsSpec => []InterviewsTypeOK
<1>1. IInv => InterviewsTypeOK
  BY DEF IInv
<1> QED BY <1>1, VerdictsTheorem, PTL

\* A round that is out of SCHEDULED does not change.
LEMMA EndedStays ==
  ASSUME IInv, [InterviewsNext]_allVars, NEW i \in Rounds, interview[i] # Null, interview[i].status # "SCHEDULED"
  PROVE  interview'[i] = interview[i]
<1> USE DEF IInv
<1>1. CASE PipelineStep \/ UNCHANGED allVars
  BY <1>1, PipelineStepIsNext DEF roundVars, allVars, interviewVars
<1>2. CASE RoundStep
  BY <1>2, RoundStepSpares
<1>3. ASSUME NEW v \in Verdicts, VerdictStep(v)
      PROVE  interview'[i] = interview[i]
  BY <1>3, OthersWait, RoundOfCommit, VerdictTypes DEF claimGuard
<1> QED BY <1>1, <1>2, <1>3 DEF InterviewsNext, AllServed, VerdictStep

\* A round that is COMPLETED or CANCELLED never changes again: of a verdict, a
\* second verdict and a PATCH of the status, whatever their order, one wins
\* (the two guarded updates of interviews.service.ts).
THEOREM DecisionIsFinalTheorem == InterviewsSpec => DecisionIsFinal
<1>1. ASSUME IInv, [InterviewsNext]_allVars
      PROVE  \A i \in Rounds :
               interview[i] # Null /\ interview[i].status # "SCHEDULED" => interview'[i] = interview[i]
  BY <1>1, EndedStays
<1> QED BY <1>1, VerdictsTheorem, PTL DEF InterviewsSpec, DecisionIsFinal

-----------------------------------------------------------------------------
(***************************************************************************)
(* The life of an application beside verdicts: the refinement.             *)
(***************************************************************************)

\* How a verdict's COMMIT adds to the histories.
LEMMA VerdictGrows ==
  ASSUME InterviewsTypeOK, RoundsHaveApplications, VerdictsAreDue, HistoryExplainsRow,
         NEW v \in Verdicts, CommitVerdict(v), Moves(v), NEW own, own = appOf(v)
  PROVE  /\ own \in Apps /\ VerdictPublishes(v) /\ isActive(own) /\ application[own] \in ApplicationRow
         /\ application'[own] = VerdictRow(v) /\ VerdictRow(v) \in ApplicationRow
         /\ \A a \in Apps : a # own => application'[a] = application[a] /\ stageHistory'[a] = stageHistory[a]
         /\ stageHistory[own] \in Seq(HistoryRow) /\ Len(stageHistory[own]) >= 1
         /\ stageHistory'[own] = Append(stageHistory[own], VerdictHistory(v))
         /\ Len(stageHistory'[own]) = Len(stageHistory[own]) + 1
         /\ \A i \in 1 .. Len(stageHistory[own]) : stageHistory'[own][i] = stageHistory[own][i]
         /\ stageHistory'[own][Len(stageHistory[own]) + 1] = VerdictHistory(v)
<1>1. /\ own \in Apps /\ VerdictPublishes(v) /\ isActive(own) /\ application[own] # Null
      /\ VerdictRow(v) \in ApplicationRow
  BY CommitOfVerdict, VerdictTypes, VerdictRowTypes DEF VerdictPublishes
<1>2. /\ application \in [Apps -> ApplicationRow \cup {Null}] /\ stageHistory \in [Apps -> Seq(HistoryRow)]
  BY DEF InterviewsTypeOK, TypeOK, TablesTypeOK
<1>3. /\ application[own] \in ApplicationRow /\ stageHistory[own] \in Seq(HistoryRow)
      /\ Len(stageHistory[own]) >= 1
  BY <1>1, <1>2 DEF HistoryExplainsRow
<1>4. /\ application'[own] = VerdictRow(v)
      /\ stageHistory'[own] = Append(stageHistory[own], VerdictHistory(v))
      /\ \A a \in Apps : a # own => application'[a] = application[a] /\ stageHistory'[a] = stageHistory[a]
  BY <1>1, <1>2 DEF VerdictPublishes
<1> DEFINE h == stageHistory[own]
           new == VerdictHistory(v)
<1>5. h \in Seq(HistoryRow)
  BY <1>3
<1> HIDE DEF h, new
<1>6. /\ Len(Append(h, new)) = Len(h) + 1 /\ Append(h, new)[Len(h) + 1] = new
      /\ \A i \in 1 .. Len(h) : Append(h, new)[i] = h[i]
  BY <1>5
<1> QED BY <1>1, <1>3, <1>4, <1>6 DEF h, new

\* Rows stay where they are.
HistoriesStay ==
  \A a \in Apps : \A i \in 1 .. Len(stageHistory[a]) :
    i \in 1 .. Len(stageHistory'[a]) /\ stageHistory'[a][i] = stageHistory[a][i]

LEMMA HistoriesStayPut ==
  ASSUME InterviewsTypeOK, RequestsSafe, RoundsHaveApplications, VerdictsAreDue, HistoryExplainsRow,
         [InterviewsNext]_allVars
  PROVE  HistoriesStay
<1>1. CASE PipelineStep
  BY <1>1, PipelineStepIsNext, HistoryStays DEF InterviewsTypeOK, HistoriesStay
<1>2. CASE UNCHANGED tables
  BY <1>2 DEF tables, HistoriesStay
<1>3. CASE RoundStep \/ UNCHANGED allVars
  BY <1>2, <1>3, RoundStepSpares DEF vars, tableVars, allVars
<1>4. ASSUME NEW v \in Verdicts, CommitVerdict(v), Moves(v)
      PROVE  HistoriesStay
  <2>1. PICK own : own = appOf(v)
    OBVIOUS
  <2>2. ASSUME NEW a \in Apps, NEW i \in 1 .. Len(stageHistory[a])
        PROVE  i \in 1 .. Len(stageHistory'[a]) /\ stageHistory'[a][i] = stageHistory[a][i]
    <3>1. CASE a = own
      BY <1>4, <2>1, <2>2, <3>1, VerdictGrows
    <3>2. CASE a # own
      BY <1>4, <2>1, <2>2, <3>2, VerdictGrows
    <3> QED BY <3>1, <3>2
  <2> QED BY <2>2 DEF HistoriesStay
<1> QED BY <1>1, <1>2, <1>3, <1>4, OthersWait, CommitOfVerdict DEF InterviewsNext, AllServed, VerdictStep

LEMMA HistoryKeptByVerdict ==
  ASSUME InterviewsTypeOK, RoundsHaveApplications, VerdictsAreDue, HistoryExplainsRow,
         NEW v \in Verdicts, CommitVerdict(v), Moves(v)
  PROVE  HistoryExplainsRow'
<1> SUFFICES ASSUME NEW a \in Apps
             PROVE  IF application'[a] = Null THEN stageHistory'[a] = <<>>
                    ELSE Explains(stageHistory'[a], application'[a])
  BY DEF HistoryExplainsRow, Explains
<1>0. IF application[a] = Null THEN stageHistory[a] = <<>> ELSE Explains(stageHistory[a], application[a])
  BY DEF HistoryExplainsRow, Explains
<1>1. PICK own : own = appOf(v)
  OBVIOUS
<1>2. CASE a # own
  BY <1>0, <1>1, <1>2, VerdictGrows
<1>3. CASE a = own
  <2> DEFINE h == stageHistory[own]
             row == application[own]
             new == VerdictHistory(v)
             next == VerdictRow(v)
  <2>1. /\ h \in Seq(HistoryRow) /\ row \in ApplicationRow /\ row.status = "ACTIVE" /\ row # Null
        /\ application'[own] = next /\ stageHistory'[own] = Append(h, new) /\ next \in ApplicationRow
    BY <1>1, <1>3, VerdictGrows DEF isActive
  <2>2. /\ new.fromStatus = "ACTIVE" /\ new.toStatus = next.status
        /\ isMove(new) => new.fromStage = row.currentStage
        /\ next.currentStage = IF next.status = "ACTIVE" THEN new.toStage ELSE row.currentStage
    <3>1. selected(v) => row.currentStage = saw[v]
      BY <1>1, <1>3, VerdictGrows DEF VerdictPublishes
    <3>2. CASE selected(v)
      BY <1>1, <2>1, <3>1, <3>2 DEF VerdictHistory, VerdictRow, isMove, ApplicationRow
    <3>3. CASE ~selected(v)
      BY <1>1, <2>1, <3>3 DEF VerdictHistory, VerdictRow, isMove, ApplicationRow
    <3> QED BY <3>2, <3>3
  <2>3. Explains(h, row)
    BY <1>0, <1>3, <2>1
  <2>4. next # Null
    BY <2>1
  <2> HIDE DEF h, row, new, next
  <2>5. Explains(Append(h, new), next)
    BY <2>1, <2>2, <2>3, ExplainsOneMore
  <2> QED BY <1>3, <2>1, <2>4, <2>5
<1> QED BY <1>2, <1>3

LEMMA HistoryKept ==
  ASSUME InterviewsTypeOK, RequestsSafe, RoundsHaveApplications, VerdictsAreDue, HistoryExplainsRow,
         [InterviewsNext]_allVars
  PROVE  HistoryExplainsRow'
<1>1. CASE PipelineStep
  BY <1>1, PipelineStepIsNext, HistoryStep DEF InterviewsTypeOK
<1>2. CASE UNCHANGED tables
  BY <1>2 DEF tables, HistoryExplainsRow
<1>3. CASE RoundStep \/ UNCHANGED allVars
  BY <1>2, <1>3, RoundStepSpares DEF vars, tableVars, allVars
<1> QED BY <1>1, <1>2, <1>3, HistoryKeptByVerdict, OthersWait, CommitOfVerdict
     DEF InterviewsNext, AllServed, VerdictStep

\* The requests' part: what they have written, answered and seen.
LEMMA RequestsToldIfOthers ==
  ASSUME TypeOK, WrittenSoFar, TruthfulReplies, SeenVisited, HistoriesStay, UNCHANGED requestVars,
         \A r \in Requests : OthersWrite(r)
  PROVE  WrittenSoFar' /\ TruthfulReplies' /\ SeenVisited'
<1>1. call' = call /\ pc' = pc /\ seen' = seen /\ reply' = reply
  BY DEF requestVars
<1>2. \A r \in Requests : \A a \in Apps : Wrote(r, a)' <=> Wrote(r, a)
  BY WroteStays
<1>3. SeenVisited'
  <2> SUFFICES ASSUME NEW r \in Requests, pc[r] \in InTransaction
               PROVE  \E i \in 1 .. Len(stageHistory'[call[r].app]) :
                        stageHistory'[call[r].app][i].toStage = seen[r]
    BY <1>1 DEF SeenVisited
  <2>1. PICK own \in Apps : own = call[r].app
    BY CallTypes
  <2>2. PICK i \in 1 .. Len(stageHistory[own]) : stageHistory[own][i].toStage = seen[r]
    BY <2>1 DEF SeenVisited
  <2>3. i \in 1 .. Len(stageHistory'[own]) /\ stageHistory'[own][i] = stageHistory[own][i]
    BY DEF HistoriesStay
  <2> QED BY <2>1, <2>2, <2>3
<1>4. ASSUME NEW r \in Requests
      PROVE  Wrote(r, call[r].app)' <=> Wrote(r, call[r].app)
  <2>1. PICK own \in Apps : own = call[r].app
    BY CallTypes
  <2> QED BY <1>1, <1>2, <2>1 DEF Wrote
<1> QED BY <1>1, <1>2, <1>3, <1>4 DEF WrittenSoFar, TruthfulReplies

LEMMA RequestsToldKept ==
  ASSUME InterviewsTypeOK, RequestsSafe, RoundsHaveApplications, VerdictsAreDue, HistoryExplainsRow,
         WrittenSoFar, TruthfulReplies, SeenVisited, [InterviewsNext]_allVars
  PROVE  WrittenSoFar' /\ TruthfulReplies' /\ SeenVisited'
<1>0. TypeOK /\ HistoriesStay
  BY HistoriesStayPut DEF InterviewsTypeOK
<1>1. CASE PipelineStep
  BY <1>0, <1>1, PipelineStepIsNext, WrittenStep, VisitedStep
<1>2. CASE RoundStep \/ UNCHANGED allVars
  <2>1. UNCHANGED requestVars /\ UNCHANGED tables
    BY <1>2, RoundStepSpares DEF vars, tableVars, allVars
  <2>2. \A r \in Requests : OthersWrite(r)
    BY <2>1, SameTablesWrite
  <2> QED BY <1>0, <2>1, <2>2, RequestsToldIfOthers
<1>3. ASSUME NEW v \in Verdicts, VerdictStep(v)
      PROVE  WrittenSoFar' /\ TruthfulReplies' /\ SeenVisited'
  <2>1. UNCHANGED requestVars /\ v \notin Requests
    BY <1>3, OthersWait, VerdictTypes
  <2>2. \A r \in Requests : OthersWrite(r)
    BY <1>3, <2>1, VerdictsWrite
  <2> QED BY <1>0, <2>1, <2>2, RequestsToldIfOthers
<1> QED BY <1>1, <1>2, <1>3 DEF InterviewsNext, AllServed, VerdictStep

LEMMA OwnOverrideKept ==
  ASSUME InterviewsTypeOK, RequestsSafe, RoundsHaveApplications, VerdictsAreDue, HistoryExplainsRow,
         OwnOverride, [InterviewsNext]_allVars
  PROVE  OwnOverride'
<1>1. CASE PipelineStep
  BY <1>1, PipelineStepIsNext, OwnOverrideStep DEF InterviewsTypeOK
<1>2. CASE UNCHANGED tables
  BY <1>2 DEF tables, OwnOverride
<1>3. CASE RoundStep \/ UNCHANGED allVars
  BY <1>2, <1>3, RoundStepSpares DEF vars, tableVars, allVars
<1>4. ASSUME NEW v \in Verdicts, CommitVerdict(v), Moves(v)
      PROVE  OwnOverride'
  <2>1. PICK own : own = appOf(v)
    OBVIOUS
  <2> SUFFICES ASSUME NEW a \in Apps, NEW i \in 1 .. Len(stageHistory'[a])
               PROVE  stageHistory'[a][i].overrideId \in {Null, stageHistory'[a][i].changedBy}
    BY DEF OwnOverride
  <2>2. CASE a = own /\ i = Len(stageHistory[own]) + 1
    <3>1. stageHistory'[a][i] = VerdictHistory(v)
      BY <1>4, <2>1, <2>2, VerdictGrows
    <3> QED BY <3>1 DEF VerdictHistory
  <2>3. CASE ~(a = own /\ i = Len(stageHistory[own]) + 1)
    <3>1. i \in 1 .. Len(stageHistory[a]) /\ stageHistory'[a][i] = stageHistory[a][i]
      <4>1. CASE a # own
        BY <1>4, <2>1, <4>1, VerdictGrows
      <4>2. CASE a = own
        <5>1. stageHistory[own] \in Seq(HistoryRow) /\ Len(stageHistory'[own]) = Len(stageHistory[own]) + 1
              /\ \A j \in 1 .. Len(stageHistory[own]) : stageHistory'[own][j] = stageHistory[own][j]
          BY <1>4, <2>1, VerdictGrows
        <5> QED BY <2>3, <4>2, <5>1
      <4> QED BY <4>1, <4>2
    <3> QED BY <3>1 DEF OwnOverride
  <2> QED BY <2>2, <2>3
<1> QED BY <1>1, <1>2, <1>3, <1>4, OthersWait, CommitOfVerdict DEF InterviewsNext, AllServed, VerdictStep

\* A verdict's round stays one of its application.
LEMMA AppOfStays ==
  ASSUME InterviewsTypeOK, RequestsSafe, RoundsHaveApplications, VerdictsAreDue, [InterviewsNext]_allVars,
         NEW u \in Verdicts, roundOf(u) # Null
  PROVE  appOf(u)' = appOf(u)
<1>1. PICK i \in Rounds : i = verdict[u].round
  BY VerdictTypes
<1>2. roundOf(u) = interview[i] /\ interview[i] # Null
  BY <1>1 DEF roundOf
<1> SUFFICES verdict' = verdict /\ interview'[i].app = interview[i].app
  BY <1>1 DEF appOf, roundOf
<1>3. CASE PipelineStep \/ UNCHANGED allVars
  BY <1>3, PipelineStepIsNext DEF roundVars, verdictVars, allVars, interviewVars
<1>4. CASE RoundStep
  BY <1>2, <1>4, RoundStepSpares DEF SparesRounds, verdictVars
<1>5. ASSUME NEW v \in Verdicts, VerdictStep(v)
      PROVE  verdict' = verdict /\ interview'[i].app = interview[i].app
  BY <1>5, OthersWait, RoundOfCommit, VerdictTypes
<1> QED BY <1>3, <1>4, <1>5 DEF InterviewsNext, AllServed, VerdictStep

LEMMA SawKept ==
  ASSUME InterviewsTypeOK, RequestsSafe, RoundsHaveApplications, VerdictsAreDue, HistoryExplainsRow,
         SawVisited, [InterviewsNext]_allVars
  PROVE  SawVisited'
<1> DEFINE Knows == {"claim"} \cup HasRound
<1> SUFFICES ASSUME NEW u \in Verdicts, step'[u] \in Knows
             PROVE  (\E n \in 1 .. Len(stageHistory[appOf(u)]) : stageHistory[appOf(u)][n].toStage = saw[u])'
  BY DEF SawVisited
<1>0. HistoriesStay /\ TypeOK
  BY HistoriesStayPut DEF InterviewsTypeOK
<1>1. \/ step[u] \in Knows /\ saw'[u] = saw[u]
      \/ step[u] = "readApplication" /\ isActive(appOf(u)) /\ saw'[u] = application[appOf(u)].currentStage
  <2>1. CASE PipelineStep \/ RoundStep \/ UNCHANGED allVars
    BY <2>1, PipelineStepIsNext, RoundStepSpares DEF verdictVars, allVars, interviewVars
  <2>2. ASSUME NEW v \in Verdicts, VerdictStep(v), v # u
        PROVE  step'[u] = step[u] /\ saw'[u] = saw[u]
    BY <2>2, OthersWait
  <2>3. ASSUME VerdictStep(u)
        PROVE  \/ step[u] \in Knows /\ saw'[u] = saw[u]
               \/ /\ step[u] = "readApplication" /\ isActive(appOf(u))
                  /\ saw'[u] = application[appOf(u)].currentStage
    <3> USE DEF HasRound
    <3>0. step \in [Verdicts -> VerdictSteps] /\ saw \in [Verdicts -> PipelineStage \cup {Null}]
      BY DEF InterviewsTypeOK
    <3>1. CASE Passes(u)
      BY <3>0, <3>1 DEF Passes, AnswerVerdict, Advance
    <3>2. CASE Aborts(u)
      BY <3>0, <3>2 DEF Aborts, AbortVerdict, AnswerVerdict
    <3>3. CASE Claim(u) \/ UpdateApplication(u) \/ InsertVerdictHistory(u) \/ AuditVerdict(u)
      BY <3>0, <3>3 DEF Claim, UpdateApplication, InsertVerdictHistory, AuditVerdict, Advance
    <3>4. CASE CommitVerdict(u)
      BY <3>0, <3>4 DEF CommitVerdict, Advance
    <3> QED BY <2>3, <3>1, <3>2, <3>3, <3>4, VerdictCases
  <2> QED BY <2>1, <2>2, <2>3 DEF InterviewsNext, AllServed, VerdictStep
<1>2. roundOf(u) # Null /\ appOf(u) \in Apps
  BY <1>1, VerdictTypes DEF VerdictsAreDue, RoundIsFound, HasRound
<1>3. PICK a \in Apps : a = appOf(u) /\ a = appOf(u)'
  BY <1>2, AppOfStays
<1>4. \E n \in 1 .. Len(stageHistory[a]) : stageHistory[a][n].toStage = saw'[u]
  <2>1. CASE step[u] \in Knows /\ saw'[u] = saw[u]
    BY <1>3, <2>1 DEF SawVisited
  <2>2. CASE isActive(appOf(u)) /\ saw'[u] = application[appOf(u)].currentStage
    BY <1>0, <1>3, <2>2, CurrentIsVisited
  <2> QED BY <1>1, <2>1, <2>2
<1>5. \E n \in 1 .. Len(stageHistory'[a]) : stageHistory'[a][n].toStage = saw'[u]
  BY <1>0, <1>4 DEF HistoriesStay
<1> QED BY <1>3, <1>5

LEMMA VerdictRefines ==
  ASSUME InterviewsTypeOK, RoundsHaveApplications, VerdictsAreDue, HistoryExplainsRow, SawVisited,
         NEW v \in Verdicts, CommitVerdict(v), Moves(v)
  PROVE  Abstract!Next
<1>1. PICK own : own = appOf(v)
  OBVIOUS
<1>2. /\ own \in Apps /\ VerdictPublishes(v) /\ application[own] \in ApplicationRow
      /\ application' = [application EXCEPT ![own] = VerdictRow(v)]
      /\ stageHistory' = [stageHistory EXCEPT ![own] = Append(@, VerdictHistory(v))]
  BY <1>1, VerdictGrows DEF VerdictPublishes
<1>3. /\ saw[v] \in PipelineStage /\ verdictAllowed(v, saw[v]) /\ roundOf(v) # Null
      /\ v \in Transactions
  BY CommitOfVerdict, VerdictTypes
<1>4. Abstract!Live(own)
  BY <1>1, <1>2 DEF VerdictPublishes, isActive, Abstract!Live
<1>5. CASE selected(v)
  <2>1. /\ toStage(v) \in PipelineStage /\ toStage(v) = roundOf(v).stage
        /\ application[own].currentStage = saw[v]
    BY <1>1, <1>2, <1>3, <1>5, VerdictRowTypes DEF VerdictPublishes
  <2>2. canTransition(application[own].currentStage, toStage(v))
    BY <1>3, <1>5, <2>1 DEF verdictAllowed, Moves, toStage
  <2>3. Abstract!Record(own, [fromStage |-> application[own].currentStage, toStage |-> toStage(v),
          fromStatus |-> "ACTIVE", toStatus |-> "ACTIVE", changedBy |-> v, overrideId |-> Null])
    BY <1>2, <1>5, <2>1 DEF Abstract!Record, VerdictHistory
  <2>4. application' = [application EXCEPT ![own].currentStage = toStage(v)]
    BY <1>1, <1>2, <1>5 DEF VerdictRow
  <2>5. Abstract!Move(own, toStage(v), v, Null)
    BY <1>4, <2>3, <2>4 DEF Abstract!Move
  <2>6. Abstract!Advance(own, toStage(v), v)
    BY <1>3, <1>4, <2>1, <2>2, <2>5, SameRules DEF Abstract!Advance
  <2> QED BY <1>2, <1>3, <2>1, <2>6, SameRules DEF Abstract!Next
<1>6. CASE ~selected(v)
  <2>1. canSetOutcome(saw[v], "REJECTED")
    BY <1>3 DEF canSetOutcome, ALLOWED_OUTCOMES, PipelineStage
  <2>2. Abstract!Record(own, [fromStage |-> saw[v], toStage |-> saw[v], fromStatus |-> "ACTIVE",
          toStatus |-> "REJECTED", changedBy |-> v, overrideId |-> Null])
    BY <1>2, <1>6 DEF Abstract!Record, VerdictHistory
  <2>3. saw[v] \in Abstract!Visited(own)
    BY <1>1 DEF SawVisited, HasRound, CommitVerdict, Abstract!Visited
  <2>4. application' = [application EXCEPT ![own].status = "REJECTED"]
    BY <1>1, <1>2, <1>6 DEF VerdictRow
  <2>5. Abstract!Close(own, "REJECTED", saw[v], v)
    BY <1>3, <1>4, <2>1, <2>2, <2>3, <2>4, SameRules DEF Abstract!Close
  <2> QED BY <1>2, <1>3, <2>5, SameRules DEF Abstract!Next
<1> QED BY <1>5, <1>6

\* A round that is SELECTED was so, or is by this step's verdict.
LEMMA NewlySelected ==
  ASSUME IInv, [InterviewsNext]_allVars, NEW i \in Rounds, decided(i)', interview'[i].outcome = "SELECTED"
  PROVE  \/ interview'[i] = interview[i]
         \/ \E v \in Verdicts : CommitVerdict(v) /\ verdict[v].round = i /\ selected(v)
<1> USE DEF IInv
<1>0. interview'[i] # Null /\ "SELECTED" # Null
  BY InterviewsNull DEF decided, InterviewOutcome
<1>1. CASE PipelineStep \/ UNCHANGED allVars
  BY <1>1, PipelineStepIsNext DEF roundVars, allVars, interviewVars
<1>2. CASE RoundStep
  <2>1. interview[i] # Null /\ interview[i].outcome # Null => interview[i].status = "COMPLETED"
    BY DEF DecisionsAreOwn
  <2> HIDE DEF IInv
  <2> QED BY <1>0, <1>2, <2>1, RoundStepSpares DEF IInv
<1>3. ASSUME NEW v \in Verdicts, VerdictStep(v)
      PROVE  \/ interview'[i] = interview[i]
             \/ \E u \in Verdicts : CommitVerdict(u) /\ verdict[u].round = i /\ selected(u)
  <2>1. CASE UNCHANGED interview
    BY <2>1
  <2>2. CASE CommitVerdict(v) /\ verdict[v].round = i
    BY <2>2, RoundOfCommit DEF selected
  <2>3. CASE CommitVerdict(v) /\ verdict[v].round # i
    BY <2>3, RoundOfCommit, VerdictTypes
  <2> QED BY <1>3, <2>1, <2>2, <2>3, OthersWait
<1> QED BY <1>1, <1>2, <1>3 DEF InterviewsNext, AllServed, VerdictStep

\* A SELECTED verdict moves its application to the round's stage, or has seen
\* it there.
LEMMA PlacesKept ==
  ASSUME IInv, LifeIsTold, [InterviewsNext]_allVars
  PROVE  SelectedHasBeenThere'
<1> SUFFICES ASSUME NEW i \in Rounds, decided(i)', interview'[i].outcome = "SELECTED"
             PROVE  \E n \in 1 .. Len(stageHistory'[interview'[i].app]) :
                      stageHistory'[interview'[i].app][n].toStage = interview'[i].stage
  BY DEF SelectedHasBeenThere
<1>1. HistoriesStay
  BY HistoriesStayPut DEF IInv, LifeIsTold
<1>2. CASE interview'[i] = interview[i]
  <2>1. PICK a \in Apps : a = interview[i].app
    BY <1>2 DEF decided, IInv, InterviewsTypeOK, InterviewRow
  <2>2. PICK n \in 1 .. Len(stageHistory[a]) : stageHistory[a][n].toStage = interview[i].stage
    BY <1>2, <2>1 DEF LifeIsTold, SelectedHasBeenThere, decided
  <2>3. n \in 1 .. Len(stageHistory'[a]) /\ stageHistory'[a][n] = stageHistory[a][n]
    BY <1>1 DEF HistoriesStay
  <2> QED BY <1>2, <2>1, <2>2, <2>3
<1>3. ASSUME NEW v \in Verdicts, CommitVerdict(v), verdict[v].round = i, selected(v)
      PROVE  \E n \in 1 .. Len(stageHistory'[interview'[i].app]) :
               stageHistory'[interview'[i].app][n].toStage = interview'[i].stage
  <2>1. PICK a \in Apps : a = appOf(v)
    BY <1>3, CommitOfVerdict, VerdictTypes DEF IInv
  <2>2. interview'[i].app = a /\ interview'[i].stage = roundOf(v).stage
    BY <1>3, <2>1, RoundOfCommit DEF IInv, appOf, roundOf
  <2>3. CASE Moves(v)
    <3>1. /\ stageHistory[a] \in Seq(HistoryRow) /\ Len(stageHistory'[a]) = Len(stageHistory[a]) + 1
          /\ stageHistory'[a][Len(stageHistory[a]) + 1] = VerdictHistory(v)
      BY <1>3, <2>1, <2>3, VerdictGrows DEF IInv, LifeIsTold
    <3>2. VerdictHistory(v).toStage = roundOf(v).stage
      BY <1>3, <2>3, CommitOfVerdict, VerdictRowTypes DEF IInv, VerdictHistory
    <3>3. Len(stageHistory[a]) + 1 \in 1 .. Len(stageHistory'[a])
      BY <3>1
    <3> QED BY <2>2, <3>1, <3>2, <3>3
  <2>4. CASE ~Moves(v)
    <3>1. saw[v] = roundOf(v).stage
      BY <1>3, <2>4, CommitOfVerdict, VerdictTypes, NullAssumption DEF IInv, Moves, toStage, moveFrom
    <3>2. PICK n \in 1 .. Len(stageHistory[a]) : stageHistory[a][n].toStage = saw[v]
      BY <1>3, <2>1 DEF LifeIsTold, SawVisited, HasRound, CommitVerdict
    <3>3. n \in 1 .. Len(stageHistory'[a]) /\ stageHistory'[a][n] = stageHistory[a][n]
      BY <1>1 DEF HistoriesStay
    <3> QED BY <2>2, <3>1, <3>2, <3>3
  <2> QED BY <2>3, <2>4
<1> QED BY <1>2, <1>3, NewlySelected

\* What the refinement needs beside the inductive invariant.
LEMMA LifeBegins ==
  ASSUME InterviewsInit
  PROVE  LifeIsTold /\ TruthfulReplies
<1>1. Init /\ \A v \in Verdicts : step[v] = "readRound"
  BY DEF InterviewsInit
<1>2. WrittenSoFar /\ TruthfulReplies
  BY <1>1, InitHonesty DEF Honesty
<1>3. \A a \in Apps : 1 .. Len(stageHistory[a]) = {} /\ stageHistory[a] = <<>> /\ application[a] = Null
  BY <1>1 DEF Init, TablesInit
<1>4. \A r \in Requests : pc[r] \notin InTransaction
  BY <1>1 DEF Init, InTransaction
<1>5. SelectedHasBeenThere
  BY DEF InterviewsInit, SelectedHasBeenThere, decided
<1> QED BY <1>1, <1>2, <1>3, <1>4, <1>5
     DEF LifeIsTold, HistoryExplainsRow, OwnOverride, SeenVisited, SawVisited, HasRound

LEMMA LifeGoesOn ==
  ASSUME IInv, LifeIsTold, TruthfulReplies, [InterviewsNext]_allVars
  PROVE  LifeIsTold' /\ TruthfulReplies'
BY HistoryKept, RequestsToldKept, OwnOverrideKept, SawKept, PlacesKept DEF IInv, LifeIsTold

LEMMA LifeTheorem == InterviewsSpec => [](LifeIsTold /\ TruthfulReplies)
BY LifeBegins, LifeGoesOn, VerdictsTheorem, PTL DEF InterviewsSpec

\* The whole verdict commits or none of it does: a decided round's audit, its
\* application's history and status, and the application's own audit all tell
\* of that one verdict, however many verdicts and recruiters race for the row;
\* and the application of a SELECTED round has been at the round's stage
\* (recordDecision's transaction, and its reading "already at the stage").
THEOREM VerdictAppliedTheorem == InterviewsSpec => []VerdictApplied
<1>1. IInv /\ (LifeIsTold /\ TruthfulReplies) => VerdictApplied
  BY DEF IInv, LifeIsTold, VerdictApplied
<1> QED BY <1>1, VerdictsTheorem, LifeTheorem, PTL

LEMMA InterviewsStepRefines ==
  ASSUME IInv, LifeIsTold, [InterviewsNext]_allVars
  PROVE  [Abstract!Next]_(Abstract!vars)
<1> USE DEF IInv, LifeIsTold
<1>1. CASE PipelineStep
  BY <1>1, PipelineStepIsNext, StepRefines DEF InterviewsTypeOK
<1>2. CASE UNCHANGED tables
  BY <1>2 DEF tables, Abstract!vars
<1>3. CASE RoundStep \/ UNCHANGED allVars
  BY <1>2, <1>3, RoundStepSpares DEF vars, tableVars, allVars
<1> QED BY <1>1, <1>2, <1>3, VerdictRefines, OthersWait, CommitOfVerdict
     DEF InterviewsNext, AllServed, VerdictStep

\* The stage and the status of an application are what its history says with
\* verdicts beside the recruiters' writes too (recordDecision writes the
\* history row of the change it makes, in the same transaction).
THEOREM HistoryBesideVerdictsTheorem == InterviewsSpec => []HistoryExplainsRow
<1>1. LifeIsTold /\ TruthfulReplies => HistoryExplainsRow
  BY DEF LifeIsTold
<1> QED BY <1>1, LifeTheorem, PTL

\* Verdicts beside the recruiters' writes commit a behaviour of the abstract
\* life of an application: a SELECTED verdict's COMMIT is a move along the stage
\* graph, a REJECTED one's a closing at a stage the application has been at
\* (recordDecision, interviews.service.ts).
THEOREM InterviewsRefinementTheorem == InterviewsSpec => ImplementsLifecycle
<1>1. InterviewsInit => Abstract!Init
  BY DEF InterviewsInit, Init, TablesInit, Abstract!Init
<1>2. IInv /\ (LifeIsTold /\ TruthfulReplies) /\ [InterviewsNext]_allVars => [Abstract!Next]_(Abstract!vars)
  BY InterviewsStepRefines
<1> QED BY <1>1, <1>2, VerdictsTheorem, LifeTheorem, PTL
     DEF InterviewsSpec, ImplementsLifecycle, Abstract!Spec

-----------------------------------------------------------------------------
(***************************************************************************)
(* What a refused verdict is told: true when it is said, true for ever.    *)
(***************************************************************************)

\* What the writers keep of the tables.
World == IInv /\ (LifeIsTold /\ TruthfulReplies)

closed(a) == application[a] # Null /\ application[a].status # "ACTIVE"

\* A closed application does not change.
LEMMA ClosedStays ==
  ASSUME World, [InterviewsNext]_allVars, NEW a \in Apps, closed(a)
  PROVE  application'[a] = application[a]
<1>1. [Abstract!Next]_(Abstract!vars)
  BY InterviewsStepRefines DEF World
<1>2. ASSUME NEW b \in Apps, Abstract!Enter(b)
      PROVE  application'[a] = application[a]
  BY <1>2 DEF Abstract!Enter, closed, World, IInv, InterviewsTypeOK, TypeOK, TablesTypeOK
<1>3. ASSUME NEW b \in Apps, NEW to, NEW who, NEW override, Abstract!Move(b, to, who, override)
      PROVE  application'[a] = application[a]
  BY <1>3 DEF Abstract!Move, Abstract!Live, closed, World, IInv, InterviewsTypeOK, TypeOK, TablesTypeOK
<1>4. ASSUME NEW b \in Apps, NEW status, NEW at, NEW who, Abstract!Close(b, status, at, who)
      PROVE  application'[a] = application[a]
  BY <1>4 DEF Abstract!Close, Abstract!Live, closed, World, IInv, InterviewsTypeOK, TypeOK, TablesTypeOK
<1>5. CASE Abstract!Next
  BY <1>2, <1>3, <1>4, <1>5 DEF Abstract!Next, Abstract!Advance, Abstract!Override
<1>6. CASE UNCHANGED Abstract!vars
  BY <1>6 DEF Abstract!vars
<1> QED BY <1>1, <1>5, <1>6

\* What a refusal claims, of the round and of its application.
RoundEnded(u) == roundOf(u) # Null /\ roundOf(u).status # "SCHEDULED"
RoundCancelled(u) == roundOf(u) # Null /\ roundOf(u).status = "CANCELLED"
ApplicationOver(u) == roundOf(u) # Null /\ ~isActive(appOf(u))

LEMMA ReasonsStay ==
  ASSUME World, [InterviewsNext]_allVars, NEW u \in Verdicts
  PROVE  /\ RoundEnded(u) => RoundEnded(u)'
         /\ RoundCancelled(u) => RoundCancelled(u)'
         /\ ApplicationOver(u) => ApplicationOver(u)'
<1>1. PICK i \in Rounds : i = verdict[u].round
  BY VerdictTypes DEF World, IInv
<1>2. verdict'[u] = verdict[u]
  <2>1. ASSUME NEW v \in Verdicts, VerdictStep(v)
        PROVE  verdict'[u] = verdict[u]
    BY <2>1, OthersWait DEF World, IInv
  <2> QED BY <2>1, PipelineStepIsNext, RoundStepSpares
       DEF World, IInv, InterviewsNext, AllServed, VerdictStep, verdictVars, allVars, interviewVars
<1>3. roundOf(u) = interview[i] /\ roundOf(u)' = interview'[i]
  BY <1>1, <1>2 DEF roundOf
<1>4. interview[i] # Null /\ interview[i].status # "SCHEDULED" => interview'[i] = interview[i]
  BY EndedStays DEF World
<1>5. ASSUME ApplicationOver(u)
      PROVE  ApplicationOver(u)'
  <2>1. PICK a \in Apps : a = appOf(u) /\ a = appOf(u)'
    BY <1>5, AppOfStays, VerdictTypes DEF World, IInv, ApplicationOver
  <2>2. closed(a)
    BY <1>3, <1>5, <2>1 DEF ApplicationOver, closed, isActive, World, IInv, RoundsHaveApplications, appOf
  <2>3. application'[a] = application[a]
    BY <2>2, ClosedStays
  <2>4. interview'[i] # Null
    <3>1. ASSUME NEW v \in Verdicts, VerdictStep(v)
          PROVE  interview'[i] # Null
      BY <1>3, <1>5, <3>1, OthersWait, RoundOfCommit, VerdictTypes DEF World, IInv, ApplicationOver
    <3>2. CASE RoundStep
      BY <1>3, <1>5, <3>2, RoundStepSpares DEF World, IInv, ApplicationOver
    <3> QED BY <1>3, <1>5, <3>1, <3>2, PipelineStepIsNext
         DEF InterviewsNext, AllServed, VerdictStep, roundVars, allVars, interviewVars, ApplicationOver
  <2> QED BY <1>3, <2>1, <2>2, <2>3, <2>4 DEF ApplicationOver, closed, isActive
<1> QED BY <1>3, <1>4, <1>5 DEF RoundEnded, RoundCancelled

\* An answer is as old as the step that gave it.
LEMMA NewRefusal ==
  ASSUME IInv, [InterviewsNext]_allVars, NEW u \in Verdicts, answer'[u] # answer[u]
  PROVE  /\ answer'[u] = "INTERVIEW_CANCELLED" => RoundCancelled(u)
         /\ answer'[u] = "DECISION_ALREADY_RECORDED" => RoundEnded(u)
         /\ answer'[u] = "APPLICATION_NOT_ACTIVE" => ApplicationOver(u)
<1> USE DEF IInv
<1>0. answer \in [Verdicts -> VerdictRefusals \cup {"OK", "INTERNAL_ERROR", Null}] /\ verdict[u].round \in Rounds
  BY VerdictTypes DEF InterviewsTypeOK
<1>1. VerdictStep(u)
  <2>1. ASSUME NEW v \in Verdicts, VerdictStep(v)
        PROVE  v = u
    BY <2>1, OthersWait
  <2> QED BY <2>1, PipelineStepIsNext, RoundStepSpares
       DEF InterviewsNext, AllServed, VerdictStep, verdictVars, allVars, interviewVars
<1>2. RoundIsFound(u)
  BY DEF VerdictsAreDue
<1> HIDE DEF IInv
<1>3. CASE ReadRound(u)
  BY <1>0, <1>3 DEF ReadRound, RefuseVerdict, AnswerVerdict, Advance, RoundCancelled
<1>4. CASE ReadApplication(u)
  BY <1>0, <1>2, <1>4 DEF ReadApplication, RefuseVerdict, AnswerVerdict, ApplicationOver, RoundIsFound
<1>5. CASE Aborts(u)
  <2>1. CASE step[u] = "claim" /\ ~claimGuard(verdict[u].round) /\ AbortVerdict(u, "DECISION_ALREADY_RECORDED")
    <3>1. roundOf(u) # Null /\ roundOf(u) = interview[verdict[u].round]
      BY <1>2, <2>1 DEF RoundIsFound, roundOf
    <3>2. interview[verdict[u].round].status # "SCHEDULED"
      BY <1>0, <2>1, <3>1 DEF claimGuard, IInv, DecisionsAreOwn
    <3> QED BY <1>0, <2>1, <3>1, <3>2 DEF AbortVerdict, AnswerVerdict, RoundEnded
  <2>2. CASE AbortVerdict(u, "STAGE_CONFLICT") \/ AbortVerdict(u, "INTERNAL_ERROR")
    BY <1>0, <2>2 DEF AbortVerdict, AnswerVerdict
  <2> QED BY <1>5, <2>1, <2>2 DEF Aborts
<1>6. CASE RespondVerdict(u)
  BY <1>0, <1>6 DEF RespondVerdict, RefuseVerdict, AnswerVerdict
<1>7. CASE Claim(u) \/ UpdateApplication(u) \/ InsertVerdictHistory(u) \/ AuditVerdict(u) \/ CommitVerdict(u)
  BY <1>7 DEF Claim, UpdateApplication, InsertVerdictHistory, AuditVerdict, CommitVerdict, Advance
<1> QED BY <1>1, <1>3, <1>4, <1>5, <1>6, <1>7
     DEF VerdictStep, recordDecision, LoseClaim, LoseApplication, FailVerdict, Aborts

LEMMA ReasonsAreReasons ==
  RefusalsHaveReasons <=>
    \A u \in Verdicts :
      /\ answer[u] = "INTERVIEW_CANCELLED" => RoundCancelled(u)
      /\ answer[u] = "DECISION_ALREADY_RECORDED" => RoundEnded(u)
      /\ answer[u] = "APPLICATION_NOT_ACTIVE" => ApplicationOver(u)
BY DEF RefusalsHaveReasons, RoundCancelled, RoundEnded, ApplicationOver

\* A 200 means the round carries this verdict, a refusal that it left nothing
\* behind and gave a reason that holds from then on, and no stage or status change by a verdict outlives the verdict
\* (recordDecision's answers; the rollback on its two 409s).
THEOREM HonestVerdictsTheorem == InterviewsSpec => []HonestVerdicts
<1>1. InterviewsInit => RefusalsHaveReasons
  BY InterviewsNull DEF InterviewsInit, RefusalsHaveReasons, VerdictRefusals, Replies
<1>2. ASSUME World, RefusalsHaveReasons, [InterviewsNext]_allVars
      PROVE  RefusalsHaveReasons'
  <2> SUFFICES ASSUME NEW u \in Verdicts
               PROVE  /\ answer'[u] = "INTERVIEW_CANCELLED" => RoundCancelled(u)'
                      /\ answer'[u] = "DECISION_ALREADY_RECORDED" => RoundEnded(u)'
                      /\ answer'[u] = "APPLICATION_NOT_ACTIVE" => ApplicationOver(u)'
    BY DEF RefusalsHaveReasons, RoundCancelled, RoundEnded, ApplicationOver
  <2>1. CASE answer'[u] = answer[u]
    BY <1>2, <2>1, ReasonsStay, ReasonsAreReasons
  <2>2. CASE answer'[u] # answer[u]
    BY <1>2, <2>2, NewRefusal, ReasonsStay DEF World
  <2> QED BY <2>1, <2>2
<1>3. InterviewsSpec => []World
  BY VerdictsTheorem, LifeTheorem, PTL DEF World
<1>4. World /\ RefusalsHaveReasons => HonestVerdicts
  BY DEF World, IInv, AnswersAreTrue, HonestVerdicts, AnswersAreHonest, mine, roundOf
<1> QED BY <1>1, <1>2, <1>3, <1>4, PTL DEF InterviewsSpec

-----------------------------------------------------------------------------
(***************************************************************************)
(* Theorems about Timeline: what the three views hold, read one SELECT     *)
(* after the other while all of them go on writing.                        *)
(***************************************************************************)

\* A round whose verdict was a rejection of the application the reader watches.
rejects(i) == decided(i) /\ interview[i].app = reading /\ interview[i].outcome = "REJECTED"

-----------------------------------------------------------------------------
(***************************************************************************)
(* What commits while a reader reads.                                      *)
(***************************************************************************)

\* A reader writes nothing.
LEMMA ReaderIsIdle ==
  ASSUME [TimelineNext]_timelineVars
  PROVE  [InterviewsNext]_allVars
BY DEF TimelineNext, timelineVars, ReadApplicationRow, ReadInterviewRows, ReadHistoryRows, RespondTimeline,
       FailTimeline, NextRequest

\* A round stays with its application, a verdict stays, and a verdict that is a
\* rejection is one of an application that was ACTIVE.
RoundGoesOn(i) ==
  /\ interview[i] # Null => interview'[i] # Null /\ interview'[i].app = interview[i].app
  /\ interview[i] # Null /\ interview[i].outcome # Null => interview'[i] = interview[i]
  /\ interview'[i] # Null /\ interview'[i].outcome = "REJECTED" =>
       interview'[i] = interview[i] \/ application[interview'[i].app].status = "ACTIVE"

LEMMA RoundStays ==
  ASSUME World, [InterviewsNext]_allVars, NEW i \in Rounds
  PROVE  RoundGoesOn(i)
<1> USE DEF World, IInv
<1>0. Null # "REJECTED" /\ (interview[i] # Null /\ interview[i].outcome # Null => interview[i].status = "COMPLETED")
  BY InterviewsNull DEF DecisionsAreOwn, InterviewOutcome
<1>1. CASE interview' = interview
  BY <1>1 DEF RoundGoesOn
<1>2. CASE RoundStep
  <2>1. \/ interview'[i] = interview[i]
        \/ interview[i] = Null /\ interview'[i] # Null /\ interview'[i].outcome = Null
        \/ /\ interview[i] # Null /\ interview[i].status = "SCHEDULED"
           /\ interview'[i] # Null /\ interview'[i].app = interview[i].app
           /\ interview'[i].outcome = interview[i].outcome
    BY <1>2, RoundStepSpares
  <2> HIDE DEF World, IInv
  <2> QED BY <1>0, <2>1 DEF RoundGoesOn
<1>3. ASSUME NEW v \in Verdicts, CommitVerdict(v)
      PROVE  RoundGoesOn(i)
  <2>1. PICK j \in Rounds : j = verdict[v].round
    BY VerdictTypes
  <2>2. CASE i # j
    BY <1>3, <2>1, <2>2, RoundOfCommit DEF RoundGoesOn
  <2>3. CASE i = j
    <3>1. /\ interview[i] # Null /\ interview[i].outcome = Null /\ interview'[i] # Null
          /\ interview'[i].app = interview[i].app /\ interview'[i].outcome = verdict[v].decision
      BY <1>3, <2>1, <2>3, RoundOfCommit DEF claimGuard
    <3>2. ASSUME verdict[v].decision = "REJECTED"
          PROVE  application[interview[i].app].status = "ACTIVE"
      <4>1. Moves(v)
        BY <3>2 DEF Moves, selected
      <4>2. VerdictPublishes(v)
        BY <1>3, <4>1, CommitOfVerdict
      <4> QED BY <2>1, <2>3, <4>2 DEF VerdictPublishes, isActive, appOf, roundOf
    <3> QED BY <3>1, <3>2 DEF RoundGoesOn
  <2> QED BY <2>2, <2>3
<1>4. CASE PipelineStep \/ UNCHANGED allVars
  BY <1>1, <1>4, PipelineStepIsNext DEF roundVars, allVars, interviewVars
<1>5. ASSUME NEW v \in Verdicts, VerdictStep(v)
      PROVE  RoundGoesOn(i)
  BY <1>1, <1>3, <1>5, OthersWait
<1> QED BY <1>2, <1>4, <1>5 DEF InterviewsNext, AllServed, VerdictStep

-----------------------------------------------------------------------------
(***************************************************************************)
(* What the reader holds.                                                  *)
(***************************************************************************)

\* The rows a call finds come ahead of what hangs off them.
ReadsInOrder ==
  /\ kind \in {"timeline", "detail", "round"} /\ reading \in Apps
  /\ loaded \subseteq {"application", "interviews", "stageHistory"}
  /\ loaded # {} => first \in loaded

\* A row read when the application was closed is the row it has.
HeadHolds ==
  "application" \in loaded =>
    application[reading] # Null /\ (head.status # "ACTIVE" => head = application[reading])

\* And so is a round with a verdict.
RoundsHold ==
  "interviews" \in loaded =>
    \A i \in Rounds : rounds[i] # Null =>
      /\ interview[i] # Null /\ interview[i].app = reading
      /\ rounds[i].outcome # Null => rounds[i] = interview[i]

\* The order of a timeline's two SELECTs: no rejection can follow a row that
\* reads as closed, so the rounds read after it have every rejection.
RejectionsAreLoaded ==
  kind = "timeline" /\ {"application", "interviews"} \subseteq loaded /\ head.status # "ACTIVE" =>
    \A i \in Rounds : rejects(i) => rounds[i] = interview[i]

\* A timeline that shows the outcome shows every rejection there will be.
OutcomeIsLast ==
  (\E n \in timeline : n.kind = "OUTCOME") =>
    closed(reading) /\ \A i \in Rounds : rejects(i) => Node("ROUND", i, "REJECTED") \in timeline

outcomeNode(row) == Node("OUTCOME", Null, IF row.status = "HIRED" THEN "PASSED" ELSE "REJECTED")

\* Of what a timeline shows, what is not pending is so for good, and the SELECTs
\* since have brought it again.
NodeStands(n) ==
  \/ n = Node("APPLIED", Null, "PASSED")
  \/ /\ n = outcomeNode(application[reading]) /\ closed(reading)
     /\ "application" \in loaded => head = application[reading]
  \/ \E i \in Rounds : n = Node("ROUND", i, "PENDING")
  \/ \E i \in Rounds :
       /\ n = Node("ROUND", i, stateOf(interview[i].outcome))
       /\ decided(i) /\ interview[i].app = reading
       /\ "interviews" \in loaded => rounds[i] = interview[i]

NodesStand == \A n \in timeline : NodeStands(n)

\* A row is where a history has been.
reached(row, h) ==
  \E n \in 1 .. Len(h) :
    /\ h[n].toStatus # "ACTIVE" => n >= 2
    /\ row = [status       |-> h[n].toStatus,
              currentStage |-> IF h[n].toStatus = "ACTIVE" THEN h[n].toStage ELSE h[n - 1].toStage]

TrailHolds ==
  kind = "detail" =>
    /\ "application" \in loaded => reached(head, stageHistory[reading])
    /\ "stageHistory" \in loaded => reached(head, trail)

\* Rounds ahead of their application: a rejection among them has reached it.
RejectionHolds ==
  /\ kind = "round" /\ "interviews" \in loaded
  /\ \E i \in Rounds : rounds[i] # Null /\ rounds[i].outcome = "REJECTED"
  => /\ application[reading] # Null /\ application[reading].status = "REJECTED"
     /\ "application" \in loaded => head = application[reading]

TInv ==
  /\ ReadsInOrder /\ HeadHolds /\ RoundsHold /\ RejectionsAreLoaded
  /\ OutcomeIsLast /\ NodesStand /\ TrailHolds /\ RejectionHolds

-----------------------------------------------------------------------------
\* The application and the rounds a reader watches, from one step to the next.
LEMMA WatchedGoOn ==
  ASSUME World, [InterviewsNext]_allVars, NEW a \in Apps
  PROVE  /\ application[a] # Null => application'[a] # Null
         /\ closed(a) => application'[a] = application[a]
         /\ \A i \in Rounds : RoundGoesOn(i)
         /\ \A i \in 1 .. Len(stageHistory[a]) :
              i \in 1 .. Len(stageHistory'[a]) /\ stageHistory'[a][i] = stageHistory[a][i]
<1>1. ApplicationsStay /\ HistoriesStay
  BY ApplicationsStayPut, HistoriesStayPut DEF World, IInv, LifeIsTold
<1> QED BY <1>1, ClosedStays, RoundStays DEF ApplicationsStay, HistoriesStay

\* A history that has brought a row somewhere goes on from there.
LEMMA ReachedStays ==
  ASSUME NEW row, NEW h, NEW g, Len(h) \in Nat, Len(g) \in Nat,
         \A i \in 1 .. Len(h) : i \in 1 .. Len(g) /\ g[i] = h[i], reached(row, h)
  PROVE  reached(row, g)
<1>1. PICK n \in 1 .. Len(h) :
        /\ h[n].toStatus # "ACTIVE" => n >= 2
        /\ row = [status       |-> h[n].toStatus,
                  currentStage |-> IF h[n].toStatus = "ACTIVE" THEN h[n].toStage ELSE h[n - 1].toStage]
  BY DEF reached
<1>2. n \in 1 .. Len(g) /\ g[n] = h[n]
  OBVIOUS
<1>3. n >= 2 => n - 1 \in 1 .. Len(h) /\ g[n - 1] = h[n - 1]
  OBVIOUS
<1> QED BY <1>1, <1>2, <1>3 DEF reached

\* Whoever writes, what the reader holds keeps its meaning.
LEMMA WriterStep ==
  ASSUME World, TInv, [InterviewsNext]_allVars, UNCHANGED readerVars
  PROVE  TInv'
<1>0. /\ kind' = kind /\ reading' = reading /\ head' = head /\ rounds' = rounds /\ trail' = trail
      /\ loaded' = loaded /\ timeline' = timeline /\ reading \in Apps
  BY DEF readerVars, TInv, ReadsInOrder
<1>1. /\ application[reading] # Null => application'[reading] # Null
      /\ closed(reading) => application'[reading] = application[reading] /\ closed(reading)'
      /\ \A i \in 1 .. Len(stageHistory[reading]) :
           /\ i \in 1 .. Len(stageHistory'[reading])
           /\ stageHistory'[reading][i] = stageHistory[reading][i]
  BY <1>0, WatchedGoOn DEF closed
<1>2. ASSUME NEW i \in Rounds
      PROVE  /\ interview[i] # Null => interview'[i] # Null /\ interview'[i].app = interview[i].app
             /\ decided(i) => interview'[i] = interview[i] /\ decided(i)'
             /\ rejects(i)' => rejects(i) \/ application[reading].status = "ACTIVE"
  <2>1. RoundGoesOn(i)
    BY RoundStays
  <2> QED BY <1>0, <2>1 DEF RoundGoesOn, decided, rejects
<1>3. ReadsInOrder' /\ HeadHolds'
  BY <1>0, <1>1 DEF TInv, ReadsInOrder, HeadHolds, first, foundByRounds, foundByApplication, closed
<1>4. RoundsHold'
  BY <1>0, <1>2 DEF TInv, RoundsHold, decided
<1>5. RejectionsAreLoaded'
  <2> SUFFICES ASSUME kind = "timeline", {"application", "interviews"} \subseteq loaded, head.status # "ACTIVE",
                      NEW i \in Rounds, rejects(i)'
               PROVE  rounds[i] = interview'[i]
    BY <1>0 DEF RejectionsAreLoaded
  <2>1. application[reading].status # "ACTIVE"
    BY DEF TInv, HeadHolds
  <2>2. rejects(i)
    BY <1>2, <2>1
  <2>3. rounds[i] = interview[i] /\ interview'[i] = interview[i]
    BY <1>2, <2>2 DEF TInv, RejectionsAreLoaded, rejects
  <2> QED BY <2>3
<1>6. OutcomeIsLast'
  <2> SUFFICES ASSUME \E n \in timeline : n.kind = "OUTCOME"
               PROVE  closed(reading)' /\ \A i \in Rounds : rejects(i)' => Node("ROUND", i, "REJECTED") \in timeline
    BY <1>0 DEF OutcomeIsLast, Node
  <2>1. closed(reading) /\ \A i \in Rounds : rejects(i) => Node("ROUND", i, "REJECTED") \in timeline
    BY DEF TInv, OutcomeIsLast
  <2>2. \A i \in Rounds : rejects(i)' => rejects(i)
    BY <1>2, <2>1 DEF closed
  <2> QED BY <1>1, <2>1, <2>2
<1>7. NodesStand'
  <2> SUFFICES ASSUME NEW n \in timeline
               PROVE  NodeStands(n)'
    BY <1>0 DEF NodesStand
  <2>1. NodeStands(n)
    BY DEF TInv, NodesStand
  <2>2. CASE n = Node("APPLIED", Null, "PASSED") \/ \E i \in Rounds : n = Node("ROUND", i, "PENDING")
    BY <2>2 DEF NodeStands
  <2>3. CASE /\ n = outcomeNode(application[reading]) /\ closed(reading)
             /\ "application" \in loaded => head = application[reading]
    BY <1>0, <1>1, <2>3 DEF NodeStands
  <2>4. CASE \E i \in Rounds :
               /\ n = Node("ROUND", i, stateOf(interview[i].outcome))
               /\ decided(i) /\ interview[i].app = reading
               /\ "interviews" \in loaded => rounds[i] = interview[i]
    <3>1. PICK i \in Rounds :
            /\ n = Node("ROUND", i, stateOf(interview[i].outcome))
            /\ decided(i) /\ interview[i].app = reading
            /\ "interviews" \in loaded => rounds[i] = interview[i]
      BY <2>4
    <3>2. interview'[i] = interview[i] /\ decided(i)'
      BY <1>2, <3>1
    <3> QED BY <1>0, <3>1, <3>2 DEF NodeStands
  <2> QED BY <2>1, <2>2, <2>3, <2>4 DEF NodeStands
<1>8. TrailHolds'
  <2>1. Len(stageHistory[reading]) \in Nat /\ Len(stageHistory'[reading]) \in Nat
    BY <1>0, StepIInv DEF World, IInv, InterviewsTypeOK, TypeOK, TablesTypeOK
  <2>2. reached(head, stageHistory[reading]) => reached(head, stageHistory'[reading])
    BY <1>1, <2>1, ReachedStays
  <2> QED BY <1>0, <2>2 DEF TInv, TrailHolds
<1>9. RejectionHolds'
  BY <1>0, <1>1 DEF TInv, RejectionHolds, closed
<1> QED BY <1>3, <1>4, <1>5, <1>6, <1>7, <1>8, <1>9 DEF TInv

-----------------------------------------------------------------------------
(***************************************************************************)
(* The reader's own steps.                                                 *)
(***************************************************************************)
LEMMA ApplicationRowStep ==
  ASSUME World, TInv, ReadApplicationRow
  PROVE  TInv'
<1>0. /\ kind' = kind /\ reading' = reading /\ rounds' = rounds /\ trail' = trail /\ timeline' = timeline
      /\ interview' = interview /\ stageHistory' = stageHistory /\ application' = application
      /\ head' = application[reading] /\ loaded' = loaded \cup {"application"}
      /\ application[reading] # Null /\ "application" \notin loaded
      /\ first # "application" => first \in loaded
      /\ reading \in Apps
  BY DEF ReadApplicationRow, mayRead, allVars, vars, tableVars, tables, interviewVars, roundVars, TInv, ReadsInOrder
<1>1. ReadsInOrder' /\ HeadHolds' /\ RoundsHold'
  BY <1>0 DEF TInv, ReadsInOrder, HeadHolds, RoundsHold, first, foundByRounds, foundByApplication
<1>2. RejectionsAreLoaded'
  BY <1>0 DEF TInv, ReadsInOrder, RejectionsAreLoaded, first, foundByRounds, foundByApplication
<1>3. OutcomeIsLast'
  BY <1>0 DEF TInv, OutcomeIsLast, closed, rejects, decided, Node
<1>4. NodesStand'
  BY <1>0 DEF TInv, NodesStand, NodeStands, outcomeNode, closed, decided
<1>5. TrailHolds'
  <2>1. reached(application[reading], stageHistory[reading])
    <3> DEFINE h == stageHistory[reading]
               row == application[reading]
    <3>0. h \in Seq(HistoryRow) /\ row \in ApplicationRow
      BY <1>0 DEF World, IInv, InterviewsTypeOK, TypeOK, TablesTypeOK
    <3>1. Explains(h, row) /\ h \in Seq(HistoryRow) /\ row \in ApplicationRow
      BY <1>0, <3>0 DEF World, LifeIsTold, HistoryExplainsRow, Explains
    <3> HIDE DEF h, row
    <3>2. Len(h) \in 1 .. Len(h)
      BY <3>1 DEF Explains
    <3>3. /\ row.status = h[Len(h)].toStatus
          /\ row.status = "ACTIVE" => row.currentStage = h[Len(h)].toStage
          /\ row.status # "ACTIVE" => Len(h) >= 2 /\ row.currentStage = h[Len(h) - 1].toStage
      BY <3>1 DEF Explains
    <3>4. row = [status |-> row.status, currentStage |-> row.currentStage]
      BY <3>1 DEF ApplicationRow
    <3>5. reached(row, h)
      BY <3>2, <3>3, <3>4 DEF reached
    <3> QED BY <3>5 DEF h, row
  <2> QED BY <1>0, <2>1 DEF TInv, TrailHolds, ReadsInOrder, first, foundByRounds, foundByApplication
<1>6. RejectionHolds'
  BY <1>0 DEF TInv, RejectionHolds
<1> QED BY <1>1, <1>2, <1>3, <1>4, <1>5, <1>6 DEF TInv

LEMMA InterviewRowsStep ==
  ASSUME World, TInv, ReadInterviewRows
  PROVE  TInv'
<1>0. /\ kind' = kind /\ reading' = reading /\ head' = head /\ trail' = trail /\ timeline' = timeline
      /\ interview' = interview /\ stageHistory' = stageHistory /\ application' = application
      /\ rounds' = [i \in Rounds |-> IF interview[i] # Null /\ interview[i].app = reading
                                     THEN interview[i] ELSE Null]
      /\ loaded' = loaded \cup {"interviews"} /\ "interviews" \notin loaded
      /\ first # "interviews" => first \in loaded
      /\ reading \in Apps
  BY DEF ReadInterviewRows, mayRead, allVars, vars, tableVars, tables, interviewVars, roundVars, TInv, ReadsInOrder
<1>1. ReadsInOrder' /\ HeadHolds' /\ RoundsHold' /\ TrailHolds'
  BY <1>0 DEF TInv, ReadsInOrder, HeadHolds, RoundsHold, TrailHolds, first, foundByRounds, foundByApplication
<1>2. RejectionsAreLoaded'
  BY <1>0 DEF RejectionsAreLoaded, rejects, decided
<1>3. OutcomeIsLast'
  BY <1>0 DEF TInv, OutcomeIsLast, closed, rejects, decided, Node
<1>4. NodesStand'
  BY <1>0 DEF TInv, NodesStand, NodeStands, outcomeNode, closed, decided
<1>5. RejectionHolds'
  <2> SUFFICES ASSUME kind = "round", NEW i \in Rounds, rounds'[i] # Null, rounds'[i].outcome = "REJECTED"
               PROVE  /\ application[reading] # Null /\ application[reading].status = "REJECTED"
                      /\ "application" \notin loaded
    BY <1>0 DEF RejectionHolds
  <2>1. interview[i] # Null /\ interview[i].app = reading /\ interview[i].outcome = "REJECTED"
    BY <1>0
  <2>2. decided(i)
    BY <2>1, InterviewsNull DEF decided, InterviewOutcome
  <2>3. application[reading] # Null /\ application[reading].status = "REJECTED"
    BY <2>1, <2>2 DEF World, IInv, RoundsHaveApplications, CommittedWhole
  <2>4. loaded = {}
    BY <1>0 DEF TInv, ReadsInOrder, first, foundByRounds, foundByApplication
  <2> QED BY <2>3, <2>4
<1> QED BY <1>1, <1>2, <1>3, <1>4, <1>5 DEF TInv

LEMMA HistoryRowsStep ==
  ASSUME World, TInv, ReadHistoryRows
  PROVE  TInv'
<1>0. /\ kind' = kind /\ reading' = reading /\ head' = head /\ rounds' = rounds /\ timeline' = timeline
      /\ interview' = interview /\ stageHistory' = stageHistory /\ application' = application
      /\ trail' = stageHistory[reading] /\ loaded' = loaded \cup {"stageHistory"}
      /\ first \in loaded /\ reading \in Apps
  BY DEF ReadHistoryRows, mayRead, allVars, vars, tableVars, tables, interviewVars, roundVars, TInv, ReadsInOrder, first, foundByRounds, foundByApplication
<1>1. ReadsInOrder' /\ HeadHolds' /\ RoundsHold' /\ RejectionHolds'
  BY <1>0 DEF TInv, ReadsInOrder, HeadHolds, RoundsHold, RejectionHolds, first, foundByRounds, foundByApplication
<1>2. RejectionsAreLoaded'
  BY <1>0 DEF TInv, RejectionsAreLoaded, rejects, decided
<1>3. OutcomeIsLast'
  BY <1>0 DEF TInv, OutcomeIsLast, closed, rejects, decided, Node
<1>4. NodesStand'
  BY <1>0 DEF TInv, NodesStand, NodeStands, outcomeNode, closed, decided
<1>5. TrailHolds'
  BY <1>0 DEF TInv, TrailHolds, first, foundByRounds, foundByApplication
<1> QED BY <1>1, <1>2, <1>3, <1>4, <1>5 DEF TInv

\* Between two requests only what was shown is kept.
LEMMA BetweenRequests ==
  ASSUME TInv, NextRequest, NodesStand', OutcomeIsLast'
  PROVE  TInv'
BY DEF NextRequest, TInv, ReadsInOrder, HeadHolds, RoundsHold, RejectionsAreLoaded, TrailHolds, RejectionHolds

\* A timeline's nodes stand, and what stood is among them.
Shown == buildTimeline(head, rounds)

LEMMA ShownNodes ==
  ASSUME World, TInv, complete, kind = "timeline"
  PROVE  /\ \A n \in Shown :
              \/ n = Node("APPLIED", Null, "PASSED")
              \/ n = outcomeNode(application[reading]) /\ closed(reading)
              \/ \E i \in Rounds : n = Node("ROUND", i, "PENDING")
              \/ \E i \in Rounds :
                   /\ n = Node("ROUND", i, stateOf(interview[i].outcome))
                   /\ decided(i) /\ interview[i].app = reading
         /\ \A n \in timeline : n.kind # "ROUND" \/ n.state # "PENDING" => n \in Shown
         /\ (\E n \in Shown : n.kind = "OUTCOME") =>
              closed(reading) /\ \A i \in Rounds : rejects(i) => Node("ROUND", i, "REJECTED") \in Shown
<1>0. loaded = {"application", "interviews"}
  BY DEF complete, Tables
<1>1. /\ application[reading] # Null /\ (head.status # "ACTIVE" => head = application[reading])
      /\ \A i \in Rounds : rounds[i] # Null =>
           /\ interview[i] # Null /\ interview[i].app = reading
           /\ rounds[i].outcome # Null => rounds[i] = interview[i]
      /\ head.status # "ACTIVE" => \A i \in Rounds : rejects(i) => rounds[i] = interview[i]
      /\ \A n \in timeline : NodeStands(n)
  BY <1>0 DEF TInv, HeadHolds, RoundsHold, RejectionsAreLoaded, NodesStand
<1>2. \A i \in Rounds : decided(i) /\ rounds[i] = interview[i] => shown(rounds[i])
  BY DEF World, IInv, DecisionsAreOwn, decided, shown
<1>3. \A i \in Rounds : decided(i) /\ rounds[i] = interview[i] =>
        Node("ROUND", i, stateOf(interview[i].outcome)) \in Shown
  BY <1>2 DEF Shown, buildTimeline
<1>4. stateOf(Null) = "PENDING" /\ stateOf("REJECTED") = "REJECTED"
  BY InterviewsNull DEF stateOf, InterviewOutcome
<1>5. head.status # "ACTIVE" => outcomeNode(head) \in Shown /\ closed(reading) /\ head = application[reading]
  BY <1>1 DEF Shown, buildTimeline, outcomeNode, closed
<1>6. Node("APPLIED", Null, "PASSED") \in Shown
  BY DEF Shown, buildTimeline
<1>7. ASSUME NEW n \in Shown
      PROVE  \/ n = Node("APPLIED", Null, "PASSED")
             \/ n = outcomeNode(application[reading]) /\ closed(reading)
             \/ \E i \in Rounds : n = Node("ROUND", i, "PENDING")
             \/ \E i \in Rounds :
                  /\ n = Node("ROUND", i, stateOf(interview[i].outcome))
                  /\ decided(i) /\ interview[i].app = reading
  <2>1. \/ n = Node("APPLIED", Null, "PASSED")
        \/ n = outcomeNode(head) /\ head.status # "ACTIVE"
        \/ \E i \in Rounds : rounds[i] # Null /\ n = Node("ROUND", i, stateOf(rounds[i].outcome))
    BY <1>7 DEF Shown, buildTimeline, shown, outcomeNode
  <2>2. ASSUME NEW i \in Rounds, rounds[i] # Null, n = Node("ROUND", i, stateOf(rounds[i].outcome))
        PROVE  \/ n = Node("ROUND", i, "PENDING")
               \/ /\ n = Node("ROUND", i, stateOf(interview[i].outcome))
                  /\ decided(i) /\ interview[i].app = reading
    BY <1>1, <1>4, <2>2 DEF decided
  <2> QED BY <1>5, <2>1, <2>2
<1>8. ASSUME NEW n \in timeline, n.kind # "ROUND" \/ n.state # "PENDING"
      PROVE  n \in Shown
  <2>1. CASE n = Node("APPLIED", Null, "PASSED")
    BY <1>6, <2>1
  <2>2. CASE n = outcomeNode(application[reading]) /\ closed(reading) /\ head = application[reading]
    BY <1>5, <2>2 DEF closed
  <2>3. ASSUME NEW i \in Rounds, n = Node("ROUND", i, "PENDING")
        PROVE  FALSE
    BY <1>8, <2>3 DEF Node
  <2>4. ASSUME NEW i \in Rounds, n = Node("ROUND", i, stateOf(interview[i].outcome)),
               decided(i), rounds[i] = interview[i]
        PROVE  n \in Shown
    BY <1>3, <2>4
  <2> QED BY <1>0, <1>1, <2>1, <2>2, <2>3, <2>4 DEF NodeStands
<1>9. ASSUME NEW n \in Shown, n.kind = "OUTCOME"
      PROVE  closed(reading) /\ \A i \in Rounds : rejects(i) => Node("ROUND", i, "REJECTED") \in Shown
  <2>1. head.status # "ACTIVE"
    BY <1>9 DEF Shown, buildTimeline, Node
  <2> QED BY <1>1, <1>3, <1>4, <1>5, <2>1 DEF rejects
<1> QED BY <1>7, <1>8, <1>9

LEMMA RespondStep ==
  ASSUME World, TInv, RespondTimeline
  PROVE  TInv' /\ \A n \in timeline : n.kind # "ROUND" \/ n.state # "PENDING" => n \in timeline'
<1>0. /\ complete /\ NextRequest /\ loaded' = {} /\ reading' = reading
      /\ interview' = interview /\ application' = application
      /\ timeline' = IF kind = "timeline" THEN Shown ELSE timeline
  BY DEF RespondTimeline, NextRequest, Shown, allVars, vars, tableVars, tables, interviewVars, roundVars
<1>1. CASE kind = "timeline"
  <2>1. timeline' = Shown
    BY <1>0, <1>1
  <2>2. NodesStand'
    BY <1>0, <1>1, <2>1, ShownNodes DEF NodesStand, NodeStands, closed, decided, outcomeNode
  <2>3. OutcomeIsLast'
    BY <1>0, <1>1, <2>1, ShownNodes DEF OutcomeIsLast, closed, rejects, decided, Node
  <2>4. \A n \in timeline : n.kind # "ROUND" \/ n.state # "PENDING" => n \in timeline'
    BY <1>0, <1>1, <2>1, ShownNodes
  <2> QED BY <1>0, <2>2, <2>3, <2>4, BetweenRequests
<1>2. CASE kind # "timeline"
  <2>1. NodesStand' /\ OutcomeIsLast'
    BY <1>0, <1>2 DEF TInv, NodesStand, NodeStands, OutcomeIsLast, closed, rejects, decided, outcomeNode, Node
  <2> QED BY <1>0, <1>2, <2>1, BetweenRequests
<1> QED BY <1>1, <1>2

LEMMA FailStep ==
  ASSUME TInv, FailTimeline
  PROVE  TInv'
<1>0. NextRequest /\ timeline' = timeline /\ loaded' = {} /\ reading' = reading
      /\ interview' = interview /\ application' = application
  BY DEF FailTimeline, NextRequest, allVars, vars, tableVars, tables, interviewVars, roundVars
<1>1. NodesStand' /\ OutcomeIsLast'
  BY <1>0 DEF TInv, NodesStand, NodeStands, OutcomeIsLast, closed, rejects, decided, outcomeNode, Node
<1> QED BY <1>0, <1>1, BetweenRequests

LEMMA ReaderStep ==
  ASSUME World, TInv, [TimelineNext]_timelineVars
  PROVE  TInv'
<1>1. CASE UNCHANGED timelineVars \/ (InterviewsNext /\ UNCHANGED readerVars)
  BY <1>1, WriterStep DEF timelineVars
<1> QED BY <1>1, ApplicationRowStep, InterviewRowsStep, HistoryRowsStep, RespondStep, FailStep DEF TimelineNext

-----------------------------------------------------------------------------
LEMMA WorldTheorem == TimelineSpec => [](World /\ TInv)
<1>1. TimelineInit => World /\ TInv
  <2>1. TimelineInit => World
    BY InitIInv, LifeBegins DEF TimelineInit, World
  <2>2. TimelineInit => TInv
    BY DEF TimelineInit, TInv, ReadsInOrder, HeadHolds, RoundsHold, RejectionsAreLoaded, OutcomeIsLast,
       NodesStand, TrailHolds, RejectionHolds, Tables
  <2> QED BY <2>1, <2>2
<1>2. World /\ TInv /\ [TimelineNext]_timelineVars => World' /\ TInv'
  <2> SUFFICES ASSUME World, TInv, [TimelineNext]_timelineVars
               PROVE  World' /\ TInv'
    OBVIOUS
  <2>1. [InterviewsNext]_allVars
    BY ReaderIsIdle
  <2>2. World'
    BY <2>1, StepIInv, LifeGoesOn DEF World
  <2> QED BY <2>2, ReaderStep
<1> QED BY <1>1, <1>2, PTL DEF TimelineSpec

\* The inductive invariant of a reader beside the writers: what it has read is
\* so still, or is behind in the one way the order of its SELECTs allows
\* (listApplications, getRecruiterCandidate, listApplicationInterviews).
THEOREM ReaderTheorem == TimelineSpec => []TInv
BY WorldTheorem, PTL

\* Nobody is shown a rejection without the round it came from: the application
\* is read ahead of its rounds, and a closed one gets no more rejections
\* (buildTimeline over the two SELECTs of listApplications).
THEOREM OutcomeHasItsRoundTheorem == TimelineSpec => []OutcomeHasItsRound
<1>1. World /\ TInv => OutcomeHasItsRound
  BY DEF TInv, OutcomeIsLast, OutcomeHasItsRound, rejects
<1> QED BY <1>1, WorldTheorem, PTL

\* What a candidate has been told is not taken back: a verdict or an outcome on
\* one timeline is on every later one, however many requests and dropped
\* connections lie between them (buildTimeline).
THEOREM NeverRetractsTheorem == TimelineSpec => TimelineNeverRetracts
<1> DEFINE Kept == \A n \in timeline : n.kind # "ROUND" \/ n.state # "PENDING" => n \in timeline'
<1>1. ASSUME World, TInv, [TimelineNext]_timelineVars
      PROVE  Kept
  <2>1. CASE timeline' = timeline
    BY <2>1
  <2>2. CASE RespondTimeline
    BY <1>1, <2>2, RespondStep
  <2> QED BY <1>1, <2>1, <2>2 DEF TimelineNext, timelineVars, readerVars, ReadApplicationRow, ReadInterviewRows,
         ReadHistoryRows, FailTimeline
<1> QED BY <1>1, WorldTheorem, PTL DEF TimelineSpec, TimelineNeverRetracts

\* What is read later catches up with what was read first: the history on a
\* recruiter's candidate page with the application's row
\* (RECRUITER_CANDIDATE_SELECT), the application with the rejected rounds in the
\* list of its rounds (RECRUITER_INTERVIEW_SELECT).
THEOREM RelationsCatchUpTheorem == TimelineSpec => []RelationsCatchUp
<1>1. ASSUME World, TInv, complete
      PROVE  /\ kind = "detail" => historyReachesRow
             /\ kind = "round" => rejectionReachedApplication
  <2>1. ASSUME kind = "detail"
        PROVE  historyReachesRow
    <3>1. loaded = {"application", "stageHistory", "interviews"}
      BY <1>1, <2>1 DEF complete, Tables
    <3>2. reached(head, trail)
      BY <1>1, <2>1, <3>1 DEF TInv, TrailHolds
    <3> QED BY <3>2 DEF reached, historyReachesRow, broughtTo
  <2>2. ASSUME kind = "round"
        PROVE  rejectionReachedApplication
    <3>1. loaded = {"interviews", "application"}
      BY <1>1, <2>2 DEF complete, Tables
    <3> QED BY <1>1, <2>2, <3>1 DEF TInv, RejectionHolds, rejectionReachedApplication
  <2> QED BY <2>1, <2>2
<1>2. World /\ TInv => RelationsCatchUp
  BY <1>1 DEF RelationsCatchUp
<1> QED BY <1>2, WorldTheorem, PTL
=============================================================================
