----------------------------- MODULE Interviews -----------------------------
(***************************************************************************)
(* Interview rounds and the verdict (interviews.service.ts) beside the     *)
(* pipeline writes, on the same tables: createInterview,                   *)
(* updateInterviewStatus and recordDecision.  A verdict closes its round   *)
(* and, in the same transaction, moves or rejects the application: it      *)
(* locks the Interview row first and the Application row second, while a   *)
(* recruiter's request locks the Application row alone.                    *)
(*                                                                         *)
(* Dates and round types are left out: no guard reads them.                *)
(***************************************************************************)
EXTENDS Pipeline

CONSTANTS
  Rounds,      \* interview ids
  RoundStages, \* the stages rounds are created for
  Verdicts     \* the POST .../decision requests; each is served once

ASSUME RoundStagesAssumption == RoundStages \subseteq PipelineStage
ASSUME VerdictsAssumption == Verdicts \subseteq Transactions \ Requests

VARIABLES
  interview,      \* Interview rows by id; Null before the insert
  interviewLock,  \* the transaction that holds an Interview row's lock
  interviewAudit, \* AuditLog rows with entityType INTERVIEW, by round
  scheduling,     \* createInterview between its read and its insert
  verdict,        \* what each decision request asks
  step,           \* the statement each decision request awaits next
  saw,            \* the currentStage its read returned
  answer          \* its answer, Null until there is one

roundVars == <<interview, interviewLock, interviewAudit, scheduling>>
verdictVars == <<verdict, step, saw, answer>>
interviewVars == <<roundVars, verdictVars>>
allVars == <<vars, interviewVars>>

InterviewStatus == {"SCHEDULED", "COMPLETED", "CANCELLED"}
InterviewOutcome == {"SELECTED", "REJECTED"}

InterviewRow ==
  [app : Apps, stage : RoundStages, status : InterviewStatus,
   outcome : InterviewOutcome \cup {Null}, decidedBy : Verdicts \cup {Null}]

InterviewAuditRow ==
  [action : {"INTERVIEW_CREATED", "INTERVIEW_DECISION_RECORDED"},
   actor : Verdicts \cup {Null}, outcome : InterviewOutcome \cup {Null},
   toStage : RoundStages \cup {Null}, toStatus : {"REJECTED", Null}]

Decisions == [round : Rounds, decision : InterviewOutcome]
Schedules == [app : Apps, stage : RoundStages]

VerdictSteps ==
  {"readRound", "readApplication", "claim", "update", "history", "audit", "commit", "respond",
   "done"}
VerdictRefusals ==
  {"NOT_FOUND", "INTERVIEW_CANCELLED", "APPLICATION_NOT_ACTIVE", "INVALID_STAGE_TRANSITION",
   "DECISION_ALREADY_RECORDED", "STAGE_CONFLICT"}

ASSUME InterviewsNull ==
  Null \notin InterviewRow \cup Schedules \cup InterviewOutcome \cup VerdictRefusals

InterviewsInit ==
  /\ Init
  /\ interview = [i \in Rounds |-> Null]
  /\ interviewLock = [i \in Rounds |-> Null]
  /\ interviewAudit = [i \in Rounds |-> <<>>]
  /\ scheduling = [i \in Rounds |-> Null]
  /\ verdict \in [Verdicts -> Decisions]
  /\ step = [v \in Verdicts |-> "readRound"]
  /\ saw = [v \in Verdicts |-> Null]
  /\ answer = [v \in Verdicts |-> Null]

-----------------------------------------------------------------------------
(***************************************************************************)
(* createInterview and updateInterviewStatus.  Their refusals (the         *)
(* application missing or terminal, the round missing or terminal) write   *)
(* nothing and are steps that change nothing.                              *)
(***************************************************************************)

\* The read: the application is ACTIVE now.
FindActiveApplication(i, a, stage) ==
  /\ interview[i] = Null /\ scheduling[i] = Null
  /\ isActive(a)
  /\ scheduling' = [scheduling EXCEPT ![i] = [app |-> a, stage |-> stage]]
  /\ UNCHANGED <<vars, verdictVars, interview, interviewLock, interviewAudit>>

\* The insert, its audit row and the COMMIT: nobody can name the round before.
\* The read took no lock, so nothing is asked of the application again.
createInterview(i) ==
  /\ scheduling[i] # Null
  /\ interview' = [interview EXCEPT ![i] =
       [app |-> scheduling[i].app, stage |-> scheduling[i].stage, status |-> "SCHEDULED",
        outcome |-> Null, decidedBy |-> Null]]
  /\ interviewAudit' = [interviewAudit EXCEPT ![i] = Append(@,
       [action |-> "INTERVIEW_CREATED", actor |-> Null, outcome |-> Null, toStage |-> Null,
        toStatus |-> Null])]
  /\ scheduling' = [scheduling EXCEPT ![i] = Null]
  /\ UNCHANGED <<vars, verdictVars, interviewLock>>

FailScheduling(i) ==
  /\ scheduling[i] # Null
  /\ scheduling' = [scheduling EXCEPT ![i] = Null]
  /\ UNCHANGED <<vars, verdictVars, interview, interviewLock, interviewAudit>>

\* Mutants: the WHERE of one statement too wide.
statusGuardNotCancelled(i) == interview[i] # Null /\ interview[i].status # "CANCELLED"
claimGuardOutcomeOnly(i) == interview[i].outcome = Null

\* The WHERE of the status PATCH, and that of the decision's claim.
statusGuard(i) == interview[i] # Null /\ interview[i].status = "SCHEDULED"
claimGuard(i) == interview[i].status = "SCHEDULED" /\ interview[i].outcome = Null

\* One guarded UPDATE and the COMMIT; it waits while a verdict holds the round.
updateInterviewStatus(i, status) ==
  /\ statusGuard(i)
  /\ interviewLock[i] = Null
  /\ interview' = [interview EXCEPT ![i].status = status]
  /\ UNCHANGED <<vars, verdictVars, interviewLock, interviewAudit, scheduling>>

-----------------------------------------------------------------------------
(***************************************************************************)
(* recordDecision, statement by statement.                                 *)
(***************************************************************************)

roundOf(v) == interview[verdict[v].round]
appOf(v) == roundOf(v).app
selected(v) == verdict[v].decision = "SELECTED"

\* The stage a verdict moves the candidate to, Null when it moves nobody.
moveFrom(v, fromStage) ==
  IF selected(v) /\ fromStage # roundOf(v).stage THEN roundOf(v).stage ELSE Null
toStage(v) == moveFrom(v, saw[v])

Advance(v, next) == step' = [step EXCEPT ![v] = next] /\ UNCHANGED <<verdict, saw, answer>>

AnswerVerdict(v, what) ==
  /\ step' = [step EXCEPT ![v] = "done"]
  /\ answer' = [answer EXCEPT ![v] = what]
  /\ UNCHANGED <<verdict, saw>>

RefuseVerdict(v, code) == AnswerVerdict(v, code) /\ UNCHANGED <<vars, roundVars>>

\* Mutant: the round's lock outlives the transaction.
ReleaseRoundNever(v) == v \in Verdicts /\ UNCHANGED interviewLock

ReleaseRound(v) ==
  interviewLock' = [i \in Rounds |-> IF interviewLock[i] = v THEN Null ELSE interviewLock[i]]

\* Mutant: the round claimed outside the transaction, so nothing undoes it.
AbortVerdictKeepsClaim(v, code) ==
  /\ Rollback(v)
  /\ ReleaseRound(v)
  /\ AnswerVerdict(v, code)
  /\ interview' = [i \in Rounds |->
       IF interviewLock[i] = v
       THEN [interview[i] EXCEPT !.status = "COMPLETED", !.outcome = verdict[v].decision, !.decidedBy = v]
       ELSE interview[i]]
  /\ UNCHANGED <<requestVars, interviewAudit, scheduling>>

AbortVerdict(v, code) ==
  /\ Rollback(v)
  /\ ReleaseRound(v)
  /\ AnswerVerdict(v, code)
  /\ UNCHANGED <<requestVars, interview, interviewAudit, scheduling>>

\* The findUnique is two SELECTs, the round and then its application.
ReadRound(v) ==
  /\ step[v] = "readRound"
  /\ \/ roundOf(v) = Null /\ RefuseVerdict(v, "NOT_FOUND")
     \/ /\ roundOf(v) # Null
        /\ IF roundOf(v).status = "CANCELLED"
           THEN RefuseVerdict(v, "INTERVIEW_CANCELLED")
           ELSE Advance(v, "readApplication") /\ UNCHANGED <<vars, roundVars>>

verdictAllowed(v, fromStage) ==
  moveFrom(v, fromStage) # Null => canTransition(fromStage, roundOf(v).stage)

ReadApplication(v) ==
  /\ step[v] = "readApplication"
  /\ \/ ~isActive(appOf(v)) /\ RefuseVerdict(v, "APPLICATION_NOT_ACTIVE")
     \/ /\ isActive(appOf(v))
        /\ LET fromStage == application[appOf(v)].currentStage
           IN  IF verdictAllowed(v, fromStage)
               THEN /\ saw' = [saw EXCEPT ![v] = fromStage]
                    /\ step' = [step EXCEPT ![v] = "claim"]
                    /\ UNCHANGED <<vars, roundVars, verdict, answer>>
               ELSE RefuseVerdict(v, "INVALID_STAGE_TRANSITION")

\* Mutant: a verdict that moves nobody commits at once, a rejection too.
ClaimSkipsRejection(v) ==
  /\ step[v] = "claim"
  /\ claimGuard(verdict[v].round)
  /\ interviewLock[verdict[v].round] = Null
  /\ interviewLock' = [interviewLock EXCEPT ![verdict[v].round] = v]
  /\ Advance(v, IF toStage(v) = Null THEN "commit" ELSE "update")
  /\ UNCHANGED <<vars, interview, interviewAudit, scheduling>>

\* The guarded UPDATE of the round.  What it writes is read off verdict[v] at
\* the COMMIT.  A SELECTED verdict that moves nobody locks no application.
Claim(v) ==
  /\ step[v] = "claim"
  /\ claimGuard(verdict[v].round)
  /\ interviewLock[verdict[v].round] = Null
  /\ interviewLock' = [interviewLock EXCEPT ![verdict[v].round] = v]
  /\ Advance(v, IF selected(v) /\ toStage(v) = Null THEN "commit" ELSE "update")
  /\ UNCHANGED <<vars, interview, interviewAudit, scheduling>>

LoseClaim(v) ==
  /\ step[v] = "claim"
  /\ ~claimGuard(verdict[v].round)
  /\ AbortVerdict(v, "DECISION_ALREADY_RECORDED")

applicationGuard(v) == IF selected(v) THEN stageGuard(appOf(v), saw[v]) ELSE outcomeGuard(appOf(v))

\* Mutant: a plain update by id, with no guard.
UpdateApplicationById(v) ==
  /\ step[v] = "update"
  /\ UpdateRow(v, appOf(v),
       IF selected(v) THEN [application[appOf(v)] EXCEPT !.currentStage = toStage(v)]
                      ELSE [application[appOf(v)] EXCEPT !.status = "REJECTED"])
  /\ Advance(v, "history")
  /\ UNCHANGED <<tables, requestVars, roundVars>>

UpdateApplication(v) ==
  /\ step[v] = "update"
  /\ IF selected(v) THEN guardedStageUpdate(v, appOf(v), saw[v], toStage(v))
                    ELSE guardedOutcomeUpdate(v, appOf(v), "REJECTED")
  /\ Advance(v, "history")
  /\ UNCHANGED <<tables, requestVars, roundVars>>

\* count = 0: the claim written a moment ago goes with the transaction.
LoseApplication(v) ==
  /\ step[v] = "update"
  /\ ~applicationGuard(v)
  /\ AbortVerdict(v, "STAGE_CONFLICT")

VerdictHistory(v) ==
  [fromStage  |-> saw[v],
   toStage    |-> IF selected(v) THEN toStage(v) ELSE saw[v],
   fromStatus |-> "ACTIVE",
   toStatus   |-> IF selected(v) THEN "ACTIVE" ELSE "REJECTED",
   changedBy  |-> v,
   overrideId |-> Null]

VerdictAudit(v) ==
  [action     |-> IF selected(v) THEN "CANDIDATE_STAGE_CHANGED" ELSE "APPLICATION_OUTCOME_SET",
   actor      |-> v,
   from       |-> IF selected(v) THEN saw[v] ELSE "ACTIVE",
   to         |-> IF selected(v) THEN toStage(v) ELSE "REJECTED",
   overrideId |-> Null,
   skipped    |-> Null]

InsertVerdictHistory(v) ==
  /\ step[v] = "history"
  /\ insertHistory(v, VerdictHistory(v))
  /\ Advance(v, "audit")
  /\ UNCHANGED <<tables, lock, requestVars, roundVars>>

AuditVerdict(v) ==
  /\ step[v] = "audit"
  /\ recordAudit(v, VerdictAudit(v))
  /\ Advance(v, "commit")
  /\ UNCHANGED <<tables, lock, requestVars, roundVars>>

\* The INTERVIEW_DECISION_RECORDED row and the COMMIT.
CommitVerdict(v) ==
  /\ step[v] = "commit"
  /\ Commit(v, appOf(v))
  /\ interview' = [interview EXCEPT ![verdict[v].round] =
       [@ EXCEPT !.status = "COMPLETED", !.outcome = verdict[v].decision, !.decidedBy = v]]
  /\ interviewAudit' = [interviewAudit EXCEPT ![verdict[v].round] = Append(@,
       [action |-> "INTERVIEW_DECISION_RECORDED", actor |-> v, outcome |-> verdict[v].decision,
        toStage |-> toStage(v), toStatus |-> IF selected(v) THEN Null ELSE "REJECTED"])]
  /\ ReleaseRound(v)
  /\ Advance(v, "respond")
  /\ UNCHANGED <<requestVars, scheduling>>

RespondVerdict(v) == step[v] = "respond" /\ RefuseVerdict(v, "OK")

FailVerdict(v) == step[v] # "done" /\ AbortVerdict(v, "INTERNAL_ERROR")

-----------------------------------------------------------------------------
recordDecision(v) ==
  \/ ReadRound(v)
  \/ ReadApplication(v)
  \/ Claim(v)
  \/ LoseClaim(v)
  \/ UpdateApplication(v)
  \/ LoseApplication(v)
  \/ InsertVerdictHistory(v)
  \/ AuditVerdict(v)
  \/ CommitVerdict(v)
  \/ RespondVerdict(v)

PipelineStep ==
  /\ \/ \E r \in Requests : Handle(r) \/ Fail(r)
     \/ \E a \in Apps : Apply(a)
  /\ UNCHANGED interviewVars

RoundStep ==
  \E i \in Rounds :
    \/ \E a \in Apps, stage \in RoundStages : FindActiveApplication(i, a, stage)
    \/ createInterview(i)
    \/ FailScheduling(i)
    \/ \E status \in {"COMPLETED", "CANCELLED"} : updateInterviewStatus(i, status)

\* Every request has been answered: no request is left to take a step.
AllServed ==
  /\ \A r \in Requests : pc[r] = "done"
  /\ \A v \in Verdicts : step[v] = "done"
  /\ UNCHANGED allVars

InterviewsNext ==
  \/ PipelineStep
  \/ RoundStep
  \/ \E v \in Verdicts : recordDecision(v) \/ FailVerdict(v)
  \/ AllServed

InterviewsFairness ==
  /\ \A r \in Requests : WF_allVars(Handle(r) /\ UNCHANGED interviewVars)
  /\ \A v \in Verdicts : WF_allVars(recordDecision(v))

InterviewsSpec == InterviewsInit /\ [][InterviewsNext]_allVars
FairInterviewsSpec == InterviewsSpec /\ InterviewsFairness

-----------------------------------------------------------------------------
(***************************************************************************)
(* Properties.                                                             *)
(***************************************************************************)

InterviewsTypeOK ==
  /\ TypeOK
  /\ interview \in [Rounds -> InterviewRow \cup {Null}]
  /\ interviewLock \in [Rounds -> Verdicts \cup {Null}]
  /\ interviewAudit \in [Rounds -> Seq(InterviewAuditRow)]
  /\ scheduling \in [Rounds -> Schedules \cup {Null}]
  /\ verdict \in [Verdicts -> Decisions]
  /\ step \in [Verdicts -> VerdictSteps]
  /\ saw \in [Verdicts -> PipelineStage \cup {Null}]
  /\ answer \in [Verdicts -> VerdictRefusals \cup {"OK", "INTERNAL_ERROR", Null}]

decided(i) == interview[i] # Null /\ interview[i].outcome # Null

\* "The whole thing commits or none of it does": a REJECTED round's application
\* is REJECTED by that very verdict, in its last history row; a SELECTED
\* round's verdict left no history row but a move to the round's stage, and
\* left one exactly when its audit row says so; and the application's own audit
\* tells whatever the verdict wrote into its history.
CommittedWhole ==
  \A i \in Rounds : decided(i) =>
    LET v == interview[i].decidedBy
        a == interview[i].app
        h == stageHistory[a]
        log == interviewAudit[i]
    IN  /\ Len(log) = 2 /\ log[2].actor = v /\ log[2].outcome = interview[i].outcome
        /\ IF interview[i].outcome = "REJECTED"
           THEN /\ application[a].status = "REJECTED"
                /\ h[Len(h)].changedBy = v /\ h[Len(h)].toStatus = "REJECTED"
           ELSE /\ Wrote(v, a) <=> log[2].toStage # Null
                /\ \A n \in 1 .. Len(h) : h[n].changedBy = v =>
                     isMove(h[n]) /\ h[n].toStage = interview[i].stage
        /\ \A n \in 1 .. Len(h) : h[n].changedBy = v =>
             \E m \in 1 .. Len(auditLog[a]) :
               /\ auditLog[a][m].actor = v
               /\ IF isMove(h[n])
                  THEN auditLog[a][m].from = h[n].fromStage /\ auditLog[a][m].to = h[n].toStage
                  ELSE auditLog[a][m].from = "ACTIVE" /\ auditLog[a][m].to = h[n].toStatus

\* A SELECTED round's application has been at the round's stage: the verdict
\* moved it there, or saw it there in a read that may be stale by the COMMIT.
SelectedHasBeenThere ==
  \A i \in Rounds : decided(i) /\ interview[i].outcome = "SELECTED" =>
    \E n \in 1 .. Len(stageHistory[interview[i].app]) :
      stageHistory[interview[i].app][n].toStage = interview[i].stage

\* A decided round is whole, and what it says of its application has been so.
VerdictApplied == CommittedWhole /\ SelectedHasBeenThere

\* A 200 means the round carries this verdict; a refusal means it left nothing
\* behind; and a stage or status change by a verdict never outlives the verdict
\* itself, whatever failed in between.
AnswersAreHonest ==
  \A v \in Verdicts :
    LET mine == interview[verdict[v].round] # Null /\ interview[verdict[v].round].decidedBy = v
    IN  /\ answer[v] = "OK" => mine
        /\ answer[v] \in VerdictRefusals => ~mine
        /\ \A a \in Apps : Wrote(v, a) => mine /\ a = appOf(v)

\* A refusal gives a reason that is true and stays true: the round is cancelled,
\* or out of SCHEDULED, or its application is closed, whoever wins afterwards.
RefusalsHaveReasons ==
  \A v \in Verdicts :
    /\ answer[v] = "INTERVIEW_CANCELLED" => roundOf(v) # Null /\ roundOf(v).status = "CANCELLED"
    /\ answer[v] = "DECISION_ALREADY_RECORDED" => roundOf(v) # Null /\ roundOf(v).status # "SCHEDULED"
    /\ answer[v] = "APPLICATION_NOT_ACTIVE" => roundOf(v) # Null /\ ~isActive(appOf(v))

\* What a verdict is answered is so: of its own writes, and of what refused it.
HonestVerdicts == AnswersAreHonest /\ RefusalsHaveReasons

\* Neither terminal status of a round changes again, and neither does a verdict:
\* a round is decided once at most, and of a verdict and a PATCH to CANCELLED or
\* to COMPLETED only one wins.
DecisionIsFinal ==
  [][\A i \in Rounds :
       interview[i] # Null /\ interview[i].status # "SCHEDULED" =>
         interview'[i] = interview[i]]_allVars

\* No deadlock: a verdict takes the round and then the application, nobody takes
\* them the other way round, so while somebody waits somebody can go on.
NobodyStuck ==
  (\E r \in Requests : pc[r] # "done") \/ (\E v \in Verdicts : step[v] # "done") =>
    \/ \E r \in Requests : ENABLED (Handle(r) /\ UNCHANGED interviewVars)
    \/ \E v \in Verdicts : ENABLED recordDecision(v)

\* createInterview's comment (interviews.service.ts:93-94): "no window between
\* checking that an application is live and using it".  The read takes no lock,
\* so an outcome can commit before the insert.
RoundOnlyOnLiveApplication ==
  [][\A i \in Rounds :
       interview[i] = Null /\ interview'[i] # Null => isActive(interview'[i].app)]_allVars

\* DecisionAlreadyRecordedError's comment (lib/errors.ts:312, "A second verdict
\* on a round that already has one").  The claim is guarded on SCHEDULED too,
\* and a PATCH to COMPLETED leaves a round with no verdict.
RecordedMeansDecided ==
  \A v \in Verdicts : answer[v] = "DECISION_ALREADY_RECORDED" => decided(verdict[v].round)

\* FR-3.4 (specs/features/applications/spec.md): on SELECTED the application
\* moves to the round's own stage, unless it is already there.  "Already there"
\* is what an earlier read saw, and no guard repeats it.
SelectedReachesRoundStage ==
  [][\A i \in Rounds :
       ~decided(i) /\ interview'[i] # Null /\ interview'[i].outcome = "SELECTED" =>
         application'[interview'[i].app].currentStage = interview'[i].stage]_allVars
=============================================================================
