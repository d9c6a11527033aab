# A TLA+ development of the recruitment pipeline backend

This directory models the backend of a recruitment tracker (Express, Prisma,
PostgreSQL): TLA+ modules translated from the TypeScript source, small
instances of them for the TLC model checker, and theorems about them that
TLAPS has checked.

## 1. The system

Every request is an Express handler that calls one service function; the
services share nothing in memory. All state is in PostgreSQL, reached by
Prisma. `lib/prisma.ts` sets no isolation level, so every transaction runs at
READ COMMITTED: each statement sees what was committed when it started, and an
UPDATE or DELETE that meets a row another transaction has written waits for
that transaction's end and then evaluates its WHERE on the row's new version.
This is the environment of every concurrency question below: the code
coordinates by guards in a WHERE, by unique indexes and by foreign keys, never
by `SELECT ... FOR UPDATE`.

| Part | State | Operations | Meets |
|---|---|---|---|
| Stage rules (`pipeline.rules.ts`) | none | `canTransition`, `canSetOutcome` | used by pipeline writes and verdicts |
| Pipeline writes (`pipeline.service.ts`) | `Application.status`, `.currentStage`, `StageHistory`, `StageOverride` | `changeStage`, `overrideStage`, `setOutcome` | each other, verdicts, applying, board, summary, timeline |
| Board and summary (same file) | none | `getPipeline`, `getSummary` | read applications and roles |
| Interview rounds (`interviews.service.ts`) | `Interview` | `createInterview`, `updateInterviewStatus`, `recordDecision` | writes `Application` and `StageHistory` as the pipeline does |
| Panel (same file) | `InterviewAssignment` | `assignInterviewer`, `unassignInterviewer` | authorises feedback |
| Feedback (`feedback.service.ts`) | `Feedback` | `submitFeedback`, `updateFeedback` | reads the round and the assignment |
| Roles (`roles.service.ts`) | `Role` | `createRole`, `updateRole`, `deleteRole`, `listRoles` | referenced by applications |
| Applications (`applications.service.ts`, `timeline.ts`) | `Application`, first `StageHistory` row | `createApplication`, lists, details, `buildTimeline` | reads roles and rounds |
| Candidates (`candidate.service.ts`) | `CandidateProfile` | `updateCandidateContact`, scoped reads | read by recruiters and panellists |
| Sessions (`auth.service.ts`) | `RefreshToken` | `login`, `refresh`, `logout`, pruning | several tabs and devices of one user |
| Sign-up, users | `User` | `signup`, `listInterviewers` | logins, and the seed's upserts |
| Seed (`prisma/seed.ts`) | every table | one script of upserts, checks, deletes and one transaction per application, run again at will | whoever uses the rows it resets |
| Audit (`audit.service.ts`) | `AuditLog` | `recordAudit` in a writer's transaction; a paged list | written by every writer above but roles and sessions |
| Middleware, errors, configuration, process | none | guards of a request by itself | start and end of a request |

What is hard in it: two recruiters who act on what each of them read a moment
ago; a transaction of several statements of which one fails; an answer that is
lost after its COMMIT; two rows locked in one transaction; answers put
together from several statements with a snapshot each; a script that may be
killed anywhere and run again; and records that must
tell the same story (the row, its history, its audit). `PROJECT.json` lists
each of these at its line, under `hazards`.

What makes each part correct:

- **Pipeline.** The row is what its history says; no stage is skipped without
  an override that says so; HIRED and REJECTED are final; the history and the
  audit log agree; a 200 is a change that was made, a 409 one that was not and
  that somebody else caused.
- **Rounds.** One verdict per round, which closes it and moves or rejects the
  application in one go; a cancelled round has no verdict.
- **Panel and feedback.** One seat, one assessment; the audit of a seat
  alternates and ends in what the table holds; partial edits are not lost.
- **Roles and applying.** No application without its role; one application per
  candidate and role; partial edits are not lost.
- **Sessions.** One live token per family; a token is replaced once; another
  device's session is left alone; one account per address.
- **Contacts.** Every change of a field is told by the audit; answers are true.
- **Reads.** Whatever the interleaving, nobody vanishes from the board or the
  summary, a timeline does not take back what it has told and has the round of
  every rejection it shows, the history on the candidate page has caught up with
  the row above it and the application with the rejected rounds in the list of
  its rounds, and an interviewer is shown what was theirs at some
  instant of the request and nothing else.
- **Seed.** Whatever state the script finds, an undisturbed run arrives at its
  data; an application has its whole trace, or is being reset; other people's
  rows are left alone.

## 2. Modules

A request is a model value that is served once. It carries what it asks
(`call`), the statement its handler awaits next (`pc`), what its reads returned
(`seen`, `saw`) and its answer (`reply`). **One action is one awaited
statement**, with the code up to the next `await`; between two of them any
other request may run, and `Fail` may end a request at any of them (a
statement throws, the connection drops, the interactive transaction times out,
the response is lost), which undoes an open transaction and nothing more.

How a transaction is written depends on what others can see of it. Where its
steps matter to others, `PipelineTables` has them: a row lock taken by a
guarded UPDATE, a `buffer` of uncommitted writes, and a COMMIT that makes them
visible; a statement that meets a locked row is simply not enabled until the
lock is gone, and its guard is then evaluated on the row as it is. `Panel`,
`Requisitions` and `Contacts` have one contended row per transaction and keep
its claim in the same way with less apparatus; `Sessions` needs the snapshot
of a family-wide UPDATE, which is in `targets`.

| Module | Models | State and actions |
|---|---|---|
| `PipelineRules` | `pipeline.rules.ts` | the stage graph; pure |
| `PipelineTables` | the tables, `recordAudit`, row locks, COMMIT | `application`, `stageHistory`, `stageOverride`, `auditLog`, `lock`, `buffer` |
| `Pipeline` | `changeStage`, `overrideStage`, `setOutcome`, each with its pre-flight read, statements, COMMIT and answer; `createApplication` as a committed step | properties of the pipeline; the inductive invariant `InFlight` |
| `Lifecycle` | the abstract specification: `Enter`, `Advance`, `Override`, `Close` | no requests, no locks |
| `PipelineProofs` | theorems about `Pipeline` | `RequestsSafe`, the inductive invariant of requests beside other writers |
| `Interviews` | extends `Pipeline`: rounds and verdicts on the same tables | `interview`, `interviewLock`, `interviewAudit`; `createInterview` in two steps, a verdict in up to nine |
| `InterviewsProofs` | theorems about `Interviews` and `Timeline` | the inductive invariants `IInv` and `LifeIsTold`, and `TInv` of a reader beside them |
| `Panel` | `assign`, `unassign`, `submit`, `update` beside a round's status | rows found by their seat (round, person) |
| `Access` | extends `Panel`: an interviewer's view of a candidate, of a round's assessments and of the page of rounds | a read of two statements; the second is an operator, run at every instant it could be |
| `PanelProofs` | theorems about `Panel` and `Access` | the inductive invariants `IInv` and `ReadIsOnRecord` |
| `Requisitions` | the role's life beside `createApplication`, and `listRoles` | `role`, `application`, row locks, foreign key and unique index |
| `RequisitionsProofs` | theorems about `Requisitions` | the inductive invariant `IInv` |
| `Contacts` | `updateCandidateContact` | `profile`, audit, upsert under `ON CONFLICT`, read-back |
| `ContactsProofs` | theorems about `Contacts` | the inductive invariant `IInv` |
| `Sessions` | `signup`, `login`, `refresh`, `logout`, pruning, expiry | `token` rows named by the request that inserts them; `account` by address |
| `SessionsProofs` | theorems about `Sessions` | the inductive invariant `IInv` |
| `Dashboard` | extends `Lifecycle`: `getSummary`, `getPipeline` | the writers are the abstract, committed steps |
| `DashboardProofs` | theorems about `Dashboard` | the inductive invariants `CountsSoFar` and `BoardSoFar` |
| `Timeline` | extends `Interviews`: the timeline (`listApplications`, `getCandidateApplication`, `getRecruiterApplication`, `buildTimeline`), the application on the recruiter's candidate page, the rounds of an application | a reader with a SELECT per table: the row found first, its relations in any order |
| `Seed` | `prisma/seed.ts`: `main` is the sequence of its statements, `at` the one it is at | all tables, `doomed` (the ids collected to clear), `run`; requests as committed steps |
| `SeedProofs` | theorems about `Seed` | the inductive invariant `IInv` |

`Dashboard` stands on `Lifecycle`, not on `Pipeline`: its reads see committed
rows only, and the runs `race` and `verdicts` check that what the statements
commit is a behaviour of `Lifecycle` (`ImplementsLifecycle`), so the coarse
writers lose nothing that a reader could see.

Choices that a reader of both should know:

- `createApplication` is one step in `Pipeline` and `Interviews` (an
  application nobody has seen is contended by nobody) and statement by
  statement in `Requisitions`, where the role is contended.
- An override's id is the request that made it, a token is named after its
  request, a `StageHistory` row's `changedBy` is a request and not a user: the
  properties have to tell two requests of one recruiter apart.
- `seen` is the `currentStage` the pre-flight read returned: it is the only
  column of that read the handler uses later.
- `Seed` writes the script down as the sequence of statements it awaits, with
  one action per kind of statement. Its requests are committed steps: the
  script sees no more of them, and its DELETE waits for the ones that have not
  committed. `by` in its audit rows is a note of the model, who wrote the entry.
- What `Access` and `Timeline` compare an answer with is not the tables of one
  instant (a response may be older than they are) but what was recorded while it was
  being put together: the audit of the seats, the history of the application.
- Unique indexes and foreign keys are guards of the INSERT or DELETE they
  check, with the wait for an uncommitted rival that PostgreSQL has.

## 3. Runs

Every property of a passing run has a mutant in `PROJECT.json`: a change of
one modelled definition, of the kind a refactoring of that code could make,
under which TLC finds the property violated.

| Run | Instance | Question |
|---|---|---|
| `race` | 3 requests of any kind, 1 application, fair | do three pipeline writes of one application keep row, history, overrides and audit in step, are the answers true, is each request answered? does it implement `Lifecycle`? is `InFlight`, what the proofs use, an invariant? |
| `verdicts` | 1 recruiter's request, 2 verdicts, 2 rounds | verdicts against each other, against PATCHes of the rounds and against pipeline writes; no deadlock between round and application; does it implement `Lifecycle`? |
| `requisitions` | 3 requests, 1 role, 2 candidates | roles edited, closed and deleted under applicants; no deadlock between role and application |
| `panel` | 3 requests, 1 round, 2 people, 2 ratings, an interviewer who reads again and again | seats and assessments, and who is shown them |
| `sessions` | 4 requests, 2 users, with or without an account | sign-up, rotation, replay after a lost answer, logout, another device |
| `contacts` | 3 requests, 2 fields | PATCHes of one empty profile |
| `reads` | 2 applications, 2 roles; the board or the summary (`reader`) | reads of several statements under any writer |
| `timeline` | 1 request, 1 verdict, 2 rounds, a reader of one of three kinds that reads for ever | what a timeline shows and whether it takes it back; whether the history on the candidate page, and the application in the list of its rounds, have caught up with what was read before them |
| `reseed` | 2 runs of the script, 2 requests, from a blank database or one that was seeded and used | the script run again, killed anywhere, failing, beside requests |
| `hired`, `round_after_outcome`, `open_deleted` | small instances of the above | expected to be violated, see below |

**Why these bounds are enough to be interesting.** Three requests on one row is
the first size at which a loser's guard can be evaluated after two different
winners, and at which a request can wait for one that waits. Two rounds of one
application, and two applications with their own roles for the readers,
separate "this row" from "some row". (That writes of different applications do not
disturb each other is not left to a run: the theorems are for any number of
them.) Two verdicts on two rounds are the smallest case of two transactions that hold different rounds and
want one application. Four session requests are a login, two refreshes
with one token and a third request with the successor, or a logout. In `panel`
the reader is the only interviewer whose seats matter to what they see, and
three writers are enough to take a seat away between the two statements of a
read and give it back, with an assessment in between. Two runs of the script
are the first, killed at any statement, and the one that must repair it; with
the database that was seeded and used before, the first already is a reseed. Two
requests are the fewest that can take a role's name or its last application
away and put something in its place; the script's own data are three roles and
two of its candidates, one with the full set of branches (a profile, three
timelines, an override, rounds, assessments) and one with none of them. `MaxRuns`
and `MaxRequests` bound them. A request
is served once, so the number of requests bounds histories, audits and tokens;
no other counter is unbounded. `SYMMETRY` is used by runs that check no liveness
property, over requests that no definition tells apart.

**Fairness and deadlock.** Liveness (`AllAnswered`, in `race`) is checked under
weak fairness of each handler's next step (`Handle(r)`): Node runs a
continuation whose promise is settled, and PostgreSQL wakes a waiter when the
lock it waits for is gone. `Fail` is never fair, a client's further requests are
never fair, and no property relies on a recruiter doing anything. In the models
whose transactions lock two rows or wait for an unbounded set of others
(`Interviews`, `Requisitions`, `Sessions`) the question is deadlock, and
the invariant `NobodyStuck` asks it: while somebody is waiting, somebody
can take a step that is not a failure. A request takes finitely many
steps, so this is what its answer depends on. TLC's own deadlock check
is on everywhere but could not see such a wait, because a statement may always
fail. A real PostgreSQL ends a cycle of waits by aborting one transaction;
`NobodyStuck` says that there is no cycle to break.

### Disagreements between code and documents

Three runs are expected to be violated. Each checks a sentence that a comment
or a specification of the repository says of the program, and TLC's trace is a
run of the code in which it is not so:

- `hired`: an outcome decided at OFFER commits after an override moved the
  application back, since `guardedOutcomeUpdate` asks only for ACTIVE;
- `round_after_outcome`: a round is created on an application that has just been
  closed;
- `open_deleted`: a role reopened between `deleteRole`'s read and its DELETE is
  deleted while OPEN.

All three are a read that no WHERE repeats. More sentences of this kind, and of
others that claim one snapshot for several statements, are stated beside the
code that they are about, and not run; a configuration with the constants of
the passing run of that module and one of these as its property shows the trace:

| Definition | Sentence | What happens instead |
|---|---|---|
| `Requisitions!LoggedFromIsReal` | the "from" `updateRole` logs is what it moved off | another PATCH commits between read and UPDATE |
| `Requisitions!NoUnexplainedP2003` | applying cannot fail with an unexplained P2003 | the role is deleted between the read and the INSERT |
| `Requisitions!TotalMatchesPage` | a page and its total describe one snapshot | two statements at READ COMMITTED |
| `Panel!NoFeedbackOnCancelledRound` | no feedback on a cancelled round | the round is cancelled after the read |
| `Panel!PreviousRatingRecorded` | the previous rating is recorded | the read takes no lock |
| `Interviews!RecordedMeansDecided` | "already recorded" means that there is a verdict | a round PATCHed to COMPLETED has none |
| `Interviews!SelectedReachesRoundStage` | SELECTED brings the application to the round's stage | "already there" is what an earlier read saw |
| `Dashboard!SummaryIsOneInstant` | the seven numbers of the summary describe one instant | each count has a snapshot of its own |
| `Access!TotalIsOfThePage` | a page of rounds and its total have one snapshot | two statements at READ COMMITTED; the same is said of the pages of candidates and applications |
| `Seed!RequestTraceSurvives` | a reseed erases no trace that the seed did not write | it clears every entry about the applications it resets, a recruiter's included |
| `Timeline!RejectedRoundShowsOutcome` | a rejected round and its outcome cannot disagree | a verdict commits between the two SELECTs |

## 4. Proofs

The pipeline writes, verdicts beside them, the panel with its assessments and
their readers, roles and applying, contact details, sessions, the two
aggregates, the views of a timeline and the seed have their safety properties
proved for every value of the constants.

### Pipeline writes

Every safety property of `Pipeline` that `race` checks, and that it implements
`Lifecycle`, is proved for any set of requests, applications and transactions:

| Module | Theorem | States |
|---|---|---|
| `PipelineProofs` | `FlightIsSafe` | `[](TypeOK /\ InFlight)` |
| | `TerminalTheorem` | `TerminalIsTerminal`: no step changes a HIRED or REJECTED application or its history |
| | `HistoryTheorem` | `[]HistoryExplainsRow`: status and stage are what the history's last rows say |
| | `SkipTheorem` | `[]NoSilentSkip` |
| | `MirrorTheorem` | `[]AuditMirrorsHistory` |
| | `HonestyTheorem` | `[]HonestAnswers`: what a 200 and a refusal say of the history |
| | `OrphanTheorem` | `[]NoOrphanOverride` |
| | `ConflictTheorem` | `[]ConflictHasWinner`: a 409 has a winner |
| | `RefinementTheorem` | `ImplementsLifecycle` |

None of these is inductive by itself: that a COMMIT keeps the
row and its history in step depends on what the transaction has in its buffer,
that on the guard it passed some statements ago, and that on nobody having
written the row since. `InFlight` says this, in four parts:

1. `SeenIsLegal`: a request in its transaction remembers a stage from which
   what it asks is legal, and an application that exists;
2. `LocksAreHeld`: from its guarded UPDATE to its COMMIT a request holds the
   lock of the application it writes, and every lock is held by such a request;
3. `GuardStillHolds`: while it holds the lock the guard it passed stays true,
   for only the holder of the lock changes the row;
4. `WritesSoFar`: its buffer is what the statement it is at says, field by
   field.

The proof that a step preserves them has one case per statement. From it
follows `TableStep`, which the rest stands on: as far as the four tables go a
step is one request's COMMIT, with everything known of it (`Publishes`), an
application's entry, or nothing. The further theorems add what they need and
look at these three cases:

- the history: the last history row is the application's row; the terminal
  theorem follows from part 3, for at a COMMIT the row is ACTIVE;
- skips and the audit log: what `legal` says of the stage the request saw, and
  that the two rows a COMMIT adds are of one event;
- the answers: `Honesty`, which says at each point of the handler whether its
  request has a row in the history (none up to its COMMIT, one from there to
  the answer), so that a 200 cannot be sent before and a refusal cannot be sent
  after; and that a row names the override of its own request or none;
- conflicts: `ReadStandsOrBeaten`, until its UPDATE a request's guard holds or a
  row of another request says why not;
- the refinement: in addition `SeenVisited`, the stage a request saw is one its
  application has been at. This is all an outcome has: its guard does not
  repeat the stage, which is why `Lifecycle` closes an application from any
  visited stage, and why `hired` is violated.

Of part 2 the proofs of a step need the first half alone, that a request in its
transaction holds its lock: `RequestsSafe` is `InFlight` without the second half,
which is no longer so once verdicts lock applications too. The lemmas are stated
about `RequestsSafe`, so that the next section can cite them.

The assumptions are those the modules name: `RequestsAssumption` and
`RepliesAssumption` in `Pipeline`, and `NullAssumption` of `PipelineTables`
(null is no transaction, no stage and no row).

### Verdicts

Every property the run `verdicts` checks but `NobodyStuck` is proved, for any
set of applications, rounds, requests and verdicts:

| Module | Theorem | States |
|---|---|---|
| `InterviewsProofs` | `VerdictsTheorem` | `[]IInv` |
| | `InterviewsTypeTheorem` | `[]InterviewsTypeOK` |
| | `VerdictAppliedTheorem` | `[]VerdictApplied` |
| | `HonestVerdictsTheorem` | `[]HonestVerdicts` |
| | `DecisionIsFinalTheorem` | `DecisionIsFinal` |
| | `HistoryBesideVerdictsTheorem` | `[]HistoryExplainsRow` |
| | `InterviewsRefinementTheorem` | `ImplementsLifecycle` |

A verdict writes a round and an application, and shares the second with the
recruiters' requests. `IInv` says what each side may rely on:

- `RequestsSafe`, as above: a verdict's step leaves it alone because it
  *spares* every other transaction (`Spares`: it touches neither the buffer of
  that transaction nor a row that transaction has locked), and `SafeIfSpared`
  says that this is enough. Requests spare verdicts in the same sense
  (`RequestsSpare`), so neither proof looks into the other's statements;
- `VerdictsAreDue`: from its claim a verdict holds its round, which is still
  SCHEDULED and undecided (`ClaimsAreHeld`), from its guarded update on it holds
  the application as that guard found it, and its buffer is what its statement
  says (`VerdictWrites`). This is what a COMMIT needs to be a move or a
  rejection of an ACTIVE application; a SELECTED verdict that moves nobody
  writes no application at all (`Moves`);
- `DecisionsAreOwn` and `AnswersAreTrue`: a decision names the verdict that was
  asked for that round, and a verdict has written history only if it is on its
  round. Before its COMMIT it has therefore no row anywhere, which is why the
  audit's `toStage` and its history agree;
- `RoundsHaveApplications`: a round is one of an application that exists, and
  is not made twice.

`CommittedWhole`, that a verdict is applied whole or not at all, is kept by
everybody else because all they do to an application is to add one row of their
own, and only while it is ACTIVE (`OthersWrite`): the last row of a rejected one
stays last.

The refinement needs in addition `SawVisited`, the stage a verdict saw is one its
application has been at: like an outcome, a rejection does not repeat the stage
in its guard. `SelectedHasBeenThere`, the other half of `VerdictApplied`, is kept
beside it: a verdict that moves nobody saw the round's stage, one that moves
writes it, and a history only grows (`NewlySelected`). `RefusalsHaveReasons`, the
other half of `HonestVerdicts`, needs no invariant beyond `IInv`: a round out of
SCHEDULED and a closed application stay so (`EndedStays`, `ClosedStays`). A COMMIT of a verdict is then `Advance` or `Close` of `Lifecycle`, the
requests' steps map as before, and the steps about rounds alone map to nothing.

To the assumptions of the pipeline come `RoundStagesAssumption`,
`VerdictsAssumption` (a verdict is a transaction and not a request) and
`InterviewsNull` (null is no row, no outcome and no refusal).

### Sessions

Every property the run `sessions` checks but `NobodyStuck` is proved, for any
set of addresses and of requests:

| Module | Theorem | States |
|---|---|---|
| `SessionsProofs` | `InvariantTheorem` | `[]IInv` |
| | `LiveTokenTheorem` | `[]OneLiveToken`: AC-B21 |
| | `RotationTheorem` | `[]RotatedOnce` |
| | `HonestyTheorem` | `[]HonestAnswers` |
| | `FamilyTheorem` | `[]FamilyEnds` |
| | `OtherSessionsTheorem` | `OtherSessionsUntouched` |

`OneLiveToken` is not inductive. A COMMIT replaces one live row by another, and
keeps it true only if the row it revokes is still live (`ClaimsHold`: from its
claim to its COMMIT a refresh has its row to itself, for a prune and an UPDATE
wait for it and a second claim misses) and its successor has no row yet; a login
keeps it true only if nothing carries its family yet. Both come from
`RowsAreMinted`: a row is inserted by the request it is named after, at a point
of its handler that it does not pass twice, in a family whose login is past its
INSERT. Around this:

- `RowsFrom`: a row after a step is the old one, untouched or revoked by a
  rotation of itself or by an UPDATE of its family, or it is new from a login
  or a rotation. Families and users of rows never change. Most of the rest
  looks at these cases and not at the statements;
- `FamiliesArePresented` and `FamiliesMatch`: the family a request is to revoke
  is that of its cookie, and so are the rows in its snapshot. This is
  `OtherSessionsUntouched`;
- `RotationsStand`: the token of a refresh past its COMMIT is spent, by nobody
  else. It stays spent because nothing un-revokes a row;
- `FamiliesEnd`: when the UPDATE runs, each live row of its family is in its
  snapshot, or a rotation has spent one that is (`Beaten`). The proof is that a
  started family has a new live row by a rotation alone (`LiveRowsFrom`). This
  is also why `FamilyEnds` carries its proviso: a logout beside a rotation of
  the same token can leave the successor live;
- `AccountsAreSigned`: the account of an address has the name of one sign-up,
  which is the one that was not refused.

The assumptions are `SessionNull`, `SessionScript` and `SessionReplies`: null
and the seed's name are nobody's.

### Panel, feedback and who is shown them

Every property the run `panel` checks is proved, for any number of rounds,
people and requests:

| Module | Theorem | States |
|---|---|---|
| `PanelProofs` | `PanelTheorem`, `AccessTheorem` | `[]IInv`, of the writers alone and with readers beside, there with `ReadIsOnRecord` |
| | `AlternatesTheorem` | `[]PanelAuditAlternates` |
| | `FeedbackToldTheorem` | `[]FeedbackAuditTold` |
| | `HonestyTheorem` | `[]HonestAnswers` |
| | `NoLostEditTheorem` | `NoLostEdit` |
| | `OnRecordTheorem` | `[]AnswersAreOnRecord` |

That the last entry about a seat is whether the row is there is kept by a COMMIT
only if what its request found when it wrote is still so. `IInv` adds this:

- `WritersAreAlone`: of one seat's row of one table there is one uncommitted
  write, which is what the row's lock and the unique index are for;
- `WritesAreDue`: an assignment about to commit finds no row, an unassignment
  finds one, a submission finds no assessment by somebody once assigned, an
  edit finds one. The requests that are not alone on a seat are on different
  tables, so a COMMIT disturbs nobody's;
- `EntriesAreOwn`, `CommitsAreRecorded` and `ToldIsSo` tie entries to requests
  that have committed and answers to entries;
- `AssessmentTold` is the part of `FeedbackAuditTold` about the row. The part
  about the edits, `EditsMoveOffTold`, is kept beside `IInv` with `SawIsTold`: the
  rating an edit read is one the audit tells, if no longer the last.

`StepCases` says what a step does to the rows: nothing, or the COMMIT of one
request, or the status of a round. `Frozen` is that entries stay what they
were, `LastWord` that the audit's last word about a seat is its row. The
readers need nothing else: `ReadIsOnRecord` says of the rows a read's first
statement returned that the audit said so then, it is kept because an audit
only grows, and the second statement is compared with the audit by `LastWord`.
For the total beside a page the counts have to be of finite sets, which is
`PanelIds`: an id is an Int column's. The other assumptions are `PanelNull` and
`PanelReplies`: null is nobody and no answer.

### Roles and applying

Every property the run `requisitions` checks but `NobodyStuck` is proved, for any
number of roles, candidates and requests:

| Module | Theorem | States |
|---|---|---|
| `RequisitionsProofs` | `RequisitionsTheorem` | `[]IInv` |
| | `NoDanglingTheorem` | `[]NoDanglingApplication` |
| | `HonestyTheorem` | `[]HonestAnswers` |
| | `NoLostTitleTheorem` | `NoLostTitle` |

No application outlives its role because of the foreign key, and that is a
matter of two locks: an INSERT that has checked its key holds the role's row in
key-share mode up to its COMMIT, and a DELETE holds it exclusively and looks for
applications when it has it. `LocksAreHeld` says who holds which of them at
which statement, `LocksExclude` that a key and a DELETE are never held
together and that what is locked exists, `WritesAreCurrent` that a DELETE about
to commit still has no application and an UPDATE wrote its patch of the row as
it still is (which is `NoLostTitle`). `OneOfAKind` is the unique index, of the
committed rows and of those in flight. `IdsAreUsedOnce` is needed for the
answer to a DELETE: the role is gone, and stays so, because its id is not
handed out again. The assumptions are `RequisitionNull`,
`RequisitionReplies` and `RequisitionIds` (ids are a finite set, so that a page
of roles has a length).

### Contact details

Both properties of the run `contacts` are proved, for any number of candidates,
fields and requests:

| Module | Theorem | States |
|---|---|---|
| `ContactsProofs` | `ContactsTheorem` | `[]IInv` |
| | `FieldsToldTheorem` | `[]AuditTellsFields` |
| | `HonestyTheorem` | `[]HonestAnswers` |

`AuditTellsFields` is nearly inductive: a COMMIT adds a request's values and
the entry that names it at once. Around it `EntriesAreOwn` says that an entry is
one of a request that has committed, with the fields it was asked for, and
`CommitsAreRecorded` and `SuccessesReturn` carry this over the read-back to the
answer: whatever was committed in between is behind the request's own entry.
The assumptions are `ContactsNull` and `ContactsReplies`.

### The two aggregates

Both properties of the run `reads` are proved, for any roles and any finite set
of applications:

| Module | Theorem | States |
|---|---|---|
| `DashboardProofs` | `NobodyDroppedTheorem` | `[]NobodyDropped` |
| | `BoardTheorem` | `[]BoardForgetsNobody` |
| | `DashboardTypeTheorem` | `[]DashboardTypeOK` |

Both say something of numbers, while what makes them true is who was counted.
`CountsSoFar` therefore keeps a set of applications behind each number: whoever
was in the total is, after the ACTIVE ones are counted, among those or closed,
and an application that is closed does not change (`LifeStep`), so the two
counts to come will find it; at the end three sets cover the total. `BoardSoFar`
does the same for the board: whoever stood when it was asked for has a role that
cannot be deleted (`RolesStand`, the foreign key), so it is on the list whenever
that is read, and each group lies between those who still stand and those who
might. The writers are steps of `Lifecycle`, which `RefinementTheorem` and
`InterviewsRefinementTheorem` show the real ones to be. The assumptions are
`RoleOfAssumption`, `DashboardNull` and `DashboardIds` (ids are a finite set, so
that a count is a number).

### The views of a timeline

All three properties of the run `timeline` are proved, for any applications,
rounds, recruiters' requests and verdicts:

| Module | Theorem | States |
|---|---|---|
| `InterviewsProofs` | `ReaderTheorem` | `[]TInv` |
| | `OutcomeHasItsRoundTheorem` | `[]OutcomeHasItsRound` |
| | `NeverRetractsTheorem` | `TimelineNeverRetracts` |
| | `RelationsCatchUpTheorem` | `[]RelationsCatchUp` |

A reader is beside the whole of `Interviews`, so the proof starts from what
the verdicts' theorems show of it (`World`): a closed application does not change,
which follows from the refinement of `Lifecycle` (`ClosedStays`); a verdict does
not change, and a new one that rejects finds its application ACTIVE
(`RoundStays`); histories only grow. `TInv` then says what an answer that is
behind may be behind in. A row that reads as closed is the row there is
(`HeadHolds`), so no rejection can follow it, and the rounds read after it have
every rejection (`RejectionsAreLoaded`, `OutcomeIsLast`): with the two SELECTs
the other way round this part fails, which is the mutant of the run. What a
timeline shows and is not pending is so for good, and each SELECT of a later
request brings it again (`NodesStand`). The row of a candidate page is a place
in the history read after it (`TrailHolds`), and a rejection among the rounds has
reached the application read after them (`RejectionHolds`).

### The seed

All three properties of the run `reseed` are proved, for any set of other
candidates, any titles of roles made by hand, and any number of runs and of
requests, from a new database and from a used one:

| Module | Theorem | States |
|---|---|---|
| `SeedProofs` | `Invariant` | `[]IInv` |
| | `TypesHold` | `[]TypeOK`: the types, and that no row names a row that has gone |
| | `Restores` | `[]ReseedRestores` |
| | `TraceHolds` | `[]TraceMatchesRows` |
| | `OthersAreLeft` | `OthersSurvive`: FR-10.4 |

The script's data are definitions, not constants: the theorems are about the
script as it is, its three roles and its two candidates' plans, in whatever
state it finds the database. The proof first works out what is awaited where
(`MainIs`, `ScriptIs`, `EveryPlace`): a candidate's turn is a run of places
after `start(c)`, the k-th of their transactions is `transactionAt(c, k)`. Of the
parts of `IInv`

- `Types`, `Keys`, `References` and `Histories` say what a database holds
  whatever the script is at. A deletion keeps `References` because of the
  cascades, an insertion because the id it names has been looked up in it;
- `Bounds` is that an id given out is above all there are, those that only an
  audit entry or the script's own list still names included. The model's ids
  have gaps, so each insertion has to be shown to use new ones (`NextIds`,
  `WrittenUses`, `WrittenIsApart`);
- `Places` says that what the script has collected to clear is the candidate's
  whose turn it is, and that outside a turn it has collected nothing. This is what
  `OthersSurvive` comes from, together with `Keys` (a row is one candidate's
  only, `TheirsAreNotHis`);
- `UnseenIsBeside`: what there is about a row of that candidate which it has
  *not* collected was written by a request that committed beside the
  script. The rows are collected in three SELECTs and deleted by a fourth
  statement that does not use the list, so a request may slip a row in between.
  `UnseenIsBeside` is why an entry that dangles after the DELETE was written
  beside, and is needed at each of the four places with another of the lists;
- `Traces` and `NoneDangles` are the property, sharpened so that it is inductive:
  a candidate's trace may be in pieces only until the DELETE of their turn
  has run, or when a run was stopped (`Unsettled`), and from their first
  transaction on it is whole again;
- `Progress`: a run that no request has committed beside has, at each place,
  done what the places before it say (`SoFar`): its accounts, roles and profile
  are there, and after the k-th transaction a candidate has exactly the first k of
  their planned applications (`Restored`). At the end this is `Baseline`, and it is also
  why such a run never fails: the role it looks up is there, its title stays that
  of the plan, and no application for it can be in the way.

A transaction of the script, and the used database of `Init`, are both put
together from tables that use different ids (`Together`, `Apart`). `Sound` tables that
are apart are sound together and stay traced as they were (`TogetherIsSound`,
`TogetherIsTraced`), so that the rows one transaction writes are looked at
once (`WrittenIs`), for the script and for the initial state. A request is shown
to leave the script where it is and to keep the ids and owners of all rows
(`RequestKeeps`), then what it adds is looked at by kind.

The assumptions are `SeedOthers` (other candidates are not the script's, a role
made by hand bears a title the script looks for) and `SeedNull` (null is no
role of a user).

**Only model-checked.** Liveness and `ENABLED` are beyond TLAPS here, so
`AllAnswered` and the three `NobodyStuck` invariants (of `Interviews`,
`Requisitions` and `Sessions`) stay with TLC; every other property of a passing
run is a theorem. Type invariants are stated
beside the variables and used by the proofs; no run spends a property on one.
What the proofs do not reach is the composition: each is of one module, with
the writers it has, and where a module takes another's transactions for
committed steps (`Dashboard` on `Lifecycle`, `Seed`'s requests) that this loses
nothing is argued in this file, and for `Lifecycle` proved.

## 5. Not modelled, and why

- **A recruiter's lists** of applications, rounds and candidates: a WHERE over
  committed rows with no scope, and a total with a snapshot of its own, the
  question `TotalIsOfThePage` and `TotalMatchesPage` ask of other pages. Filters
  and page boundaries are left out everywhere.
- **The users list**: one SELECT.
- **The audit list**: a page and its total, as above. The writers' audit rows
  are modelled with the writers.
- **Request guards** (`requireAuth`, `requireRole`, zod schemas): each looks at
  one request by itself. The models start from the bodies and actors
  these let through.
- **Dates, ages, titles, notes, wording, log lines, pagination, cookie
  attributes.** No guard modelled here reads them. Two rounds created in one millisecond have no order
  (`application.select.ts:71`): a timeline is a set here.
- **Shutdown.** `server.ts` disconnects while requests may be in flight; to a
  request that is a failure at whatever statement it awaits, which every model
  has.

- **What a reseed does not restore.** The comment at `seed.ts:28` promises the
  baseline of the demo accounts. A seeded role that exists is skipped, so a
  status a recruiter gave it stays, and so does a profile made by hand for a
  candidate the script has no profile for; no property asks for either.

## 6. Plan

Done, in this order: pipeline rules and tables, pipeline writes with their
abstract specification, verdicts on top of them, the proofs of the pipeline
writes; roles and applying; panel and feedback; sessions; contacts; the readers;
then the seed, the interviewer's reads, the three views of a timeline, sign-up
beside login, and the proofs of the sessions; the proofs of contacts, of roles and
applying, of the panel and its readers, of verdicts beside the pipeline, of the
two aggregates, of the views of a timeline and of the seed.

Next, the model:

1. A composition of `Requisitions` and `Pipeline`: a role deleted while its
   application is closed, and what the board shows of it.
2. A run in which an override brings an application back to a stage an earlier
   reader had seen (the guard on the stage passes again).
3. A second script beside the first: two deployments that seed at once.

Next, the proofs: the theorems of a composed model of 1, from those of its
parts; that the real interleaving of two scripts (3) keeps `OthersSurvive`, whose
proof uses that the list of what is doomed is one script's.

## 7. Running

    tlc -workers 2 -config MCPipeline_race.cfg MCPipeline
    tlapm PipelineProofs.tla
    tlapm InterviewsProofs.tla
    tlapm PanelProofs.tla
    tlapm RequisitionsProofs.tla
    tlapm ContactsProofs.tla
    tlapm SessionsProofs.tla
    tlapm DashboardProofs.tla
    tlapm SeedProofs.tla

The largest runs, `panel` and `timeline`, have about four million states each
and take some two minutes.
