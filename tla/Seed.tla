---------------------------------- MODULE Seed ---------------------------------
(***************************************************************************)
(* Seeding and reseeding the demo database (prisma/seed.ts): a script of   *)
(* statements that each commit by themselves, one transaction per          *)
(* application, which an operator may run again after it completed, failed *)
(* or was killed anywhere, beside recruiters, interviewers and candidates  *)
(* who use the rows it resets.                                             *)
(*                                                                         *)
(* One process at a time runs the script.  A request is one step, its      *)
(* COMMIT: nobody sees its writes before, and the script's DELETE waits    *)
(* for the row locks of one that has not committed.                        *)
(***************************************************************************)
EXTENDS Naturals, Sequences, FiniteSets, SequencesExt

CONSTANTS
  OtherCandidates,  \* a candidate the script does not name
  HandTitles,       \* titles of the roles recruiters create, of the script's
  MaxRuns,          \* bound: how often the operator runs the script
  MaxRequests,      \* bound: how many requests commit
  Null

-----------------------------------------------------------------------------
(***************************************************************************)
(* What the script writes.  A role is known by its title, since ids change *)
(* from run to run; descriptions, dates, ratings and notes are left out.   *)
(***************************************************************************)
SeedAccounts == <<"recruiter", "interviewer1", "interviewer2", "candidate", "candidate2">>
seedRole ==
  [recruiter |-> "RECRUITER", interviewer1 |-> "INTERVIEWER", interviewer2 |-> "INTERVIEWER",
   candidate |-> "CANDIDATE", candidate2 |-> "CANDIDATE"]

SeedRoles ==
  <<[title |-> "Backend", status |-> "OPEN"], [title |-> "Designer", status |-> "OPEN"],
    [title |-> "Manager", status |-> "CLOSED"]>>

\* A StageHistory row: where it left the application, and whether through an
\* override.
HistoryRow(stage, status, overridden) ==
  [stage |-> stage, status |-> status, overridden |-> overridden]
EntryRow == HistoryRow("APPLIED", "ACTIVE", FALSE)

SeedApplications ==
  <<[title |-> "Backend", status |-> "ACTIVE", stage |-> "INTERVIEW"],
    [title |-> "Designer", status |-> "ACTIVE", stage |-> "APPLIED"],
    [title |-> "Manager", status |-> "REJECTED", stage |-> "SCREEN"]>>

SeedTimelines ==
  [Backend  |-> <<HistoryRow("SCREEN", "ACTIVE", FALSE), HistoryRow("INTERVIEW", "ACTIVE", FALSE)>>,
   Designer |-> <<>>,
   Manager  |-> <<HistoryRow("SCREEN", "ACTIVE", TRUE), HistoryRow("SCREEN", "REJECTED", FALSE)>>]

Round(title, panel, authors) == [title |-> title, panel |-> panel, authors |-> authors]
SeedInterviews ==
  <<Round("Backend", {"interviewer1", "interviewer2"}, {"interviewer1"}),
    Round("Designer", {"interviewer1"}, {})>>

SeedOtherApplications == <<[title |-> "Manager", status |-> "ACTIVE", stage |-> "APPLIED"]>>
NoTimelines == [Backend |-> <<>>, Designer |-> <<>>, Manager |-> <<>>]

SeedCandidates ==
  [candidate  |-> [profile |-> TRUE, applications |-> SeedApplications,
                   timelines |-> SeedTimelines, interviews |-> SeedInterviews],
   candidate2 |-> [profile |-> FALSE, applications |-> SeedOtherApplications,
                   timelines |-> NoTimelines, interviews |-> <<>>]]

\* main() and seedCandidateApplications: the statements they await, in order.
Statement(do, of, title) == [do |-> do, of |-> of, title |-> title]

\* A loop that awaits two statements for each of its rows.
TwoForEach(rows, of, first, second) ==
  [n \in 1 .. 2 * Len(rows) |->
     Statement(IF n % 2 = 1 THEN first ELSE second, of, rows[(n + 1) \div 2].title)]

seedRoles == TwoForEach(SeedRoles, Null, "findRole", "createRole")

seedCandidateApplications(c) ==
  <<Statement("findApplications", c, Null), Statement("findInterviews", c, Null),
    Statement("findFeedback", c, Null), Statement("deleteAudit", c, Null),
    Statement("deleteApplications", c, Null)>>
    \o TwoForEach(SeedCandidates[c].applications, c, "findRoleOf", "transaction")

seedCandidate(c) ==
  <<Statement("findCandidate", c, Null)>>
    \o (IF SeedCandidates[c].profile THEN <<Statement("upsertProfile", c, Null)>> ELSE <<>>)
    \o seedCandidateApplications(c)

main ==
  [n \in 1 .. Len(SeedAccounts) |-> Statement("upsertUser", SeedAccounts[n], Null)]
    \o seedRoles \o <<Statement("findPeople", Null, Null)>>
    \o seedCandidate("candidate") \o seedCandidate("candidate2")

-----------------------------------------------------------------------------
Titles == {SeedRoles[n].title : n \in 1 .. Len(SeedRoles)}
Seeded == DOMAIN SeedCandidates
Candidates == Seeded \cup OtherCandidates
Interviewers == {u \in DOMAIN seedRole : seedRole[u] = "INTERVIEWER"}

ASSUME SeedOthers == OtherCandidates \cap Seeded = {} /\ HandTitles \subseteq Titles
ASSUME SeedNull == Null \notin {"RECRUITER", "INTERVIEWER", "CANDIDATE"}

VARIABLES
  account,      \* the role of a user by email, Null before there is one
  profile,      \* a seeded candidate's contact details: Null, "seeded" or "patched"
  role,         \* Role rows
  application,  \* Application rows, each with its StageHistory rows
  interview,    \* Interview rows, each with its panel
  feedback,     \* Feedback rows
  auditLog,     \* AuditLog rows about applications, rounds and assessments
  run,          \* how the last run of the script stands
  at,           \* the statement of main it is at
  found,        \* the role id its last lookup returned
  doomed,       \* the ids it has collected to clear
  runs, requests,
  disturbed     \* whether a request has committed since that run began

database == <<account, profile, role, application, interview, feedback, auditLog>>
script == <<run, at, found, doomed, runs>>
vars == <<database, script, requests, disturbed>>

\* by is the model's note of the writer: the script, a request, or a request
\* that committed while the script was running.
AuditRow(type, id, action, about, by) ==
  [entityType |-> type, entityId |-> id, action |-> action, about |-> about, by |-> by]

ids(rows) == {row.id : row \in rows}
named(type) == {entry.entityId : entry \in {e \in auditLog : e.entityType = type}}
\* The last id given out that anything still refers to; later ones are as good
\* as new.
lastId(used) == Max(used \cup {0})
lastApplication == lastId(ids(application) \cup named("APPLICATION") \cup doomed.applications)
lastInterview == lastId(ids(interview) \cup named("INTERVIEW") \cup doomed.interviews)
lastFeedback == lastId(ids(feedback) \cup named("FEEDBACK") \cup doomed.feedback)
lastRole == lastId(ids(role) \cup {found})

applicationsOf(c) == {a \in application : a.candidate = c}
roundsOf(as) == {i \in interview : i.app \in as}
feedbackOf(is) == {f \in feedback : f.round \in is}

-----------------------------------------------------------------------------
planned(c, title) ==
  CHOOSE plan \in ToSet(SeedCandidates[c].applications) : plan.title = title
plannedRounds(c, title) ==
  {n \in DOMAIN SeedCandidates[c].interviews : SeedCandidates[c].interviews[n].title = title}
plannedHistory(c, title) == <<EntryRow>> \o SeedCandidates[c].timelines[title]

\* What an audit entry says of a history row, of a round and its panel.
told(row) == IF row.status = "ACTIVE" THEN row.stage ELSE row.status
AuditOfHistory(id, rows, by) ==
  {AuditRow("APPLICATION", id, told(row), Null, by) : row \in ToSet(rows)}
AuditOfRound(id, panel, by) ==
  {AuditRow("INTERVIEW", id, "INTERVIEW_CREATED", Null, by)}
    \cup {AuditRow("INTERVIEW", id, "INTERVIEWER_ASSIGNED", u, by) : u \in panel}

\* The assessments of a round: the places its authors have among the accounts.
seats(c, title) ==
  {k \in plannedRounds(c, title) \X DOMAIN SeedAccounts :
     SeedAccounts[k[2]] \in SeedCandidates[c].interviews[k[1]].authors}

\* The rows of one transaction of the script; its rounds and its assessments
\* are numbered after the two last ids, with gaps.
Written(c, title, roleId, app, round, assessment) ==
  LET panel(n) == SeedCandidates[c].interviews[n].panel
      assessmentId(k) == assessment + Len(SeedAccounts) * (k[1] - 1) + k[2]
  IN  [application |->
         {[id |-> app, candidate |-> c, role |-> roleId, status |-> planned(c, title).status,
           stage |-> planned(c, title).stage, history |-> plannedHistory(c, title)]},
       interview |->
         {[id |-> round + n, app |-> app, panel |-> panel(n)] : n \in plannedRounds(c, title)},
       feedback |->
         {[id |-> assessmentId(k), round |-> round + k[1], author |-> SeedAccounts[k[2]]]
            : k \in seats(c, title)},
       auditLog |->
         AuditOfHistory(app, SeedCandidates[c].timelines[title], "script")
           \cup (UNION {AuditOfRound(round + n, panel(n), "script") : n \in plannedRounds(c, title)})
           \cup {AuditRow("FEEDBACK", assessmentId(k), "FEEDBACK_SUBMITTED", Null, "script")
                   : k \in seats(c, title)}]

NothingDoomed == [applications |-> {}, interviews |-> {}, feedback |-> {}]

\* What requests may have made of another candidate: one application, its
\* round, a panel of one and the assessment.
ByHand(c, id) ==
  LET panellist == CHOOSE u \in Interviewers : TRUE
  IN  [application |-> {[id |-> id, candidate |-> c, role |-> 1, status |-> "ACTIVE",
                         stage |-> "APPLIED", history |-> <<EntryRow>>]},
       interview |-> {[id |-> id, app |-> id, panel |-> {panellist}]},
       feedback |-> {[id |-> id, round |-> id, author |-> panellist]},
       auditLog |-> AuditOfRound(id, {panellist}, "request")
                      \cup {AuditRow("FEEDBACK", id, "FEEDBACK_SUBMITTED", Null, "request")}]

\* A database nobody has used,
Blank ==
  /\ account = [u \in DOMAIN seedRole |-> Null]
  /\ profile = [c \in Seeded |-> Null]
  /\ role = {} /\ application = {} /\ interview = {} /\ feedback = {} /\ auditLog = {}

\* or one that was seeded before and used since, by another candidate too.
SeededBefore == \E other \in OtherCandidates :
  LET roles == [n \in 1 .. Len(SeedRoles) |-> SeedRoles[n].title]
      made == {x \in Seeded \X (1 .. Len(roles)) :
                 \E plan \in ToSet(SeedCandidates[x[1]].applications) : plan.title = roles[x[2]]}
      number(c, n) == IF c = "candidate" THEN n ELSE Len(roles) + n
      seeded == {Written(x[1], roles[x[2]], x[2], number(x[1], x[2]), x[2], x[2]) : x \in made}
      rows == seeded \cup {ByHand(other, 2 * Len(roles) + 1)}
  IN  /\ account = seedRole
      /\ profile = [c \in Seeded |-> IF SeedCandidates[c].profile THEN "seeded" ELSE Null]
      /\ role = {[id |-> n, title |-> roles[n], status |-> SeedRoles[n].status] : n \in 1 .. Len(roles)}
      /\ application = UNION {new.application : new \in rows}
      /\ interview = UNION {new.interview : new \in rows}
      /\ feedback = UNION {new.feedback : new \in rows}
      /\ auditLog = UNION {new.auditLog : new \in rows}

Init ==
  /\ Blank \/ SeededBefore
  /\ run = "never" /\ at = 0 /\ found = 0 /\ doomed = NothingDoomed
  /\ runs = 0 /\ requests = 0 /\ disturbed = FALSE

-----------------------------------------------------------------------------
(***************************************************************************)
(* The script.                                                             *)
(***************************************************************************)
statement == main[at]
Awaits(do) == run = "running" /\ at <= Len(main) /\ statement.do = do
Goto(n) == at' = n /\ UNCHANGED <<run, runs, requests, disturbed>>
Then == Goto(at + 1)

\* The process ends, however: nothing it held in memory is there for the next.
End(how) ==
  /\ run' = how /\ at' = 0 /\ found' = 0 /\ doomed' = NothingDoomed
  /\ UNCHANGED <<database, runs, requests, disturbed>>

\* What a statement leaves alone.
Keeps(rest) == UNCHANGED <<found, doomed>> /\ UNCHANGED rest

UpsertUser ==
  /\ Awaits("upsertUser")
  /\ account' = [account EXCEPT ![statement.of] = seedRole[statement.of]]
  /\ Then /\ Keeps(<<profile, role, application, interview, feedback, auditLog>>)

\* A title that is there, of a role of whatever status, is left as it is.
FindRole ==
  /\ Awaits("findRole")
  /\ Goto(IF \E r \in role : r.title = statement.title THEN at + 2 ELSE at + 1)
  /\ Keeps(database)

CreateRole ==
  /\ Awaits("createRole")
  /\ \E seed \in ToSet(SeedRoles) :
       /\ seed.title = statement.title
       /\ role' = role \cup {[id |-> lastRole + 1, title |-> seed.title, status |-> seed.status]}
  /\ Then /\ Keeps(<<account, profile, application, interview, feedback, auditLog>>)

\* The audit actor and the panels' members, looked up by email and role.
peopleFound == account["recruiter"] # Null /\ \A u \in Interviewers : account[u] = "INTERVIEWER"
\* The script would write no assessment from outside the panel.
authorsOnPanels ==
  \A c \in Seeded : \A round \in ToSet(SeedCandidates[c].interviews) : round.authors \subseteq round.panel

FindPeople ==
  /\ Awaits("findPeople")
  /\ IF peopleFound /\ authorsOnPanels THEN Then /\ Keeps(database) ELSE End("failed")

FindCandidate ==
  /\ Awaits("findCandidate")
  /\ IF account[statement.of] # Null THEN Then /\ Keeps(database) ELSE End("failed")

UpsertProfile ==
  /\ Awaits("upsertProfile")
  /\ profile' = [profile EXCEPT ![statement.of] = "seeded"]
  /\ Then /\ Keeps(<<account, role, application, interview, feedback, auditLog>>)

\* Mutant: reset what the script is about to write, and nothing else.
resetOfPlanned(c) ==
  {a \in applicationsOf(c) : \E r \in role, n \in 1 .. Len(SeedCandidates[c].applications) :
     r.id = a.role /\ r.title = SeedCandidates[c].applications[n].title}

\* Every application of the candidate, whoever made it.
reset(c) == applicationsOf(c)

\* With no application there is no audit row to clear.
FindApplications ==
  /\ Awaits("findApplications")
  /\ doomed' = [doomed EXCEPT !.applications = ids(reset(statement.of))]
  /\ Goto(IF doomed'.applications = {} THEN at + 4 ELSE at + 1)
  /\ UNCHANGED <<database, found>>

FindInterviews ==
  /\ Awaits("findInterviews")
  /\ doomed' = [doomed EXCEPT !.interviews = ids(roundsOf(doomed.applications))]
  /\ Then /\ UNCHANGED <<database, found>>

FindFeedback ==
  /\ Awaits("findFeedback")
  /\ doomed' = [doomed EXCEPT !.feedback = ids(feedbackOf(doomed.interviews))]
  /\ Then /\ UNCHANGED <<database, found>>

\* Mutants: the feedback's entries forgotten; the applications' entries
\* cleared wholesale.
clearedButFeedback(entry) ==
  \/ entry.entityType = "APPLICATION" /\ entry.entityId \in doomed.applications
  \/ entry.entityType = "INTERVIEW" /\ entry.entityId \in doomed.interviews
clearedWholesale(entry) == entry.entityType = "APPLICATION" \/ clearedButFeedback(entry)

\* By the ids collected: an audit row has no foreign key to cascade by.
cleared(entry) ==
  \/ entry.entityType = "APPLICATION" /\ entry.entityId \in doomed.applications
  \/ entry.entityType = "INTERVIEW" /\ entry.entityId \in doomed.interviews
  \/ entry.entityType = "FEEDBACK" /\ entry.entityId \in doomed.feedback

DeleteAudit ==
  /\ Awaits("deleteAudit")
  /\ auditLog' = {entry \in auditLog : ~cleared(entry)}
  /\ doomed' = NothingDoomed
  /\ Then /\ UNCHANGED <<account, profile, role, application, interview, feedback, found>>

\* By candidate and not by the ids collected; the history goes with the row,
\* the rounds with their application, the assessments with their round.
DeleteApplications ==
  /\ Awaits("deleteApplications")
  /\ LET gone == ids(reset(statement.of))
         over == ids(roundsOf(gone))
     IN  /\ application' = {a \in application : a.id \notin gone}
         /\ interview' = {i \in interview : i.id \notin over}
         /\ feedback' = {f \in feedback : f.round \notin over}
  /\ Then /\ Keeps(<<account, profile, role, auditLog>>)

\* Any role of the title: the lookup has no order, and titles may repeat.
FindRoleOf ==
  /\ Awaits("findRoleOf")
  /\ LET match == {r \in role : r.title = statement.title}
     IN  IF match = {} THEN End("failed")
         ELSE /\ found' \in ids(match)
              /\ Then /\ UNCHANGED <<database, doomed>>

mayInsert(c, roleId) ==
  roleId \in ids(role) /\ ~\E a \in applicationsOf(c) : a.role = roleId

\* One application with all that hangs off it, committed as one.
CreateApplication(c, title) ==
  LET new == Written(c, title, found, lastApplication + 1, lastInterview, lastFeedback)
  IN  /\ application' = application \cup new.application
      /\ interview' = interview \cup new.interview
      /\ feedback' = feedback \cup new.feedback
      /\ auditLog' = auditLog \cup new.auditLog

\* P2003 when the role has gone, P2002 when the candidate has applied meanwhile.
Transaction ==
  /\ Awaits("transaction")
  /\ IF mayInsert(statement.of, found)
     THEN /\ CreateApplication(statement.of, statement.title)
          /\ found' = 0
          /\ Then /\ UNCHANGED <<account, profile, role, doomed>>
     ELSE End("failed")

Complete == run = "running" /\ at = Len(main) + 1 /\ End("complete")

\* Killed, or a statement throws: what has committed stays.
Crash == run = "running" /\ End("crashed")

\* The operator runs the script, for the first time or again.
Run ==
  /\ run # "running" /\ runs < MaxRuns
  /\ run' = "running" /\ at' = 1 /\ runs' = runs + 1 /\ disturbed' = FALSE
  /\ UNCHANGED <<database, found, doomed, requests>>

-----------------------------------------------------------------------------
(***************************************************************************)
(* The requests, one committed transaction each; their own modules have    *)
(* the statements.                                                         *)
(***************************************************************************)
by == IF run = "running" THEN "beside" ELSE "request"

Request ==
  /\ requests < MaxRequests
  /\ requests' = requests + 1 /\ disturbed' = TRUE
  /\ UNCHANGED script

signup(u) ==
  /\ account[u] = Null
  /\ account' = [account EXCEPT ![u] = "CANDIDATE"]
  /\ UNCHANGED <<profile, role, application, interview, feedback, auditLog>>

updateCandidateContact(c) ==
  /\ account[c] = "CANDIDATE"
  /\ profile' = [profile EXCEPT ![c] = "patched"]
  /\ UNCHANGED <<account, role, application, interview, feedback, auditLog>>

createRole(title) ==
  /\ role' = role \cup {[id |-> lastRole + 1, title |-> title, status |-> "OPEN"]}
  /\ UNCHANGED <<account, profile, application, interview, feedback, auditLog>>

updateRole(r, status) ==
  /\ r.status # status
  /\ role' = (role \ {r}) \cup {[r EXCEPT !.status = status]}
  /\ UNCHANGED <<account, profile, application, interview, feedback, auditLog>>

\* Refused by the foreign key while an application names the role.
deleteRole(r) ==
  /\ r.status = "CLOSED" /\ ~\E a \in application : a.role = r.id
  /\ role' = role \ {r}
  /\ UNCHANGED <<account, profile, application, interview, feedback, auditLog>>

createApplication(c, r) ==
  /\ c \in Seeded => account[c] = "CANDIDATE"
  /\ r.status = "OPEN" /\ mayInsert(c, r.id)
  /\ application' = application \cup
       {[id |-> lastApplication + 1, candidate |-> c, role |-> r.id, status |-> "ACTIVE",
         stage |-> "APPLIED", history |-> <<EntryRow>>]}
  /\ UNCHANGED <<account, profile, role, interview, feedback, auditLog>>

\* The row, its history and its entry; an override or an outcome writes the
\* same rows to another stage or status.
Onward == [APPLIED |-> "SCREEN", SCREEN |-> "INTERVIEW", INTERVIEW |-> "OFFER"]

changeStage(a) ==
  /\ a.status = "ACTIVE" /\ a.stage \in DOMAIN Onward
  /\ LET row == HistoryRow(Onward[a.stage], "ACTIVE", FALSE)
     IN  /\ application' = (application \ {a}) \cup
              {[a EXCEPT !.stage = row.stage, !.history = Append(@, row)]}
         /\ auditLog' = auditLog \cup AuditOfHistory(a.id, <<row>>, by)
  /\ UNCHANGED <<account, profile, role, interview, feedback>>

createInterview(a) ==
  /\ a.status = "ACTIVE"
  /\ interview' = interview \cup {[id |-> lastInterview + 1, app |-> a.id, panel |-> {}]}
  /\ auditLog' = auditLog \cup AuditOfRound(lastInterview + 1, {}, by)
  /\ UNCHANGED <<account, profile, role, application, feedback>>

assignInterviewer(i, u) ==
  /\ account[u] = "INTERVIEWER" /\ u \notin i.panel
  /\ interview' = (interview \ {i}) \cup {[i EXCEPT !.panel = @ \cup {u}]}
  /\ auditLog' = auditLog \cup {AuditRow("INTERVIEW", i.id, "INTERVIEWER_ASSIGNED", u, by)}
  /\ UNCHANGED <<account, profile, role, application, feedback>>

submitFeedback(i, u) ==
  /\ u \in i.panel /\ ~\E f \in feedback : f.round = i.id /\ f.author = u
  /\ feedback' = feedback \cup {[id |-> lastFeedback + 1, round |-> i.id, author |-> u]}
  /\ auditLog' = auditLog \cup {AuditRow("FEEDBACK", lastFeedback + 1, "FEEDBACK_SUBMITTED", Null, by)}
  /\ UNCHANGED <<account, profile, role, application, interview>>

Requests ==
  \/ \E u \in DOMAIN account : signup(u)
  \/ \E c \in Seeded : updateCandidateContact(c)
  \/ \E title \in HandTitles : createRole(title)
  \/ \E r \in role, status \in {"OPEN", "CLOSED"} : updateRole(r, status)
  \/ \E r \in role : deleteRole(r)
  \/ \E c \in Candidates, r \in role : createApplication(c, r)
  \/ \E a \in application : changeStage(a) \/ createInterview(a)
  \/ \E i \in interview, u \in Interviewers : assignInterviewer(i, u)
  \/ \E i \in interview, u \in Interviewers : submitFeedback(i, u)

-----------------------------------------------------------------------------
Seeding ==
  \/ UpsertUser \/ FindRole \/ CreateRole \/ FindPeople \/ FindCandidate \/ UpsertProfile
  \/ FindApplications \/ FindInterviews \/ FindFeedback \/ DeleteAudit \/ DeleteApplications
  \/ FindRoleOf \/ Transaction \/ Complete

Idle == run # "running" /\ runs = MaxRuns /\ requests = MaxRequests /\ UNCHANGED vars

Next == Seeding \/ Crash \/ Run \/ (Request /\ Requests) \/ Idle

Spec == Init /\ [][Next]_vars

-----------------------------------------------------------------------------
TypeOK ==
  /\ account \in [DOMAIN seedRole -> {"RECRUITER", "INTERVIEWER", "CANDIDATE", Null}]
  /\ profile \in [Seeded -> {Null, "seeded", "patched"}]
  /\ \A a \in application : a.candidate \in Candidates /\ a.role \in ids(role)
  /\ \A i \in interview : i.app \in ids(application)
  /\ \A f \in feedback : f.round \in ids(interview)
  /\ run \in {"never", "running", "complete", "failed", "crashed"}
  /\ at \in 0 .. Len(main) + 1

titleOf(a) == (CHOOSE r \in role : r.id = a.role).title
asPlanned(a) ==
  /\ a.history = plannedHistory(a.candidate, titleOf(a))
  /\ a.stage = planned(a.candidate, titleOf(a)).stage
  /\ a.status = planned(a.candidate, titleOf(a)).status
  /\ {<<i.panel, {f.author : f \in feedbackOf({i.id})}>> : i \in roundsOf({a.id})}
       = {<<SeedCandidates[a.candidate].interviews[n].panel,
            SeedCandidates[a.candidate].interviews[n].authors>> : n \in plannedRounds(a.candidate, titleOf(a))}

\* The data a demo starts from.
Baseline ==
  /\ account = seedRole
  /\ Titles \subseteq {r.title : r \in role}
  /\ \A c \in Seeded :
       /\ SeedCandidates[c].profile => profile[c] = "seeded"
       /\ {titleOf(a) : a \in applicationsOf(c)}
            = {plan.title : plan \in ToSet(SeedCandidates[c].applications)}
       /\ Cardinality(applicationsOf(c)) = Len(SeedCandidates[c].applications)
       /\ \A a \in applicationsOf(c) : asPlanned(a)

\* "Re-running it restores the baseline": whatever earlier runs were stopped
\* half-way and whatever requests have made of the rows before, a run no
\* request commits beside never fails, and when it completes the accounts, the
\* applications, their histories, rounds, panels and assessments are the
\* planned ones and no others (main).
ReseedRestores == ~disturbed => run # "failed" /\ (run = "complete" => Baseline)

entriesOf(type, id) ==
  {<<e.action, e.about>> : e \in {x \in auditLog : x.entityType = type /\ x.entityId = id}}
roundTraced(i) ==
  entriesOf("INTERVIEW", i.id) =
    {<<"INTERVIEW_CREATED", Null>>} \cup {<<"INTERVIEWER_ASSIGNED", u>> : u \in i.panel}
traced(a) ==
  /\ entriesOf("APPLICATION", a.id) = {<<told(row), Null>> : row \in ToSet(Tail(a.history))}
  /\ \A i \in roundsOf({a.id}) :
       roundTraced(i) /\ \A f \in feedbackOf({i.id}) : entriesOf("FEEDBACK", f.id) # {}

exists(entry) ==
  CASE entry.entityType = "APPLICATION" -> entry.entityId \in ids(application)
    [] entry.entityType = "INTERVIEW"   -> entry.entityId \in ids(interview)
    [] entry.entityType = "FEEDBACK"    -> entry.entityId \in ids(feedback)

\* "Half a history is the exact state the feature exists to make impossible":
\* at every instant the last history row of an application is its stage and
\* status; its audit, and that of its rounds and their assessments, tells the
\* same, except for a seeded candidate's while a run that has cleared it is
\* going or has been stopped; and an audit row that outlives what it is about
\* was written by a request that committed beside the script.
TraceMatchesRows ==
  /\ \A a \in application :
       /\ Last(a.history).stage = a.stage /\ Last(a.history).status = a.status
       /\ traced(a) \/ (a.candidate \in Seeded /\ run \in {"running", "failed", "crashed"})
  /\ \A entry \in auditLog : exists(entry) \/ entry.by = "beside"

theirs == {a \in application : a.candidate \in OtherCandidates}
theirRounds == roundsOf(ids(theirs))
theirFeedback == feedbackOf(ids(theirRounds))
aboutOthers(entry) ==
  \/ entry.entityType = "APPLICATION" /\ entry.entityId \in ids(theirs)
  \/ entry.entityType = "INTERVIEW" /\ entry.entityId \in ids(theirRounds)
  \/ entry.entityType = "FEEDBACK" /\ entry.entityId \in ids(theirFeedback)

\* "A hand-created candidate's applications survive a reseed" (FR-10.4), with
\* every row and every audit entry there is about them.
OthersSurvive ==
  [][/\ ids(theirs) \subseteq ids(application')
     /\ ids(theirRounds) \subseteq ids(interview') /\ ids(theirFeedback) \subseteq ids(feedback')
     /\ \A entry \in auditLog : aboutOthers(entry) => entry \in auditLog']_vars

\* seed.ts:335-337, of the ids whose audit is cleared: "so a reseed cannot
\* erase a trace this seed did not write".  It clears all there is about the
\* seeded candidates' applications, a recruiter's entries included.
RequestTraceSurvives ==
  [][\A entry \in auditLog : entry.by # "script" => entry \in auditLog']_vars
================================================================================
