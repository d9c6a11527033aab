------------------------------- MODULE Timeline -------------------------------
(***************************************************************************)
(* What a candidate and a recruiter are shown of one application, read     *)
(* while verdicts, round PATCHes and recruiters' writes go on:             *)
(*                                                                         *)
(*   timeline  the timeline of applications.service.ts and timeline.ts     *)
(*   detail    the application on the recruiter's candidate page, with its *)
(*             history and rounds (candidate.select.ts)                    *)
(*   round     the rounds of an application, each with the application's   *)
(*             stage and status (interview.select.ts)                      *)
(*                                                                         *)
(* Each is one Prisma call outside a transaction with a nested select,     *)
(* which Prisma sends as one SELECT for the rows it finds and one for each *)
(* relation, each with a snapshot of its own: the row first, whatever      *)
(* hangs off it after it, in any order.                                    *)
(*                                                                         *)
(* A timeline is the set of its nodes.  Their order (the application, its  *)
(* rounds by creation, the outcome), dates and round types are left out,   *)
(* and so are the panels and assessments on the candidate page.            *)
(***************************************************************************)
EXTENDS Interviews

VARIABLES
  kind,     \* what the reader asks for
  reading,  \* the application the reader watches
  head,     \* the Application row of a read under way, Null when there is none
  rounds,   \* its Interview rows, by id
  trail,    \* its StageHistory rows
  loaded,   \* the SELECTs it has back
  timeline  \* the nodes of the last timeline, {} before the first

readerVars == <<kind, reading, head, rounds, trail, loaded, timeline>>
timelineVars == <<allVars, readerVars>>

\* The tables each select reaches.
Tables ==
  [timeline |-> {"application", "interviews"},
   detail   |-> {"application", "stageHistory", "interviews"},
   round    |-> {"interviews", "application"}]

NoRounds == [i \in Rounds |-> Null]

TimelineInit ==
  /\ InterviewsInit
  /\ kind \in DOMAIN Tables
  /\ reading \in Apps
  /\ head = Null /\ rounds = NoRounds /\ trail = <<>> /\ loaded = {}
  /\ timeline = {}

-----------------------------------------------------------------------------
stateOf(outcome) ==
  CASE outcome = Null       -> "PENDING"
    [] outcome = "SELECTED" -> "PASSED"
    [] outcome = "REJECTED" -> "REJECTED"

\* A cancelled round did not happen.
shown(round) == round # Null /\ round.status # "CANCELLED"

Node(what, round, state) == [kind |-> what, round |-> round, state |-> state]

buildTimeline(application_, interviews) ==
  {Node("APPLIED", Null, "PASSED")}
    \cup {Node("ROUND", i, stateOf(interviews[i].outcome)) : i \in {j \in Rounds : shown(interviews[j])}}
    \cup (IF application_.status # "ACTIVE"
          THEN {Node("OUTCOME", Null, IF application_.status = "HIRED" THEN "PASSED" ELSE "REJECTED")}
          ELSE {})

-----------------------------------------------------------------------------
\* Mutants: the rounds before the application they hang off; the application
\* before the rounds that name it.
interviewsRoot == "interviews"
applicationRoot == "application"

\* The rows a call finds, prisma.application.findUnique or (with the user it is
\* nested under) prisma.user.findFirst, and prisma.interview.findMany; the
\* relations follow.
foundByApplication == "application"
foundByRounds == "interviews"
first == IF kind = "round" THEN foundByRounds ELSE foundByApplication

\* An application that is not there is a 404, which changes nothing here.
mayRead(table) ==
  /\ application[reading] # Null
  /\ table \in Tables[kind] \ loaded
  /\ table # first => first \in loaded

ReadApplicationRow ==
  /\ mayRead("application")
  /\ head' = application[reading]
  /\ loaded' = loaded \cup {"application"}
  /\ UNCHANGED <<allVars, kind, reading, rounds, trail, timeline>>

ReadInterviewRows ==
  /\ mayRead("interviews")
  /\ rounds' = [i \in Rounds |-> IF interview[i] # Null /\ interview[i].app = reading
                                 THEN interview[i] ELSE Null]
  /\ loaded' = loaded \cup {"interviews"}
  /\ UNCHANGED <<allVars, kind, reading, head, trail, timeline>>

ReadHistoryRows ==
  /\ mayRead("stageHistory")
  /\ trail' = stageHistory[reading]
  /\ loaded' = loaded \cup {"stageHistory"}
  /\ UNCHANGED <<allVars, kind, reading, head, rounds, timeline>>

complete == loaded = Tables[kind]

NextRequest ==
  /\ head' = Null /\ rounds' = NoRounds /\ trail' = <<>> /\ loaded' = {}
  /\ UNCHANGED <<allVars, kind, reading>>

RespondTimeline ==
  /\ complete
  /\ timeline' = IF kind = "timeline" THEN buildTimeline(head, rounds) ELSE timeline
  /\ NextRequest

\* The connection drops; the client asks again, or does not.
FailTimeline == loaded # {} /\ NextRequest /\ UNCHANGED timeline

TimelineNext ==
  \/ InterviewsNext /\ UNCHANGED readerVars
  \/ ReadApplicationRow \/ ReadInterviewRows \/ ReadHistoryRows \/ RespondTimeline \/ FailTimeline

TimelineSpec == TimelineInit /\ [][TimelineNext]_timelineVars

-----------------------------------------------------------------------------
\* Nobody is shown a rejection without the round it came from: when a verdict
\* closed the application, its round is on every timeline that shows the
\* outcome.  The verdict commits both, but they are read one after the other;
\* it is the order of the two SELECTs that makes this so.
OutcomeHasItsRound ==
  \A i \in Rounds :
    /\ decided(i) /\ interview[i].app = reading /\ interview[i].outcome = "REJECTED"
    /\ \E n \in timeline : n.kind = "OUTCOME"
    => Node("ROUND", i, "REJECTED") \in timeline

\* What a candidate has been told is not taken back: a verdict or an outcome
\* once shown is on every later timeline.
TimelineNeverRetracts ==
  [][\A n \in timeline :
       n.kind # "ROUND" \/ n.state # "PENDING" => n \in timeline']_timelineVars

\* Where a history has brought the application by its n-th row.  An outcome
\* leaves the stage alone, and its own row may name one read before a move.
broughtTo(n) ==
  [status       |-> trail[n].toStatus,
   currentStage |-> IF trail[n].toStatus = "ACTIVE" THEN trail[n].toStage ELSE trail[n - 1].toStage]

\* The row of a candidate page is where its history has been.
historyReachesRow == \E n \in 1 .. Len(trail) : head = broughtTo(n)

\* A round shown as rejected shows its application rejected.
rejectionReachedApplication ==
  (\E i \in Rounds : rounds[i] # Null /\ rounds[i].outcome = "REJECTED") => head.status = "REJECTED"

\* Two responses put together from SELECTs of different instants in which what
\* is read later has caught up with what was read first.  On the recruiter's
\* candidate page the application's row comes first: it is somewhere the history
\* under it has been.  In the list of an application's rounds the rounds come
\* first: a round shown as rejected shows its application rejected.  It says
\* nothing of rounds read after the row.  On a timeline, and on the recruiter's
\* page of the application, they may be ahead of it, a rejected round under an
\* application still ACTIVE (RejectedRoundShowsOutcome); the candidate page shows
\* them without their outcome.
RelationsCatchUp ==
  complete =>
    /\ kind = "detail" => historyReachesRow
    /\ kind = "round" => rejectionReachedApplication

\* timeline.ts:36-38, of the timeline and the history: "The two disagreeing is
\* not possible, because a decision writes both in one transaction."  A verdict
\* that commits between the two SELECTs shows a rejected round on a timeline
\* whose application reads as still ACTIVE.
RejectedRoundShowsOutcome ==
  (\E n \in timeline : n.kind = "ROUND" /\ n.state = "REJECTED") =>
    Node("OUTCOME", Null, "REJECTED") \in timeline
=============================================================================
