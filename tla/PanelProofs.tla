------------------------------ MODULE PanelProofs ------------------------------
(***************************************************************************)
(* Theorems about Panel and Access, for every set of rounds, people and    *)
(* requests: the audit of a seat tells its two rows at every instant, an   *)
(* answer is true, an edit is not lost, and a reader is shown what the     *)
(* audit says was so while they read.                                      *)
(*                                                                         *)
(* The argument is one for all: only a COMMIT changes the rows of a seat,  *)
(* it adds the entry that says so behind the others, and what held when    *)
(* its request wrote the row still holds then, because the row is locked.  *)
(***************************************************************************)
EXTENDS Access, FiniteSetTheorems, TLAPS

USE PanelNull, PanelReplies DEF Replies, Refusals

\* Nobody else has written the same seat of the same table.
WritersAreAlone ==
  \A r, q \in Requests :
    pc[r] = "commit" /\ pc[q] = "commit" /\ seat(r) = seat(q) /\ (onPanel(r) <=> onPanel(q)) => r = q

wasAssigned(k) == \E n \in 1 .. Len(auditLog[k]) : auditLog[k][n].action = "INTERVIEWER_ASSIGNED"

\* What a request read or wrote is still so when it goes on.
WritesAreDue ==
  \A r \in Requests :
    /\ Awaits(r, "assign", "commit") => roundOf(r) # Null /\ ~assigned(seat(r))
    /\ Awaits(r, "unassign", "commit") => assigned(seat(r))
    /\ Awaits(r, "submit", "commit") => ~assessed(seat(r))
    /\ Awaits(r, "submit", "write") \/ Awaits(r, "submit", "commit") => wasAssigned(seat(r))
    /\ Awaits(r, "update", "write") \/ Awaits(r, "update", "commit") => assessed(seat(r))

\* A seat is one of a round that is there.
RoundsExist == \A a \in assignment : interview[a.seat[1]] # Null

\* An entry about an assessment has its rating, and an entry is one of a
\* request that has committed.
committed(r) == pc[r] = "respond" \/ reply[r] \in {"OK", "INTERNAL_ERROR"}
EntriesAreOwn ==
  \A k \in Seats : \A n \in 1 .. Len(auditLog[k]) :
    /\ isScore(auditLog[k][n]) => auditLog[k][n].to # Null
    /\ auditLog[k][n].by # Null => committed(auditLog[k][n].by)

recorded(r) == \E n \in 1 .. Len(auditLog[seat(r)]) : auditLog[seat(r)][n].by = r
CommitsAreRecorded == \A r \in Requests : pc[r] = "respond" \/ reply[r] = "OK" => recorded(r)

\* What was told is still so.
ToldIsSo ==
  \A r \in Requests :
    /\ reply[r] # Null => pc[r] = "done"
    /\ reply[r] = "ALREADY_ASSIGNED" => wasAssigned(seat(r))
    /\ reply[r] = "FEEDBACK_ALREADY_SUBMITTED" => assessed(seat(r))

\* The inductive invariant of the writers.
IInv ==
  /\ TypeOK
  /\ WritersAreAlone /\ WritesAreDue
  /\ RoundsExist /\ EntriesAreOwn /\ CommitsAreRecorded /\ ToldIsSo
  /\ PanelAuditAlternates /\ AssessmentTold

\* What a read's first statement returned is what the audit said then.
ReadType ==
  [what : {"candidate", "feedback", "page"}, who : Interviewers, round : Rounds \cup {Null}, page : SUBSET Rounds]
ReadIsOnRecord ==
  read # Null =>
    /\ read \in ReadType
    /\ \A k \in Seats : since[k] \in 0 .. Len(auditLog[k])
    /\ read.what = "candidate" => \E i \in Rounds : heldAt(<<i, read.who>>, since[<<i, read.who>>])
    /\ read.what = "feedback" =>
         read.round \in Rounds /\ heldAt(<<read.round, read.who>>, since[<<read.round, read.who>>])
    /\ read.what = "page" =>
         \A i \in Rounds : i \in read.page <=> heldAt(<<i, read.who>>, since[<<i, read.who>>])

-----------------------------------------------------------------------------
(***************************************************************************)
(* The steps, by what they do: move on, answer, commit, change a round.    *)
(***************************************************************************)
moves(r, endpoint, from, to) ==
  Awaits(r, endpoint, from) /\ pc' = [pc EXCEPT ![r] = to] /\ UNCHANGED <<rows, call, reply>>

\* A step that only brings a request to its next statement.
MovesOn(r) ==
  \/ moves(r, "assign", "read", "write")
  \/ moves(r, "assign", "write", "commit") /\ mayTakeSeat(r)
  \/ moves(r, "unassign", "write", "commit") /\ assigned(seat(r)) /\ seatFree(r)
  \/ moves(r, "submit", "read", "write") /\ assigned(seat(r))
  \/ moves(r, "submit", "write", "commit") /\ seatFree(r) /\ ~assessed(seat(r))
  \/ moves(r, "update", "read", "write") /\ assessed(seat(r))
  \/ moves(r, "update", "write", "commit") /\ seatFree(r)

\* An answer and what is so when it is given.
Answers(r, what) ==
  /\ Answer(r, what) /\ what \in Replies /\ pc[r] # "done"
  /\ what = "OK" => pc[r] = "respond"
  /\ pc[r] = "respond" => what \in {"OK", "INTERNAL_ERROR"}
  /\ what = "ALREADY_ASSIGNED" => assigned(seat(r))
  /\ what = "FEEDBACK_ALREADY_SUBMITTED" => assessed(seat(r))

\* A round comes to be, or to its end; it does not go.
RoundChanges ==
  /\ interview' \in [Rounds -> InterviewStatus \cup {Null}]
  /\ \A i \in Rounds : interview[i] # Null => interview'[i] # Null
  /\ UNCHANGED <<assignment, feedback, auditLog, call, pc, reply, saw>>

\* A seat is of a round and a person.
LEMMA CallTypes ==
  ASSUME TypeOK, NEW r \in Requests
  PROVE  /\ seat(r) \in Seats /\ seat(r)[1] \in Rounds
         /\ call[r].endpoint \in {"assign", "unassign", "submit", "update"}
         /\ call[r].endpoint = "submit" => call[r].rating \in Ratings
         /\ call[r].rating \in Ratings \cup {Null}
BY DEF TypeOK, Calls, seat, Seats, People

\* A step is one of these.
LEMMA StepCases ==
  ASSUME TypeOK, [Next]_vars
  PROVE  \/ RoundChanges \/ UNCHANGED vars
         \/ \E r \in Requests : MovesOn(r) \/ (\E what \in Replies : Answers(r, what)) \/ Commit(r)
<1> DEFINE Known(r) == MovesOn(r) \/ (\E what \in Replies : Answers(r, what)) \/ Commit(r)
<1> USE DEF Goto
<1>1. ASSUME NEW i \in Rounds, createInterview(i) PROVE RoundChanges
  BY <1>1 DEF createInterview, RoundChanges, TypeOK, InterviewStatus
<1>2. ASSUME NEW i \in Rounds, NEW status \in {"COMPLETED", "CANCELLED"}, updateInterviewStatus(i, status)
      PROVE  RoundChanges
  BY <1>2 DEF updateInterviewStatus, RoundChanges, TypeOK, InterviewStatus
<1>3. ASSUME NEW r \in Requests, FindInterviewer(r) PROVE Known(r)
  <2>1. Answers(r, "NOT_AN_INTERVIEWER") \/ moves(r, "assign", "read", "write")
    BY <1>3 DEF FindInterviewer, Answers, Awaits, moves
  <2> QED BY <2>1 DEF MovesOn
<1>4. ASSUME NEW r \in Requests, InsertAssignment(r) \/ DeleteAssignment(r) PROVE Known(r)
  BY <1>4 DEF InsertAssignment, DeleteAssignment, MovesOn, moves
<1>5. ASSUME NEW r \in Requests, AssignmentRefused(r) PROVE Known(r)
  <2>1. Answers(r, "ALREADY_ASSIGNED") \/ Answers(r, "NOT_FOUND")
    BY <1>5 DEF AssignmentRefused, Answers, Awaits
  <2> QED BY <2>1
<1>6. ASSUME NEW r \in Requests, NothingToDelete(r) PROVE Known(r)
  <2>1. Answers(r, "NOT_FOUND")
    BY <1>6 DEF NothingToDelete, Answers, Awaits
  <2> QED BY <2>1
<1>7. ASSUME NEW r \in Requests, resolveWritableInterview(r) PROVE Known(r)
  <2>1. \/ Answers(r, "NOT_FOUND") \/ Answers(r, "INTERVIEW_CANCELLED")
        \/ moves(r, "submit", "read", "write") /\ assigned(seat(r))
    BY <1>7 DEF resolveWritableInterview, Answers, Awaits, moves
  <2> QED BY <2>1 DEF MovesOn
<1>8. ASSUME NEW r \in Requests, InsertFeedback(r) \/ updateOwnFeedback(r) PROVE Known(r)
  BY <1>8 DEF InsertFeedback, updateOwnFeedback, MovesOn, moves
<1>9. ASSUME NEW r \in Requests, DuplicateFeedback(r) PROVE Known(r)
  <2>1. Answers(r, "FEEDBACK_ALREADY_SUBMITTED")
    BY <1>9 DEF DuplicateFeedback, Answers, Awaits
  <2> QED BY <2>1
<1>10. ASSUME NEW r \in Requests, findEditableFeedback(r) PROVE Known(r)
  <2>1. Answers(r, "NOT_FOUND") \/ (moves(r, "update", "read", "write") /\ assessed(seat(r)))
    BY <1>10 DEF findEditableFeedback, editable, Answers, Awaits, moves
  <2> QED BY <2>1 DEF MovesOn
<1>11. ASSUME NEW r \in Requests, Respond(r) PROVE Known(r)
  <2>1. Answers(r, "OK")
    BY <1>11 DEF Respond, Answers
  <2> QED BY <2>1
<1>12. ASSUME NEW r \in Requests, Fail(r) PROVE Known(r)
  <2>1. Answers(r, "INTERNAL_ERROR")
    BY <1>12 DEF Fail, Answers
  <2> QED BY <2>1
<1> QED
  BY <1>1, <1>2, <1>3, <1>4, <1>5, <1>6, <1>7, <1>8, <1>9, <1>10, <1>11, <1>12 DEF Next, Handle, AllServed

-----------------------------------------------------------------------------
(***************************************************************************)
(* What the audit says by an entry is by the entries up to it.             *)
(***************************************************************************)

\* What has been said stays said, whatever comes behind it.
LEMMA Frozen ==
  ASSUME NEW k \in Seats, NEW n \in Nat, \A m \in 1 .. n : auditLog'[k][m] = auditLog[k][m]
  PROVE  /\ \A m \in 0 .. n : heldAt(k, m)' <=> heldAt(k, m)
         /\ \A m \in 0 .. n : unratedAt(k, m)' <=> unratedAt(k, m)
         /\ \A m \in 0 .. n : \A x : ratedAt(k, m, x)' <=> ratedAt(k, m, x)
<1>1. ASSUME NEW m \in 0 .. n
      PROVE  /\ \A l \in 1 .. m : auditLog'[k][l] = auditLog[k][l]
             /\ \A j \in 1 .. m : \A l \in j + 1 .. m : auditLog'[k][l] = auditLog[k][l]
  OBVIOUS
<1>2. \A m \in 0 .. n : heldAt(k, m)' <=> heldAt(k, m)
  BY <1>1 DEF heldAt
<1>3. \A m \in 0 .. n : unratedAt(k, m)' <=> unratedAt(k, m)
  BY <1>1 DEF unratedAt, isScore
<1>4. \A m \in 0 .. n : \A x : ratedAt(k, m, x)' <=> ratedAt(k, m, x)
  BY <1>1, <1>3 DEF ratedAt, isScore
<1> QED BY <1>2, <1>3, <1>4

\* An entry more is the last word of what it is about, and of nothing else.
LEMMA LastWord ==
  ASSUME NEW k \in Seats, NEW n \in Nat, \A m \in 1 .. n : auditLog'[k][m] = auditLog[k][m]
  PROVE  /\ heldAt(k, n + 1)' <=> \/ auditLog'[k][n + 1].action = "INTERVIEWER_ASSIGNED"
                                  \/ auditLog'[k][n + 1].action # "INTERVIEWER_UNASSIGNED" /\ heldAt(k, n)
         /\ unratedAt(k, n + 1)' <=> unratedAt(k, n) /\ ~isScore(auditLog[k][n + 1])'
         /\ \A x : ratedAt(k, n + 1, x)' <=> IF isScore(auditLog[k][n + 1])' THEN auditLog'[k][n + 1].to = x
                                             ELSE ratedAt(k, n, x)
<1>1. \A m : m \in 1 .. n + 1 <=> m \in 1 .. n \/ m = n + 1
  OBVIOUS
<1>2. \A j \in 1 .. n + 1 : \A l : l \in j + 1 .. n + 1 <=> l \in j + 1 .. n \/ (l = n + 1 /\ j # n + 1)
  OBVIOUS
<1>3. \A j \in 1 .. n : \A l \in j + 1 .. n : auditLog'[k][l] = auditLog[k][l]
  OBVIOUS
<1>4. heldAt(k, n + 1)' <=> \/ auditLog'[k][n + 1].action = "INTERVIEWER_ASSIGNED"
                            \/ auditLog'[k][n + 1].action # "INTERVIEWER_UNASSIGNED" /\ heldAt(k, n)
  BY <1>1, <1>2, <1>3 DEF heldAt
<1>5. unratedAt(k, n + 1)' <=> unratedAt(k, n) /\ ~isScore(auditLog[k][n + 1])'
  BY <1>1 DEF unratedAt, isScore
<1>6. ASSUME NEW x
      PROVE  ratedAt(k, n + 1, x)' <=> IF isScore(auditLog[k][n + 1])' THEN auditLog'[k][n + 1].to = x
                                       ELSE ratedAt(k, n, x)
  <2>1. CASE isScore(auditLog[k][n + 1])'
    BY <1>1, <1>2, <1>5, <2>1 DEF ratedAt, isScore
  <2>2. CASE ~isScore(auditLog[k][n + 1])'
    BY <1>1, <1>2, <1>3, <1>5, <2>2 DEF ratedAt, isScore
  <2> QED BY <2>1, <2>2
<1> QED BY <1>4, <1>5, <1>6

\* A held seat has been assigned.
LEMMA HeldWasAssigned ==
  ASSUME NEW k \in Seats, TypeOK, heldAt(k, Len(auditLog[k]))
  PROVE  wasAssigned(k)
BY DEF heldAt, wasAssigned

\* The log of a seat is a sequence of entries.
LEMMA LogTypes ==
  ASSUME TypeOK, NEW k \in Seats
  PROVE  auditLog[k] \in Seq(AuditRow) /\ Len(auditLog[k]) \in Nat
         /\ \A n \in 1 .. Len(auditLog[k]) : auditLog[k][n] \in AuditRow
<1>1. auditLog[k] \in Seq(AuditRow)
  BY DEF TypeOK
<1> QED BY <1>1

\* While the tables of a seat stay, what the audit tells of them stays true.
LEMMA AuditStays ==
  ASSUME IInv, UNCHANGED <<assignment, feedback, auditLog>>
  PROVE  /\ PanelAuditAlternates' /\ AssessmentTold'
         /\ \A k : (assigned(k)' <=> assigned(k)) /\ (assessed(k)' <=> assessed(k)) /\ (wasAssigned(k)' <=> wasAssigned(k))
<1> USE DEF assigned, assessed, wasAssigned, isPanel, isScore
<1>1. PanelAuditAlternates'
  BY DEF IInv, PanelAuditAlternates, heldAt
<1>2. AssessmentTold'
  BY DEF IInv, AssessmentTold, ratedAt, unratedAt, ratingIn, feedbackOf
<1> QED BY <1>1, <1>2

\* A round's change is no matter of its seats'.
LEMMA RoundsKeep ==
  ASSUME IInv, RoundChanges
  PROVE  IInv'
<1> USE DEF RoundChanges
<1>1. TypeOK'
  BY DEF IInv, TypeOK
<1>2. PanelAuditAlternates' /\ AssessmentTold'
      /\ \A k : (assigned(k)' <=> assigned(k)) /\ (assessed(k)' <=> assessed(k)) /\ (wasAssigned(k)' <=> wasAssigned(k))
  BY AuditStays
<1> USE DEF seat, Awaits
<1>3. WritersAreAlone' /\ RoundsExist'
  <2>1. \A a \in assignment : a.seat[1] \in Rounds
    BY DEF IInv, TypeOK, AssignmentRow, Seats
  <2> QED BY <2>1 DEF IInv, WritersAreAlone, RoundsExist, onPanel
<1>4. WritesAreDue'
  <2>1. \A r \in Requests : seat(r)[1] \in Rounds
    BY CallTypes DEF IInv
  <2> QED BY <1>2, <2>1 DEF IInv, WritesAreDue, roundOf
<1>5. EntriesAreOwn' /\ CommitsAreRecorded' /\ ToldIsSo'
  BY <1>2 DEF IInv, EntriesAreOwn, CommitsAreRecorded, ToldIsSo, committed, recorded, isScore
<1> QED BY <1>1, <1>2, <1>3, <1>4, <1>5 DEF IInv

\* A request that moves on has what the next statement takes for granted, and
\* writes where nobody else has.
LEMMA MovingKeeps ==
  ASSUME IInv, NEW r \in Requests, MovesOn(r)
  PROVE  /\ WritersAreAlone' /\ WritesAreDue'
         /\ RoundsExist' /\ EntriesAreOwn' /\ CommitsAreRecorded' /\ ToldIsSo'
         /\ PanelAuditAlternates' /\ AssessmentTold'
<1>1. UNCHANGED <<rows, call, reply>> /\ \A q \in Requests : q # r => pc'[q] = pc[q]
  BY DEF MovesOn, moves, IInv, TypeOK
<1>2. \/ pc[r] = "read" /\ pc'[r] = "write" /\ (call[r].endpoint = "submit" => assigned(seat(r)))
         /\ (call[r].endpoint = "update" => assessed(seat(r)))
      \/ /\ pc[r] = "write" /\ pc'[r] = "commit" /\ seatFree(r)
         /\ call[r].endpoint = "assign" => mayTakeSeat(r)
         /\ call[r].endpoint = "unassign" => assigned(seat(r))
         /\ call[r].endpoint = "submit" => ~assessed(seat(r))
  BY DEF MovesOn, moves, mayTakeSeat, Awaits, IInv, TypeOK
<1>3. PanelAuditAlternates' /\ AssessmentTold'
      /\ \A k : (assigned(k)' <=> assigned(k)) /\ (assessed(k)' <=> assessed(k)) /\ (wasAssigned(k)' <=> wasAssigned(k))
  BY <1>1, AuditStays DEF rows
<1>4. \A q \in Requests : /\ seat(q)' = seat(q) /\ (onPanel(q)' <=> onPanel(q)) /\ roundOf(q)' = roundOf(q)
  BY <1>1 DEF seat, onPanel, roundOf, rows
<1>5. WritersAreAlone'
  <2>1. ASSUME NEW q \in Requests, pc'[r] = "commit", pc[q] = "commit", seat(q) = seat(r), onPanel(q) <=> onPanel(r)
        PROVE  q = r
    BY <1>2, <2>1 DEF seatFree, onPanel
  <2> QED BY <1>1, <1>4, <2>1 DEF IInv, WritersAreAlone
<1>6. WritesAreDue'
  <2>1. assigned(seat(r)) => wasAssigned(seat(r))
    BY CallTypes, HeldWasAssigned DEF IInv, PanelAuditAlternates
  <2> QED BY <1>1, <1>2, <1>3, <1>4, <2>1 DEF IInv, WritesAreDue, Awaits, mayTakeSeat
<1>7. RoundsExist' /\ EntriesAreOwn'
  <2>1. \A q \in Requests : committed(q) => committed(q)'
    BY <1>1, <1>2 DEF committed
  <2>2. \A k \in Seats : \A n \in 1 .. Len(auditLog[k]) : auditLog[k][n].by \in Requests \cup {Null}
    BY LogTypes DEF IInv, AuditRow
  <2> QED BY <1>1, <2>1, <2>2 DEF IInv, RoundsExist, EntriesAreOwn, isScore, rows
<1>8. CommitsAreRecorded'
  BY <1>1, <1>2, <1>4 DEF IInv, CommitsAreRecorded, recorded, rows
<1>9. ToldIsSo'
  BY <1>1, <1>2, <1>3, <1>4 DEF IInv, ToldIsSo
<1> QED BY <1>3, <1>5, <1>6, <1>7, <1>8, <1>9

\* An answer ends the request and is true when given.
LEMMA AnsweringKeeps ==
  ASSUME IInv, NEW r \in Requests, NEW what \in Replies, Answers(r, what)
  PROVE  /\ WritersAreAlone' /\ WritesAreDue'
         /\ RoundsExist' /\ EntriesAreOwn' /\ CommitsAreRecorded' /\ ToldIsSo'
         /\ PanelAuditAlternates' /\ AssessmentTold'
<1>1. /\ UNCHANGED <<rows, call>> /\ pc'[r] = "done" /\ reply'[r] = what
      /\ \A q \in Requests : q # r => pc'[q] = pc[q] /\ reply'[q] = reply[q]
  BY DEF Answers, Answer, IInv, TypeOK
<1>2. pc[r] # "done" /\ reply[r] = Null
  BY DEF Answers, IInv, ToldIsSo
<1>3. PanelAuditAlternates' /\ AssessmentTold'
      /\ \A k : (assigned(k)' <=> assigned(k)) /\ (assessed(k)' <=> assessed(k)) /\ (wasAssigned(k)' <=> wasAssigned(k))
  BY <1>1, AuditStays DEF rows
<1>4. \A q \in Requests : /\ seat(q)' = seat(q) /\ (onPanel(q)' <=> onPanel(q)) /\ roundOf(q)' = roundOf(q)
  BY <1>1 DEF seat, onPanel, roundOf, rows
<1>5. WritersAreAlone' /\ RoundsExist'
  BY <1>1, <1>4 DEF IInv, WritersAreAlone, RoundsExist, rows
<1>6. WritesAreDue'
  BY <1>1, <1>3, <1>4 DEF IInv, WritesAreDue, Awaits
<1>7. EntriesAreOwn'
  <2>1. committed(r) => committed(r)'
    BY <1>1, <1>2 DEF Answers, committed
  <2>2. \A q \in Requests : committed(q) => committed(q)'
    BY <1>1, <2>1 DEF committed
  <2>3. \A k \in Seats : \A n \in 1 .. Len(auditLog[k]) : auditLog[k][n].by \in Requests \cup {Null}
    BY LogTypes DEF IInv, AuditRow
  <2> HIDE DEF committed
  <2> QED BY <1>1, <2>2, <2>3 DEF IInv, EntriesAreOwn, isScore, rows
<1>8. CommitsAreRecorded'
  BY <1>1, <1>2, <1>4 DEF IInv, CommitsAreRecorded, recorded, Answers, rows
<1>9. ToldIsSo'
  <2>1. assigned(seat(r)) => wasAssigned(seat(r))
    BY CallTypes, HeldWasAssigned DEF IInv, PanelAuditAlternates
  <2> QED BY <1>1, <1>3, <1>4, <2>1 DEF IInv, ToldIsSo, Answers
<1> QED BY <1>3, <1>5, <1>6, <1>7, <1>8, <1>9

-----------------------------------------------------------------------------
(***************************************************************************)
(* The COMMIT.                                                             *)
(***************************************************************************)

\* The assessment of a seat that has one.
LEMMA Assessments ==
  ASSUME TypeOK, NEW k \in Seats, assessed(k)
  PROVE  /\ feedbackOf(k) \in feedback /\ feedbackOf(k).seat = k
         /\ ratingIn(feedback, k) = feedbackOf(k).rating
         /\ feedbackOf(k) \in FeedbackRow /\ feedbackOf(k).rating \in Ratings
<1>1. feedbackOf(k) \in feedback /\ feedbackOf(k).seat = k
  BY DEF assessed, feedbackOf
<1>2. ratingIn(feedback, k) = feedbackOf(k).rating
  BY DEF ratingIn, assessed, feedbackOf
<1> QED BY <1>1, <1>2 DEF TypeOK, FeedbackRow

\* A patch is of the row it finds, whose seat and author stay.
LEMMA PatchTypes ==
  ASSUME TypeOK, NEW r \in Requests, assessed(seat(r))
  PROVE  /\ patched(r) \in FeedbackRow /\ patched(r).seat = seat(r)
         /\ patched(r).by = feedbackOf(seat(r)).by
         /\ patched(r).rating = IF call[r].rating = Null THEN feedbackOf(seat(r)).rating ELSE call[r].rating
         /\ patched(r).notes = IF call[r].notes THEN r ELSE feedbackOf(seat(r)).notes
<1>1. /\ feedbackOf(seat(r)) \in FeedbackRow /\ feedbackOf(seat(r)).seat = seat(r)
      /\ call[r].rating \in Ratings \cup {Null}
  BY Assessments, CallTypes
<1>2. feedbackOf(seat(r)).rating \in Ratings /\ feedbackOf(seat(r)).notes \in Requests \cup {Null}
  BY <1>1 DEF FeedbackRow
<1> QED BY <1>1, <1>2 DEF patched, FeedbackRow

\* The entry is about what the request did.
LEMMA AuditTypes ==
  ASSUME IInv, NEW r \in Requests, pc[r] = "commit"
  PROVE  /\ AuditOf(r) \in AuditRow /\ AuditOf(r).by = r
         /\ AuditOf(r).action = CASE call[r].endpoint = "assign"   -> "INTERVIEWER_ASSIGNED"
                                  [] call[r].endpoint = "unassign" -> "INTERVIEWER_UNASSIGNED"
                                  [] call[r].endpoint = "submit"   -> "FEEDBACK_SUBMITTED"
                                  [] call[r].endpoint = "update"   -> "FEEDBACK_UPDATED"
         /\ call[r].endpoint = "submit" => AuditOf(r).to = call[r].rating
         /\ call[r].endpoint = "update" => AuditOf(r).to = patched(r).rating
         /\ isScore(AuditOf(r)) => AuditOf(r).to # Null
<1>1. /\ call[r].endpoint \in {"assign", "unassign", "submit", "update"}
      /\ call[r].endpoint = "submit" => call[r].rating \in Ratings
      /\ saw[r] \in Ratings \cup {Null}
  BY CallTypes DEF IInv, TypeOK
<1>2. call[r].endpoint = "update" => patched(r).rating \in Ratings
  BY PatchTypes DEF IInv, WritesAreDue, Awaits, FeedbackRow
<1> QED BY <1>1, <1>2 DEF AuditOf, Entry, AuditRow, isScore

\* One entry more in the log of the seat, and nothing else there.
LEMMA CommitAudits ==
  ASSUME IInv, NEW r \in Requests, Commit(r), NEW k \in Seats, k = seat(r), NEW n \in Nat, n = Len(auditLog[k])
  PROVE  /\ auditLog' \in [Seats -> Seq(AuditRow)]
         /\ \A j \in Seats \ {k} : auditLog'[j] = auditLog[j]
         /\ Len(auditLog'[k]) = n + 1 /\ auditLog'[k][n + 1] = AuditOf(r)
         /\ \A m \in 1 .. n : auditLog'[k][m] = auditLog[k][m]
         /\ pc[r] = "commit" /\ pc'[r] = "respond" /\ reply[r] = Null
         /\ \A q \in Requests : q # r => pc'[q] = pc[q]
         /\ UNCHANGED <<interview, call, reply, saw>>
<1>1. /\ pc[r] = "commit" /\ auditLog' = [auditLog EXCEPT ![k] = Append(@, AuditOf(r))]
      /\ pc' = [pc EXCEPT ![r] = "respond"] /\ UNCHANGED <<interview, call, reply, saw>>
  BY DEF Commit
<1>2. AuditOf(r) \in AuditRow /\ auditLog[k] \in Seq(AuditRow) /\ reply[r] = Null
  BY <1>1, AuditTypes, LogTypes DEF IInv, ToldIsSo
<1>3. auditLog'[k] = Append(auditLog[k], AuditOf(r)) /\ \A j \in Seats \ {k} : auditLog'[j] = auditLog[j]
  BY <1>1 DEF IInv, TypeOK
<1>4. /\ Append(auditLog[k], AuditOf(r)) \in Seq(AuditRow)
      /\ Len(auditLog'[k]) = n + 1 /\ auditLog'[k][n + 1] = AuditOf(r)
      /\ \A m \in 1 .. n : auditLog'[k][m] = auditLog[k][m]
  BY <1>2, <1>3
<1>5. auditLog' \in [Seats -> Seq(AuditRow)]
  BY <1>1, <1>3, <1>4 DEF IInv, TypeOK
<1> QED BY <1>1, <1>2, <1>3, <1>4, <1>5 DEF IInv, TypeOK

\* The seats other than the one committed stay as they are.
LEMMA OtherSeats ==
  ASSUME IInv, NEW r \in Requests, Commit(r), NEW j \in Seats, j # seat(r)
  PROVE  /\ \A m : heldAt(j, m)' <=> heldAt(j, m)
         /\ \A m : unratedAt(j, m)' <=> unratedAt(j, m)
         /\ \A m, x : ratedAt(j, m, x)' <=> ratedAt(j, m, x)
         /\ wasAssigned(j)' <=> wasAssigned(j)
         /\ auditLog'[j] = auditLog[j]
<1>1. PICK k \in Seats, n \in Nat : k = seat(r) /\ n = Len(auditLog[k])
  BY CallTypes, LogTypes DEF IInv
<1>2. auditLog'[j] = auditLog[j]
  BY <1>1, CommitAudits
<1> QED BY <1>2 DEF heldAt, unratedAt, ratedAt, wasAssigned, isScore

\* What a COMMIT does to the panel.
LEMMA CommitSeats ==
  ASSUME IInv, NEW r \in Requests, Commit(r)
  PROVE  /\ call[r].endpoint = "assign" => assignment' = assignment \cup {[seat |-> seat(r), by |-> r]}
         /\ call[r].endpoint = "unassign" => assignment' = {a \in assignment : a.seat # seat(r)}
         /\ call[r].endpoint \in {"submit", "update"} => assignment' = assignment
         /\ call[r].endpoint \in {"assign", "unassign", "submit", "update"}
<1>1. call[r].endpoint \in {"assign", "unassign", "submit", "update"}
  BY CallTypes DEF IInv
<1> QED BY <1>1 DEF Commit, writeRow

\* Which seats are taken after it.
LEMMA SeatsAfter ==
  ASSUME IInv, NEW r \in Requests, Commit(r), NEW k \in Seats, k = seat(r)
  PROVE  /\ \A j \in Seats : j # k => (assigned(j)' <=> assigned(j))
         /\ assigned(k)' <=> call[r].endpoint = "assign" \/ (call[r].endpoint # "unassign" /\ assigned(k))
<1>1. CASE call[r].endpoint = "assign"
  <2> DEFINE a == [seat |-> k, by |-> r]
  <2>1. assignment' = assignment \cup {a} /\ a.seat = k
    BY <1>1, CommitSeats
  <2> HIDE DEF a
  <2> QED BY <1>1, <2>1 DEF assigned
<1>2. CASE call[r].endpoint = "unassign"
  BY <1>2, CommitSeats DEF assigned
<1>3. CASE call[r].endpoint \in {"submit", "update"}
  BY <1>3, CommitSeats DEF assigned
<1> QED BY <1>1, <1>2, <1>3, CommitSeats

\* The audit of the panel: a seat is assigned by an entry when it was free, and
\* taken away when it was not.
LEMMA PanelTold ==
  ASSUME IInv, NEW r \in Requests, Commit(r)
  PROVE  PanelAuditAlternates' /\ RoundsExist'
<1>1. PICK k \in Seats, n \in Nat : k = seat(r) /\ n = Len(auditLog[k])
  BY CallTypes, LogTypes DEF IInv
<1>2. /\ Len(auditLog'[k]) = n + 1 /\ auditLog'[k][n + 1] = AuditOf(r)
      /\ \A m \in 1 .. n : auditLog'[k][m] = auditLog[k][m]
      /\ pc[r] = "commit" /\ interview' = interview
  BY <1>1, CommitAudits
<1>3. /\ call[r].endpoint = "assign" => AuditOf(r).action = "INTERVIEWER_ASSIGNED"
      /\ call[r].endpoint = "unassign" => AuditOf(r).action = "INTERVIEWER_UNASSIGNED"
      /\ call[r].endpoint \in {"submit", "update"} => AuditOf(r).action \in {"FEEDBACK_SUBMITTED", "FEEDBACK_UPDATED"}
      /\ call[r].endpoint \in {"assign", "unassign", "submit", "update"}
  BY <1>2, AuditTypes, CallTypes DEF IInv
<1>4. /\ call[r].endpoint = "assign" => ~assigned(k) /\ roundOf(r) # Null
      /\ call[r].endpoint = "unassign" => assigned(k)
  BY <1>1, <1>2 DEF IInv, WritesAreDue, Awaits
<1>5. \A m \in 0 .. n : heldAt(k, m)' <=> heldAt(k, m)
  BY <1>2, Frozen
<1>6. heldAt(k, n + 1)' <=> \/ AuditOf(r).action = "INTERVIEWER_ASSIGNED"
                            \/ AuditOf(r).action # "INTERVIEWER_UNASSIGNED" /\ heldAt(k, n)
  BY <1>2, LastWord
<1>7. ASSUME NEW m \in 1 .. n + 1, isPanel(auditLog[k][m])'
      PROVE  auditLog'[k][m].action = "INTERVIEWER_ASSIGNED" <=> ~heldAt(k, m - 1)'
  <2>1. CASE m \in 1 .. n
    <3>1. heldAt(k, m - 1)' <=> heldAt(k, m - 1)
      BY <1>5, <2>1
    <3>2. isPanel(auditLog[k][m]) => (auditLog[k][m].action = "INTERVIEWER_ASSIGNED" <=> ~heldAt(k, m - 1))
      BY <1>1, <2>1 DEF IInv, PanelAuditAlternates
    <3> QED BY <1>2, <1>7, <2>1, <3>1, <3>2 DEF isPanel
  <2>2. CASE m = n + 1
    <3>1. heldAt(k, n)' <=> heldAt(k, n)
      BY <1>5
    <3>2. heldAt(k, n) <=> assigned(k)
      BY <1>1 DEF IInv, PanelAuditAlternates
    <3>3. m - 1 = n
      BY <2>2
    <3> QED BY <1>2, <1>3, <1>4, <1>7, <2>2, <3>1, <3>2, <3>3 DEF isPanel
  <2> QED BY <2>1, <2>2
<1>8. assigned(k)' <=> heldAt(k, n + 1)'
  <2>1. heldAt(k, n) <=> assigned(k)
    BY <1>1 DEF IInv, PanelAuditAlternates
  <2>2. assigned(k)' <=> call[r].endpoint = "assign" \/ (call[r].endpoint # "unassign" /\ assigned(k))
    BY <1>1, SeatsAfter
  <2> QED BY <1>3, <1>6, <2>1, <2>2
<1>9. ASSUME NEW j \in Seats, NEW a \in assignment', NEW b \in assignment', a.seat = j, b.seat = j
      PROVE  a = b
  <2>1. \A c, d \in assignment : c.seat = j /\ d.seat = j => c = d
    BY DEF IInv, PanelAuditAlternates
  <2>2. call[r].endpoint = "assign" => \A c \in assignment : c.seat # k
    BY <1>4 DEF assigned
  <2> QED BY <1>1, <1>3, <1>9, <2>1, <2>2, CommitSeats
<1>10. PanelAuditAlternates'
  <2> SUFFICES ASSUME NEW j \in Seats
               PROVE  /\ \A m \in 1 .. Len(auditLog'[j]) :
                           isPanel(auditLog[j][m])' =>
                             (auditLog'[j][m].action = "INTERVIEWER_ASSIGNED" <=> ~heldAt(j, m - 1)')
                      /\ assigned(j)' <=> heldAt(j, Len(auditLog[j]))'
    BY <1>9 DEF PanelAuditAlternates
  <2>1. CASE j = k
    BY <1>2, <1>7, <1>8, <2>1
  <2>2. CASE j # k
    <3>1. auditLog'[j] = auditLog[j] /\ (assigned(j)' <=> assigned(j)) /\ \A m : heldAt(j, m)' <=> heldAt(j, m)
      BY <1>1, <2>2, OtherSeats, SeatsAfter
    <3>2. /\ \A m \in 1 .. Len(auditLog[j]) :
               isPanel(auditLog[j][m]) => (auditLog[j][m].action = "INTERVIEWER_ASSIGNED" <=> ~heldAt(j, m - 1))
          /\ assigned(j) <=> heldAt(j, Len(auditLog[j]))
      BY DEF IInv, PanelAuditAlternates
    <3>3. heldAt(j, Len(auditLog[j]))' <=> heldAt(j, Len(auditLog[j]))
      BY <3>1 DEF heldAt
    <3> QED BY <3>1, <3>2, <3>3 DEF isPanel
  <2> QED BY <2>1, <2>2
<1>11. RoundsExist'
  BY <1>1, <1>2, <1>3, <1>4, CommitSeats DEF IInv, RoundsExist, roundOf
<1> QED BY <1>10, <1>11

\* What a COMMIT does to the assessments.
LEMMA CommitScores ==
  ASSUME IInv, NEW r \in Requests, Commit(r)
  PROVE  /\ call[r].endpoint = "submit" =>
              /\ ~assessed(seat(r))
              /\ \E f : /\ feedback' = feedback \cup {f}
                        /\ f.seat = seat(r) /\ f.by = r /\ f.rating = call[r].rating /\ f \in FeedbackRow
         /\ call[r].endpoint = "update" =>
              assessed(seat(r)) /\ feedback' = (feedback \ {feedbackOf(seat(r))}) \cup {patched(r)}
         /\ call[r].endpoint \in {"assign", "unassign"} => feedback' = feedback
         /\ call[r].endpoint \in {"assign", "unassign", "submit", "update"}
<1>1. /\ call[r].endpoint \in {"assign", "unassign", "submit", "update"} /\ seat(r) \in Seats
      /\ call[r].endpoint = "submit" => call[r].rating \in Ratings
  BY CallTypes DEF IInv
<1>2. /\ call[r].endpoint = "submit" => ~assessed(seat(r))
      /\ call[r].endpoint = "update" => assessed(seat(r))
  BY DEF IInv, WritesAreDue, Awaits, Commit
<1> DEFINE f == [seat |-> seat(r), by |-> r, rating |-> call[r].rating, notes |-> r]
<1>3. call[r].endpoint = "submit" =>
        feedback' = feedback \cup {f} /\ f.seat = seat(r) /\ f.by = r /\ f.rating = call[r].rating /\ f \in FeedbackRow
  BY <1>1 DEF Commit, writeRow, FeedbackRow
<1>4. /\ call[r].endpoint = "update" => feedback' = (feedback \ {feedbackOf(seat(r))}) \cup {patched(r)}
      /\ call[r].endpoint \in {"assign", "unassign"} => feedback' = feedback
  BY <1>1 DEF Commit, writeRow
<1> QED BY <1>1, <1>2, <1>3, <1>4

\* The assessment of a seat after it: the same author, the rating the entry
\* tells, and one row.
LEMMA ScoresAfter ==
  ASSUME IInv, NEW r \in Requests, Commit(r), NEW k \in Seats, k = seat(r)
  PROVE  /\ \A j \in Seats : \A f, g \in feedback' : f.seat = j /\ g.seat = j => f = g
         /\ \A j \in Seats : assessed(j) => assessed(j)' /\ feedbackOf(j)'.by = feedbackOf(j).by
         /\ \A j \in Seats : j # k \/ call[r].endpoint \in {"assign", "unassign"} =>
              ratingIn(feedback, j)' = ratingIn(feedback, j)
         /\ call[r].endpoint \in {"submit", "update"} => ratingIn(feedback, k)' = AuditOf(r).to
         /\ call[r].endpoint = "submit" => assessed(k)' /\ feedbackOf(k)'.by = r
<1>1. \A j \in Seats : \A f, g \in feedback : f.seat = j /\ g.seat = j => f = g
  BY DEF IInv, AssessmentTold
<1>2. call[r].endpoint \in {"assign", "unassign", "submit", "update"}
  BY CallTypes DEF IInv
<1>3. CASE call[r].endpoint \in {"assign", "unassign"}
  <2>1. feedback' = feedback
    BY <1>3, CommitScores
  <2> QED BY <1>1, <1>3, <2>1 DEF assessed, feedbackOf, ratingIn
<1>4. CASE call[r].endpoint \in {"submit", "update"}
  <2>1. PICK f : /\ f \in feedback' /\ f.seat = k /\ f.rating = AuditOf(r).to
                 /\ \A g : g.seat # k => (g \in feedback' <=> g \in feedback)
                 /\ \A g \in feedback' : g.seat = k => g = f
                 /\ assessed(k) => f.by = feedbackOf(k).by
                 /\ call[r].endpoint = "submit" => f.by = r
    <3>1. CASE call[r].endpoint = "submit"
      <4>1. PICK f : feedback' = feedback \cup {f} /\ f.seat = k /\ f.by = r /\ f.rating = call[r].rating
        BY <3>1, CommitScores
      <4>2. ~assessed(k) /\ AuditOf(r).to = call[r].rating
        BY <3>1, CommitScores, AuditTypes DEF Commit
      <4> QED BY <4>1, <4>2 DEF assessed
    <3>2. CASE call[r].endpoint = "update"
      <4>1. feedback' = (feedback \ {feedbackOf(k)}) \cup {patched(r)} /\ assessed(k)
        BY <3>2, CommitScores
      <4>2. /\ feedbackOf(k) \in feedback /\ feedbackOf(k).seat = k
            /\ patched(r).seat = k /\ patched(r).by = feedbackOf(k).by
        BY <4>1, Assessments, PatchTypes DEF IInv
      <4>3. AuditOf(r).to = patched(r).rating
        BY <3>2, AuditTypes DEF Commit
      <4>4. \A g \in feedback' : g.seat = k => g = patched(r)
        BY <1>1, <1>2, <4>1, <4>2
      <4> QED BY <3>2, <4>1, <4>2, <4>3, <4>4
    <3> QED BY <1>4, <3>1, <3>2
  <2>2. feedbackOf(k)' = f /\ assessed(k)' /\ ratingIn(feedback, k)' = f.rating
    <3>1. (CHOOSE g \in feedback' : g.seat = k) = f
      BY <2>1
    <3> QED BY <2>1, <3>1 DEF feedbackOf, assessed, ratingIn
  <2>3. ASSUME NEW j \in Seats, j # k
        PROVE  /\ \A g, h \in feedback' : g.seat = j /\ h.seat = j => g = h
               /\ assessed(j)' <=> assessed(j)
               /\ feedbackOf(j)' = feedbackOf(j)
               /\ ratingIn(feedback, j)' = ratingIn(feedback, j)
    <3>1. {g \in feedback' : g.seat = j} = {g \in feedback : g.seat = j}
      BY <2>1, <2>3
    <3>2. assessed(j)' <=> assessed(j)
      BY <3>1 DEF assessed
    <3>3. (CHOOSE g \in feedback' : g.seat = j) = (CHOOSE g \in feedback : g.seat = j)
      BY <2>1, <2>3
    <3>4. \A g, h \in feedback' : g.seat = j /\ h.seat = j => g = h
      BY <1>1, <2>1, <2>3
    <3> QED BY <3>2, <3>3, <3>4 DEF feedbackOf, ratingIn, assessed
  <2>4. \A j \in Seats : \A g, h \in feedback' : g.seat = j /\ h.seat = j => g = h
    BY <2>1, <2>3
  <2>5. \A j \in Seats : assessed(j) => assessed(j)' /\ feedbackOf(j)'.by = feedbackOf(j).by
    BY <2>1, <2>2, <2>3
  <2> QED BY <1>4, <2>1, <2>2, <2>3, <2>4, <2>5
<1> QED BY <1>2, <1>3, <1>4

\* The audit of the assessments: one submission, then edits, and the rating of
\* the last is the row's.
LEMMA ScoresTold ==
  ASSUME IInv, NEW r \in Requests, Commit(r)
  PROVE  AssessmentTold'
<1>1. PICK k \in Seats, n \in Nat : k = seat(r) /\ n = Len(auditLog[k])
  BY CallTypes, LogTypes DEF IInv
<1>2. /\ Len(auditLog'[k]) = n + 1 /\ auditLog'[k][n + 1] = AuditOf(r)
      /\ \A m \in 1 .. n : auditLog'[k][m] = auditLog[k][m]
      /\ pc[r] = "commit"
  BY <1>1, CommitAudits
<1>3. /\ call[r].endpoint \in {"assign", "unassign"} => ~isScore(AuditOf(r))
      /\ call[r].endpoint = "submit" <=> AuditOf(r).action = "FEEDBACK_SUBMITTED"
      /\ call[r].endpoint = "update" <=> AuditOf(r).action = "FEEDBACK_UPDATED"
      /\ call[r].endpoint \in {"assign", "unassign", "submit", "update"} /\ AuditOf(r).by = r
  BY <1>2, AuditTypes, CallTypes DEF IInv, isScore
<1>4. /\ \A m \in 0 .. n : unratedAt(k, m)' <=> unratedAt(k, m)
      /\ \A x : ratedAt(k, n + 1, x)' <=> IF isScore(AuditOf(r)) THEN AuditOf(r).to = x ELSE ratedAt(k, n, x)
  <2>1. isScore(auditLog[k][n + 1])' <=> isScore(AuditOf(r))
    BY <1>2 DEF isScore
  <2> QED BY <1>2, <2>1, Frozen, LastWord
<1>5. /\ \A f, g \in feedback' : \A j \in Seats : f.seat = j /\ g.seat = j => f = g
      /\ assessed(k) => assessed(k)' /\ feedbackOf(k)'.by = feedbackOf(k).by
  BY <1>1, ScoresAfter
<1>6. ratedAt(k, n, ratingIn(feedback, k)) /\ (unratedAt(k, n) <=> ~assessed(k))
  <2>1. ratedAt(k, n, ratingIn(feedback, k))
    BY <1>1 DEF IInv, AssessmentTold
  <2>2. ~assessed(k) <=> ratingIn(feedback, k) = Null
    BY Assessments DEF IInv, ratingIn, assessed
  <2>3. \A m \in 1 .. n : isScore(auditLog[k][m]) => auditLog[k][m].to # Null
    BY <1>1 DEF IInv, EntriesAreOwn
  <2> QED BY <2>1, <2>2, <2>3 DEF ratedAt
<1>7. ratedAt(k, n + 1, ratingIn(feedback, k))'
  <2>1. ratingIn(feedback, k)' = IF isScore(AuditOf(r)) THEN AuditOf(r).to ELSE ratingIn(feedback, k)
    BY <1>1, <1>3, ScoresAfter DEF isScore
  <2> QED BY <1>4, <1>6, <2>1
<1>8. ASSUME NEW m \in 1 .. n + 1
      PROVE  /\ isScore(auditLog[k][m])' => (auditLog'[k][m].action = "FEEDBACK_SUBMITTED" <=> unratedAt(k, m - 1)')
             /\ auditLog'[k][m].action = "FEEDBACK_SUBMITTED" =>
                  /\ assessed(k)' /\ auditLog'[k][m].by = feedbackOf(k)'.by
                  /\ \E l \in 1 .. m - 1 : auditLog'[k][l].action = "INTERVIEWER_ASSIGNED"
  <2>1. CASE m \in 1 .. n
    <3>1. unratedAt(k, m - 1)' <=> unratedAt(k, m - 1)
      BY <1>4, <2>1
    <3>2. /\ isScore(auditLog[k][m]) => (auditLog[k][m].action = "FEEDBACK_SUBMITTED" <=> unratedAt(k, m - 1))
          /\ auditLog[k][m].action = "FEEDBACK_SUBMITTED" =>
               /\ assessed(k) /\ auditLog[k][m].by = feedbackOf(k).by
               /\ \E l \in 1 .. m - 1 : auditLog[k][l].action = "INTERVIEWER_ASSIGNED"
      BY <1>1, <2>1 DEF IInv, AssessmentTold
    <3>3. \A l \in 1 .. m - 1 : auditLog'[k][l] = auditLog[k][l]
      BY <1>2, <2>1
    <3>4. auditLog'[k][m] = auditLog[k][m] /\ \A l \in 1 .. m - 1 : l \in 1 .. n
      BY <1>2, <2>1
    <3> QED BY <1>5, <3>1, <3>2, <3>3, <3>4 DEF isScore
  <2>2. CASE m = n + 1
    <3>1. m - 1 = n /\ (unratedAt(k, n)' <=> unratedAt(k, n))
      BY <1>4, <2>2
    <3>2. AuditOf(r).action = "FEEDBACK_SUBMITTED" => ~assessed(k) /\ wasAssigned(k)
      BY <1>1, <1>2, <1>3 DEF IInv, WritesAreDue, Awaits
    <3>3. AuditOf(r).action = "FEEDBACK_UPDATED" => assessed(k)
      BY <1>1, <1>2, <1>3 DEF IInv, WritesAreDue, Awaits
    <3>4. wasAssigned(k) => \E l \in 1 .. n : auditLog'[k][l].action = "INTERVIEWER_ASSIGNED"
      BY <1>1, <1>2 DEF wasAssigned
    <3> QED BY <1>1, <1>2, <1>3, <1>6, <2>2, <3>1, <3>2, <3>3, <3>4, ScoresAfter DEF isScore
  <2> QED BY <2>1, <2>2
<1> SUFFICES ASSUME NEW j \in Seats
             PROVE  /\ ratedAt(j, Len(auditLog[j]), ratingIn(feedback, j))'
                    /\ \A m \in 1 .. Len(auditLog'[j]) :
                         /\ isScore(auditLog[j][m])' =>
                              (auditLog'[j][m].action = "FEEDBACK_SUBMITTED" <=> unratedAt(j, m - 1)')
                         /\ auditLog'[j][m].action = "FEEDBACK_SUBMITTED" =>
                              /\ assessed(j)' /\ auditLog'[j][m].by = feedbackOf(j)'.by
                              /\ \E l \in 1 .. m - 1 : auditLog'[j][l].action = "INTERVIEWER_ASSIGNED"
  BY <1>5 DEF AssessmentTold
<1>9. CASE j = k
  BY <1>2, <1>7, <1>8, <1>9
<1>10. CASE j # k
  <2>1. /\ auditLog'[j] = auditLog[j] /\ ratingIn(feedback, j)' = ratingIn(feedback, j)
        /\ \A m : unratedAt(j, m)' <=> unratedAt(j, m)
        /\ \A m, x : ratedAt(j, m, x)' <=> ratedAt(j, m, x)
        /\ assessed(j) => assessed(j)' /\ feedbackOf(j)'.by = feedbackOf(j).by
    BY <1>1, <1>10, OtherSeats, ScoresAfter
  <2>2. /\ ratedAt(j, Len(auditLog[j]), ratingIn(feedback, j))
        /\ \A m \in 1 .. Len(auditLog[j]) :
             /\ isScore(auditLog[j][m]) => (auditLog[j][m].action = "FEEDBACK_SUBMITTED" <=> unratedAt(j, m - 1))
             /\ auditLog[j][m].action = "FEEDBACK_SUBMITTED" =>
                  /\ assessed(j) /\ auditLog[j][m].by = feedbackOf(j).by
                  /\ \E l \in 1 .. m - 1 : auditLog[j][l].action = "INTERVIEWER_ASSIGNED"
    BY DEF IInv, AssessmentTold
  <2> QED BY <2>1, <2>2 DEF isScore
<1> QED BY <1>9, <1>10

\* A COMMIT keeps every type.
LEMMA CommitTypes ==
  ASSUME IInv, NEW r \in Requests, Commit(r)
  PROVE  TypeOK'
<1>1. PICK k \in Seats, n \in Nat : k = seat(r) /\ n = Len(auditLog[k])
  BY CallTypes, LogTypes DEF IInv
<1>2. auditLog' \in [Seats -> Seq(AuditRow)] /\ UNCHANGED <<interview, call, reply, saw>>
  BY <1>1, CommitAudits
<1>3. assignment' \subseteq AssignmentRow
  <2>1. [seat |-> k, by |-> r] \in AssignmentRow
    BY DEF AssignmentRow
  <2>2. assignment \subseteq AssignmentRow
    BY DEF IInv, TypeOK
  <2> QED BY <1>1, <2>1, <2>2, CommitSeats
<1>4. feedback' \subseteq FeedbackRow
  BY CommitScores, PatchTypes DEF IInv, TypeOK
<1> QED BY <1>2, <1>3, <1>4 DEF IInv, TypeOK, Commit

\* A COMMIT keeps everything: its entry is its own, and the others that are on
\* their way write another seat or another table.
LEMMA CommitKeeps ==
  ASSUME IInv, NEW r \in Requests, Commit(r)
  PROVE  IInv'
<1>1. PICK k \in Seats, n \in Nat : k = seat(r) /\ n = Len(auditLog[k])
  BY CallTypes, LogTypes DEF IInv
<1>2. /\ \A j \in Seats \ {k} : auditLog'[j] = auditLog[j]
      /\ Len(auditLog'[k]) = n + 1 /\ auditLog'[k][n + 1] = AuditOf(r)
      /\ \A m \in 1 .. n : auditLog'[k][m] = auditLog[k][m]
      /\ pc[r] = "commit" /\ pc'[r] = "respond" /\ reply[r] = Null
      /\ \A q \in Requests : q # r => pc'[q] = pc[q]
      /\ UNCHANGED <<interview, call, reply, saw>>
  BY <1>1, CommitAudits
<1>3. AuditOf(r).by = r /\ (isScore(AuditOf(r)) => AuditOf(r).to # Null)
  BY <1>2, AuditTypes
<1>4. \A q \in Requests : seat(q)' = seat(q) /\ (onPanel(q)' <=> onPanel(q)) /\ roundOf(q)' = roundOf(q)
  BY <1>2 DEF seat, onPanel, roundOf
<1>5. /\ \A j \in Seats : j # k \/ ~onPanel(r) => (assigned(j)' <=> assigned(j))
      /\ \A j \in Seats : j # k \/ onPanel(r) => (assessed(j)' <=> assessed(j))
      /\ \A j \in Seats : assessed(j) => assessed(j)'
  <2>1. \A j \in Seats : j # k \/ ~onPanel(r) => (assigned(j)' <=> assigned(j))
    BY <1>1, SeatsAfter, CommitSeats DEF onPanel
  <2>2. \A j \in Seats : j # k \/ onPanel(r) => (assessed(j)' <=> assessed(j))
    <3>1. CASE onPanel(r)
      BY <3>1, CommitScores DEF onPanel, assessed
    <3>2. CASE call[r].endpoint = "submit"
      <4>1. PICK f : feedback' = feedback \cup {f} /\ f.seat = k
        BY <1>1, <3>2, CommitScores
      <4> QED BY <3>2, <4>1 DEF assessed, onPanel
    <3>3. CASE call[r].endpoint = "update"
      <4>1. /\ feedback' = (feedback \ {feedbackOf(k)}) \cup {patched(r)}
            /\ feedbackOf(k).seat = k /\ patched(r).seat = k
        BY <1>1, <3>3, CommitScores, Assessments, PatchTypes DEF IInv
      <4> QED BY <3>3, <4>1 DEF assessed, onPanel
    <3> QED BY <3>1, <3>2, <3>3, CallTypes DEF IInv, onPanel
  <2>3. \A j \in Seats : assessed(j) => assessed(j)'
    BY <1>1, ScoresAfter
  <2> QED BY <2>1, <2>2, <2>3
<1>6. \A j \in Seats : wasAssigned(j) => wasAssigned(j)'
  <2>1. wasAssigned(k) => wasAssigned(k)'
    <3>1. \A m \in 1 .. n : m \in 1 .. n + 1
      OBVIOUS
    <3> QED BY <1>1, <1>2, <3>1 DEF wasAssigned
  <2> QED BY <1>2, <2>1 DEF wasAssigned
<1>7. WritersAreAlone'
  BY <1>2, <1>4 DEF IInv, WritersAreAlone
<1>8. WritesAreDue'
  <2> SUFFICES ASSUME NEW q \in Requests, q # r, pc[q] \in {"write", "commit"}
               PROVE  /\ Awaits(q, "assign", "commit") => roundOf(q) # Null /\ ~assigned(seat(q))'
                      /\ Awaits(q, "unassign", "commit") => assigned(seat(q))'
                      /\ Awaits(q, "submit", "commit") => ~assessed(seat(q))'
                      /\ Awaits(q, "submit", "write") \/ Awaits(q, "submit", "commit") => wasAssigned(seat(q))'
                      /\ Awaits(q, "update", "write") \/ Awaits(q, "update", "commit") => assessed(seat(q))'
    BY <1>2, <1>4 DEF WritesAreDue, Awaits
  <2>1. PICK j \in Seats : j = seat(q) /\ j = seat(q)'
    BY <1>4, CallTypes DEF IInv
  <2>2. pc[q] = "commit" => seat(q) # seat(r) \/ ~(onPanel(q) <=> onPanel(r))
    BY <1>2 DEF IInv, WritersAreAlone
  <2>3. /\ Awaits(q, "assign", "commit") => roundOf(q) # Null /\ ~assigned(j)
        /\ Awaits(q, "unassign", "commit") => assigned(j)
        /\ Awaits(q, "submit", "commit") => ~assessed(j)
        /\ Awaits(q, "submit", "write") \/ Awaits(q, "submit", "commit") => wasAssigned(j)
        /\ Awaits(q, "update", "write") \/ Awaits(q, "update", "commit") => assessed(j)
    BY <2>1 DEF IInv, WritesAreDue
  <2>4. /\ Awaits(q, "assign", "commit") => ~assigned(j)'
        /\ Awaits(q, "unassign", "commit") => assigned(j)'
        /\ Awaits(q, "submit", "commit") => ~assessed(j)'
    BY <1>1, <1>5, <2>1, <2>2, <2>3 DEF Awaits, onPanel
  <2>5. /\ assigned(seat(q))' <=> assigned(j)'
        /\ assessed(seat(q))' <=> assessed(j)'
        /\ wasAssigned(seat(q))' <=> wasAssigned(j)'
    BY <2>1 DEF assigned, assessed, wasAssigned
  <2> QED BY <1>5, <1>6, <2>3, <2>4, <2>5
<1>9. \A q \in Requests : committed(q) => committed(q)'
  BY <1>2 DEF committed
<1>10. EntriesAreOwn'
  <2> SUFFICES ASSUME NEW j \in Seats, NEW m \in 1 .. Len(auditLog'[j])
               PROVE  /\ isScore(auditLog[j][m])' => auditLog'[j][m].to # Null
                      /\ auditLog'[j][m].by # Null => committed(auditLog[j][m].by)'
    BY DEF EntriesAreOwn
  <2>1. CASE j = k /\ m = n + 1
    BY <1>2, <1>3, <2>1 DEF committed, isScore
  <2>2. CASE m \in 1 .. Len(auditLog[j]) /\ auditLog'[j][m] = auditLog[j][m]
    <3>1. /\ isScore(auditLog[j][m]) => auditLog[j][m].to # Null
          /\ auditLog[j][m].by # Null => committed(auditLog[j][m].by)
      BY <2>2 DEF IInv, EntriesAreOwn
    <3>2. auditLog[j][m].by \in Requests \cup {Null}
      BY <2>2, LogTypes DEF IInv, AuditRow
    <3>3. ASSUME NEW q \in Requests, committed(q) PROVE committed(q)'
      BY <1>9, <3>3
    <3> QED BY <2>2, <3>1, <3>2, <3>3 DEF isScore, committed
  <2>3. j # k => m \in 1 .. Len(auditLog[j]) /\ auditLog'[j][m] = auditLog[j][m]
    BY <1>2
  <2>4. j = k /\ m # n + 1 => m \in 1 .. Len(auditLog[j]) /\ auditLog'[j][m] = auditLog[j][m]
    BY <1>1, <1>2
  <2> QED BY <2>1, <2>2, <2>3, <2>4
<1>11. CommitsAreRecorded'
  <2> SUFFICES ASSUME NEW q \in Requests, pc'[q] = "respond" \/ reply'[q] = "OK"
               PROVE  recorded(q)'
    BY DEF CommitsAreRecorded
  <2>1. PICK j \in Seats : j = seat(q) /\ j = seat(q)'
    BY <1>4, CallTypes DEF IInv
  <2>2. \E m \in 1 .. Len(auditLog'[j]) : auditLog'[j][m].by = q
    <3>1. CASE q = r
      <4>1. j = k
        BY <1>1, <2>1, <3>1
      <4>2. n + 1 \in 1 .. Len(auditLog'[k])
        BY <1>2
      <4> QED BY <1>2, <1>3, <3>1, <4>1, <4>2
    <3>2. CASE q # r
      <4>1. PICK m \in 1 .. Len(auditLog[j]) : auditLog[j][m].by = q
        BY <1>2, <2>1, <3>2 DEF IInv, CommitsAreRecorded, recorded
      <4>2. m \in 1 .. Len(auditLog'[j]) /\ auditLog'[j][m] = auditLog[j][m]
        <5>1. CASE j = k
          BY <1>1, <1>2, <5>1
        <5>2. CASE j # k
          BY <1>2, <5>2
        <5> QED BY <5>1, <5>2
      <4> QED BY <4>1, <4>2
    <3> QED BY <3>1, <3>2
  <2> QED BY <2>1, <2>2 DEF recorded
<1>12. ToldIsSo'
  <2> SUFFICES ASSUME NEW q \in Requests
               PROVE  /\ reply'[q] # Null => pc'[q] = "done"
                      /\ reply'[q] = "ALREADY_ASSIGNED" => wasAssigned(seat(q))'
                      /\ reply'[q] = "FEEDBACK_ALREADY_SUBMITTED" => assessed(seat(q))'
    BY DEF ToldIsSo
  <2>1. PICK j \in Seats : j = seat(q) /\ j = seat(q)'
    BY <1>4, CallTypes DEF IInv
  <2>2. /\ assessed(seat(q))' <=> assessed(j)'
        /\ wasAssigned(seat(q))' <=> wasAssigned(j)'
    BY <2>1 DEF assessed, wasAssigned
  <2> QED BY <1>2, <1>5, <1>6, <2>1, <2>2 DEF IInv, ToldIsSo
<1> QED BY <1>7, <1>8, <1>10, <1>11, <1>12, CommitTypes, PanelTold, ScoresTold DEF IInv

-----------------------------------------------------------------------------
\* Every variable keeps its type.
LEMMA TypesKept ==
  ASSUME IInv, [Next]_vars
  PROVE  TypeOK'
<1> USE DEF Goto, Answer, rows
<1>a. TypeOK
  BY DEF IInv
<1>1. ASSUME NEW r \in Requests, NEW what \in Replies, Answer(r, what) PROVE TypeOK'
  BY <1>a, <1>1 DEF TypeOK
<1>2. ASSUME NEW r \in Requests, NEW s \in {"write", "commit"}, Goto(r, s), UNCHANGED saw PROVE TypeOK'
  BY <1>a, <1>2 DEF TypeOK
<1>3. ASSUME NEW r \in Requests, findEditableFeedback(r) PROVE TypeOK'
  <2>1. CASE editable(seat(r)) /\ Goto(r, "write") /\ saw' = [saw EXCEPT ![r] = feedbackOf(seat(r)).rating]
    <3>1. feedbackOf(seat(r)).rating \in Ratings
      BY <1>a, <2>1, Assessments, CallTypes DEF editable
    <3> QED BY <1>a, <2>1, <3>1 DEF TypeOK
  <2>2. CASE Answer(r, "NOT_FOUND")
    BY <1>1, <2>2
  <2> QED BY <1>3, <2>1, <2>2 DEF findEditableFeedback
<1> HIDE DEF Goto, Answer
<1>4. ASSUME NEW r \in Requests,
             FindInterviewer(r) \/ InsertAssignment(r) \/ AssignmentRefused(r) \/ DeleteAssignment(r) \/ NothingToDelete(r)
      PROVE  TypeOK'
  BY <1>1, <1>2, <1>4 DEF FindInterviewer, InsertAssignment, AssignmentRefused, DeleteAssignment, NothingToDelete
<1>5. ASSUME NEW r \in Requests,
             resolveWritableInterview(r) \/ InsertFeedback(r) \/ DuplicateFeedback(r) \/ updateOwnFeedback(r)
               \/ Respond(r) \/ Fail(r)
      PROVE  TypeOK'
  BY <1>1, <1>2, <1>5 DEF resolveWritableInterview, InsertFeedback, DuplicateFeedback, updateOwnFeedback, Respond, Fail
<1>6. ASSUME NEW r \in Requests, Commit(r) PROVE TypeOK'
  BY <1>6, CommitTypes
<1>7. ASSUME NEW i \in Rounds, createInterview(i) PROVE TypeOK'
  BY <1>a, <1>7 DEF TypeOK, createInterview, InterviewStatus
<1>8. ASSUME NEW i \in Rounds, NEW status \in {"COMPLETED", "CANCELLED"}, updateInterviewStatus(i, status)
      PROVE  TypeOK'
  BY <1>a, <1>8 DEF TypeOK, updateInterviewStatus, InterviewStatus
<1>9. CASE UNCHANGED vars
  BY <1>a, <1>9 DEF TypeOK, vars
<1> QED BY <1>3, <1>4, <1>5, <1>6, <1>7, <1>8, <1>9 DEF Next, Handle, AllServed

\* Every step of the writers keeps the inductive invariant.
LEMMA WritersKeep ==
  ASSUME IInv, [Next]_vars
  PROVE  IInv'
<1>1. TypeOK /\ TypeOK'
  BY TypesKept DEF IInv
<1>2. ASSUME NEW r \in Requests, MovesOn(r) PROVE IInv'
  BY <1>1, <1>2, MovingKeeps DEF IInv
<1>3. ASSUME NEW r \in Requests, NEW what \in Replies, Answers(r, what) PROVE IInv'
  BY <1>1, <1>3, AnsweringKeeps DEF IInv
<1>4. CASE UNCHANGED vars
  <2> USE <1>4 DEF vars, rows
  <2>1. PanelAuditAlternates' /\ AssessmentTold'
    BY AuditStays
  <2>2. WritersAreAlone' /\ WritesAreDue' /\ RoundsExist'
    BY DEF IInv, WritersAreAlone, WritesAreDue, RoundsExist, seat, onPanel, Awaits, roundOf, assigned, assessed, wasAssigned
  <2>3. EntriesAreOwn' /\ CommitsAreRecorded' /\ ToldIsSo'
    BY DEF IInv, EntriesAreOwn, CommitsAreRecorded, ToldIsSo, committed, recorded, isScore, seat, wasAssigned, assessed
  <2> QED BY <1>1, <2>1, <2>2, <2>3 DEF IInv
<1> QED BY <1>1, <1>2, <1>3, <1>4, RoundsKeep, CommitKeeps, StepCases

\* What earlier requests may have left.
LEMMA InitOK == Init => IInv
<1> SUFFICES ASSUME Init PROVE IInv
  OBVIOUS
<1>1. PICK panel \in SUBSET {k \in Rounds \X Interviewers : interview[k[1]] # Null} :
        \E wrote \in SUBSET panel : \E rating \in Ratings :
          /\ assignment = {[seat |-> k, by |-> Null] : k \in panel}
          /\ feedback = {[seat |-> k, by |-> Null, rating |-> rating, notes |-> Null] : k \in wrote}
          /\ auditLog = [k \in Seats |->
               IF k \in wrote THEN <<Entry("INTERVIEWER_ASSIGNED", Null, Null, Null),
                                    Entry("FEEDBACK_SUBMITTED", Null, Null, rating)>>
               ELSE IF k \in panel THEN <<Entry("INTERVIEWER_ASSIGNED", Null, Null, Null)>>
               ELSE <<>>]
  BY DEF Init
<1>2. PICK wrote \in SUBSET panel, rating \in Ratings :
        /\ assignment = {[seat |-> k, by |-> Null] : k \in panel}
        /\ feedback = {[seat |-> k, by |-> Null, rating |-> rating, notes |-> Null] : k \in wrote}
        /\ auditLog = [k \in Seats |->
             IF k \in wrote THEN <<Entry("INTERVIEWER_ASSIGNED", Null, Null, Null),
                                  Entry("FEEDBACK_SUBMITTED", Null, Null, rating)>>
             ELSE IF k \in panel THEN <<Entry("INTERVIEWER_ASSIGNED", Null, Null, Null)>>
             ELSE <<>>]
  BY <1>1
<1> DEFINE first == Entry("INTERVIEWER_ASSIGNED", Null, Null, Null)
           second == Entry("FEEDBACK_SUBMITTED", Null, Null, rating)
<1>3. /\ first \in AuditRow /\ first.action = "INTERVIEWER_ASSIGNED" /\ first.by = Null /\ ~isScore(first) /\ isPanel(first)
      /\ second \in AuditRow /\ second.action = "FEEDBACK_SUBMITTED" /\ second.by = Null /\ second.to = rating
      /\ isScore(second) /\ ~isPanel(second)
  BY DEF Entry, AuditRow, isScore, isPanel
<1>4. panel \subseteq Seats /\ wrote \subseteq panel
  BY DEF Seats, People
<1>5. \A k \in Seats : auditLog[k] = IF k \in wrote THEN <<first, second>> ELSE IF k \in panel THEN <<first>> ELSE <<>>
  BY <1>2
<1> DEFINE placed(k) == [seat |-> k, by |-> Null]
           scored(k) == [seat |-> k, by |-> Null, rating |-> rating, notes |-> Null]
<1>6. /\ assignment = {placed(k) : k \in panel} /\ feedback = {scored(k) : k \in wrote}
      /\ \A k \in Seats : /\ placed(k) \in AssignmentRow /\ placed(k).seat = k
                          /\ scored(k) \in FeedbackRow /\ scored(k).seat = k
                          /\ scored(k).by = Null /\ scored(k).rating = rating
  BY <1>2 DEF AssignmentRow, FeedbackRow
<1> HIDE DEF first, second, placed, scored
<1>7. TypeOK
  <2>1. assignment \subseteq AssignmentRow /\ feedback \subseteq FeedbackRow
    BY <1>4, <1>6
  <2>2. ASSUME NEW k \in Seats PROVE auditLog[k] \in Seq(AuditRow)
    <3>1. <<first, second>> \in Seq(AuditRow) /\ <<first>> \in Seq(AuditRow) /\ <<>> \in Seq(AuditRow)
      BY <1>3
    <3> QED BY <1>5, <3>1
  <2>3. auditLog \in [Seats -> Seq(AuditRow)]
    BY <1>2, <2>2
  <2>4. /\ interview \in [Rounds -> InterviewStatus \cup {Null}] /\ call \in [Requests -> Calls]
        /\ pc \in [Requests -> {"read", "write", "commit", "respond", "done"}]
        /\ reply \in [Requests -> Replies \cup {Null}] /\ saw \in [Requests -> Ratings \cup {Null}]
    BY DEF Init, InterviewStatus
  <2> QED BY <2>1, <2>3, <2>4 DEF TypeOK
<1>8. ASSUME NEW k \in Seats
      PROVE  /\ k \in wrote => Len(auditLog[k]) = 2 /\ auditLog[k][1] = first /\ auditLog[k][2] = second
             /\ k \in panel \ wrote => Len(auditLog[k]) = 1 /\ auditLog[k][1] = first
             /\ k \notin panel => Len(auditLog[k]) = 0
  BY <1>4, <1>5
<1>9. /\ \A k \in Seats : assigned(k) <=> k \in panel
      /\ \A k \in Seats : assessed(k) <=> k \in wrote
      /\ \A a, b \in assignment : a.seat = b.seat => a = b
      /\ \A f, g \in feedback : f.seat = g.seat => f = g
      /\ \A f \in feedback : f.rating = rating /\ f.by = Null
      /\ RoundsExist
  <2>1. \A k \in panel : interview[k[1]] # Null
    OBVIOUS
  <2> QED BY <1>4, <1>6, <2>1 DEF assigned, assessed, RoundsExist
<1>10. PanelAuditAlternates
  <2> SUFFICES ASSUME NEW k \in Seats
               PROVE  /\ \A n \in 1 .. Len(auditLog[k]) :
                           isPanel(auditLog[k][n]) =>
                             (auditLog[k][n].action = "INTERVIEWER_ASSIGNED" <=> ~heldAt(k, n - 1))
                      /\ assigned(k) <=> heldAt(k, Len(auditLog[k]))
    BY <1>9 DEF PanelAuditAlternates
  <2>1. CASE k \in wrote
    <3>1. /\ Len(auditLog[k]) = 2 /\ auditLog[k][1].action = "INTERVIEWER_ASSIGNED"
          /\ auditLog[k][2].action = "FEEDBACK_SUBMITTED" /\ assigned(k)
      BY <1>3, <1>4, <1>8, <1>9, <2>1
    <3>2. ~heldAt(k, 0) /\ heldAt(k, 2)
      BY <3>1 DEF heldAt
    <3> QED BY <3>1, <3>2 DEF isPanel
  <2>2. CASE k \in panel \ wrote
    <3>1. Len(auditLog[k]) = 1 /\ auditLog[k][1].action = "INTERVIEWER_ASSIGNED" /\ assigned(k)
      BY <1>3, <1>8, <1>9, <2>2
    <3>2. ~heldAt(k, 0) /\ heldAt(k, 1)
      BY <3>1 DEF heldAt
    <3> QED BY <3>1, <3>2 DEF isPanel
  <2>3. CASE k \notin panel
    BY <1>8, <1>9, <2>3 DEF heldAt
  <2> QED BY <1>4, <2>1, <2>2, <2>3
<1>11. AssessmentTold
  <2>1. ASSUME NEW k \in Seats, k \in wrote
        PROVE  assessed(k) /\ ratingIn(feedback, k) = rating /\ feedbackOf(k).by = Null
    <3>1. feedbackOf(k) \in feedback /\ ratingIn(feedback, k) = feedbackOf(k).rating
      BY <1>7, <1>9, <2>1, Assessments
    <3> QED BY <1>9, <2>1, <3>1
  <2>2. ASSUME NEW k \in Seats, k \notin wrote
        PROVE  ratingIn(feedback, k) = Null
    BY <1>9, <2>2 DEF ratingIn, assessed
  <2> SUFFICES ASSUME NEW k \in Seats
               PROVE  /\ ratedAt(k, Len(auditLog[k]), ratingIn(feedback, k))
                      /\ \A n \in 1 .. Len(auditLog[k]) :
                           /\ isScore(auditLog[k][n]) =>
                                (auditLog[k][n].action = "FEEDBACK_SUBMITTED" <=> unratedAt(k, n - 1))
                           /\ auditLog[k][n].action = "FEEDBACK_SUBMITTED" =>
                                /\ assessed(k) /\ auditLog[k][n].by = feedbackOf(k).by
                                /\ \E m \in 1 .. n - 1 : auditLog[k][m].action = "INTERVIEWER_ASSIGNED"
    BY <1>9 DEF AssessmentTold
  <2>3. CASE k \in wrote
    <3>1. /\ Len(auditLog[k]) = 2 /\ auditLog[k][1] = first /\ auditLog[k][2] = second
          /\ assessed(k) /\ ratingIn(feedback, k) = rating /\ feedbackOf(k).by = Null
      BY <1>8, <2>1, <2>3
    <3>2. ~isScore(auditLog[k][1]) /\ isScore(auditLog[k][2])
      BY <1>3, <3>1
    <3>3. unratedAt(k, 1) /\ ratedAt(k, 2, rating)
      <4>1. unratedAt(k, 1)
        BY <3>2 DEF unratedAt
      <4>2. ~unratedAt(k, 2)
        BY <3>2 DEF unratedAt
      <4>3. auditLog[k][2].to = rating
        BY <1>3, <3>1
      <4>4. isScore(auditLog[k][2]) /\ auditLog[k][2].to = rating /\ \A l \in 2 + 1 .. 2 : ~isScore(auditLog[k][l])
        BY <3>2, <4>3
      <4> QED BY <4>1, <4>2, <4>4 DEF ratedAt
    <3>4. \A n \in 1 .. 2 : n = 1 \/ (n = 2 /\ n - 1 = 1)
      OBVIOUS
    <3> QED BY <1>3, <3>1, <3>2, <3>3, <3>4
  <2>4. CASE k \in panel \ wrote
    <3>1. Len(auditLog[k]) = 1 /\ auditLog[k][1] = first /\ ratingIn(feedback, k) = Null
      BY <1>8, <2>2, <2>4
    <3>2. unratedAt(k, 1) /\ ~isScore(auditLog[k][1]) /\ auditLog[k][1].action # "FEEDBACK_SUBMITTED"
      BY <1>3, <3>1 DEF unratedAt
    <3> QED BY <3>1, <3>2 DEF ratedAt
  <2>5. CASE k \notin panel
    BY <1>4, <1>8, <2>2, <2>5 DEF unratedAt, ratedAt
  <2> QED BY <2>3, <2>4, <2>5
<1>12. EntriesAreOwn
  <2>1. \A k \in Seats : \A n \in 1 .. Len(auditLog[k]) : auditLog[k][n] = first \/ auditLog[k][n] = second
    BY <1>4, <1>8
  <2>2. first.by = Null /\ second.by = Null /\ ~isScore(first) /\ second.to # Null
    BY <1>3
  <2> QED BY <2>1, <2>2 DEF EntriesAreOwn
<1>13. WritersAreAlone /\ WritesAreDue /\ CommitsAreRecorded /\ ToldIsSo
  BY DEF Init, WritersAreAlone, WritesAreDue, CommitsAreRecorded, ToldIsSo, Awaits
<1> QED BY <1>7, <1>9, <1>10, <1>11, <1>12, <1>13 DEF IInv

-----------------------------------------------------------------------------
(***************************************************************************)
(* The writers and the readers together.                                   *)
(***************************************************************************)

\* An entry never changes and never goes.
LEMMA LogsGrow ==
  ASSUME IInv, [Next]_vars, NEW k \in Seats
  PROVE  /\ Len(auditLog[k]) \in Nat /\ Len(auditLog'[k]) \in Nat /\ Len(auditLog[k]) <= Len(auditLog'[k])
         /\ \A m \in 1 .. Len(auditLog[k]) : auditLog'[k][m] = auditLog[k][m]
<1>1. Len(auditLog[k]) \in Nat
  BY LogTypes DEF IInv
<1>2. ASSUME NEW r \in Requests, Commit(r)
      PROVE  /\ Len(auditLog'[k]) \in Nat /\ Len(auditLog[k]) <= Len(auditLog'[k])
             /\ \A m \in 1 .. Len(auditLog[k]) : auditLog'[k][m] = auditLog[k][m]
  <2>1. PICK j \in Seats, n \in Nat : j = seat(r) /\ n = Len(auditLog[j])
    BY CallTypes, LogTypes DEF IInv
  <2>2. /\ \A i \in Seats \ {j} : auditLog'[i] = auditLog[i]
        /\ Len(auditLog'[j]) = n + 1 /\ \A m \in 1 .. n : auditLog'[j][m] = auditLog[j][m]
    BY <1>2, <2>1, CommitAudits
  <2> QED BY <1>1, <2>1, <2>2
<1>3. CASE UNCHANGED auditLog
  BY <1>1, <1>3
<1>4. \/ UNCHANGED auditLog \/ \E r \in Requests : Commit(r)
  BY StepCases DEF IInv, RoundChanges, MovesOn, moves, Answers, Answer, vars, rows
<1> QED BY <1>1, <1>2, <1>3, <1>4

\* The invariant of a read, with the reader's name.
LEMMA ReadAs ==
  ASSUME NEW u \in Interviewers, read'.who = u, read' \in ReadType,
         \A k \in Seats : since'[k] \in 0 .. Len(auditLog'[k]),
         read'.what = "candidate" => \E i \in Rounds : heldAt(<<i, u>>, since[<<i, u>>])',
         \A i \in Rounds : read'.what = "feedback" /\ i = read'.round => heldAt(<<i, u>>, since[<<i, u>>])',
         read'.what = "feedback" => read'.round \in Rounds,
         read'.what = "page" => \A i \in Rounds : i \in read'.page <=> heldAt(<<i, u>>, since[<<i, u>>])'
  PROVE  ReadIsOnRecord'
<1>1. \A i \in Rounds : heldAt(<<i, read.who>>, since[<<i, read.who>>])' <=> heldAt(<<i, u>>, since[<<i, u>>])'
  <2> TAKE i \in Rounds
  <2> QED BY DEF heldAt
<1>2. read'.what = "candidate" => \E i \in Rounds : heldAt(<<i, read.who>>, since[<<i, read.who>>])'
  BY <1>1
<1>3. read'.what = "page" => \A i \in Rounds : i \in read'.page <=> heldAt(<<i, read.who>>, since[<<i, read.who>>])'
  BY <1>1
<1>4. read'.what = "feedback" => heldAt(<<read.round, read.who>>, since[<<read.round, read.who>>])'
  <2>1. ASSUME NEW i \in Rounds, i = read'.round, heldAt(<<i, read.who>>, since[<<i, read.who>>])'
        PROVE  heldAt(<<read.round, read.who>>, since[<<read.round, read.who>>])'
    BY <2>1 DEF heldAt
  <2> QED BY <1>1, <2>1
<1> QED BY <1>2, <1>3, <1>4 DEF ReadIsOnRecord

\* What a read returned stays so of its instant, whatever is written behind it.
LEMMA ReadKept ==
  ASSUME IInv, [Next]_vars, UNCHANGED readVars, ReadIsOnRecord
  PROVE  ReadIsOnRecord'
<1> SUFFICES ASSUME read # Null PROVE ReadIsOnRecord'
  BY DEF ReadIsOnRecord, readVars
<1>1. read' = read /\ since' = since
  BY DEF readVars
<1>2. read \in ReadType /\ \A k \in Seats : since[k] \in 0 .. Len(auditLog[k])
  BY DEF ReadIsOnRecord
<1>3. \A k \in Seats : since[k] \in 0 .. Len(auditLog'[k])
  BY <1>2, LogsGrow
<1>4. ASSUME NEW k \in Seats PROVE heldAt(k, since[k])' <=> heldAt(k, since[k])
  <2>1. PICK n \in Nat : n = Len(auditLog[k]) /\ \A m \in 1 .. n : auditLog'[k][m] = auditLog[k][m]
    BY LogsGrow
  <2>2. \A m \in 0 .. n : heldAt(k, m)' <=> heldAt(k, m)
    BY <2>1, Frozen
  <2>3. PICK s : s = since[k]
    OBVIOUS
  <2>4. s \in 0 .. n
    BY <1>2, <2>1, <2>3
  <2>5. heldAt(k, s)' <=> heldAt(k, s)
    BY <2>2, <2>4
  <2> QED BY <1>1, <2>3, <2>5 DEF heldAt
<1>5. read.who \in Interviewers /\ \A i \in Rounds : <<i, read.who>> \in Seats
  BY <1>2 DEF ReadType, Seats, People
<1>6. PICK u : u = read.who
  OBVIOUS
<1>7. \A i \in Rounds : heldAt(<<i, u>>, since[<<i, u>>])' <=> heldAt(<<i, u>>, since[<<i, u>>])
  BY <1>4, <1>5, <1>6
<1>8. /\ read.what = "candidate" => \E i \in Rounds : heldAt(<<i, u>>, since[<<i, u>>])
      /\ read.what = "feedback" => read.round \in Rounds /\ heldAt(<<read.round, u>>, since[<<read.round, u>>])
      /\ read.what = "page" => \A i \in Rounds : i \in read.page <=> heldAt(<<i, u>>, since[<<i, u>>])
  BY <1>6 DEF ReadIsOnRecord
<1>9. read'.who = u
  BY <1>1, <1>6
<1>10. /\ read.what = "candidate" => \E i \in Rounds : heldAt(<<i, u>>, since[<<i, u>>])'
       /\ read.what = "page" => \A i \in Rounds : i \in read.page <=> heldAt(<<i, u>>, since[<<i, u>>])'
       /\ \A i \in Rounds : read.what = "feedback" /\ i = read.round => heldAt(<<i, u>>, since[<<i, u>>])'
  BY <1>7, <1>8
<1> QED BY <1>1, <1>2, <1>3, <1>5, <1>6, <1>8, <1>10, ReadAs

\* A seat is held by what is written so far when its round is the reader's.
LEMMA ScopedIsHeld ==
  ASSUME IInv, NEW u \in Interviewers, NEW i \in Rounds
  PROVE  scoped(u, i) <=> heldAt(<<i, u>>, Len(auditLog[<<i, u>>]))
<1>1. <<i, u>> \in Seats
  BY DEF Seats, People
<1>2. assigned(<<i, u>>) <=> heldAt(<<i, u>>, Len(auditLog[<<i, u>>]))
  BY <1>1 DEF IInv, PanelAuditAlternates
<1>3. assigned(<<i, u>>) => interview[i] # Null
  BY DEF IInv, RoundsExist, assigned
<1> QED BY <1>2, <1>3 DEF scoped

\* A read begins with what the audit says now.
LEMMA BeginIsOnRecord ==
  ASSUME IInv, NEW u \in Interviewers,
         FindCandidate(u) \/ FindPage(u) \/ \E i \in Rounds : FindRound(u, i)
  PROVE  ReadIsOnRecord'
<1>1. UNCHANGED vars /\ since' = [k \in Seats |-> Len(auditLog[k])] /\ auditLog' = auditLog
  BY DEF FindCandidate, FindPage, FindRound, Begin, vars, rows
<1>2. \A k \in Seats : since'[k] = Len(auditLog[k]) /\ since'[k] \in 0 .. Len(auditLog[k])
  BY <1>1, LogTypes DEF IInv
<1>3. \A i \in Rounds : <<i, u>> \in Seats /\ (scoped(u, i) <=> heldAt(<<i, u>>, since[<<i, u>>])')
  <2> TAKE i \in Rounds
  <2>1. <<i, u>> \in Seats
    BY DEF Seats, People
  <2>2. scoped(u, i) <=> heldAt(<<i, u>>, Len(auditLog[<<i, u>>]))
    BY ScopedIsHeld
  <2> QED BY <1>1, <1>2, <2>1, <2>2 DEF heldAt
<1>4. CASE FindCandidate(u)
  <2> DEFINE said == [what |-> "candidate", who |-> u, round |-> Null, page |-> {}]
  <2>1. read' = said /\ roundsOf(u) # {}
    BY <1>4 DEF FindCandidate, Begin
  <2>2. said \in ReadType /\ said.what = "candidate" /\ said.who = u
    BY DEF ReadType
  <2> HIDE DEF said
  <2>3. \E i \in Rounds : heldAt(<<i, u>>, since[<<i, u>>])'
    BY <1>3, <2>1 DEF roundsOf
  <2>4. read'.what = "candidate" /\ read'.who = u /\ read' \in ReadType
    BY <2>1, <2>2
  <2> QED BY <1>1, <1>2, <2>3, <2>4, ReadAs
<1>5. CASE FindPage(u)
  <2> DEFINE said == [what |-> "page", who |-> u, round |-> Null, page |-> roundsOf(u)]
  <2>1. read' = said
    BY <1>5 DEF FindPage, Begin
  <2>2. said \in ReadType /\ said.what = "page" /\ said.who = u /\ said.page = roundsOf(u)
    BY DEF ReadType, roundsOf
  <2> HIDE DEF said
  <2>3. \A i \in Rounds : i \in roundsOf(u) <=> heldAt(<<i, u>>, since[<<i, u>>])'
    BY <1>3 DEF roundsOf
  <2>4. read'.what = "page" /\ read'.who = u /\ read' \in ReadType /\ read'.page = roundsOf(u)
    BY <2>1, <2>2
  <2> QED BY <1>1, <1>2, <2>3, <2>4, ReadAs
<1>6. ASSUME NEW i \in Rounds, FindRound(u, i) PROVE ReadIsOnRecord'
  <2> DEFINE said == [what |-> "feedback", who |-> u, round |-> i, page |-> {}]
  <2>1. read' = said /\ scoped(u, i)
    BY <1>6 DEF FindRound, Begin
  <2>2. said \in ReadType /\ said.what = "feedback" /\ said.who = u /\ said.round = i
    BY DEF ReadType
  <2> HIDE DEF said
  <2>3. heldAt(<<i, u>>, since[<<i, u>>])'
    BY <1>3, <2>1
  <2>4. read'.what = "feedback" /\ read'.who = u /\ read' \in ReadType /\ read'.round = i
    BY <2>1, <2>2
  <2> QED BY <1>1, <1>2, <2>3, <2>4, ReadAs
<1> QED BY <1>4, <1>5, <1>6

\* What the audit says of a seat is the row's state, an answer's reason is on
\* record, and what a reader was shown first was so: always.
THEOREM AccessTheorem == AccessSpec => [](IInv /\ ReadIsOnRecord)
<1>1. AccessInit => IInv /\ ReadIsOnRecord
  BY InitOK DEF AccessInit, ReadIsOnRecord
<1>2. ASSUME IInv, ReadIsOnRecord, [AccessNext]_accessVars
      PROVE  IInv' /\ ReadIsOnRecord'
  <2>1. ASSUME [Next]_vars, UNCHANGED readVars PROVE IInv' /\ ReadIsOnRecord'
    BY <1>2, <2>1, WritersKeep, ReadKept
  <2>2. CASE Reading
    <3>1. UNCHANGED vars
      BY <2>2 DEF Reading, FindCandidate, FindPage, FindRound, Begin, EndRead
    <3>2. IInv'
      BY <1>2, <3>1, WritersKeep
    <3>3. CASE EndRead
      BY <3>2, <3>3 DEF EndRead, ReadIsOnRecord
    <3> QED BY <1>2, <2>2, <3>2, <3>3, BeginIsOnRecord DEF Reading
  <2>3. CASE UNCHANGED accessVars
    BY <2>1, <2>3 DEF accessVars
  <2> QED BY <1>2, <2>1, <2>2, <2>3 DEF AccessNext
<1> QED BY <1>1, <1>2, PTL DEF AccessSpec

-----------------------------------------------------------------------------
(***************************************************************************)
(* What follows from the invariant.                                        *)
(***************************************************************************)

\* The writers alone: the same invariant.
THEOREM PanelTheorem == Spec => []IInv
<1>1. Init => IInv
  BY InitOK
<1>2. IInv /\ [Next]_vars => IInv'
  BY WritersKeep
<1> QED BY <1>1, <1>2, PTL DEF Spec

\* Two records of one fact agree: a seat's audit alternates and its last word
\* is whether the row is there.
THEOREM AlternatesTheorem == AccessSpec => []PanelAuditAlternates
<1>1. IInv => PanelAuditAlternates
  BY DEF IInv
<1> QED BY <1>1, AccessTheorem, PTL

\* What an update has read is a rating of its assessment that the audit tells.
toldRating(k, rating) == \E m \in 1 .. Len(auditLog[k]) : isScore(auditLog[k][m]) /\ auditLog[k][m].to = rating
SawIsTold ==
  \A r \in Requests :
    call[r].endpoint = "update" /\ pc[r] \in {"write", "commit"} => toldRating(seat(r), saw[r])

\* It read the rating that the row had, or has read it before.
LEMMA ReadsTheRow ==
  ASSUME TypeOK, [Next]_vars, NEW r \in Requests, call[r].endpoint = "update", pc'[r] \in {"write", "commit"}
  PROVE  \/ pc[r] \in {"write", "commit"} /\ saw'[r] = saw[r]
         \/ assessed(seat(r)) /\ saw'[r] = feedbackOf(seat(r)).rating
<1> DEFINE Kept == \/ pc[r] \in {"write", "commit"} /\ saw'[r] = saw[r]
                   \/ assessed(seat(r)) /\ saw'[r] = feedbackOf(seat(r)).rating
<1>0. /\ pc \in [Requests -> {"read", "write", "commit", "respond", "done"}]
      /\ saw \in [Requests -> Ratings \cup {Null}]
  BY DEF TypeOK
<1>1. CASE UNCHANGED <<pc, saw>>
  BY <1>1
<1>2. ASSUME NEW q \in Requests, Handle(q) \/ Fail(q)
      PROVE  Kept
  <2> USE <1>0 DEF Goto, Answer, Awaits
  <2>1. CASE findEditableFeedback(q)
    BY <2>1 DEF findEditableFeedback, editable
  <2>2. CASE updateOwnFeedback(q)
    BY <2>2 DEF updateOwnFeedback
  <2>3. CASE Commit(q) \/ Respond(q) \/ Fail(q)
    BY <2>3 DEF Commit, Respond, Fail
  <2>4. CASE FindInterviewer(q) \/ InsertAssignment(q) \/ AssignmentRefused(q)
    BY <2>4 DEF FindInterviewer, InsertAssignment, AssignmentRefused
  <2>5. CASE DeleteAssignment(q) \/ NothingToDelete(q)
    BY <2>5 DEF DeleteAssignment, NothingToDelete
  <2>6. CASE resolveWritableInterview(q) \/ InsertFeedback(q) \/ DuplicateFeedback(q)
    BY <2>6 DEF resolveWritableInterview, InsertFeedback, DuplicateFeedback
  <2> QED BY <1>2, <2>1, <2>2, <2>3, <2>4, <2>5, <2>6 DEF Handle
<1> QED BY <1>1, <1>2 DEF Next, createInterview, updateInterviewStatus, AllServed, vars

LEMMA SawKept ==
  ASSUME IInv, SawIsTold, [Next]_vars
  PROVE  SawIsTold'
<1>0. call' = call
  BY StepCases DEF IInv, RoundChanges, MovesOn, moves, Answers, Answer, Commit, vars
<1> SUFFICES ASSUME NEW r \in Requests, call[r].endpoint = "update", pc'[r] \in {"write", "commit"}
             PROVE  \E m \in 1 .. Len(auditLog'[seat(r)]) :
                      isScore(auditLog[seat(r)][m])' /\ auditLog'[seat(r)][m].to = saw'[r]
  BY <1>0 DEF SawIsTold, toldRating, seat, isScore
<1>1. PICK k \in Seats : k = seat(r)
  BY CallTypes DEF IInv
<1>2. \E m \in 1 .. Len(auditLog[k]) : isScore(auditLog[k][m]) /\ auditLog[k][m].to = saw'[r]
  <2>1. CASE pc[r] \in {"write", "commit"} /\ saw'[r] = saw[r]
    BY <1>1, <2>1 DEF SawIsTold, toldRating
  <2>2. CASE assessed(k) /\ saw'[r] = feedbackOf(k).rating
    <3>1. ratedAt(k, Len(auditLog[k]), feedbackOf(k).rating)
      BY <2>2 DEF IInv, AssessmentTold, ratingIn, feedbackOf, assessed
    <3>2. feedbackOf(k).rating # Null
      BY <2>2, Assessments DEF IInv, FeedbackRow
    <3> QED BY <2>2, <3>1, <3>2 DEF ratedAt
  <2> QED BY <1>1, <2>1, <2>2, ReadsTheRow DEF IInv
<1>3. /\ Len(auditLog[k]) \in Nat /\ Len(auditLog'[k]) \in Nat /\ Len(auditLog[k]) <= Len(auditLog'[k])
      /\ \A m \in 1 .. Len(auditLog[k]) : auditLog'[k][m] = auditLog[k][m]
  BY LogsGrow
<1> QED BY <1>0, <1>1, <1>2, <1>3 DEF isScore, seat

LEMMA EditsKept ==
  ASSUME IInv, SawIsTold, EditsMoveOffTold, [Next]_vars
  PROVE  EditsMoveOffTold'
<1> SUFFICES ASSUME NEW k \in Seats, NEW n \in 1 .. Len(auditLog'[k]), auditLog'[k][n].action = "FEEDBACK_UPDATED"
             PROVE  \E m \in 1 .. n - 1 :
                      isScore(auditLog[k][m])' /\ auditLog'[k][m].to = auditLog'[k][n].from
  BY DEF EditsMoveOffTold
<1>1. /\ Len(auditLog[k]) \in Nat /\ Len(auditLog'[k]) \in Nat /\ Len(auditLog[k]) <= Len(auditLog'[k])
      /\ \A m \in 1 .. Len(auditLog[k]) : auditLog'[k][m] = auditLog[k][m]
  BY LogsGrow
<1>2. CASE n \in 1 .. Len(auditLog[k])
  <2>1. PICK m \in 1 .. n - 1 : isScore(auditLog[k][m]) /\ auditLog[k][m].to = auditLog[k][n].from
    BY <1>1, <1>2 DEF EditsMoveOffTold
  <2> QED BY <1>1, <1>2, <2>1 DEF isScore
<1>3. CASE n \notin 1 .. Len(auditLog[k])
  <2>1. PICK r \in Requests : Commit(r)
    BY <1>1, <1>3, StepCases DEF IInv, RoundChanges, MovesOn, moves, Answers, Answer, vars, rows
  <2>2. PICK j \in Seats, l \in Nat : j = seat(r) /\ l = Len(auditLog[j])
    BY CallTypes, LogTypes DEF IInv
  <2>3. /\ \A i \in Seats \ {j} : auditLog'[i] = auditLog[i]
        /\ Len(auditLog'[j]) = l + 1 /\ auditLog'[j][l + 1] = AuditOf(r) /\ pc[r] = "commit"
    BY <2>1, <2>2, CommitAudits
  <2>4. k = j /\ n = l + 1
    BY <1>1, <1>3, <2>2, <2>3
  <2>5. AuditOf(r).action = "FEEDBACK_UPDATED"
    BY <2>3, <2>4
  <2>6. call[r].endpoint = "update"
    BY <2>3, <2>5, AuditTypes, CallTypes DEF IInv
  <2>7. AuditOf(r).from = saw[r]
    BY <2>6 DEF AuditOf, Entry
  <2>8. PICK m \in 1 .. l : isScore(auditLog[k][m]) /\ auditLog[k][m].to = saw[r]
    BY <2>2, <2>3, <2>4, <2>6 DEF SawIsTold, toldRating
  <2> QED BY <1>1, <2>2, <2>3, <2>4, <2>7, <2>8 DEF isScore
<1> QED BY <1>2, <1>3

\* The audit of an assessment is one submission, then edits, and ends with the
\* row's rating; the rating an edit is recorded as leaving was the assessment's
\* at an earlier entry (updateFeedback, which reads it without a lock).
THEOREM FeedbackToldTheorem == AccessSpec => []FeedbackAuditTold
<1> DEFINE Told == SawIsTold /\ EditsMoveOffTold
<1>1. Init => Told
  <2> SUFFICES ASSUME Init PROVE Told
    OBVIOUS
  <2>1. SawIsTold
    BY DEF Init, SawIsTold
  <2>2. \A k \in Seats : \A n \in 1 .. Len(auditLog[k]) : auditLog[k][n].action # "FEEDBACK_UPDATED"
    BY DEF Init, Entry
  <2> QED BY <2>1, <2>2 DEF EditsMoveOffTold
<1>2. ASSUME IInv, Told, [AccessNext]_accessVars
      PROVE  Told'
  <2>1. [Next]_vars
    BY <1>2 DEF AccessNext, accessVars, Reading, FindCandidate, FindPage, FindRound, Begin, EndRead
  <2> QED BY <1>2, <2>1, SawKept, EditsKept
<1>3. AccessInit => Told
  BY <1>1 DEF AccessInit
<1>4. AccessSpec => []IInv
  BY AccessTheorem, PTL
<1>5. IInv /\ Told => FeedbackAuditTold
  BY DEF IInv, FeedbackAuditTold
<1> QED BY <1>2, <1>3, <1>4, <1>5, PTL DEF AccessSpec

\* An answer of the four endpoints is true of what is on record.
LEMMA AnswersAreHonest == IInv => HonestAnswers
<1> SUFFICES ASSUME IInv, NEW r \in Requests
             PROVE  /\ reply[r] = "OK" => told(r)
                    /\ reply[r] \in Refusals => ~told(r)
                    /\ reply[r] = "FEEDBACK_ALREADY_SUBMITTED" => assessed(seat(r))
                    /\ reply[r] = "ALREADY_ASSIGNED" =>
                         \E n \in 1 .. Len(auditLog[seat(r)]) : isPanel(auditLog[seat(r)][n])
  BY DEF HonestAnswers
<1>1. seat(r) \in Seats
  BY CallTypes DEF IInv
<1>2. reply[r] = "OK" => told(r)
  BY <1>1 DEF IInv, CommitsAreRecorded, recorded, told
<1>3. reply[r] \in Refusals => ~told(r)
  BY DEF IInv, EntriesAreOwn, ToldIsSo, committed, told
<1>4. reply[r] = "FEEDBACK_ALREADY_SUBMITTED" => assessed(seat(r))
  BY DEF IInv, ToldIsSo
<1>5. reply[r] = "ALREADY_ASSIGNED" => \E n \in 1 .. Len(auditLog[seat(r)]) : isPanel(auditLog[seat(r)][n])
  BY DEF IInv, ToldIsSo, wasAssigned, isPanel
<1> QED BY <1>2, <1>3, <1>4, <1>5

\* A 200 has its entry, a refusal has none, and a 409 tells of a row that stays.
THEOREM HonestyTheorem == AccessSpec => []HonestAnswers
BY AnswersAreHonest, AccessTheorem, PTL

\* A step changes of an assessment what its own body names.
LEMMA EditsAreOwn ==
  ASSUME IInv, [Next]_vars, NEW f \in feedback, NEW g \in feedback', f.seat = g.seat
  PROVE  /\ g.rating # f.rating => \E r \in Requests : pc'[r] # pc[r] /\ call[r].rating = g.rating
         /\ g.notes # f.notes => \E r \in Requests : pc'[r] # pc[r] /\ g.notes = r
<1>1. f.seat \in Seats /\ \A h \in feedback : h.seat = f.seat => h = f
  BY DEF IInv, AssessmentTold, TypeOK, FeedbackRow
<1>2. CASE g \in feedback
  BY <1>1, <1>2
<1>3. ASSUME NEW r \in Requests, Commit(r), g \notin feedback
      PROVE  pc'[r] # pc[r] /\ (g.rating # f.rating => call[r].rating = g.rating)
             /\ (g.notes # f.notes => g.notes = r)
  <2>1. seat(r) \in Seats /\ pc'[r] # pc[r]
    BY <1>3, CallTypes DEF Commit, IInv, TypeOK
  <2>2. CASE call[r].endpoint = "submit"
    <3>1. ~assessed(seat(r)) /\ g.seat = seat(r)
      BY <1>3, <2>2, CommitScores
    <3> QED BY <3>1 DEF assessed
  <2>3. CASE call[r].endpoint = "update"
    <3>1. assessed(seat(r)) /\ g = patched(r)
      BY <1>3, <2>3, CommitScores
    <3>2. /\ g.seat = seat(r) /\ feedbackOf(seat(r)) \in feedback /\ feedbackOf(seat(r)).seat = seat(r)
          /\ g.rating = IF call[r].rating = Null THEN feedbackOf(seat(r)).rating ELSE call[r].rating
          /\ g.notes = IF call[r].notes THEN r ELSE feedbackOf(seat(r)).notes
      BY <2>1, <3>1, PatchTypes, Assessments DEF IInv
    <3>3. feedbackOf(seat(r)) = f
      BY <1>1, <3>2
    <3> QED BY <2>1, <3>2, <3>3
  <2> QED BY <1>3, <2>2, <2>3, CommitScores
<1>4. UNCHANGED feedback \/ \E r \in Requests : Commit(r)
  BY StepCases DEF IInv, RoundChanges, MovesOn, moves, Answers, Answer, vars, rows
<1> QED BY <1>2, <1>3, <1>4

\* No PATCH takes back what another has set, whatever the two read first.
THEOREM NoLostEditTheorem == AccessSpec => NoLostEdit
<1> DEFINE Own ==
      \A f \in feedback, g \in feedback' :
        f.seat = g.seat =>
          /\ g.rating # f.rating => \E r \in Requests : pc'[r] # pc[r] /\ call[r].rating = g.rating
          /\ g.notes # f.notes => \E r \in Requests : pc'[r] # pc[r] /\ g.notes = r
<1>1. ASSUME IInv, [AccessNext]_accessVars PROVE Own
  <2>1. [Next]_vars
    BY <1>1 DEF AccessNext, Reading, FindCandidate, FindPage, FindRound, Begin, EndRead, accessVars
  <2> QED BY <1>1, <2>1, EditsAreOwn
<1> QED BY <1>1, AccessTheorem, PTL DEF AccessSpec, NoLostEdit

\* What an interviewer is answered was so, by the audit, at an instant of the
\* request: the second statement is of now, the first of when it ran.
LEMMA AnswersAreOfTheRead ==
  ASSUME IInv, ReadIsOnRecord, read # Null
  PROVE  AnswersAreOnRecord
<1>1. PICK u \in Interviewers : u = read.who
  BY DEF ReadIsOnRecord, ReadType
<1>2. /\ read.what \in {"candidate", "feedback", "page"} /\ read.page \subseteq Rounds
      /\ \A k \in Seats : since[k] \in during(k) /\ Len(auditLog[k]) \in during(k)
  BY LogTypes DEF IInv, ReadIsOnRecord, ReadType, during
<1>3. \A i \in Rounds : <<i, u>> \in Seats /\ (scoped(u, i) <=> heldAt(<<i, u>>, Len(auditLog[<<i, u>>])))
  BY ScopedIsHeld DEF Seats, People
<1>4. CASE read.what = "candidate"
  <2>1. onRecord(findRounds)
    BY <1>1, <1>2, <1>3 DEF onRecord, findRounds, roundsOf
  <2>2. \E i \in Rounds : everHeld(<<i, u>>)
    BY <1>1, <1>2, <1>3, <1>4 DEF ReadIsOnRecord, everHeld
  <2> QED BY <1>1, <1>4, <2>1, <2>2 DEF AnswersAreOnRecord
<1>5. CASE read.what = "feedback"
  <2>1. read.round \in Rounds /\ everHeld(<<read.round, u>>)
    BY <1>1, <1>2, <1>3, <1>5 DEF ReadIsOnRecord, everHeld
  <2>2. ASSUME NEW p \in People, NEW k \in Seats, k = <<read.round, p>>
        PROVE  ratedAt(k, Len(auditLog[k]), ratingIn(findFeedback, k))
    <3>1. ratedAt(k, Len(auditLog[k]), ratingIn(feedback, k)) /\ \A f, g \in feedback : f.seat = k /\ g.seat = k => f = g
      BY DEF IInv, AssessmentTold
    <3>2. \A f : f \in findFeedback /\ f.seat = k <=> f \in feedback /\ f.seat = k
      BY <2>2 DEF findFeedback
    <3>3. ratingIn(findFeedback, k) = ratingIn(feedback, k)
      <4>1. CASE \E f \in feedback : f.seat = k
        <5>1. PICK f \in feedback : f.seat = k
          BY <4>1
        <5>2. (CHOOSE g \in feedback : g.seat = k) = f /\ (CHOOSE g \in findFeedback : g.seat = k) = f
          BY <3>1, <3>2, <5>1
        <5> QED BY <3>2, <5>1, <5>2 DEF ratingIn
      <4>2. CASE ~\E f \in feedback : f.seat = k
        BY <3>2, <4>2 DEF ratingIn
      <4> QED BY <4>1, <4>2
    <3> QED BY <3>1, <3>3
  <2>3. \A p \in People : \E n \in during(<<read.round, p>>) :
          ratedAt(<<read.round, p>>, n, ratingIn(findFeedback, <<read.round, p>>))
    <3> TAKE p \in People
    <3>1. PICK k \in Seats : k = <<read.round, p>>
      BY <2>1 DEF Seats
    <3> QED BY <1>2, <2>2, <3>1
  <2> QED BY <1>1, <1>5, <2>1, <2>3 DEF AnswersAreOnRecord
<1>6. CASE read.what = "page"
  <2>1. onRecord(read.page)
    BY <1>1, <1>2, <1>3, <1>6 DEF ReadIsOnRecord, onRecord
  <2> DEFINE always == {i \in Rounds : alwaysHeld(<<i, u>>)}
             ever == {i \in Rounds : everHeld(<<i, u>>)}
  <2>2. always \subseteq roundsOf(u) /\ roundsOf(u) \subseteq ever
    BY <1>2, <1>3 DEF alwaysHeld, everHeld, roundsOf
  <2>3. IsFiniteSet(roundsOf(u)) /\ IsFiniteSet(ever)
    BY PanelIds, FS_Subset DEF roundsOf
  <2>4. /\ Cardinality(always) <= Cardinality(roundsOf(u)) /\ Cardinality(roundsOf(u)) <= Cardinality(ever)
        /\ Cardinality(always) \in Nat /\ Cardinality(roundsOf(u)) \in Nat
    BY <2>2, <2>3, FS_Subset, FS_CardinalityType
  <2>5. countPage = Cardinality(roundsOf(u))
    BY <1>1 DEF countPage
  <2> QED BY <1>1, <1>6, <2>1, <2>4, <2>5 DEF AnswersAreOnRecord
<1> QED BY <1>2, <1>4, <1>5, <1>6

\* No reader is shown what was not theirs while they read, nor misses what was.
THEOREM OnRecordTheorem == AccessSpec => []AnswersAreOnRecord
<1>1. IInv /\ ReadIsOnRecord => AnswersAreOnRecord
  BY AnswersAreOfTheRead DEF AnswersAreOnRecord
<1> QED BY <1>1, AccessTheorem, PTL
=============================================================================
