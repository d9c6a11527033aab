--------------------------------- MODULE Panel ---------------------------------
(***************************************************************************)
(* The panel of a round and what it writes: assignInterviewer and          *)
(* unassignInterviewer (interviews.service.ts), submitFeedback and         *)
(* updateFeedback (feedback.service.ts), beside a recruiter who completes  *)
(* or cancels the round.                                                   *)
(*                                                                         *)
(* Every request is one READ COMMITTED transaction that writes one row,    *)
(* found by its seat: a round and a person, unique in either table.  From  *)
(* that write to its COMMIT it keeps every other writer of the same seat   *)
(* waiting; the audit row it inserts in between is read by nobody before,  *)
(* so the insert is part of the COMMIT's step.                             *)
(***************************************************************************)
EXTENDS Naturals, Sequences, FiniteSets

CONSTANTS
  Rounds,        \* interview ids
  Interviewers,  \* users whose role is INTERVIEWER
  Others,        \* any other user id
  Ratings,       \* of 1 .. 5, the values that occur
  Requests,      \* HTTP requests, each served once
  Null

People == Interviewers \cup Others
Seats == Rounds \X People

InterviewStatus == {"SCHEDULED", "COMPLETED", "CANCELLED"}

\* A seat is the :interviewId and, on the panel's two routes, the interviewer
\* in the body or the path; on feedback, the token's subject.  rating and notes
\* say what the body has: feedback has both, a PATCH at least one.
Calls ==
  [endpoint : {"assign", "unassign"}, seat : Seats, rating : {Null}, notes : {FALSE}]
    \cup [endpoint : {"submit"}, seat : Rounds \X Interviewers, rating : Ratings, notes : {TRUE}]
    \cup {c \in [endpoint : {"update"}, seat : Rounds \X Interviewers,
                 rating : Ratings \cup {Null}, notes : BOOLEAN] : c.rating # Null \/ c.notes}

\* by and notes are the request that wrote them, Null for an earlier one.
AssignmentRow == [seat : Seats, by : Requests \cup {Null}]
FeedbackRow ==
  [seat : Seats, by : Requests \cup {Null}, rating : Ratings, notes : Requests \cup {Null}]

AuditRow ==
  [action : {"INTERVIEWER_ASSIGNED", "INTERVIEWER_UNASSIGNED", "FEEDBACK_SUBMITTED",
             "FEEDBACK_UPDATED"},
   by : Requests \cup {Null}, from : Ratings \cup {Null}, to : Ratings \cup {Null}]

ASSUME PanelNull == Null \notin Requests /\ Null \notin Ratings /\ Null \notin InterviewStatus
ASSUME PanelRoles == Interviewers \cap Others = {}
ASSUME PanelIds == IsFiniteSet(Rounds)  \* an id is an Int column's

VARIABLES
  interview,   \* a round's status, Null before it is created
  assignment,  \* InterviewAssignment rows
  feedback,    \* Feedback rows
  auditLog,    \* the audit rows about a seat, in id order
  call, pc, reply,
  saw          \* the rating updateFeedback's first read returned

rows == <<interview, assignment, feedback, auditLog>>
vars == <<rows, call, pc, reply, saw>>

Refusals ==
  {"NOT_AN_INTERVIEWER", "ALREADY_ASSIGNED", "NOT_FOUND", "INTERVIEW_CANCELLED",
   "FEEDBACK_ALREADY_SUBMITTED"}
Replies == Refusals \cup {"OK", "INTERNAL_ERROR"}

ASSUME PanelReplies == Null \notin Replies

seat(r) == call[r].seat
roundOf(r) == interview[seat(r)[1]]
assigned(k) == \E a \in assignment : a.seat = k
assessed(k) == \E f \in feedback : f.seat = k
feedbackOf(k) == CHOOSE f \in feedback : f.seat = k

Entry(action, by, from, to) == [action |-> action, by |-> by, from |-> from, to |-> to]

\* What requests served earlier may have left: a panel, and assessments by
\* some of it, each with its audit row.
Init ==
  /\ interview \in [Rounds -> {Null, "SCHEDULED"}]
  /\ \E panel \in SUBSET {k \in Rounds \X Interviewers : interview[k[1]] # Null} :
     \E wrote \in SUBSET panel : \E rating \in Ratings :
       /\ assignment = {[seat |-> k, by |-> Null] : k \in panel}
       /\ feedback = {[seat |-> k, by |-> Null, rating |-> rating, notes |-> Null] : k \in wrote}
       /\ auditLog = [k \in Seats |->
            IF k \in wrote THEN <<Entry("INTERVIEWER_ASSIGNED", Null, Null, Null),
                                 Entry("FEEDBACK_SUBMITTED", Null, Null, rating)>>
            ELSE IF k \in panel THEN <<Entry("INTERVIEWER_ASSIGNED", Null, Null, Null)>>
            ELSE <<>>]
  /\ call \in [Requests -> Calls]
  /\ pc = [r \in Requests |-> IF call[r].endpoint = "unassign" THEN "write" ELSE "read"]
  /\ reply = [r \in Requests |-> Null]
  /\ saw = [r \in Requests |-> Null]

Awaits(r, endpoint, statement) == call[r].endpoint = endpoint /\ pc[r] = statement

Goto(r, statement) == pc' = [pc EXCEPT ![r] = statement] /\ UNCHANGED <<rows, call, reply>>

Answer(r, what) ==
  /\ pc' = [pc EXCEPT ![r] = "done"]
  /\ reply' = [reply EXCEPT ![r] = what]
  /\ UNCHANGED <<rows, call, saw>>

\* The table a request writes.
onPanel(r) == call[r].endpoint \in {"assign", "unassign"}

\* Nobody else has written this seat and not yet committed.
seatFree(r) ==
  \A q \in Requests \ {r} : ~(pc[q] = "commit" /\ seat(q) = seat(r) /\ onPanel(q) = onPanel(r))

-----------------------------------------------------------------------------
\* The other writers of Interview, each one guarded statement.
createInterview(i) ==
  /\ interview[i] = Null
  /\ interview' = [interview EXCEPT ![i] = "SCHEDULED"]
  /\ UNCHANGED <<assignment, feedback, auditLog, call, pc, reply, saw>>

updateInterviewStatus(i, status) ==
  /\ interview[i] = "SCHEDULED"
  /\ interview' = [interview EXCEPT ![i] = status]
  /\ UNCHANGED <<assignment, feedback, auditLog, call, pc, reply, saw>>

\* assignInterviewer.  The role is in the WHERE of the lookup.
FindInterviewer(r) ==
  /\ Awaits(r, "assign", "read")
  /\ IF seat(r)[2] \in Interviewers THEN Goto(r, "write") /\ UNCHANGED saw
                                    ELSE Answer(r, "NOT_AN_INTERVIEWER")

\* Mutant: a findFirst ahead of the insert and no unique index.
mayTakeSeatUnlocked(r) == roundOf(r) # Null /\ ~assigned(seat(r))

mayTakeSeat(r) == roundOf(r) # Null /\ seatFree(r) /\ ~assigned(seat(r))

InsertAssignment(r) ==
  Awaits(r, "assign", "write") /\ mayTakeSeat(r) /\ Goto(r, "commit") /\ UNCHANGED saw

\* P2002 by the unique index, P2003 by the foreign key.
AssignmentRefused(r) ==
  /\ Awaits(r, "assign", "write")
  /\ \/ seatFree(r) /\ assigned(seat(r)) /\ Answer(r, "ALREADY_ASSIGNED")
     \/ roundOf(r) = Null /\ Answer(r, "NOT_FOUND")

\* unassignInterviewer: deleteMany waits for the row only if it sees one.
DeleteAssignment(r) ==
  Awaits(r, "unassign", "write") /\ assigned(seat(r)) /\ seatFree(r) /\ Goto(r, "commit")
    /\ UNCHANGED saw

NothingToDelete(r) ==
  Awaits(r, "unassign", "write") /\ ~assigned(seat(r)) /\ Answer(r, "NOT_FOUND")

\* submitFeedback.  One scoped read; neither the assignment nor the status is
\* asked again.
resolveWritableInterview(r) ==
  /\ Awaits(r, "submit", "read")
  /\ IF ~assigned(seat(r)) THEN Answer(r, "NOT_FOUND")
     ELSE IF roundOf(r) = "CANCELLED" THEN Answer(r, "INTERVIEW_CANCELLED")
     ELSE Goto(r, "write") /\ UNCHANGED saw

InsertFeedback(r) ==
  Awaits(r, "submit", "write") /\ seatFree(r) /\ ~assessed(seat(r)) /\ Goto(r, "commit")
    /\ UNCHANGED saw

\* Mutant: refused by an insert that may yet roll back.
DuplicateFeedbackEarly(r) ==
  /\ Awaits(r, "submit", "write")
  /\ assessed(seat(r)) \/ ~seatFree(r)
  /\ Answer(r, "FEEDBACK_ALREADY_SUBMITTED")

DuplicateFeedback(r) ==
  Awaits(r, "submit", "write") /\ seatFree(r) /\ assessed(seat(r))
    /\ Answer(r, "FEEDBACK_ALREADY_SUBMITTED")

\* updateFeedback: the row is the caller's, and so is the seat, still.
editable(k) == assessed(k) /\ assigned(k)

findEditableFeedback(r) ==
  /\ Awaits(r, "update", "read")
  /\ IF editable(seat(r))
     THEN Goto(r, "write") /\ saw' = [saw EXCEPT ![r] = feedbackOf(seat(r)).rating]
     ELSE Answer(r, "NOT_FOUND")

updateOwnFeedback(r) ==
  Awaits(r, "update", "write") /\ seatFree(r) /\ Goto(r, "commit") /\ UNCHANGED saw

\* Mutant: the row as the first read saw it, with the body on top.
patchedFromRead(r) ==
  [feedbackOf(seat(r)) EXCEPT !.rating = IF call[r].rating = Null THEN saw[r] ELSE call[r].rating,
                              !.notes = IF call[r].notes THEN r ELSE @]

\* Only the keys in the body are written.
patched(r) ==
  [feedbackOf(seat(r)) EXCEPT !.rating = IF call[r].rating = Null THEN @ ELSE call[r].rating,
                              !.notes = IF call[r].notes THEN r ELSE @]

-----------------------------------------------------------------------------
(***************************************************************************)
(* The audit insert and the COMMIT.                                        *)
(***************************************************************************)

\* Mutant: toRating taken from the first read when the body has none.
AuditStaleTo(r) ==
  CASE call[r].endpoint = "assign"   -> Entry("INTERVIEWER_ASSIGNED", r, Null, Null)
    [] call[r].endpoint = "unassign" -> Entry("INTERVIEWER_UNASSIGNED", r, Null, Null)
    [] call[r].endpoint = "submit"   -> Entry("FEEDBACK_SUBMITTED", r, Null, call[r].rating)
    [] call[r].endpoint = "update"   ->
         Entry("FEEDBACK_UPDATED", r, saw[r], IF call[r].rating = Null THEN saw[r] ELSE call[r].rating)

AuditOf(r) ==
  CASE call[r].endpoint = "assign"   -> Entry("INTERVIEWER_ASSIGNED", r, Null, Null)
    [] call[r].endpoint = "unassign" -> Entry("INTERVIEWER_UNASSIGNED", r, Null, Null)
    [] call[r].endpoint = "submit"   -> Entry("FEEDBACK_SUBMITTED", r, Null, call[r].rating)
    [] call[r].endpoint = "update"   -> Entry("FEEDBACK_UPDATED", r, saw[r], patched(r).rating)

writeRow(r) ==
  CASE call[r].endpoint = "assign" ->
         assignment' = assignment \cup {[seat |-> seat(r), by |-> r]} /\ UNCHANGED feedback
    [] call[r].endpoint = "unassign" ->
         assignment' = {a \in assignment : a.seat # seat(r)} /\ UNCHANGED feedback
    [] call[r].endpoint = "submit" ->
         /\ feedback' = feedback \cup
              {[seat |-> seat(r), by |-> r, rating |-> call[r].rating, notes |-> r]}
         /\ UNCHANGED assignment
    [] call[r].endpoint = "update" ->
         feedback' = (feedback \ {feedbackOf(seat(r))}) \cup {patched(r)} /\ UNCHANGED assignment

Commit(r) ==
  /\ pc[r] = "commit"
  /\ writeRow(r)
  /\ auditLog' = [auditLog EXCEPT ![seat(r)] = Append(@, AuditOf(r))]
  /\ pc' = [pc EXCEPT ![r] = "respond"]
  /\ UNCHANGED <<interview, call, reply, saw>>

Respond(r) == pc[r] = "respond" /\ Answer(r, "OK")

\* A statement throws or the connection drops: what was not committed is gone.
Fail(r) == pc[r] # "done" /\ Answer(r, "INTERNAL_ERROR")

Handle(r) ==
  \/ FindInterviewer(r) \/ InsertAssignment(r) \/ AssignmentRefused(r)
  \/ DeleteAssignment(r) \/ NothingToDelete(r)
  \/ resolveWritableInterview(r) \/ InsertFeedback(r) \/ DuplicateFeedback(r)
  \/ findEditableFeedback(r) \/ updateOwnFeedback(r)
  \/ Commit(r) \/ Respond(r)

AllServed == (\A r \in Requests : pc[r] = "done") /\ UNCHANGED vars

Next ==
  \/ \E i \in Rounds : createInterview(i)
  \/ \E i \in Rounds, status \in {"COMPLETED", "CANCELLED"} : updateInterviewStatus(i, status)
  \/ \E r \in Requests : Handle(r) \/ Fail(r)
  \/ AllServed

Spec == Init /\ [][Next]_vars

-----------------------------------------------------------------------------
TypeOK ==
  /\ interview \in [Rounds -> InterviewStatus \cup {Null}]
  /\ assignment \subseteq AssignmentRow /\ feedback \subseteq FeedbackRow
  /\ auditLog \in [Seats -> Seq(AuditRow)]
  /\ call \in [Requests -> Calls]
  /\ pc \in [Requests -> {"read", "write", "commit", "respond", "done"}]
  /\ reply \in [Requests -> Replies \cup {Null}]
  /\ saw \in [Requests -> Ratings \cup {Null}]

isPanel(entry) == entry.action \in {"INTERVIEWER_ASSIGNED", "INTERVIEWER_UNASSIGNED"}
isScore(entry) == entry.action \in {"FEEDBACK_SUBMITTED", "FEEDBACK_UPDATED"}

\* What the audit says of a seat by its n-th entry: whether it is held, and the
\* rating of its assessment, Null before there is one.
heldAt(k, n) ==
  \E m \in 1 .. n :
    /\ auditLog[k][m].action = "INTERVIEWER_ASSIGNED"
    /\ \A l \in m + 1 .. n : auditLog[k][l].action # "INTERVIEWER_UNASSIGNED"

unratedAt(k, n) == \A m \in 1 .. n : ~isScore(auditLog[k][m])
ratedAt(k, n, rating) ==
  IF unratedAt(k, n) THEN rating = Null
  ELSE \E m \in 1 .. n :
         /\ isScore(auditLog[k][m]) /\ auditLog[k][m].to = rating
         /\ \A l \in m + 1 .. n : ~isScore(auditLog[k][l])

ratingIn(listed, k) ==
  IF \E f \in listed : f.seat = k THEN (CHOOSE f \in listed : f.seat = k).rating ELSE Null

\* "Two records of one fact eventually disagree": not these two.  The audit of
\* a seat alternates between assigned and unassigned, starting with assigned,
\* and its last word is whether the row is there, and there once: "one person,
\* one seat, one round", under any number of simultaneous clicks
\* (unassignInterviewer, schema.prisma).
PanelAuditAlternates ==
  \A k \in Seats :
    /\ \A n \in 1 .. Len(auditLog[k]) :
         isPanel(auditLog[k][n]) =>
           (auditLog[k][n].action = "INTERVIEWER_ASSIGNED" <=> ~heldAt(k, n - 1))
    /\ assigned(k) <=> heldAt(k, Len(auditLog[k]))
    /\ \A a, b \in assignment : a.seat = k /\ b.seat = k => a = b

\* Of a seat's assessment the audit has one submission, after an assignment of
\* that person, then only edits, and the last entry's rating is the row's; one
\* row, and no entry without it (FR-3.4 of the feedback spec).
AssessmentTold ==
  \A k \in Seats :
    /\ \A f, g \in feedback : f.seat = k /\ g.seat = k => f = g
    /\ ratedAt(k, Len(auditLog[k]), ratingIn(feedback, k))
    /\ \A n \in 1 .. Len(auditLog[k]) :
         /\ isScore(auditLog[k][n]) =>
              (auditLog[k][n].action = "FEEDBACK_SUBMITTED" <=> unratedAt(k, n - 1))
         /\ auditLog[k][n].action = "FEEDBACK_SUBMITTED" =>
              /\ assessed(k) /\ auditLog[k][n].by = feedbackOf(k).by
              /\ \E m \in 1 .. n - 1 : auditLog[k][m].action = "INTERVIEWER_ASSIGNED"

\* An edit is recorded as moving off a rating the assessment had: one that an
\* earlier entry tells, if not the last one before it (PreviousRatingRecorded).
EditsMoveOffTold ==
  \A k \in Seats : \A n \in 1 .. Len(auditLog[k]) :
    auditLog[k][n].action = "FEEDBACK_UPDATED" =>
      \E m \in 1 .. n - 1 : isScore(auditLog[k][m]) /\ auditLog[k][m].to = auditLog[k][n].from

\* The audit of an assessment tells its row, and each edit a rating it left.
FeedbackAuditTold == AssessmentTold /\ EditsMoveOffTold

told(by) == \E k \in Seats : \E n \in 1 .. Len(auditLog[k]) : auditLog[k][n].by = by

\* A 201, 200 or 204 is recorded under its request and a refusal is not; a 409
\* for a taken seat has the other request's row behind it, not an attempt that
\* may still roll back.
HonestAnswers ==
  \A r \in Requests :
    /\ reply[r] = "OK" => told(r)
    /\ reply[r] \in Refusals => ~told(r)
    /\ reply[r] = "FEEDBACK_ALREADY_SUBMITTED" => assessed(seat(r))
    /\ reply[r] = "ALREADY_ASSIGNED" =>
         \E n \in 1 .. Len(auditLog[seat(r)]) : isPanel(auditLog[seat(r)][n])

\* "Only the keys present are written": a PATCH of the notes never takes a
\* rating back that another PATCH has set in between, nor the other way round.
NoLostEdit ==
  [][\A f \in feedback, g \in feedback' :
       f.seat = g.seat =>
         /\ g.rating # f.rating => \E r \in Requests : pc'[r] # pc[r] /\ call[r].rating = g.rating
         /\ g.notes # f.notes => \E r \in Requests : pc'[r] # pc[r] /\ g.notes = r]_vars

\* FR-2.7 of the feedback spec: "The round must not be `CANCELLED`".  The
\* status is read ahead of the insert and in no WHERE.
NoFeedbackOnCancelledRound ==
  [][\A g \in feedback' : ~assessed(g.seat) => interview[g.seat[1]] # "CANCELLED"]_vars

\* FR-4.4 of the feedback spec: "The previous rating is recorded".  The read
\* that supplies it takes no lock, and another PATCH may commit after it.
PreviousRatingRecorded ==
  \A k \in Seats : \A n \in 1 .. Len(auditLog[k]) :
    auditLog[k][n].action = "FEEDBACK_UPDATED" => ratedAt(k, n - 1, auditLog[k][n].from)
=============================================================================
