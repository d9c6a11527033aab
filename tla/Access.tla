--------------------------------- MODULE Access --------------------------------
(***************************************************************************)
(* What an interviewer is shown: the candidate page                        *)
(* (candidate.repository.ts), the assessments of a round                   *)
(* (feedback.repository.ts) and the page of rounds                         *)
(* (interviews.repository.ts), read while the panel is changed and         *)
(* assessments are written.                                                *)
(*                                                                         *)
(* Each read is two statements with a snapshot each: the first is scoped   *)
(* to the reader's seats and answers 404, or an empty page, when there is  *)
(* none; the second fills the answer.  A 404 changes nothing here.         *)
(*                                                                         *)
(* All rounds are one candidate's and on one page.  Filters, order and the *)
(* columns shown are left out; so are a recruiter's reads, which have no   *)
(* scope (Timeline has some of them).                                      *)
(***************************************************************************)
EXTENDS Panel

VARIABLES
  read,   \* the read whose first statement has returned; Null between reads
  since   \* where the audit of each seat stood then

readVars == <<read, since>>
accessVars == <<vars, readVars>>

NotYet == [k \in Seats |-> 0]

AccessInit == Init /\ read = Null /\ since = NotYet

-----------------------------------------------------------------------------
\* Mutant: the role taken for the scope.
scopedByRole(u, i) == interview[i] # Null /\ u \in Interviewers

\* The WHERE: { assignments: { some: { interviewerId } } }.
scoped(u, i) == interview[i] # Null /\ assigned(<<i, u>>)

roundsOf(u) == {i \in Rounds : scoped(u, i)}

Begin(what, u, i) ==
  /\ read = Null
  /\ read' = [what |-> what, who |-> u, round |-> i, page |-> IF what = "page" THEN roundsOf(u) ELSE {}]
  /\ since' = [k \in Seats |-> Len(auditLog[k])]
  /\ UNCHANGED vars

\* getInterviewerCandidate: a candidate one of whose rounds the reader sits on.
FindCandidate(u) == roundsOf(u) # {} /\ Begin("candidate", u, Null)

\* findRoundFeedback: the scoped round.
FindRound(u, i) == scoped(u, i) /\ Begin("feedback", u, i)

\* findInterviewPage: the rows of the page.
FindPage(u) == Begin("page", u, Null)

\* What the second statement returns, run now: the rounds the reader sits on,
\* the round's assessments (a relation, with no scope of its own), the count.
findRounds == roundsOf(read.who)
findFeedback == {f \in feedback : f.seat[1] = read.round}
countPage == Cardinality(roundsOf(read.who))

\* The second statement and the response, or a failure: nobody else sees it.
EndRead ==
  /\ read # Null
  /\ read' = Null /\ since' = NotYet
  /\ UNCHANGED vars

Reading ==
  \/ \E u \in Interviewers : FindCandidate(u) \/ FindPage(u) \/ \E i \in Rounds : FindRound(u, i)
  \/ EndRead

AccessNext == (Next /\ UNCHANGED readVars) \/ Reading

AccessSpec == AccessInit /\ [][AccessNext]_accessVars

-----------------------------------------------------------------------------
\* The instants of the read, by the entries there are about a seat.
during(k) == since[k] .. Len(auditLog[k])
everHeld(k) == \E n \in during(k) : heldAt(k, n)
alwaysHeld(k) == \A n \in during(k) : heldAt(k, n)

onRecord(listed) ==
  \A i \in Rounds : \E n \in during(<<i, read.who>>) : i \in listed <=> heldAt(<<i, read.who>>, n)

\* An interviewer is answered what the audit says was so at some instant of the
\* request, whenever the second statement runs: nothing of a candidate or of a
\* round whose panel they were not on meanwhile, no round that was not theirs
\* and none of theirs missing, no rating that was not the assessment's then,
\* and a total that is no further from the page than what was assigned or
\* taken away in between.
AnswersAreOnRecord ==
  read # Null =>
    CASE read.what = "candidate" ->
           onRecord(findRounds) /\ \E i \in Rounds : everHeld(<<i, read.who>>)
      [] read.what = "feedback" ->
           /\ everHeld(<<read.round, read.who>>)
           /\ \A u \in People : \E n \in during(<<read.round, u>>) :
                ratedAt(<<read.round, u>>, n, ratingIn(findFeedback, <<read.round, u>>))
      [] read.what = "page" ->
           /\ onRecord(read.page)
           /\ countPage >= Cardinality({i \in Rounds : alwaysHeld(<<i, read.who>>)})
           /\ countPage <= Cardinality({i \in Rounds : everHeld(<<i, read.who>>)})

\* interviews.repository.ts:89-91: "`total` always describes the same snapshot
\* and the same scope as the rows beside it".  The two statements of a READ
\* COMMITTED transaction have a snapshot each.
TotalIsOfThePage == read # Null /\ read.what = "page" => countPage = Cardinality(read.page)
=============================================================================
