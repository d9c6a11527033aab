------------------------------- MODULE Contacts -------------------------------
(***************************************************************************)
(* A candidate's contact details (candidate.service.ts): one PATCH is a    *)
(* lookup, an upsert of the profile and an audit row that names the fields *)
(* and never their values, in one READ COMMITTED transaction, then a read  *)
(* back of the candidate after the COMMIT.                                 *)
(*                                                                         *)
(* The upsert is one INSERT ... ON CONFLICT DO UPDATE: it waits for        *)
(* whoever has written the profile and not committed, and patches the row  *)
(* it then finds, or creates it.  A value is the request that wrote it.    *)
(***************************************************************************)
EXTENDS Naturals, Sequences

CONSTANTS
  Candidates,  \* users whose role is CANDIDATE
  Others,      \* any other user id
  Fields,      \* of phone, location and headline, those that occur
  Requests,    \* HTTP requests, each served once
  Null

ASSUME ContactsRoles == Candidates \cap Others = {}

\* The body names one field at least; a field may be set to null.
Calls == [candidate : Candidates \cup Others, fields : SUBSET Fields \ {{}}, clears : BOOLEAN]

\* A field's value and who wrote it, Null in a row that never had one.
ProfileRow == [Fields -> [by : Requests \cup {Null}, empty : BOOLEAN]]
AuditRow == [by : Requests, fields : SUBSET Fields]

Replies == {"OK", "NOT_FOUND", "INTERNAL_ERROR"}

ASSUME ContactsNull == Null \notin Requests /\ Null \notin ProfileRow
ASSUME ContactsReplies == Null \notin Replies

VARIABLES
  profile,   \* CandidateProfile rows by user; Null before the first PATCH
  auditLog,  \* AuditLog rows with entityType CANDIDATE, by candidate, in id order
  call, pc, reply,
  returned   \* the profile in the response

vars == <<profile, auditLog, call, pc, reply, returned>>

Init ==
  /\ profile = [c \in Candidates |-> Null]
  /\ auditLog = [c \in Candidates |-> <<>>]
  /\ call \in [Requests -> Calls]
  /\ pc = [r \in Requests |-> "find"]
  /\ reply = [r \in Requests |-> Null]
  /\ returned = [r \in Requests |-> Null]

target(r) == call[r].candidate

Goto(r, statement) == pc' = [pc EXCEPT ![r] = statement]
Then(r, statement) == Goto(r, statement) /\ UNCHANGED <<call, reply, returned>>
Answer(r, what) == Goto(r, "done") /\ reply' = [reply EXCEPT ![r] = what] /\ UNCHANGED call

\* Nobody else has written this profile and not yet committed.
profileFree(r) ==
  \A q \in Requests \ {r} : ~(target(q) = target(r) /\ pc[q] \in {"audit", "commit"})

-----------------------------------------------------------------------------
\* The role is in the WHERE: another user's id is a 404.
FindCandidate(r) ==
  /\ pc[r] = "find"
  /\ IF target(r) \in Candidates THEN Then(r, "upsert")
                                 ELSE Answer(r, "NOT_FOUND") /\ UNCHANGED returned
  /\ UNCHANGED <<profile, auditLog>>

Upsert(r) ==
  /\ pc[r] = "upsert"
  /\ profileFree(r)
  /\ Then(r, "audit")
  /\ UNCHANGED <<profile, auditLog>>

value(r) == [by |-> r, empty |-> call[r].clears]
found(r) ==
  IF profile[target(r)] = Null THEN [f \in Fields |-> [by |-> Null, empty |-> TRUE]]
                               ELSE profile[target(r)]

\* Mutant: the body spread with its undefined keys, which clears a field the
\* recruiter never mentioned.
patchedSpread(r) ==
  [f \in Fields |-> IF f \in call[r].fields THEN value(r) ELSE [by |-> Null, empty |-> TRUE]]

\* Only the keys in the body are written, on create and on update.
patched(r) == [f \in Fields |-> IF f \in call[r].fields THEN value(r) ELSE found(r)[f]]

\* Nobody reads the audit row before the COMMIT, and nobody writes the profile
\* in between.
InsertAudit(r) == pc[r] = "audit" /\ Then(r, "commit") /\ UNCHANGED <<profile, auditLog>>

Commit(r) ==
  /\ pc[r] = "commit"
  /\ profile' = [profile EXCEPT ![target(r)] = patched(r)]
  /\ auditLog' = [auditLog EXCEPT ![target(r)] = Append(@, [by |-> r, fields |-> call[r].fields])]
  /\ Then(r, "read")

\* Mutant: the read back on its way while the transaction is still open.
mayReadBackEarly(r) == pc[r] \in {"commit", "read"}
mayReadBack(r) == pc[r] = "read"

\* getRecruiterCandidate, outside the transaction: another PATCH may be in it.
ReadBack(r) ==
  /\ mayReadBack(r)
  /\ Answer(r, "OK")
  /\ returned' = [returned EXCEPT ![r] = profile[target(r)]]
  /\ UNCHANGED <<profile, auditLog>>

\* A statement throws or the connection drops: what was not committed is gone.
Fail(r) ==
  /\ pc[r] # "done"
  /\ Answer(r, "INTERNAL_ERROR")
  /\ UNCHANGED <<profile, auditLog, returned>>

updateCandidateContact(r) ==
  FindCandidate(r) \/ Upsert(r) \/ InsertAudit(r) \/ Commit(r) \/ ReadBack(r)

AllServed == (\A r \in Requests : pc[r] = "done") /\ UNCHANGED vars

Next == (\E r \in Requests : updateCandidateContact(r) \/ Fail(r)) \/ AllServed

Spec == Init /\ [][Next]_vars

-----------------------------------------------------------------------------
TypeOK ==
  /\ profile \in [Candidates -> ProfileRow \cup {Null}]
  /\ auditLog \in [Candidates -> Seq(AuditRow)]
  /\ call \in [Requests -> Calls]
  /\ pc \in [Requests -> {"find", "upsert", "audit", "commit", "read", "done"}]
  /\ reply \in [Requests -> Replies \cup {Null}]
  /\ returned \in [Requests -> ProfileRow \cup {Null}]

\* The entries of a candidate's audit trail that name a field, by position.
naming(c, f) == {n \in 1 .. Len(auditLog[c]) : f \in auditLog[c][n].fields}

\* The audit feed, which holds no values, still tells who wrote each one: the
\* last entry that names a field is by the request whose value it has, and a
\* field nobody named was never written, however many PATCHes of different
\* fields overlap.
AuditTellsFields ==
  \A c \in Candidates : \A f \in Fields :
    LET named == naming(c, f)
    IN  IF named = {} THEN profile[c] # Null => profile[c][f].by = Null
        ELSE /\ profile[c] # Null
             /\ \E n \in named :
                  /\ \A m \in named : m <= n
                  /\ profile[c][f] = value(auditLog[c][n].by)

\* A 200 is recorded and a 404 is not; and the profile a 200 carries has, in
\* every field the body named, the body's value or that of a PATCH recorded
\* after it.
HonestAnswers ==
  \A r \in Requests :
    LET mine(c) == {n \in 1 .. Len(auditLog[c]) : auditLog[c][n].by = r}
    IN  /\ reply[r] = "NOT_FOUND" => \A c \in Candidates : mine(c) = {}
        /\ reply[r] = "OK" =>
             \E n \in mine(target(r)) : \A f \in call[r].fields :
               \E m \in naming(target(r), f) :
                 m >= n /\ returned[r][f].by = auditLog[target(r)][m].by
=============================================================================
