----------------------------- MODULE ContactsProofs -----------------------------
(***************************************************************************)
(* Theorems about Contacts, for every set of candidates, fields and        *)
(* requests: the audit tells who wrote each field, and an answer is true.  *)
(* Only a COMMIT changes the two tables, and both are changed by it.       *)
(***************************************************************************)
EXTENDS Contacts, TLAPS

USE ContactsNull, ContactsReplies DEF Replies

\* A request that has found its candidate is about one, and an answer is the
\* end of it.
Places ==
  \A r \in Requests :
    /\ pc[r] \in {"upsert", "audit", "commit", "read"} => target(r) \in Candidates
    /\ reply[r] # Null => pc[r] = "done"
    /\ reply[r] = "OK" => target(r) \in Candidates

\* Every entry is one of a request that has committed, with what it was asked.
Committed(r) == pc[r] = "read" \/ reply[r] \in {"OK", "INTERNAL_ERROR"}
OwnEntry(c, e) == target(e.by) = c /\ e.fields = call[e.by].fields /\ Committed(e.by)
EntriesAreOwn == \A c \in Candidates : \A n \in 1 .. Len(auditLog[c]) : OwnEntry(c, auditLog[c][n])

\* A request past its COMMIT has its entry.
Recorded(r) == \E n \in 1 .. Len(auditLog[target(r)]) : auditLog[target(r)][n].by = r
CommitsAreRecorded == \A r \in Requests : pc[r] = "read" => Recorded(r)

\* The profile in a 200, field by field: the request's value, or that of an
\* entry behind it.
Returns(r) ==
  \E n \in 1 .. Len(auditLog[target(r)]) :
    /\ auditLog[target(r)][n].by = r
    /\ \A f \in call[r].fields : \E m \in 1 .. Len(auditLog[target(r)]) :
         /\ m >= n /\ f \in auditLog[target(r)][m].fields
         /\ returned[r][f].by = auditLog[target(r)][m].by

SuccessesReturn == \A r \in Requests : reply[r] = "OK" => Returns(r)

\* The inductive invariant.
IInv ==
  TypeOK /\ Places /\ EntriesAreOwn /\ CommitsAreRecorded /\ SuccessesReturn /\ AuditTellsFields

-----------------------------------------------------------------------------
\* What an entry is, and that it is somebody's.
LEMMA EntryTypes ==
  ASSUME TypeOK, NEW c \in Candidates
  PROVE  /\ auditLog[c] \in Seq(AuditRow) /\ Len(auditLog[c]) \in Nat
         /\ \A n \in 1 .. Len(auditLog[c]) : auditLog[c][n].by \in Requests
<1>1. auditLog[c] \in Seq(AuditRow) /\ Len(auditLog[c]) \in Nat
  BY DEF TypeOK
<1>2. ASSUME NEW n \in 1 .. Len(auditLog[c]) PROVE auditLog[c][n] \in AuditRow
  BY <1>1
<1> QED BY <1>1, <1>2 DEF AuditRow

\* What a COMMIT does to the tables: a row for the profile, an entry behind the
\* others.
LEMMA CommitRows ==
  ASSUME IInv, NEW r \in Requests, Commit(r)
  PROVE  /\ target(r) \in Candidates /\ call[r].fields \subseteq Fields
         /\ patched(r) \in ProfileRow
         /\ profile' = [profile EXCEPT ![target(r)] = patched(r)]
         /\ auditLog' \in [Candidates -> Seq(AuditRow)]
         /\ \A d \in Candidates \ {target(r)} : auditLog'[d] = auditLog[d] /\ profile'[d] = profile[d]
         /\ profile'[target(r)] = patched(r) /\ profile'[target(r)] # Null
         /\ Len(auditLog[target(r)]) \in Nat /\ Len(auditLog'[target(r)]) = Len(auditLog[target(r)]) + 1
         /\ \A n \in 1 .. Len(auditLog[target(r)]) : auditLog'[target(r)][n] = auditLog[target(r)][n]
         /\ auditLog'[target(r)][Len(auditLog[target(r)]) + 1].by = r
         /\ auditLog'[target(r)][Len(auditLog[target(r)]) + 1].fields = call[r].fields
<1> DEFINE c == target(r)
           entry == [by |-> r, fields |-> call[r].fields]
<1>1. c \in Candidates /\ call[r].fields \subseteq Fields
  BY DEF IInv, TypeOK, Places, Commit, Calls
<1>2. \A f \in Fields : found(r)[f] \in [by : Requests \cup {Null}, empty : BOOLEAN]
  BY <1>1 DEF IInv, TypeOK, ProfileRow, found
<1>3. value(r) \in [by : Requests \cup {Null}, empty : BOOLEAN]
  BY DEF IInv, TypeOK, Calls, value
<1>4. patched(r) \in ProfileRow
  BY <1>2, <1>3 DEF patched, ProfileRow
<1>5. entry \in AuditRow /\ entry.by = r /\ entry.fields = call[r].fields
  BY <1>1 DEF AuditRow
<1>6. profile' = [profile EXCEPT ![c] = patched(r)] /\ auditLog' = [auditLog EXCEPT ![c] = Append(@, entry)]
  BY DEF Commit
<1>7. profile'[c] = patched(r) /\ profile'[c] # Null
  BY <1>1, <1>4, <1>6 DEF IInv, TypeOK
<1>8. auditLog[c] \in Seq(AuditRow) /\ auditLog'[c] = Append(auditLog[c], entry)
  BY <1>1, <1>6 DEF IInv, TypeOK
<1>9. \A d \in Candidates \ {c} : auditLog'[d] = auditLog[d] /\ profile'[d] = profile[d]
  BY <1>1, <1>6 DEF IInv, TypeOK
<1>10. /\ Append(auditLog[c], entry) \in Seq(AuditRow)
       /\ Len(auditLog[c]) \in Nat /\ Len(auditLog'[c]) = Len(auditLog[c]) + 1
       /\ \A n \in 1 .. Len(auditLog[c]) : auditLog'[c][n] = auditLog[c][n]
       /\ auditLog'[c][Len(auditLog[c]) + 1] = entry
  <2> HIDE DEF entry
  <2> QED BY <1>5, <1>8
<1>11. auditLog' \in [Candidates -> Seq(AuditRow)]
  BY <1>1, <1>6, <1>8, <1>10 DEF IInv, TypeOK
<1> QED BY <1>1, <1>4, <1>5, <1>6, <1>7, <1>9, <1>10, <1>11

\* Nothing else changes them, and nothing changes what a request asked for.
LEMMA TablesStay ==
  ASSUME [Next]_vars
  PROVE  /\ call' = call
         /\ UNCHANGED <<profile, auditLog>> \/ \E r \in Requests : Commit(r)
BY DEF Next, updateCandidateContact, FindCandidate, Upsert, InsertAudit, Commit, ReadBack, Fail, AllServed,
   Then, Goto, Answer, vars

\* Every variable keeps its type.
LEMMA TypesKept ==
  ASSUME IInv, [Next]_vars
  PROVE  TypeOK'
<1> USE DEF TypeOK, Goto, Then, Answer
<1>a. TypeOK /\ Places
  BY DEF IInv
<1>1. ASSUME NEW r \in Requests, FindCandidate(r) PROVE TypeOK'
  BY <1>a, <1>1 DEF FindCandidate
<1>2. ASSUME NEW r \in Requests, Upsert(r) \/ InsertAudit(r) PROVE TypeOK'
  BY <1>a, <1>2 DEF Upsert, InsertAudit
<1>3. ASSUME NEW r \in Requests, Commit(r) PROVE TypeOK'
  BY <1>a, <1>3, CommitRows DEF Commit
<1>4. ASSUME NEW r \in Requests, ReadBack(r) PROVE TypeOK'
  BY <1>a, <1>4 DEF ReadBack, mayReadBack, Places
<1>5. ASSUME NEW r \in Requests, Fail(r) PROVE TypeOK'
  BY <1>a, <1>5 DEF Fail
<1>6. CASE UNCHANGED vars
  BY <1>a, <1>6 DEF vars
<1> QED BY <1>1, <1>2, <1>3, <1>4, <1>5, <1>6 DEF Next, updateCandidateContact, AllServed

\* The statements of the handler follow each other.
LEMMA PlacesKept ==
  ASSUME IInv, [Next]_vars
  PROVE  Places'
<1> USE DEF TypeOK, Places, Goto, Then, Answer, target
<1>a. TypeOK /\ Places
  BY DEF IInv
<1>1. ASSUME NEW r \in Requests, FindCandidate(r) PROVE Places'
  BY <1>a, <1>1 DEF FindCandidate
<1>2. ASSUME NEW r \in Requests, Upsert(r) \/ InsertAudit(r) \/ Commit(r) PROVE Places'
  BY <1>a, <1>2 DEF Upsert, InsertAudit, Commit
<1>3. ASSUME NEW r \in Requests, ReadBack(r) \/ Fail(r) PROVE Places'
  BY <1>a, <1>3 DEF ReadBack, mayReadBack, Fail
<1>4. CASE UNCHANGED vars
  BY <1>a, <1>4 DEF vars
<1> QED BY <1>1, <1>2, <1>3, <1>4 DEF Next, updateCandidateContact, AllServed

\* A request past its COMMIT stays past it: it answers 200, or its answer is
\* lost.
LEMMA CommittedStay ==
  ASSUME IInv, [Next]_vars, NEW r \in Requests, Committed(r)
  PROVE  Committed(r)'
<1> USE DEF TypeOK, Places, Goto, Then, Answer, Committed
<1>a. TypeOK /\ Places
  BY DEF IInv
<1>1. ASSUME NEW q \in Requests, FindCandidate(q)
      PROVE  Committed(r)'
  BY <1>a, <1>1 DEF FindCandidate
<1>2. ASSUME NEW q \in Requests, Upsert(q) \/ InsertAudit(q) \/ Commit(q)
      PROVE  Committed(r)'
  BY <1>a, <1>2 DEF Upsert, InsertAudit, Commit
<1>3. ASSUME NEW q \in Requests, ReadBack(q) \/ Fail(q)
      PROVE  Committed(r)'
  BY <1>a, <1>3 DEF ReadBack, mayReadBack, Fail
<1> QED BY <1>1, <1>2, <1>3 DEF Next, updateCandidateContact, AllServed, vars

\* An entry is written by the COMMIT of its request.
LEMMA EntriesKept ==
  ASSUME IInv, [Next]_vars
  PROVE  EntriesAreOwn'
<1>a. TypeOK /\ EntriesAreOwn /\ call' = call
  BY TablesStay DEF IInv
<1>b. ASSUME NEW c \in Candidates, NEW n \in 1 .. Len(auditLog[c]), auditLog'[c][n] = auditLog[c][n]
      PROVE  OwnEntry(c, auditLog[c][n])'
  <2> DEFINE r == auditLog[c][n].by
  <2>1. r \in Requests
    BY <1>a, EntryTypes
  <2>2. OwnEntry(c, auditLog[c][n])
    BY <1>a DEF EntriesAreOwn
  <2>3. Committed(r)
    BY <2>2 DEF OwnEntry
  <2>4. ASSUME NEW q \in Requests, Committed(q)
        PROVE  Committed(q)'
    BY <2>4, CommittedStay
  <2> QED BY <1>a, <1>b, <2>1, <2>2, <2>3, <2>4 DEF OwnEntry, target, Committed
<1>1. CASE UNCHANGED <<profile, auditLog>>
  BY <1>b, <1>1 DEF EntriesAreOwn
<1>2. ASSUME NEW q \in Requests, Commit(q)
      PROVE  EntriesAreOwn'
  <2>p. PICK c \in Candidates, last \in Nat : c = target(q) /\ last = Len(auditLog[c]) + 1
    BY <1>2, CommitRows
  <2>1. pc'[q] = "read"
    BY <1>a, <1>2 DEF Commit, Then, Goto, TypeOK
  <2>2. /\ \A d \in Candidates \ {c} : auditLog'[d] = auditLog[d]
        /\ Len(auditLog'[c]) = last /\ Len(auditLog[c]) \in Nat
        /\ \A n \in 1 .. Len(auditLog[c]) : auditLog'[c][n] = auditLog[c][n]
        /\ auditLog'[c][last].by = q /\ auditLog'[c][last].fields = call[q].fields
    BY <1>2, <2>p, CommitRows
  <2>3. OwnEntry(c, auditLog[c][last])'
    BY <1>a, <2>1, <2>2, <2>p DEF target, OwnEntry, Committed
  <2> SUFFICES ASSUME NEW d \in Candidates, NEW n \in 1 .. Len(auditLog'[d])
               PROVE  OwnEntry(d, auditLog[d][n])'
    BY DEF EntriesAreOwn
  <2>4. CASE d # c
    BY <1>b, <2>2, <2>4
  <2>5. CASE d = c /\ n # last
    <3>1. n \in 1 .. Len(auditLog[c])
      BY <2>2, <2>5, <2>p
    <3> QED BY <1>b, <2>2, <2>5, <3>1
  <2> QED BY <2>3, <2>4, <2>5
<1> QED BY <1>1, <1>2, TablesStay

\* Entries are only added, so what is recorded stays so.
LEMMA LogsGrow ==
  ASSUME IInv, [Next]_vars, NEW c \in Candidates
  PROVE  /\ Len(auditLog[c]) \in Nat /\ Len(auditLog'[c]) \in Nat /\ Len(auditLog[c]) <= Len(auditLog'[c])
         /\ \A n \in 1 .. Len(auditLog[c]) : auditLog'[c][n] = auditLog[c][n]
<1>1. Len(auditLog[c]) \in Nat
  BY DEF IInv, TypeOK
<1>2. CASE UNCHANGED <<profile, auditLog>>
  BY <1>1, <1>2
<1>3. ASSUME NEW r \in Requests, Commit(r)
      PROVE  /\ Len(auditLog'[c]) \in Nat /\ Len(auditLog[c]) <= Len(auditLog'[c])
             /\ \A n \in 1 .. Len(auditLog[c]) : auditLog'[c][n] = auditLog[c][n]
  <2>1. CASE c = target(r)
    BY <1>3, <2>1, CommitRows
  <2>2. CASE c # target(r)
    BY <1>1, <1>3, <2>2, CommitRows
  <2> QED BY <2>1, <2>2
<1> QED BY <1>1, <1>2, <1>3, TablesStay

\* A COMMIT leaves its entry, and nothing takes it away.
LEMMA CommitsKept ==
  ASSUME IInv, [Next]_vars
  PROVE  CommitsAreRecorded'
<1>a. TypeOK /\ Places /\ CommitsAreRecorded /\ call' = call
  BY TablesStay DEF IInv
<1> SUFFICES ASSUME NEW r \in Requests, pc'[r] = "read"
             PROVE  Recorded(r)'
  BY DEF CommitsAreRecorded
<1>1. pc[r] = "read" \/ Commit(r)
  <2> USE DEF TypeOK, Goto, Then, Answer
  <2>1. ASSUME NEW q \in Requests, FindCandidate(q) \/ Upsert(q) \/ InsertAudit(q)
        PROVE  pc[r] = "read"
    BY <1>a, <2>1 DEF FindCandidate, Upsert, InsertAudit
  <2>2. ASSUME NEW q \in Requests, ReadBack(q) \/ Fail(q)
        PROVE  pc[r] = "read"
    BY <1>a, <2>2 DEF ReadBack, mayReadBack, Fail
  <2>3. ASSUME NEW q \in Requests, Commit(q), q # r
        PROVE  pc[r] = "read"
    BY <1>a, <2>3 DEF Commit
  <2> QED BY <2>1, <2>2, <2>3 DEF Next, updateCandidateContact, AllServed, vars
<1>2. CASE pc[r] = "read"
  <2>1. target(r) \in Candidates /\ Recorded(r) /\ target(r)' = target(r)
    BY <1>a, <1>2 DEF Places, CommitsAreRecorded, target
  <2> QED BY <2>1, LogsGrow DEF Recorded
<1>3. CASE Commit(r)
  <2>1. target(r)' = target(r)
    BY <1>a DEF target
  <2>2. /\ Len(auditLog[target(r)]) + 1 \in 1 .. Len(auditLog'[target(r)])
        /\ auditLog'[target(r)][Len(auditLog[target(r)]) + 1].by = r
    BY <1>3, CommitRows
  <2> QED BY <2>1, <2>2 DEF Recorded
<1> QED BY <1>1, <1>2, <1>3

\* The audit tells the fields: a COMMIT's entry is the last to name what it
\* writes, and names nothing else.
LEMMA FieldsToldKept ==
  ASSUME IInv, [Next]_vars
  PROVE  AuditTellsFields'
<1>a. TypeOK /\ AuditTellsFields /\ EntriesAreOwn /\ call' = call
  BY TablesStay DEF IInv
<1>1. CASE UNCHANGED <<profile, auditLog>>
  BY <1>a, <1>1 DEF AuditTellsFields, naming, value
<1>2. ASSUME NEW r \in Requests, Commit(r) PROVE AuditTellsFields'
  <2>p. PICK c \in Candidates, last \in Nat : c = target(r) /\ last = Len(auditLog[c]) + 1
    BY <1>2, CommitRows
  <2>0. /\ c \in Candidates /\ call[r].fields \subseteq Fields
        /\ \A d \in Candidates \ {c} : auditLog'[d] = auditLog[d] /\ profile'[d] = profile[d]
        /\ profile'[c] = patched(r) /\ profile'[c] # Null
        /\ Len(auditLog[c]) \in Nat /\ Len(auditLog'[c]) = last
        /\ \A n \in 1 .. Len(auditLog[c]) : auditLog'[c][n] = auditLog[c][n]
        /\ auditLog'[c][last].by = r /\ auditLog'[c][last].fields = call[r].fields
    BY <1>2, <2>p, CommitRows
  <2>a. \A q : value(q)' = value(q)
    BY <1>a DEF value
  <2> SUFFICES ASSUME NEW d \in Candidates, NEW f \in Fields
               PROVE  IF naming(d, f)' = {} THEN profile'[d] # Null => profile'[d][f].by = Null
                      ELSE /\ profile'[d] # Null
                           /\ \E n \in naming(d, f)' :
                                /\ \A m \in naming(d, f)' : m <= n
                                /\ profile'[d][f] = value(auditLog[d][n].by)'
    BY DEF AuditTellsFields
  <2>b. IF naming(d, f) = {} THEN profile[d] # Null => profile[d][f].by = Null
        ELSE /\ profile[d] # Null
             /\ \E n \in naming(d, f) :
                  /\ \A m \in naming(d, f) : m <= n
                  /\ profile[d][f] = value(auditLog[d][n].by)
    BY <1>a DEF AuditTellsFields
  <2>1. CASE d # c
    <3>1. naming(d, f)' = naming(d, f)
      BY <2>0, <2>1 DEF naming
    <3> QED BY <2>0, <2>a, <2>b, <2>1, <3>1
  <2>2. CASE d = c /\ f \in call[r].fields
    <3>1. last \in 1 .. Len(auditLog'[c]) /\ f \in auditLog'[c][last].fields /\ auditLog'[c][last].by = r
      BY <2>0, <2>2, <2>p
    <3>2. last \in naming(c, f)' /\ \A m \in naming(c, f)' : m <= last
      BY <2>0, <3>1 DEF naming
    <3>3. patched(r)[f] = value(r)
      BY <2>2 DEF patched
    <3> QED BY <2>0, <2>a, <2>2, <3>1, <3>2, <3>3
  <2>3. CASE d = c /\ f \notin call[r].fields
    <3>0. auditLog'[c][last].fields = call[r].fields
      BY <2>0
    <3>1. naming(c, f)' = naming(c, f) /\ naming(c, f) \subseteq 1 .. Len(auditLog[c])
      <4>1. ASSUME NEW n \in 1 .. last, n # last PROVE n \in 1 .. Len(auditLog[c])
        BY <2>0, <2>p, <4>1
      <4>2. ASSUME NEW n \in 1 .. Len(auditLog[c]) PROVE n \in 1 .. last
        BY <2>0, <2>p
      <4>3. naming(c, f)' = {n \in 1 .. last : f \in auditLog'[c][n].fields}
        BY <2>0 DEF naming
      <4> QED BY <2>0, <2>3, <3>0, <4>1, <4>2, <4>3 DEF naming
    <3>2. patched(r)[f] = found(r)[f]
      BY <2>3 DEF patched
    <3>3. profile[c] # Null => found(r) = profile[c]
      BY <2>p DEF found
    <3>4. profile[c] = Null => found(r)[f].by = Null
      BY <2>p DEF found
    <3> QED BY <2>0, <2>a, <2>b, <2>3, <3>1, <3>2, <3>3, <3>4
  <2> QED BY <2>1, <2>2, <2>3
<1> QED BY <1>1, <1>2, TablesStay

\* What a read back returns is by the last entry that names each field, which
\* is the request's or one behind it.
LEMMA SuccessesKept ==
  ASSUME IInv, [Next]_vars
  PROVE  SuccessesReturn'
<1>a. TypeOK /\ Places /\ SuccessesReturn /\ AuditTellsFields /\ EntriesAreOwn /\ CommitsAreRecorded /\ call' = call
  BY TablesStay DEF IInv
<1> SUFFICES ASSUME NEW r \in Requests, reply'[r] = "OK"
             PROVE  Returns(r)'
  BY DEF SuccessesReturn
<1>b. target(r)' = target(r)
  BY <1>a DEF target
<1>1. (reply[r] = "OK" /\ returned'[r] = returned[r]) \/ ReadBack(r)
  <2> USE DEF TypeOK, Places, Goto, Then, Answer
  <2>1. ASSUME NEW q \in Requests, FindCandidate(q) \/ Upsert(q) \/ InsertAudit(q) \/ Commit(q)
        PROVE  reply[r] = "OK" /\ returned'[r] = returned[r]
    BY <1>a, <2>1 DEF FindCandidate, Upsert, InsertAudit, Commit
  <2>2. ASSUME NEW q \in Requests, Fail(q)
        PROVE  reply[r] = "OK" /\ returned'[r] = returned[r]
    BY <1>a, <2>2 DEF Fail
  <2>3. ASSUME NEW q \in Requests, ReadBack(q), q # r
        PROVE  reply[r] = "OK" /\ returned'[r] = returned[r]
    BY <1>a, <2>3 DEF ReadBack, mayReadBack
  <2> QED BY <2>1, <2>2, <2>3 DEF Next, updateCandidateContact, AllServed, vars
<1>2. CASE reply[r] = "OK" /\ returned'[r] = returned[r]
  <2>1. Returns(r) /\ target(r) \in Candidates
    BY <1>a, <1>2 DEF SuccessesReturn, Places
  <2> DEFINE log == auditLog[target(r)]
  <2>2. \A n \in 1 .. Len(log) : n \in 1 .. Len(log') /\ log'[n] = log[n]
    BY <1>b, <2>1, LogsGrow
  <2> QED BY <1>a, <1>b, <1>2, <2>1, <2>2 DEF Returns
<1>3. CASE ReadBack(r)
  <2> DEFINE c == target(r)
  <2>1. /\ pc[r] = "read" /\ c \in Candidates /\ call[r].fields \subseteq Fields
        /\ UNCHANGED <<profile, auditLog>> /\ returned'[r] = profile[c]
    BY <1>a, <1>3 DEF ReadBack, mayReadBack, Places, TypeOK, Calls
  <2>2. PICK n \in 1 .. Len(auditLog[c]) : auditLog[c][n].by = r
    BY <1>a, <2>1 DEF CommitsAreRecorded, Recorded
  <2>3. ASSUME NEW f \in call[r].fields
        PROVE  \E m \in 1 .. Len(auditLog[c]) :
                 m >= n /\ f \in auditLog[c][m].fields /\ profile[c][f].by = auditLog[c][m].by
    <3>0. OwnEntry(c, auditLog[c][n])
      BY <1>a, <2>1 DEF EntriesAreOwn
    <3>1. n \in naming(c, f) /\ f \in Fields
      BY <2>1, <2>2, <3>0 DEF OwnEntry, naming
    <3>2. PICK m \in naming(c, f) :
            (\A k \in naming(c, f) : k <= m) /\ profile[c][f] = value(auditLog[c][m].by)
      BY <1>a, <2>1, <3>1 DEF AuditTellsFields
    <3> QED BY <3>1, <3>2 DEF naming, value
  <2> QED BY <1>a, <1>b, <2>1, <2>2, <2>3 DEF Returns
<1> QED BY <1>1, <1>2, <1>3

-----------------------------------------------------------------------------
\* Before the first statement nothing is written and nothing said.
LEMMA InitOK == Init => IInv
<1> SUFFICES ASSUME Init PROVE IInv
  OBVIOUS
<1>1. \A c \in Candidates : Len(auditLog[c]) = 0
  BY DEF Init
<1>2. TypeOK
  BY DEF Init, TypeOK
<1>3. Places /\ CommitsAreRecorded /\ SuccessesReturn
  BY DEF Init, Places, CommitsAreRecorded, SuccessesReturn
<1>4. EntriesAreOwn /\ AuditTellsFields
  BY <1>1 DEF Init, EntriesAreOwn, AuditTellsFields, naming
<1> QED BY <1>2, <1>3, <1>4 DEF IInv

\* The inductive invariant of any number of overlapping PATCHes.
THEOREM ContactsTheorem == Spec => []IInv
<1>1. IInv /\ [Next]_vars => IInv'
  BY TypesKept, PlacesKept, EntriesKept, CommitsKept, FieldsToldKept, SuccessesKept DEF IInv
<1> QED BY InitOK, <1>1, PTL DEF Spec

\* The audit feed, which holds no values, tells who wrote every field of every
\* profile (updateCandidateContact), however many PATCHes overlap.
THEOREM FieldsToldTheorem == Spec => []AuditTellsFields
<1>1. IInv => AuditTellsFields
  BY DEF IInv
<1> QED BY ContactsTheorem, <1>1, PTL

\* A 200 is recorded and carries what it wrote or what was recorded after it; a
\* 404 is not recorded.
THEOREM HonestyTheorem == Spec => []HonestAnswers
<1>1. IInv => HonestAnswers
  <2> SUFFICES ASSUME IInv, NEW r \in Requests
               PROVE  LET mine(c) == {n \in 1 .. Len(auditLog[c]) : auditLog[c][n].by = r}
                      IN  /\ reply[r] = "NOT_FOUND" => \A c \in Candidates : mine(c) = {}
                          /\ reply[r] = "OK" =>
                               \E n \in mine(target(r)) : \A f \in call[r].fields :
                                 \E m \in naming(target(r), f) :
                                   m >= n /\ returned[r][f].by = auditLog[target(r)][m].by
    BY DEF HonestAnswers
  <2>1. ASSUME reply[r] = "NOT_FOUND", NEW c \in Candidates, NEW n \in 1 .. Len(auditLog[c]),
               auditLog[c][n].by = r
        PROVE  FALSE
    <3>1. OwnEntry(c, auditLog[c][n])
      BY DEF IInv, EntriesAreOwn
    <3> QED BY <2>1, <3>1 DEF IInv, OwnEntry, Committed, Places
  <2>2. ASSUME reply[r] = "OK" PROVE Returns(r)
    BY <2>2 DEF IInv, SuccessesReturn
  <2> QED BY <2>1, <2>2 DEF Returns, naming
<1> QED BY ContactsTheorem, <1>1, PTL

===============================================================================
