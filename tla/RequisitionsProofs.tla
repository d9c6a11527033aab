-------------------------- MODULE RequisitionsProofs --------------------------
(***************************************************************************)
(* Theorems about Requisitions, for every set of roles, candidates and     *)
(* requests: no application outlives its role, an answer is true, and no   *)
(* title is lost.  All three rest on who holds which lock at which         *)
(* statement, and on what a lock keeps still.                              *)
(***************************************************************************)
EXTENDS Requisitions, FiniteSetTheorems, TLAPS

USE RequisitionNull, RequisitionReplies DEF Replies, Refusals

\* Who has written a role's row and not ended, and who checks a foreign key.
holdsRow(r, x) ==
  /\ \/ Awaits(r, "updateRole", "commit")
     \/ Awaits(r, "deleteRole", "check") \/ Awaits(r, "deleteRole", "commit")
  /\ target(r) = x
holdsKey(r, x) ==
  /\ Awaits(r, "createApplication", "entry") \/ Awaits(r, "createApplication", "commit")
  /\ target(r) = x

\* A lock is held by whoever took it and has not ended.
LocksAreHeld ==
  \A x \in Roles : \A r \in Requests :
    (roleLock[x] = r <=> holdsRow(r, x)) /\ (r \in keyShare[x] <=> holdsKey(r, x))

\* A locked role exists; a foreign key and a DELETE never hold it together.
LocksExclude ==
  \A x \in Roles :
    /\ roleLock[x] # Null \/ keyShare[x] # {} => exists(x)
    /\ keyShare[x] # {} /\ roleLock[x] # Null => call[roleLock[x]].endpoint # "deleteRole"

\* An id once handed out is not handed out again, so a role deleted stays so.
IdsAreUsedOnce ==
  /\ \A x \in Roles : exists(x) => x \in created
  /\ \A r \in Requests :
       call[r].endpoint = "deleteRole" /\ (pc[r] = "respond" \/ reply[r] = "OK") =>
         ~exists(target(r)) /\ target(r) \in created

\* What an UPDATE wrote is its patch of the row as it still is, and what a
\* DELETE has checked still holds.
WritesAreCurrent ==
  \A r \in Requests :
    /\ Awaits(r, "updateRole", "commit") => written[r] = patched(r)
    /\ Awaits(r, "deleteRole", "commit") => unreferenced(target(r))

\* A row is one of a request that has committed; a request that has committed
\* has its row.
rowFor(r) == [role |-> target(r), candidate |-> call[r].candidate, by |-> r]
applied(r) == pc[r] = "respond" \/ reply[r] \in {"OK", "INTERNAL_ERROR"}

RowsAreOwn ==
  /\ \A a \in application :
       call[a.by].endpoint = "createApplication" /\ a = rowFor(a.by) /\ applied(a.by)
  /\ \A r \in Requests :
       call[r].endpoint = "createApplication" /\ (pc[r] = "respond" \/ reply[r] = "OK") =>
         rowFor(r) \in application

\* The unique index: of the rows, and of those not yet committed.
OneOfAKind ==
  /\ \A a, b \in application : a.role = b.role /\ a.candidate = b.candidate => a = b
  /\ \A r \in Requests : pending(r) =>
       ~inIndex(r) /\ \A q \in Requests : pending(q) /\ sameKey(r, q) => q = r

\* What was told is still so.
ToldIsSo ==
  \A r \in Requests :
    /\ reply[r] # Null => pc[r] = "done"
    /\ reply[r] = "ALREADY_APPLIED" => inIndex(r)
    /\ reply[r] = "ROLE_HAS_APPLICATIONS" => \E a \in application : a.role = target(r)

\* The inductive invariant.
IInv ==
  /\ TypeOK
  /\ LocksAreHeld /\ LocksExclude
  /\ IdsAreUsedOnce /\ WritesAreCurrent
  /\ RowsAreOwn /\ OneOfAKind /\ ToldIsSo
  /\ NoDanglingApplication

-----------------------------------------------------------------------------
(***************************************************************************)
(* The steps, by what they do: move on, answer, take a lock, commit.       *)
(***************************************************************************)
moves(r, endpoint, from, to) ==
  /\ Awaits(r, endpoint, from)
  /\ pc' = [pc EXCEPT ![r] = to]
  /\ UNCHANGED <<rows, call, written, locks, reply>>

\* A step that only brings a request to its next statement.
MovesOn(r) ==
  \/ moves(r, "updateRole", "read", "write")
  \/ moves(r, "deleteRole", "read", "write")
  \/ moves(r, "deleteRole", "check", "commit") /\ unreferenced(target(r))
  \/ moves(r, "createApplication", "read", "insert")
  \/ moves(r, "createApplication", "insert", "reference") /\ mayInsert(r)
  \/ moves(r, "createApplication", "entry", "commit")
  \/ moves(r, "listRoles", "read", "count")

\* An answer and what is so when it is given.
Answers(r, what) ==
  /\ Answer(r, what) /\ UNCHANGED rows
  /\ what \in Replies /\ pc[r] # "done"
  /\ what = "OK" => pc[r] = "respond" \/ call[r].endpoint = "listRoles"
  /\ what = "ALREADY_APPLIED" => Awaits(r, "createApplication", "insert") /\ inIndex(r)
  /\ what = "ROLE_HAS_APPLICATIONS" =>
       Awaits(r, "deleteRole", "check") /\ \E a \in application : a.role = target(r)
  /\ pc[r] = "respond" => what \in {"OK", "INTERNAL_ERROR"}

Commits(r) == CommitUpdate(r) \/ CommitDelete(r) \/ CommitApplication(r)
Locks(r) == UpdateRow(r) \/ LockForDelete(r) \/ ReferenceRole(r)

\* A step is one of these.
LEMMA StepCases ==
  ASSUME TypeOK, [Next]_vars
  PROVE  \/ \E x \in Roles : createRole(x)
         \/ \E r \in Requests :
              MovesOn(r) \/ (\E what \in Replies : Answers(r, what)) \/ Locks(r) \/ Commits(r)
         \/ UNCHANGED vars
<1> DEFINE Known(r) == MovesOn(r) \/ (\E what \in Replies : Answers(r, what)) \/ Locks(r) \/ Commits(r)
<1> USE DEF Goto, Refuse, rows, locks, listing
<1>1. ASSUME NEW r \in Requests, ReadStatus(r) PROVE Known(r)
  BY <1>1 DEF ReadStatus, MovesOn, moves
<1>2. ASSUME NEW r \in Requests, UpdateMisses(r) PROVE Known(r)
  <2>1. Answers(r, "NOT_FOUND")
    BY <1>2 DEF UpdateMisses, Answers, Awaits
  <2> QED BY <2>1
<1>3. ASSUME NEW r \in Requests, RespondUpdate(r) \/ RespondDelete(r) \/ RespondApplication(r) PROVE Known(r)
  <2>1. Answers(r, "OK")
    BY <1>3 DEF RespondUpdate, RespondDelete, RespondApplication, Answers, Awaits
  <2> QED BY <2>1
<1>4. ASSUME NEW r \in Requests, ReadForDelete(r) PROVE Known(r)
  <2>1. Answers(r, "NOT_FOUND") \/ Answers(r, "ROLE_NOT_CLOSED") \/ moves(r, "deleteRole", "read", "write")
    BY <1>4 DEF ReadForDelete, Answers, Awaits, moves
  <2> QED BY <2>1 DEF MovesOn
<1>5. ASSUME NEW r \in Requests, DeleteMisses(r) PROVE Known(r)
  <2>1. Answers(r, "P2025")
    BY <1>5 DEF DeleteMisses, Answers, Awaits
  <2> QED BY <2>1
<1>6. ASSUME NEW r \in Requests, CheckReferences(r) PROVE Known(r)
  <2>1. CASE unreferenced(target(r))
    BY <1>6, <2>1 DEF CheckReferences, MovesOn, moves
  <2>2. CASE ~unreferenced(target(r))
    <3>1. Answers(r, "ROLE_HAS_APPLICATIONS")
      BY <1>6, <2>2 DEF CheckReferences, Answers, Awaits, unreferenced
    <3> QED BY <3>1
  <2> QED BY <2>1, <2>2
<1>7. ASSUME NEW r \in Requests, findOpenRole(r) PROVE Known(r)
  <2>1. Answers(r, "NOT_FOUND") \/ moves(r, "createApplication", "read", "insert")
    BY <1>7 DEF findOpenRole, Answers, Awaits, moves
  <2> QED BY <2>1 DEF MovesOn
<1>8. ASSUME NEW r \in Requests, InsertApplication(r) \/ InsertEntryRow(r) PROVE Known(r)
  BY <1>8 DEF InsertApplication, InsertEntryRow, MovesOn, moves
<1>9. ASSUME NEW r \in Requests, DuplicateApplication(r) PROVE Known(r)
  <2>1. Answers(r, "ALREADY_APPLIED")
    BY <1>9 DEF DuplicateApplication, Answers, Awaits
  <2> QED BY <2>1
<1>10. ASSUME NEW r \in Requests, ReferenceMisses(r) PROVE Known(r)
  <2>1. Answers(r, "P2003")
    BY <1>10 DEF ReferenceMisses, Answers, Awaits
  <2> QED BY <2>1
<1>11. ASSUME NEW r \in Requests, ReadPage(r) PROVE Known(r)
  BY <1>11 DEF ReadPage, MovesOn, moves
<1>12. ASSUME NEW r \in Requests, CountRoles(r) PROVE Known(r)
  <2>1. Answers(r, "OK")
    BY <1>12 DEF CountRoles, Answers, Awaits
  <2> QED BY <2>1
<1>13. ASSUME NEW r \in Requests, Fail(r) PROVE Known(r)
  <2>1. Answers(r, "INTERNAL_ERROR")
    BY <1>13 DEF Fail, Answers
  <2> QED BY <2>1
<1> QED
  BY <1>1, <1>2, <1>3, <1>4, <1>5, <1>6, <1>7, <1>8, <1>9, <1>10, <1>11, <1>12, <1>13
  DEF Next, Handle, updateRole, deleteRole, createApplication, listRoles, Locks, Commits, AllServed

\* What a call names.
LEMMA CallTypes ==
  ASSUME TypeOK, NEW r \in Requests
  PROVE  /\ call[r].endpoint \in {"updateRole", "deleteRole", "createApplication"} => target(r) \in Roles
         /\ call[r].endpoint = "updateRole" => call[r].patch \in Patches
         /\ call[r].endpoint = "createApplication" => call[r].candidate \in Candidates
BY DEF TypeOK, Calls, target

\* A row that is patched is a row.
LEMMA PatchTypes ==
  ASSUME TypeOK, NEW r \in Requests, call[r].endpoint = "updateRole", exists(target(r))
  PROVE  patched(r) \in RoleRow
<1>1. target(r) \in Roles /\ call[r].patch \in Patches
  BY CallTypes
<1>2. role[target(r)] \in RoleRow
  BY <1>1 DEF TypeOK, exists
<1> QED BY <1>1, <1>2 DEF patched, Patches, RoleRow

-----------------------------------------------------------------------------
\* A role's insert is somebody else's business.
LEMMA CreateKeeps ==
  ASSUME IInv, NEW x \in Roles, createRole(x)
  PROVE  /\ LocksAreHeld' /\ LocksExclude' /\ IdsAreUsedOnce' /\ WritesAreCurrent'
         /\ RowsAreOwn' /\ OneOfAKind' /\ ToldIsSo' /\ NoDanglingApplication'
<1>1. ~exists(x) /\ x \notin created
  BY DEF IInv, IdsAreUsedOnce, createRole
<1>2. /\ \A y \in Roles : (y # x => role'[y] = role[y]) /\ (exists(y) => exists(y)')
      /\ exists(x)' /\ created' = created \cup {x}
  <2>1. [status |-> "OPEN", title |-> Null] \in RoleRow
    BY DEF RoleRow, RoleStatus
  <2>2. role' = [role EXCEPT ![x] = [status |-> "OPEN", title |-> Null]] /\ created' = created \cup {x}
    BY DEF createRole
  <2>3. role \in [Roles -> RoleRow \cup {Null}]
    BY DEF IInv, TypeOK
  <2> QED BY <1>1, <2>1, <2>2, <2>3 DEF exists
<1>3. UNCHANGED <<application, call, pc, saw, listing, written, locks, reply>>
  BY DEF createRole
<1> USE <1>3 DEF locks, target, Awaits
<1>4. LocksAreHeld' /\ LocksExclude'
  <2>1. \A r \in Requests : \A y \in Roles : (holdsRow(r, y)' <=> holdsRow(r, y)) /\ (holdsKey(r, y)' <=> holdsKey(r, y))
    BY DEF holdsRow, holdsKey
  <2> QED BY <1>2, <2>1 DEF IInv, LocksAreHeld, LocksExclude
<1>5. IdsAreUsedOnce'
  BY <1>1, <1>2 DEF IInv, IdsAreUsedOnce, TypeOK, exists
<1>6. WritesAreCurrent'
  <2>1. ASSUME NEW r \in Requests, Awaits(r, "updateRole", "commit")
        PROVE  target(r) \in Roles /\ target(r) # x
    <3>1. target(r) \in Roles
      BY <2>1, CallTypes DEF IInv
    <3>2. roleLock[target(r)] = r
      BY <2>1, <3>1 DEF IInv, LocksAreHeld, holdsRow
    <3> QED BY <1>1, <3>1, <3>2 DEF IInv, LocksExclude
  <2> QED BY <1>2, <2>1 DEF IInv, WritesAreCurrent, patched, unreferenced
<1>7. RowsAreOwn' /\ OneOfAKind' /\ ToldIsSo' /\ NoDanglingApplication'
  <2>1. \A a \in application : a.role \in Roles
    BY DEF IInv, TypeOK
  <2> QED
    BY <1>2, <2>1 DEF IInv, RowsAreOwn, OneOfAKind, ToldIsSo, NoDanglingApplication, rowFor, applied, inIndex, pending,
       sameKey, rowOf
<1> QED BY <1>4, <1>5, <1>6, <1>7

\* A request that moves on leaves what is written and locked, and comes to
\* nothing it is not due.
LEMMA MovingKeeps ==
  ASSUME IInv, NEW r \in Requests, MovesOn(r)
  PROVE  /\ LocksAreHeld' /\ LocksExclude' /\ IdsAreUsedOnce' /\ WritesAreCurrent'
         /\ RowsAreOwn' /\ OneOfAKind' /\ ToldIsSo' /\ NoDanglingApplication'
<1>1. UNCHANGED <<rows, call, written, locks, reply>> /\ \A q \in Requests : q # r => pc'[q] = pc[q]
  BY DEF MovesOn, moves, IInv, TypeOK
<1>2. \/ pc[r] = "read" /\ pc'[r] \in {"write", "insert", "count"}
      \/ Awaits(r, "deleteRole", "check") /\ pc'[r] = "commit" /\ unreferenced(target(r))
      \/ Awaits(r, "createApplication", "insert") /\ pc'[r] = "reference" /\ mayInsert(r)
      \/ Awaits(r, "createApplication", "entry") /\ pc'[r] = "commit"
  BY DEF MovesOn, moves, IInv, TypeOK, Awaits
<1> USE <1>1 DEF rows, locks, target, Awaits
<1>3. LocksAreHeld' /\ LocksExclude'
  <2>1. \A q \in Requests : \A x \in Roles : (holdsRow(q, x)' <=> holdsRow(q, x)) /\ (holdsKey(q, x)' <=> holdsKey(q, x))
    BY <1>2 DEF holdsRow, holdsKey
  <2> QED BY <2>1 DEF IInv, LocksAreHeld, LocksExclude, exists
<1>4. IdsAreUsedOnce' /\ NoDanglingApplication'
  BY <1>2 DEF IInv, IdsAreUsedOnce, NoDanglingApplication, exists
<1>5. WritesAreCurrent'
  BY <1>2 DEF IInv, WritesAreCurrent, patched, unreferenced
<1>6. RowsAreOwn' /\ ToldIsSo'
  BY <1>2 DEF IInv, RowsAreOwn, ToldIsSo, TypeOK, rowFor, applied, inIndex, rowOf
<1>7. OneOfAKind'
  <2>1. ASSUME NEW q \in Requests, pending(q)'
        PROVE  pending(q) \/ (q = r /\ mayInsert(r) /\ ~pending(r))
    BY <1>2, <2>1 DEF pending
  <2>2. \A q, p \in Requests : (sameKey(q, p)' <=> sameKey(q, p)) /\ (inIndex(q)' <=> inIndex(q))
    BY DEF sameKey, inIndex, rowOf
  <2>3. \A q, p \in Requests : pending(q)' /\ pending(p)' /\ sameKey(q, p) => sameKey(p, q)
    BY DEF sameKey, pending
  <2> QED BY <2>1, <2>2, <2>3 DEF IInv, OneOfAKind, mayInsert
<1> QED BY <1>3, <1>4, <1>5, <1>6, <1>7

\* An answer ends the request, gives back its locks, and is true when given.
LEMMA AnsweringKeeps ==
  ASSUME IInv, NEW r \in Requests, NEW what \in Replies, Answers(r, what)
  PROVE  /\ LocksAreHeld' /\ LocksExclude' /\ IdsAreUsedOnce' /\ WritesAreCurrent'
         /\ RowsAreOwn' /\ OneOfAKind' /\ ToldIsSo' /\ NoDanglingApplication'
<1>1. /\ UNCHANGED <<rows, call>> /\ pc'[r] = "done" /\ reply'[r] = what
      /\ \A q \in Requests : q # r => pc'[q] = pc[q] /\ reply'[q] = reply[q] /\ written'[q] = written[q]
      /\ \A x \in Roles : (roleLock'[x] = IF roleLock[x] = r THEN Null ELSE roleLock[x])
                          /\ keyShare'[x] = keyShare[x] \ {r}
  BY DEF Answers, Answer, Unlock, IInv, TypeOK
<1>2. pc[r] # "done" /\ reply[r] = Null
  BY DEF Answers, IInv, ToldIsSo
<1> USE <1>1 DEF rows, target, Awaits
<1>3. LocksAreHeld' /\ LocksExclude'
  <2>1. ASSUME NEW q \in Requests, NEW x \in Roles
        PROVE  /\ holdsRow(q, x)' <=> holdsRow(q, x) /\ q # r
               /\ holdsKey(q, x)' <=> holdsKey(q, x) /\ q # r
    BY DEF holdsRow, holdsKey
  <2>2. \A x \in Roles : roleLock[x] \in Requests \cup {Null} /\ keyShare[x] \subseteq Requests
    BY DEF IInv, TypeOK
  <2> QED BY <2>1, <2>2 DEF IInv, LocksAreHeld, LocksExclude, exists
<1>4. IdsAreUsedOnce' /\ NoDanglingApplication'
  BY DEF IInv, IdsAreUsedOnce, NoDanglingApplication, exists, Answers
<1>5. WritesAreCurrent'
  BY DEF IInv, WritesAreCurrent, patched, unreferenced
<1>6. RowsAreOwn'
  <2>1. \A a \in application : a.by \in Requests
    BY DEF IInv, TypeOK
  <2> QED BY <1>2, <2>1 DEF IInv, RowsAreOwn, Answers, rowFor, applied
<1>7. OneOfAKind'
  <2>1. \A q \in Requests : pending(q)' => pending(q) /\ q # r
    BY DEF pending
  <2>2. \A q, p \in Requests : (sameKey(q, p)' <=> sameKey(q, p)) /\ (inIndex(q)' <=> inIndex(q))
    BY DEF sameKey, inIndex, rowOf
  <2> QED BY <2>1, <2>2 DEF IInv, OneOfAKind
<1>8. ToldIsSo'
  BY DEF IInv, ToldIsSo, Answers, inIndex, rowOf
<1> QED BY <1>3, <1>4, <1>5, <1>6, <1>7, <1>8

\* A statement that takes a lock finds it free, and leaves the tables.
LEMMA LockingKeeps ==
  ASSUME IInv, NEW r \in Requests, Locks(r)
  PROVE  /\ LocksAreHeld' /\ LocksExclude' /\ IdsAreUsedOnce' /\ WritesAreCurrent'
         /\ RowsAreOwn' /\ OneOfAKind' /\ ToldIsSo' /\ NoDanglingApplication'
<1>1. UNCHANGED <<rows, call, reply>> /\ \A q \in Requests : q # r => pc'[q] = pc[q] /\ written'[q] = written[q]
  BY DEF Locks, UpdateRow, LockForDelete, ReferenceRole, Goto, IInv, TypeOK
<1>2. target(r) \in Roles /\ exists(target(r)) /\ pc[r] \in {"write", "reference"}
  BY CallTypes DEF Locks, UpdateRow, LockForDelete, ReferenceRole, reference, Awaits, IInv
<1>3. \/ /\ Awaits(r, "updateRole", "write") /\ pc'[r] = "commit" /\ written'[r] = patched(r)
         /\ roleLock[target(r)] = Null
         /\ roleLock' = [roleLock EXCEPT ![target(r)] = r] /\ keyShare' = keyShare
      \/ /\ Awaits(r, "deleteRole", "write") /\ pc'[r] = "check" /\ written' = written
         /\ roleLock[target(r)] = Null /\ keyShare[target(r)] = {}
         /\ roleLock' = [roleLock EXCEPT ![target(r)] = r] /\ keyShare' = keyShare
      \/ /\ Awaits(r, "createApplication", "reference") /\ pc'[r] = "entry" /\ written' = written
         /\ roleLock[target(r)] \notin {q \in Requests : call[q].endpoint = "deleteRole"}
         /\ roleLock' = roleLock /\ keyShare' = [keyShare EXCEPT ![target(r)] = @ \cup {r}]
  BY DEF Locks, UpdateRow, LockForDelete, deleteMayLock, ReferenceRole, reference, Goto, IInv, TypeOK
<1> USE <1>1 DEF rows, target, Awaits
<1>4. LocksAreHeld'
  <2> SUFFICES ASSUME NEW x \in Roles, NEW q \in Requests
               PROVE  (roleLock[x] = q <=> holdsRow(q, x))' /\ (q \in keyShare[x] <=> holdsKey(q, x))'
    BY DEF LocksAreHeld
  <2>1. (roleLock[x] = q <=> holdsRow(q, x)) /\ (q \in keyShare[x] <=> holdsKey(q, x))
    BY DEF IInv, LocksAreHeld
  <2>2. CASE q # r
    BY <1>2, <1>3, <2>1, <2>2 DEF IInv, TypeOK, holdsRow, holdsKey
  <2>3. CASE q = r
    BY <1>2, <1>3, <2>1, <2>3 DEF IInv, TypeOK, holdsRow, holdsKey
  <2> QED BY <2>2, <2>3
<1>5. LocksExclude'
  <2>1. \A x \in Roles : roleLock[x] \in Requests \cup {Null}
    BY DEF IInv, TypeOK
  <2> QED BY <1>2, <1>3, <2>1 DEF IInv, TypeOK, LocksExclude, exists
<1>6. IdsAreUsedOnce' /\ NoDanglingApplication'
  BY <1>2, <1>3 DEF IInv, IdsAreUsedOnce, NoDanglingApplication, exists
<1>7. WritesAreCurrent'
  BY <1>3 DEF IInv, WritesAreCurrent, patched, unreferenced
<1>8. RowsAreOwn' /\ ToldIsSo'
  <2>1. \A a \in application : a.by \in Requests
    BY DEF IInv, TypeOK
  <2> QED BY <1>2, <1>3, <2>1 DEF IInv, RowsAreOwn, ToldIsSo, rowFor, applied, inIndex, rowOf
<1>9. OneOfAKind'
  <2>1. \A q \in Requests : pending(q)' => pending(q)
    BY <1>3 DEF pending
  <2>2. \A q, p \in Requests : (sameKey(q, p)' <=> sameKey(q, p)) /\ (inIndex(q)' <=> inIndex(q))
    BY DEF sameKey, inIndex, rowOf
  <2> QED BY <2>1, <2>2 DEF IInv, OneOfAKind
<1> QED BY <1>4, <1>5, <1>6, <1>7, <1>8, <1>9

\* A COMMIT gives the locks of its request back and lets it respond.
LEMMA Committing ==
  ASSUME IInv, NEW r \in Requests, Commits(r)
  PROVE  /\ UNCHANGED <<created, call, reply>>
         /\ pc[r] = "commit" /\ pc'[r] = "respond" /\ reply[r] = Null
         /\ \A q \in Requests : q # r => pc'[q] = pc[q] /\ written'[q] = written[q]
         /\ \A x \in Roles : (roleLock'[x] = IF roleLock[x] = r THEN Null ELSE roleLock[x])
                             /\ keyShare'[x] = keyShare[x] \ {r}
         /\ target(r) \in Roles /\ exists(target(r))
<1>1. Commits(r) => call[r].endpoint \in {"updateRole", "deleteRole", "createApplication"} /\ pc[r] = "commit"
  BY DEF Commits, CommitUpdate, CommitDelete, CommitApplication, Awaits
<1>2. target(r) \in Roles
  BY <1>1, CallTypes DEF IInv
<1>3. exists(target(r))
  <2>1. holdsRow(r, target(r)) \/ holdsKey(r, target(r))
    BY <1>1 DEF holdsRow, holdsKey, Awaits
  <2>2. roleLock[target(r)] = r \/ r \in keyShare[target(r)]
    BY <1>2, <2>1 DEF IInv, LocksAreHeld
  <2> QED BY <1>2, <2>2 DEF IInv, LocksExclude
<1>4. reply[r] = Null
  BY <1>1 DEF IInv, ToldIsSo
<1> QED BY <1>1, <1>2, <1>3, <1>4
        DEF Commits, CommitUpdate, CommitDelete, CommitApplication, Unlock, Goto, IInv, TypeOK

\* Who still holds what after it.
LEMMA CommittingUnlocks ==
  ASSUME IInv, NEW r \in Requests, Commits(r)
  PROVE  LocksAreHeld'
<1> SUFFICES ASSUME NEW x \in Roles, NEW q \in Requests
             PROVE  (roleLock[x] = q <=> holdsRow(q, x))' /\ (q \in keyShare[x] <=> holdsKey(q, x))'
  BY DEF LocksAreHeld
<1>1. /\ holdsRow(q, x)' <=> holdsRow(q, x) /\ q # r
      /\ holdsKey(q, x)' <=> holdsKey(q, x) /\ q # r
  BY Committing DEF holdsRow, holdsKey, Awaits, target
<1>2. (roleLock[x] = q <=> holdsRow(q, x)) /\ (q \in keyShare[x] <=> holdsKey(q, x))
  BY DEF IInv, LocksAreHeld
<1>3. (roleLock'[x] = IF roleLock[x] = r THEN Null ELSE roleLock[x]) /\ keyShare'[x] = keyShare[x] \ {r}
  BY Committing
<1>4. q # Null
  OBVIOUS
<1> QED BY <1>1, <1>2, <1>3, <1>4

\* An UPDATE commits the row it wrote: the role exists as before, its
\* applications are not touched.
LEMMA UpdatingKeeps ==
  ASSUME IInv, NEW r \in Requests, CommitUpdate(r)
  PROVE  /\ LocksExclude' /\ IdsAreUsedOnce' /\ WritesAreCurrent'
         /\ RowsAreOwn' /\ OneOfAKind' /\ ToldIsSo' /\ NoDanglingApplication'
<1>1. /\ UNCHANGED <<created, call, reply>>
      /\ pc[r] = "commit" /\ pc'[r] = "respond" /\ reply[r] = Null
      /\ \A q \in Requests : q # r => pc'[q] = pc[q] /\ written'[q] = written[q]
      /\ \A x \in Roles : (roleLock'[x] = IF roleLock[x] = r THEN Null ELSE roleLock[x])
                          /\ keyShare'[x] = keyShare[x] \ {r}
      /\ target(r) \in Roles /\ exists(target(r))
  BY Committing DEF Commits
<1>2. Awaits(r, "updateRole", "commit") /\ application' = application
  BY DEF CommitUpdate
<1>3. patched(r) \in RoleRow /\ written[r] = patched(r) /\ roleLock[target(r)] = r
  BY <1>1, <1>2, PatchTypes DEF IInv, WritesAreCurrent, Awaits, LocksAreHeld, holdsRow
<1>4. /\ \A x \in Roles : exists(x)' <=> exists(x)
      /\ \A x \in Roles \ {target(r)} : role'[x] = role[x]
  BY <1>1, <1>3 DEF CommitUpdate, exists, IInv, TypeOK
<1> USE <1>1 DEF target, Awaits
<1>5. LocksExclude' /\ NoDanglingApplication'
  <2>1. \A a \in application : a.role \in Roles
    BY DEF IInv, TypeOK
  <2> QED BY <1>2, <1>4, <2>1 DEF IInv, LocksExclude, NoDanglingApplication
<1>6. IdsAreUsedOnce'
  BY <1>2, <1>4, CallTypes DEF IInv, IdsAreUsedOnce
<1>7. WritesAreCurrent'
  <2>1. ASSUME NEW q \in Requests, Awaits(q, "updateRole", "commit"), q # r
        PROVE  target(q) \in Roles /\ target(q) # target(r)
    BY <1>3, <2>1, CallTypes DEF IInv, LocksAreHeld, holdsRow
  <2> QED BY <1>2, <1>4, <2>1 DEF IInv, WritesAreCurrent, patched, unreferenced
<1>8. RowsAreOwn' /\ OneOfAKind' /\ ToldIsSo'
  <2>1. \A a \in application : a.by \in Requests
    BY DEF IInv, TypeOK
  <2>2. \A q \in Requests : pending(q)' <=> pending(q)
    BY <1>2 DEF pending
  <2> QED BY <1>2, <2>1, <2>2 DEF IInv, RowsAreOwn, OneOfAKind, ToldIsSo, rowFor, applied, inIndex, rowOf, sameKey
<1> QED BY <1>5, <1>6, <1>7, <1>8

\* A DELETE commits while it holds the row: no foreign key is being checked, no
\* other UPDATE is on its way, nothing references the role.
LEMMA DeletingKeeps ==
  ASSUME IInv, NEW r \in Requests, CommitDelete(r)
  PROVE  /\ LocksExclude' /\ IdsAreUsedOnce' /\ WritesAreCurrent'
         /\ RowsAreOwn' /\ OneOfAKind' /\ ToldIsSo' /\ NoDanglingApplication'
<1>1. /\ UNCHANGED <<created, call, reply>>
      /\ pc[r] = "commit" /\ pc'[r] = "respond" /\ reply[r] = Null
      /\ \A q \in Requests : q # r => pc'[q] = pc[q] /\ written'[q] = written[q]
      /\ \A x \in Roles : (roleLock'[x] = IF roleLock[x] = r THEN Null ELSE roleLock[x])
                          /\ keyShare'[x] = keyShare[x] \ {r}
      /\ target(r) \in Roles /\ exists(target(r))
  BY Committing DEF Commits
<1>2. Awaits(r, "deleteRole", "commit") /\ application' = application
  BY DEF CommitDelete
<1>3. roleLock[target(r)] = r /\ keyShare[target(r)] = {} /\ unreferenced(target(r)) /\ target(r) \in created
  <2>1. roleLock[target(r)] = r
    BY <1>1, <1>2 DEF IInv, Awaits, LocksAreHeld, holdsRow
  <2> QED BY <1>1, <1>2, <2>1 DEF IInv, WritesAreCurrent, LocksExclude, IdsAreUsedOnce, Awaits
<1>4. /\ ~exists(target(r))'
      /\ \A x \in Roles \ {target(r)} : role'[x] = role[x] /\ (exists(x)' <=> exists(x))
  BY <1>1 DEF CommitDelete, exists, IInv, TypeOK, target
<1> USE <1>1 DEF target, Awaits
<1>5. LocksExclude' /\ NoDanglingApplication'
  <2>1. \A a \in application : a.role \in Roles
    BY DEF IInv, TypeOK
  <2> QED BY <1>2, <1>3, <1>4, <2>1 DEF IInv, LocksExclude, NoDanglingApplication, unreferenced
<1>6. IdsAreUsedOnce'
  BY <1>2, <1>3, <1>4, CallTypes DEF IInv, IdsAreUsedOnce
<1>7. WritesAreCurrent'
  <2>1. ASSUME NEW q \in Requests, Awaits(q, "updateRole", "commit"), q # r
        PROVE  target(q) \in Roles /\ target(q) # target(r)
    BY <1>3, <2>1, CallTypes DEF IInv, LocksAreHeld, holdsRow
  <2>2. ASSUME NEW q \in Requests, q # r, Awaits(q, "updateRole", "commit")
        PROVE  (written[q] = patched(q))'
    <3>1. written[q] = patched(q) /\ role'[target(q)] = role[target(q)]
      BY <1>4, <2>1, <2>2 DEF IInv, WritesAreCurrent
    <3> QED BY <2>2, <3>1 DEF patched
  <2>3. ASSUME NEW q \in Requests, q # r, Awaits(q, "deleteRole", "commit")
        PROVE  unreferenced(target(q))'
    BY <1>2, <2>3 DEF IInv, WritesAreCurrent, unreferenced
  <2> QED BY <2>2, <2>3 DEF WritesAreCurrent
<1>8. RowsAreOwn' /\ OneOfAKind' /\ ToldIsSo'
  <2>1. \A a \in application : a.by \in Requests
    BY DEF IInv, TypeOK
  <2>2. \A q \in Requests : pending(q)' <=> pending(q)
    BY <1>2 DEF pending
  <2> QED BY <1>2, <2>1, <2>2 DEF IInv, RowsAreOwn, OneOfAKind, ToldIsSo, rowFor, applied, inIndex, rowOf, sameKey
<1> QED BY <1>5, <1>6, <1>7, <1>8

\* An apply commits the row its place in the index was kept for, under a key
\* that holds off every DELETE of the role.
LEMMA ApplyingKeeps ==
  ASSUME IInv, NEW r \in Requests, CommitApplication(r)
  PROVE  /\ LocksExclude' /\ IdsAreUsedOnce' /\ WritesAreCurrent'
         /\ RowsAreOwn' /\ OneOfAKind' /\ ToldIsSo' /\ NoDanglingApplication'
<1>1. /\ UNCHANGED <<created, call, reply>>
      /\ pc[r] = "commit" /\ pc'[r] = "respond" /\ reply[r] = Null
      /\ \A q \in Requests : q # r => pc'[q] = pc[q] /\ written'[q] = written[q]
      /\ \A x \in Roles : (roleLock'[x] = IF roleLock[x] = r THEN Null ELSE roleLock[x])
                          /\ keyShare'[x] = keyShare[x] \ {r}
      /\ target(r) \in Roles /\ exists(target(r))
  BY Committing DEF Commits
<1>2. Awaits(r, "createApplication", "commit") /\ role' = role /\ application' = application \cup {rowFor(r)}
  BY DEF CommitApplication, rowFor
<1>3. r \in keyShare[target(r)] /\ pending(r)
  BY <1>1, <1>2 DEF IInv, Awaits, LocksAreHeld, holdsKey, pending
<1>4. rowFor(r).by = r /\ rowFor(r).role = target(r) /\ rowFor(r).candidate = call[r].candidate
  BY DEF rowFor
<1>5. \A q \in Requests : rowFor(q)' = rowFor(q)
  BY <1>1 DEF rowFor, target
<1> USE <1>1 DEF target, Awaits
<1>6. LocksExclude' /\ IdsAreUsedOnce' /\ NoDanglingApplication'
  BY <1>2, <1>4 DEF IInv, LocksExclude, IdsAreUsedOnce, NoDanglingApplication, exists
<1>7. WritesAreCurrent'
  <2>1. ASSUME NEW q \in Requests, Awaits(q, "deleteRole", "commit")
        PROVE  target(q) # target(r)
    <3>1. target(q) \in Roles /\ roleLock[target(q)] = q
      BY <2>1, CallTypes DEF IInv, LocksAreHeld, holdsRow
    <3>2. q # Null
      OBVIOUS
    <3> QED BY <1>3, <2>1, <3>1, <3>2 DEF IInv, LocksExclude
  <2> QED BY <1>2, <1>4, <2>1 DEF IInv, WritesAreCurrent, patched, unreferenced
<1>8. RowsAreOwn'
  <2>1. \A a \in application : a.by \in Requests
    BY DEF IInv, TypeOK
  <2> HIDE DEF target
  <2> QED BY <1>2, <1>4, <1>5, <2>1 DEF IInv, RowsAreOwn, applied
<1>9. OneOfAKind'
  <2>1. ~inIndex(r) /\ \A q \in Requests : pending(q) /\ sameKey(r, q) => q = r
    BY <1>3 DEF IInv, OneOfAKind
  <2>2. \A q \in Requests : pending(q)' <=> pending(q) /\ q # r
    BY <1>2 DEF pending
  <2>3. ASSUME NEW q \in Requests, pending(q), q # r
        PROVE  ~rowOf(q, rowFor(r))
    BY <1>2, <1>3, <1>4, <2>1, <2>3 DEF rowOf, sameKey, pending
  <2>4. \A q, p \in Requests : sameKey(q, p)' <=> sameKey(q, p)
    BY DEF sameKey
  <2>5. \A q \in Requests : inIndex(q)' <=> inIndex(q) \/ rowOf(q, rowFor(r))
    BY <1>2 DEF inIndex, rowOf
  <2>6. \A a, b \in application' : a.role = b.role /\ a.candidate = b.candidate => a = b
    BY <1>2, <1>4, <2>1 DEF IInv, OneOfAKind, inIndex, rowOf
  <2> QED BY <2>2, <2>3, <2>4, <2>5, <2>6 DEF IInv, OneOfAKind
<1>10. ToldIsSo'
  BY <1>2 DEF IInv, ToldIsSo, inIndex, rowOf
<1> QED BY <1>6, <1>7, <1>8, <1>9, <1>10

\* An answer is one of the replies.
LEMMA AnswerTypes ==
  ASSUME TypeOK, NEW r \in Requests, NEW what \in Replies, Answer(r, what), UNCHANGED <<rows, listing>>
  PROVE  TypeOK'
<1>1. /\ roleLock' \in [Roles -> Requests \cup {Null}] /\ keyShare' \in [Roles -> SUBSET Requests]
      /\ written' \in [Requests -> RoleRow \cup {Null}]
  BY DEF TypeOK, Answer, Unlock
<1>2. /\ pc' \in [Requests -> Steps] /\ reply' \in [Requests -> Replies \cup {Null}]
      /\ UNCHANGED <<role, created, application, page, total, call, saw>>
  BY DEF TypeOK, Answer, Steps, rows, listing
<1> QED BY <1>1, <1>2 DEF TypeOK

\* Every variable keeps its type.
LEMMA TypesKept ==
  ASSUME IInv, [Next]_vars
  PROVE  TypeOK'
<1> USE DEF Goto, rows, locks, listing
<1>a. TypeOK
  BY DEF IInv
<1>1. ASSUME NEW x \in Roles, createRole(x) PROVE TypeOK'
  BY <1>a, <1>1 DEF TypeOK, createRole, RoleRow, RoleStatus
<1>2. ASSUME NEW r \in Requests, ReadStatus(r) PROVE TypeOK'
  <2>1. target(r) \in Roles
    BY <1>a, <1>2, CallTypes DEF ReadStatus, Awaits
  <2> QED BY <1>a, <1>2, <2>1 DEF TypeOK, ReadStatus, exists, RoleRow, Steps
<1>3. ASSUME NEW r \in Requests, ReadForDelete(r) PROVE TypeOK'
  <2>1. target(r) \in Roles
    BY <1>a, <1>3, CallTypes DEF ReadForDelete, Awaits
  <2>2. CASE Refuse(r, "NOT_FOUND") \/ Refuse(r, "ROLE_NOT_CLOSED")
    BY <1>a, <2>2, AnswerTypes DEF Refuse
  <2>3. CASE exists(target(r)) /\ Goto(r, "write") /\ saw' = [saw EXCEPT ![r] = role[target(r)].status]
             /\ UNCHANGED <<rows, written, locks>>
    BY <1>a, <2>1, <2>3 DEF TypeOK, exists, RoleRow, Steps
  <2> QED BY <1>3, <2>2, <2>3 DEF ReadForDelete
<1>4. ASSUME NEW r \in Requests, Locks(r) PROVE TypeOK'
  <2>1. target(r) \in Roles /\ (UpdateRow(r) => patched(r) \in RoleRow)
    BY <1>a, <1>4, CallTypes, PatchTypes DEF Locks, UpdateRow, LockForDelete, ReferenceRole, Awaits
  <2>2. CASE UpdateRow(r)
    BY <1>a, <2>1, <2>2 DEF TypeOK, UpdateRow, Steps
  <2>3. CASE LockForDelete(r)
    BY <1>a, <2>1, <2>3 DEF TypeOK, LockForDelete, Steps
  <2>4. CASE ReferenceRole(r)
    BY <1>a, <2>1, <2>4 DEF TypeOK, ReferenceRole, reference, Steps
  <2> QED BY <1>4, <2>2, <2>3, <2>4 DEF Locks
<1>5. ASSUME NEW r \in Requests, Commits(r) PROVE TypeOK'
  <2>1. target(r) \in Roles /\ (CommitUpdate(r) => written[r] \in RoleRow)
    BY <1>5, Committing, PatchTypes DEF IInv, WritesAreCurrent, CommitUpdate, Awaits
  <2>2. CASE CommitUpdate(r)
    BY <1>a, <2>1, <2>2 DEF TypeOK, CommitUpdate, Unlock, Steps
  <2>3. CASE CommitDelete(r)
    BY <1>a, <2>1, <2>3 DEF TypeOK, CommitDelete, Unlock, Steps
  <2>4. CASE CommitApplication(r)
    <3>1. call[r].candidate \in Candidates
      BY <1>a, <2>4, CallTypes DEF CommitApplication, Awaits
    <3> QED BY <1>a, <2>1, <2>4, <3>1 DEF TypeOK, CommitApplication, Unlock, Steps
  <2> QED BY <1>5, <2>2, <2>3, <2>4 DEF Commits
<1>6. ASSUME NEW r \in Requests,
             \E what \in Replies : Answer(r, what) /\ UNCHANGED <<rows, listing>>
      PROVE  TypeOK'
  BY <1>a, <1>6, AnswerTypes
<1>7. ASSUME NEW r \in Requests,
             UpdateMisses(r) \/ RespondUpdate(r) \/ DeleteMisses(r) \/ RespondDelete(r) \/ DuplicateApplication(r)
               \/ ReferenceMisses(r) \/ RespondApplication(r) \/ Fail(r)
      PROVE  TypeOK'
  BY <1>6, <1>7 DEF UpdateMisses, RespondUpdate, DeleteMisses, RespondDelete, DuplicateApplication, ReferenceMisses,
     RespondApplication, Fail, Refuse
<1>8. ASSUME NEW r \in Requests, CheckReferences(r) PROVE TypeOK'
  <2>1. CASE Refuse(r, "ROLE_HAS_APPLICATIONS")
    BY <1>6, <2>1 DEF Refuse
  <2>2. CASE Goto(r, "commit") /\ UNCHANGED <<rows, saw, written, locks>>
    BY <1>a, <2>2 DEF TypeOK, Steps
  <2> QED BY <1>8, <2>1, <2>2 DEF CheckReferences
<1>9. ASSUME NEW r \in Requests, findOpenRole(r) PROVE TypeOK'
  <2>1. CASE Refuse(r, "NOT_FOUND")
    BY <1>6, <2>1 DEF Refuse
  <2>2. CASE Goto(r, "insert") /\ UNCHANGED <<rows, saw, written, locks>>
    BY <1>a, <2>2 DEF TypeOK, Steps
  <2> QED BY <1>9, <2>1, <2>2 DEF findOpenRole
<1>10. ASSUME NEW r \in Requests, InsertApplication(r) \/ InsertEntryRow(r) PROVE TypeOK'
  BY <1>a, <1>10 DEF TypeOK, InsertApplication, InsertEntryRow, Steps
<1>11. ASSUME NEW r \in Requests, ReadPage(r) PROVE TypeOK'
  BY <1>a, <1>11 DEF TypeOK, ReadPage, listed, Steps
<1>12. ASSUME NEW r \in Requests, CountRoles(r) PROVE TypeOK'
  <2>1. Cardinality(listed(r)) \in 0 .. Cardinality(Roles)
    <3>1. listed(r) \in SUBSET Roles
      BY DEF listed
    <3> QED BY <3>1, RequisitionIds, FS_Subset, FS_CardinalityType
  <2> QED BY <1>a, <1>12, <2>1 DEF TypeOK, CountRoles, Answer, Unlock, Steps
<1>13. CASE UNCHANGED vars
  BY <1>a, <1>13 DEF TypeOK, vars
<1> QED
  BY <1>1, <1>2, <1>3, <1>4, <1>5, <1>7, <1>8, <1>9, <1>10, <1>11, <1>12, <1>13
  DEF Next, Handle, updateRole, deleteRole, createApplication, listRoles, Locks, Commits, AllServed

-----------------------------------------------------------------------------
\* At the start nobody holds anything and nothing has been said.
LEMMA InitOK == Init => IInv
<1> SUFFICES ASSUME Init PROVE IInv
  OBVIOUS
<1>1. Cardinality(Roles) \in Nat
  BY RequisitionIds, FS_CardinalityType
<1>2. TypeOK
  BY <1>1 DEF Init, TypeOK, Steps
<1>3. LocksAreHeld /\ LocksExclude /\ IdsAreUsedOnce /\ WritesAreCurrent
  BY DEF Init, LocksAreHeld, LocksExclude, IdsAreUsedOnce, WritesAreCurrent, holdsRow, holdsKey, Awaits, exists
<1>4. RowsAreOwn /\ OneOfAKind /\ ToldIsSo /\ NoDanglingApplication
  BY DEF Init, RowsAreOwn, OneOfAKind, ToldIsSo, NoDanglingApplication, pending
<1> QED BY <1>2, <1>3, <1>4 DEF IInv

\* The inductive invariant of any number of roles, candidates and requests.
THEOREM RequisitionsTheorem == Spec => []IInv
<1>1. ASSUME IInv, [Next]_vars PROVE IInv'
  <2>1. TypeOK' /\ TypeOK
    BY <1>1, TypesKept DEF IInv
  <2>2. ASSUME NEW x \in Roles, createRole(x) PROVE IInv'
    BY <1>1, <2>1, <2>2, CreateKeeps DEF IInv
  <2>3. ASSUME NEW r \in Requests, MovesOn(r) PROVE IInv'
    BY <1>1, <2>1, <2>3, MovingKeeps DEF IInv
  <2>4. ASSUME NEW r \in Requests, NEW what \in Replies, Answers(r, what) PROVE IInv'
    BY <1>1, <2>1, <2>4, AnsweringKeeps DEF IInv
  <2>5. ASSUME NEW r \in Requests, Locks(r) PROVE IInv'
    BY <1>1, <2>1, <2>5, LockingKeeps DEF IInv
  <2>6. ASSUME NEW r \in Requests, Commits(r) PROVE IInv'
    BY <1>1, <2>1, <2>6, CommittingUnlocks, UpdatingKeeps, DeletingKeeps, ApplyingKeeps DEF IInv, Commits
  <2>7. CASE UNCHANGED vars
    <3> USE <2>7 DEF vars, rows, locks, listing, target, exists, Awaits
    <3>1. LocksAreHeld' /\ LocksExclude' /\ IdsAreUsedOnce'
      BY <1>1 DEF IInv, LocksAreHeld, LocksExclude, IdsAreUsedOnce, holdsRow, holdsKey
    <3>2. WritesAreCurrent' /\ RowsAreOwn' /\ NoDanglingApplication'
      BY <1>1 DEF IInv, WritesAreCurrent, RowsAreOwn, NoDanglingApplication, patched, unreferenced, rowFor, applied
    <3>3. OneOfAKind' /\ ToldIsSo'
      BY <1>1 DEF IInv, OneOfAKind, ToldIsSo, inIndex, rowOf, pending, sameKey
    <3> QED BY <2>1, <3>1, <3>2, <3>3 DEF IInv
  <2> QED BY <1>1, <2>1, <2>2, <2>3, <2>4, <2>5, <2>6, <2>7, StepCases
<1> QED BY InitOK, <1>1, PTL DEF Spec

\* An application never outlives its role (deleteRole, createApplication),
\* however many applies, closes and deletes run at once.
THEOREM NoDanglingTheorem == Spec => []NoDanglingApplication
<1>1. IInv => NoDanglingApplication
  BY DEF IInv
<1> QED BY RequisitionsTheorem, <1>1, PTL

\* A caller is told what happened: a 201 has the one row of its kind, a refused
\* apply none, and a role deleted with a 204 is gone for good.
THEOREM HonestyTheorem == Spec => []HonestAnswers
<1>1. IInv => HonestAnswers
  <2> SUFFICES ASSUME IInv, NEW r \in Requests
               PROVE  /\ call[r].endpoint = "createApplication" =>
                           /\ reply[r] = "OK" =>
                                /\ \E a \in application : a.by = r
                                /\ Cardinality({a \in application : rowOf(r, a)}) = 1
                           /\ reply[r] \in Refusals \cup {"P2003"} => \A a \in application : a.by # r
                           /\ reply[r] = "ALREADY_APPLIED" => inIndex(r)
                      /\ call[r].endpoint = "deleteRole" =>
                           /\ reply[r] = "OK" => ~exists(target(r)) /\ target(r) \in created
                           /\ reply[r] = "ROLE_HAS_APPLICATIONS" => exists(target(r))
    BY DEF HonestAnswers
  <2>1. ASSUME call[r].endpoint = "createApplication", reply[r] = "OK"
        PROVE  (\E a \in application : a.by = r) /\ Cardinality({a \in application : rowOf(r, a)}) = 1
    <3>1. rowFor(r) \in application /\ rowFor(r).by = r /\ rowOf(r, rowFor(r))
      BY <2>1 DEF IInv, RowsAreOwn, rowFor, rowOf
    <3>2. \A a \in application : rowOf(r, a) => a = rowFor(r)
      BY <3>1 DEF IInv, OneOfAKind, rowOf
    <3>3. {a \in application : rowOf(r, a)} = {rowFor(r)}
      BY <3>1, <3>2
    <3> QED BY <3>1, <3>3, FS_Singleton
  <2>2. reply[r] \in Refusals \cup {"P2003"} => \A a \in application : a.by # r
    BY DEF IInv, RowsAreOwn, ToldIsSo, applied
  <2>3. reply[r] = "ROLE_HAS_APPLICATIONS" => exists(target(r))
    BY DEF IInv, ToldIsSo, NoDanglingApplication
  <2> QED BY <2>1, <2>2, <2>3 DEF IInv, ToldIsSo, IdsAreUsedOnce
<1> QED BY RequisitionsTheorem, <1>1, PTL

\* Two recruiters editing different fields don't clobber each other (updateRole):
\* only a body with a title replaces one.
THEOREM NoLostTitleTheorem == Spec => NoLostTitle
<1> DEFINE Kept ==
      \A x \in Roles :
        exists(x) /\ role'[x] # Null /\ role'[x].title # role[x].title =>
          \E r \in Requests : pc[r] = "commit" /\ pc'[r] = "respond" /\ call[r].patch.title /\ role'[x].title = r
<1>1. ASSUME IInv, [Next]_vars PROVE Kept
  <2> SUFFICES ASSUME NEW x \in Roles, exists(x), role'[x] # Null, role'[x].title # role[x].title
               PROVE  \E r \in Requests : pc[r] = "commit" /\ pc'[r] = "respond" /\ call[r].patch.title
                                          /\ role'[x].title = r
    OBVIOUS
  <2>1. ASSUME NEW y \in Roles, createRole(y) PROVE FALSE
    BY <1>1, <2>1 DEF createRole, IInv, IdsAreUsedOnce, TypeOK
  <2>2. ASSUME NEW r \in Requests,
               MovesOn(r) \/ (\E what \in Replies : Answers(r, what)) \/ Locks(r) \/ UNCHANGED vars
        PROVE  FALSE
    BY <2>2 DEF MovesOn, moves, Answers, Locks, UpdateRow, LockForDelete, ReferenceRole, rows, vars
  <2>3. ASSUME NEW r \in Requests, Commits(r)
        PROVE  pc[r] = "commit" /\ pc'[r] = "respond" /\ call[r].patch.title /\ role'[x].title = r
    <3>1. CommitUpdate(r) /\ x = target(r)
      BY <1>1, <2>3 DEF Commits, CommitUpdate, CommitDelete, CommitApplication, IInv, TypeOK
    <3>2. role'[x] = patched(r)
      BY <1>1, <3>1 DEF CommitUpdate, IInv, TypeOK, WritesAreCurrent
    <3>3. patched(r).title = IF call[r].patch.title THEN r ELSE role[x].title
      BY <3>1 DEF patched
    <3>4. pc[r] = "commit" /\ pc'[r] = "respond"
      BY <1>1, <2>3, Committing
    <3> QED BY <3>2, <3>3, <3>4
  <2> QED BY <1>1, <2>1, <2>2, <2>3, StepCases DEF IInv, vars, rows
<1> QED BY RequisitionsTheorem, <1>1, PTL DEF Spec, NoLostTitle
===============================================================================
