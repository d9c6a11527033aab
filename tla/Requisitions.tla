----------------------------- MODULE Requisitions -----------------------------
(***************************************************************************)
(* Job requisitions (roles.service.ts) and the applications that reference *)
(* them (createApplication): a recruiter's PATCH and DELETE of a role, a   *)
(* candidate's apply and anyone's list, one action per statement.  The     *)
(* isolation is READ COMMITTED.  What keeps a role and its applications    *)
(* consistent is left to PostgreSQL: the row lock of an UPDATE or DELETE,  *)
(* the unique index on (candidate, role), and the foreign key, whose check *)
(* takes a KEY SHARE lock that a plain UPDATE ignores and a DELETE waits   *)
(* for.                                                                    *)
(***************************************************************************)
EXTENDS Naturals, FiniteSets, Sequences

CONSTANTS
  Roles,       \* role ids; a sequence hands each out once
  Candidates,  \* users that apply
  Requests,    \* HTTP requests, each served once
  Null

RoleStatus == {"OPEN", "CLOSED"}

\* title is the request that last set it, Null as created.  The description is
\* handled as the title is, and left out.
RoleRow == [status : RoleStatus, title : Requests \cup {Null}]

\* A body of updateRoleSchema: at least one key; an absent status is Null.
Patches == {p \in [status : RoleStatus \cup {Null}, title : BOOLEAN] : p.status # Null \/ p.title}

Calls ==
  [endpoint : {"updateRole"}, role : Roles, patch : Patches]
    \cup [endpoint : {"deleteRole"}, role : Roles]
    \cup [endpoint : {"createApplication"}, role : Roles, candidate : Candidates]
    \cup [endpoint : {"listRoles"}, recruiter : BOOLEAN]

Refusals == {"NOT_FOUND", "ROLE_NOT_CLOSED", "ROLE_HAS_APPLICATIONS", "ALREADY_APPLIED"}
Replies == Refusals \cup {"OK", "P2003", "P2025", "INTERNAL_ERROR"}

ASSUME RequisitionNull == Null \notin Requests \cup RoleStatus \cup RoleRow
ASSUME RequisitionReplies == Null \notin Replies
ASSUME RequisitionIds == IsFiniteSet(Roles)  \* an id is an Int column's

VARIABLES
  role,         \* Role rows by id; Null before the insert and after the delete
  created,      \* the ids handed out so far
  application,  \* committed Application rows
  call,         \* what each request asks
  pc,           \* the statement each handler awaits next
  saw,          \* the status its first read returned
  page, total,  \* what a list has read
  written,      \* the Role row its uncommitted UPDATE wrote
  roleLock,     \* who holds a role's row by UPDATE or DELETE
  keyShare,     \* who holds it for a foreign key
  reply

rows == <<role, created, application>>
locks == <<roleLock, keyShare>>
listing == <<page, total>>
vars == <<rows, call, pc, saw, listing, written, locks, reply>>

Steps == {"read", "write", "insert", "reference", "entry", "check", "commit", "respond", "count", "done"}

Init ==
  /\ role = [x \in Roles |-> Null] /\ created = {}
  /\ application = {}
  /\ call \in [Requests -> Calls]
  /\ pc = [r \in Requests |-> "read"]
  /\ saw = [r \in Requests |-> Null]
  /\ page = [r \in Requests |-> {}] /\ total = [r \in Requests |-> 0]
  /\ written = [r \in Requests |-> Null]
  /\ roleLock = [x \in Roles |-> Null]
  /\ keyShare = [x \in Roles |-> {}]
  /\ reply = [r \in Requests |-> Null]

target(r) == call[r].role
exists(x) == role[x] # Null

Awaits(r, endpoint, statement) == call[r].endpoint = endpoint /\ pc[r] = statement

Goto(r, statement) == pc' = [pc EXCEPT ![r] = statement] /\ UNCHANGED <<call, listing, reply>>

\* Mutant: a foreign key's lock outlives its transaction.
UnlockRowOnly(r) ==
  /\ roleLock' = [x \in Roles |-> IF roleLock[x] = r THEN Null ELSE roleLock[x]]
  /\ UNCHANGED keyShare

Unlock(r) ==
  /\ roleLock' = [x \in Roles |-> IF roleLock[x] = r THEN Null ELSE roleLock[x]]
  /\ keyShare' = [x \in Roles |-> keyShare[x] \ {r}]

\* The answer, and the end of the transaction if it was still open.
Answer(r, what) ==
  /\ pc' = [pc EXCEPT ![r] = "done"]
  /\ reply' = [reply EXCEPT ![r] = what]
  /\ written' = [written EXCEPT ![r] = Null]
  /\ Unlock(r)
  /\ UNCHANGED <<call, saw>>

\* A thrown AppError, or any other failure, rolls everything back.
Refuse(r, what) == Answer(r, what) /\ UNCHANGED <<rows, listing>>

-----------------------------------------------------------------------------
\* One INSERT: every role starts OPEN.
createRole(x) ==
  /\ x \notin created
  /\ role' = [role EXCEPT ![x] = [status |-> "OPEN", title |-> Null]]
  /\ created' = created \cup {x}
  /\ UNCHANGED <<application, call, pc, saw, listing, written, locks, reply>>

(***************************************************************************)
(* updateRole.                                                             *)
(***************************************************************************)

\* The read is only for the log line, and a miss is not refused here.
ReadStatus(r) ==
  /\ Awaits(r, "updateRole", "read")
  /\ saw' = [saw EXCEPT ![r] = IF exists(target(r)) THEN role[target(r)].status ELSE Null]
  /\ Goto(r, "write")
  /\ UNCHANGED <<rows, written, locks>>

\* Mutant: the row spread from the patch, an absent key reset to a default.
patchedWholeRow(r) ==
  LET p == call[r].patch
  IN  [status |-> IF p.status = Null THEN role[target(r)].status ELSE p.status,
       title  |-> IF p.title THEN r ELSE Null]

\* Only the keys present in the body are written.
patched(r) ==
  LET p == call[r].patch
      row == role[target(r)]
  IN  [status |-> IF p.status = Null THEN row.status ELSE p.status,
       title  |-> IF p.title THEN r ELSE row.title]

UpdateRow(r) ==
  /\ Awaits(r, "updateRole", "write")
  /\ exists(target(r)) /\ roleLock[target(r)] = Null
  /\ roleLock' = [roleLock EXCEPT ![target(r)] = r]
  /\ written' = [written EXCEPT ![r] = patched(r)]
  /\ Goto(r, "commit")
  /\ UNCHANGED <<rows, saw, keyShare>>

\* P2025: the row is not there, or a delete this UPDATE waited for removed it.
UpdateMisses(r) ==
  /\ Awaits(r, "updateRole", "write")
  /\ ~exists(target(r))
  /\ Refuse(r, "NOT_FOUND")

CommitUpdate(r) ==
  /\ Awaits(r, "updateRole", "commit")
  /\ role' = [role EXCEPT ![target(r)] = written[r]]
  /\ written' = [written EXCEPT ![r] = Null]
  /\ Unlock(r)
  /\ Goto(r, "respond")
  /\ UNCHANGED <<created, application, saw>>

\* After the COMMIT: a status_changed line from saw[r], and the answer.
RespondUpdate(r) == Awaits(r, "updateRole", "respond") /\ Answer(r, "OK") /\ UNCHANGED <<rows, listing>>

(***************************************************************************)
(* deleteRole.                                                             *)
(***************************************************************************)

deletable(status) == status = "CLOSED"

ReadForDelete(r) ==
  /\ Awaits(r, "deleteRole", "read")
  /\ \/ ~exists(target(r)) /\ Refuse(r, "NOT_FOUND")
     \/ /\ exists(target(r))
        /\ IF deletable(role[target(r)].status)
           THEN /\ Goto(r, "write")
                /\ saw' = [saw EXCEPT ![r] = role[target(r)].status]
                /\ UNCHANGED <<rows, written, locks>>
           ELSE Refuse(r, "ROLE_NOT_CLOSED")

\* DELETE WHERE id: it waits for an UPDATE of the row and for every KEY SHARE.
\* The status the read saw is in no WHERE.
deleteMayLock(x) == roleLock[x] = Null /\ keyShare[x] = {}

LockForDelete(r) ==
  /\ Awaits(r, "deleteRole", "write")
  /\ exists(target(r)) /\ deleteMayLock(target(r))
  /\ roleLock' = [roleLock EXCEPT ![target(r)] = r]
  /\ Goto(r, "check")
  /\ UNCHANGED <<rows, saw, written, keyShare>>

\* P2025 is not translated here: another delete won, and this one answers 500.
DeleteMisses(r) ==
  /\ Awaits(r, "deleteRole", "write")
  /\ ~exists(target(r))
  /\ Refuse(r, "P2025")

\* Mutant: onDelete: Restrict forgotten.
unreferencedAlways(x) == x \in Roles

\* onDelete: Restrict, P2003.
unreferenced(x) == \A a \in application : a.role # x

CheckReferences(r) ==
  /\ Awaits(r, "deleteRole", "check")
  /\ IF unreferenced(target(r))
     THEN Goto(r, "commit") /\ UNCHANGED <<rows, saw, written, locks>>
     ELSE Refuse(r, "ROLE_HAS_APPLICATIONS")

CommitDelete(r) ==
  /\ Awaits(r, "deleteRole", "commit")
  /\ role' = [role EXCEPT ![target(r)] = Null]
  /\ Unlock(r)
  /\ Goto(r, "respond")
  /\ UNCHANGED <<created, application, saw, written>>

RespondDelete(r) == Awaits(r, "deleteRole", "respond") /\ Answer(r, "OK") /\ UNCHANGED <<rows, listing>>

(***************************************************************************)
(* createApplication.                                                      *)
(***************************************************************************)

findOpenRole(r) ==
  /\ Awaits(r, "createApplication", "read")
  /\ IF exists(target(r)) /\ role[target(r)].status = "OPEN"
     THEN Goto(r, "insert") /\ UNCHANGED <<rows, saw, written, locks>>
     ELSE Refuse(r, "NOT_FOUND")

\* An entry of the unique index: committed, or written and not yet committed.
sameKey(r, q) == call[q].endpoint = "createApplication" /\ call[q].role = target(r) /\ call[q].candidate = call[r].candidate
rowOf(r, a) == a.role = target(r) /\ a.candidate = call[r].candidate
inIndex(r) == \E a \in application : rowOf(r, a)
pending(q) == call[q].endpoint = "createApplication" /\ pc[q] \in {"reference", "entry", "commit"}

\* The index makes an insert wait while another one with its key is undecided.
mayInsert(r) == ~inIndex(r) /\ \A q \in Requests \ {r} : ~(pending(q) /\ sameKey(r, q))

InsertApplication(r) ==
  /\ Awaits(r, "createApplication", "insert")
  /\ mayInsert(r)
  /\ Goto(r, "reference")
  /\ UNCHANGED <<rows, saw, written, locks>>

\* Mutant: refused by an insert that may yet roll back.
DuplicateEarly(r) ==
  /\ Awaits(r, "createApplication", "insert")
  /\ inIndex(r) \/ \E q \in Requests \ {r} : pending(q) /\ sameKey(r, q)
  /\ Refuse(r, "ALREADY_APPLIED")

\* P2002, caught outside the transaction.
DuplicateApplication(r) ==
  /\ Awaits(r, "createApplication", "insert")
  /\ inIndex(r)
  /\ Refuse(r, "ALREADY_APPLIED")

\* The foreign key's check at the end of the same INSERT: KEY SHARE on the
\* role, which waits for a DELETE of it and for nothing else.
reference(r) ==
  /\ exists(target(r))
  /\ roleLock[target(r)] \notin {q \in Requests : call[q].endpoint = "deleteRole"}
  /\ keyShare' = [keyShare EXCEPT ![target(r)] = @ \cup {r}]

ReferenceRole(r) ==
  /\ Awaits(r, "createApplication", "reference")
  /\ reference(r)
  /\ Goto(r, "entry")
  /\ UNCHANGED <<rows, saw, written, roleLock>>

\* P2003: the role was deleted after the read.  Nothing translates it.
ReferenceMisses(r) ==
  /\ Awaits(r, "createApplication", "reference")
  /\ ~exists(target(r))
  /\ Refuse(r, "P2003")

InsertEntryRow(r) ==
  /\ Awaits(r, "createApplication", "entry")
  /\ Goto(r, "commit")
  /\ UNCHANGED <<rows, saw, written, locks>>

CommitApplication(r) ==
  /\ Awaits(r, "createApplication", "commit")
  /\ application' = application \cup {[role |-> target(r), candidate |-> call[r].candidate, by |-> r]}
  /\ Unlock(r)
  /\ Goto(r, "respond")
  /\ UNCHANGED <<role, created, saw, written>>

RespondApplication(r) ==
  Awaits(r, "createApplication", "respond") /\ Answer(r, "OK") /\ UNCHANGED <<rows, listing>>

(***************************************************************************)
(* listRoles: a page and a count in one transaction, two statements.       *)
(***************************************************************************)

\* buildRoleWhere: a non-recruiter's query carries status = OPEN.
listed(r) == {x \in Roles : exists(x) /\ (call[r].recruiter \/ role[x].status = "OPEN")}

ReadPage(r) ==
  /\ Awaits(r, "listRoles", "read")
  /\ page' = [page EXCEPT ![r] = listed(r)]
  /\ pc' = [pc EXCEPT ![r] = "count"]
  /\ UNCHANGED <<rows, call, saw, total, written, locks, reply>>

CountRoles(r) ==
  /\ Awaits(r, "listRoles", "count")
  /\ total' = [total EXCEPT ![r] = Cardinality(listed(r))]
  /\ Answer(r, "OK")
  /\ UNCHANGED <<rows, page>>

\* A statement throws, the time limit passes, the connection drops: 500.
Fail(r) == pc[r] # "done" /\ Refuse(r, "INTERNAL_ERROR")

-----------------------------------------------------------------------------
updateRole(r) == ReadStatus(r) \/ UpdateRow(r) \/ UpdateMisses(r) \/ CommitUpdate(r) \/ RespondUpdate(r)
deleteRole(r) ==
  ReadForDelete(r) \/ LockForDelete(r) \/ DeleteMisses(r) \/ CheckReferences(r) \/ CommitDelete(r)
    \/ RespondDelete(r)
createApplication(r) ==
  findOpenRole(r) \/ InsertApplication(r) \/ DuplicateApplication(r) \/ ReferenceRole(r)
    \/ ReferenceMisses(r) \/ InsertEntryRow(r) \/ CommitApplication(r) \/ RespondApplication(r)
listRoles(r) == ReadPage(r) \/ CountRoles(r)

Handle(r) == updateRole(r) \/ deleteRole(r) \/ createApplication(r) \/ listRoles(r)

AllServed == (\A r \in Requests : pc[r] = "done") /\ UNCHANGED vars

Next ==
  \/ \E x \in Roles : createRole(x)
  \/ \E r \in Requests : Handle(r) \/ Fail(r)
  \/ AllServed

Spec == Init /\ [][Next]_vars

\* A handler that can take a step is run.
FairSpec == Spec /\ \A r \in Requests : WF_vars(Handle(r))

-----------------------------------------------------------------------------
TypeOK ==
  /\ role \in [Roles -> RoleRow \cup {Null}] /\ created \subseteq Roles
  /\ application \subseteq [role : Roles, candidate : Candidates, by : Requests]
  /\ call \in [Requests -> Calls] /\ pc \in [Requests -> Steps]
  /\ saw \in [Requests -> RoleStatus \cup {Null}]
  /\ page \in [Requests -> SUBSET Roles] /\ total \in [Requests -> 0 .. Cardinality(Roles)]
  /\ written \in [Requests -> RoleRow \cup {Null}]
  /\ roleLock \in [Roles -> Requests \cup {Null}] /\ keyShare \in [Roles -> SUBSET Requests]
  /\ reply \in [Requests -> Replies \cup {Null}]

\* An application never outlives its role: whatever order an apply, a close
\* and a delete run in, the foreign key's lock and onDelete: Restrict leave no
\* row that names a deleted requisition (roles.service.ts:298-301).
NoDanglingApplication == \A a \in application : exists(a.role)

\* What a caller is told is what happened: a 201 has its row, and "a candidate
\* may apply to the same role only ONCE", two clicks at the same instant
\* included, so it is the only one of its kind; a refused apply has none, a 409 ALREADY_APPLIED has somebody's row behind it, and a role a
\* DELETE answered 204 for is gone for good.
HonestAnswers ==
  \A r \in Requests :
    /\ call[r].endpoint = "createApplication" =>
         LET mine == \E a \in application : a.by = r
         IN  /\ reply[r] = "OK" => mine /\ Cardinality({a \in application : rowOf(r, a)}) = 1
             /\ reply[r] \in Refusals \cup {"P2003"} => ~mine
             /\ reply[r] = "ALREADY_APPLIED" => inIndex(r)
    /\ call[r].endpoint = "deleteRole" =>
         /\ reply[r] = "OK" => ~exists(target(r)) /\ target(r) \in created
         /\ reply[r] = "ROLE_HAS_APPLICATIONS" => exists(target(r))

\* "Two recruiters editing different fields don't clobber each other": a title,
\* once set, is only ever replaced by the title of another body that had one,
\* whatever patches of the status commit around it.
NoLostTitle ==
  [][\A x \in Roles :
       exists(x) /\ role'[x] # Null /\ role'[x].title # role[x].title =>
         \E r \in Requests : pc[r] = "commit" /\ pc'[r] = "respond" /\ call[r].patch.title
                             /\ role'[x].title = r]_vars

\* No deadlock: the row lock, the KEY SHARE and the unique index are taken in
\* an order that closes no circle, so while somebody waits somebody can go on.
NobodyStuck ==
  (\E r \in Requests : pc[r] # "done") => \E r \in Requests : ENABLED Handle(r)

\* EC-14d of the roles spec: "There is no window in which an open role is
\* deleted."  Both statements share a transaction, but the read locks nothing
\* and the DELETE's WHERE is the id alone.
OpenRoleIsNotDeleted ==
  [][\A x \in Roles : exists(x) /\ role'[x] = Null => role[x].status = "CLOSED"]_vars

\* updateRole's comment: "the `from` status it logs is the value the update
\* actually moved off".  The read ahead of the UPDATE takes no lock.
LoggedFromIsReal ==
  [][\A r \in Requests :
       /\ call[r].endpoint = "updateRole" /\ pc[r] = "commit" /\ pc'[r] = "respond"
       /\ call[r].patch.status \notin {Null, saw[r]}
       /\ saw[r] # Null  \* a PATCH of an id not handed out yet is left aside
       => role[target(r)].status = saw[r]]_vars

\* createApplication's comment: "the `Role` row's existence is guaranteed for
\* the insert and the foreign key cannot fail with an unexplained P2003".
NoUnexplainedP2003 == \A r \in Requests : reply[r] # "P2003"

\* listRoles' comment: "`total` always describes the same snapshot as the rows
\* beside it" (every role of this model fits on one page).
TotalMatchesPage ==
  \A r \in Requests :
    call[r].endpoint = "listRoles" /\ reply[r] = "OK" => Cardinality(page[r]) = total[r]
=============================================================================
