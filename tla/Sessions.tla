------------------------------- MODULE Sessions -------------------------------
(***************************************************************************)
(* Sessions (auth.service.ts): login starts a family of refresh tokens,    *)
(* refresh replaces the one live token of a family by its successor, and   *)
(* logout, or a refresh with a token that was already replaced, revokes    *)
(* what is left of the family.  One action per statement, READ COMMITTED.  *)
(* signup, which creates the accounts logins are for, is one INSERT.       *)
(*                                                                         *)
(* A request inserts at most one token, so a token is named after the      *)
(* request that inserts it and a family after its login.  The token's      *)
(* value, its hash and the access token are left out: a client presents a  *)
(* token it was sent, and only that token's row matches it.                *)
(***************************************************************************)
EXTENDS Naturals, FiniteSets

CONSTANTS
  Users,     \* email addresses
  Requests,  \* HTTP requests, each served once
  Script,    \* who created the accounts of the seed
  Null

\* revokedAt keeps who set it; expired is expiresAt <= now.
TokenRow ==
  [user : Users, family : Requests, revokedAt : Requests \cup {Null}, expired : BOOLEAN]

Calls ==
  [endpoint : {"signup", "login"}, user : Users] \cup [endpoint : {"refresh", "logout"}, user : {Null}]

Replies ==
  {"OK", "NO_CONTENT", "EMAIL_TAKEN", "INVALID_CREDENTIALS", "UNAUTHENTICATED", "INTERNAL_ERROR"}

ASSUME SessionNull == Null \notin Requests \cup {Script} /\ Null \notin Users /\ Null \notin TokenRow
ASSUME SessionScript == Script \notin Requests
ASSUME SessionReplies == Null \notin Replies

VARIABLES
  account,    \* who created the User row of an address, Null before there is one
  token,      \* RefreshToken rows
  call, pc, reply,
  presented,  \* the token in a request's cookie
  lapsed,     \* whether it had expired at the `now' of the request
  family,     \* the family a request is to revoke
  targets     \* the rows its family-wide UPDATE found at its start

vars == <<account, token, call, pc, reply, presented, lapsed, family, targets>>

Init ==
  /\ account \in [Users -> {Script, Null}]
  /\ token = [r \in Requests |-> Null]
  /\ call \in [Requests -> Calls]
  /\ pc = [r \in Requests |-> "start"]
  /\ reply = [r \in Requests |-> Null]
  /\ presented = [r \in Requests |-> Null]
  /\ lapsed = [r \in Requests |-> FALSE]
  /\ family = [r \in Requests |-> Null]
  /\ targets = [r \in Requests |-> {}]

Awaits(r, endpoint, statement) == call[r].endpoint = endpoint /\ pc[r] = statement

Goto(r, statement) == pc' = [pc EXCEPT ![r] = statement] /\ UNCHANGED <<account, call, reply>>

Answer(r, what) ==
  /\ pc' = [pc EXCEPT ![r] = "done"]
  /\ reply' = [reply EXCEPT ![r] = what]
  /\ UNCHANGED <<account, call, presented, lapsed, family, targets>>

unchangedLocals == UNCHANGED <<presented, lapsed, family, targets>>

live(t) == token[t] # Null /\ token[t].revokedAt = Null

\* The WHERE of a claim, expiresAt against a `now' read before its transaction
\* and before any wait for the row.
matches(r) == live(presented[r]) /\ ~lapsed[r]

\* Mutant: a row lock that outlives its transaction.
lockedForGood(t) ==
  \E q \in Requests :
    /\ call[q].endpoint = "refresh" /\ presented[q] = t
    /\ pc[q] \in {"mint", "commit", "respond", "done"}

\* The row a refresh has claimed and not committed.
locked(t) == \E q \in Requests : call[q].endpoint = "refresh" /\ pc[q] \in {"mint", "commit"} /\ presented[q] = t

\* The tokens that reached a client: a Set-Cookie of a response that was sent.
sent == {q \in Requests : call[q].endpoint \in {"login", "refresh"} /\ reply[q] = "OK"}

-----------------------------------------------------------------------------
Expire(t) ==
  /\ token[t] # Null /\ ~token[t].expired
  /\ token' = [token EXCEPT ![t].expired = TRUE]
  /\ UNCHANGED <<account, call, pc, reply, presented, lapsed, family, targets>>

\* The cookie is any token its client was sent, an old one too: two tabs share
\* a jar, and a response may be lost after the server has rotated.
Present(r) ==
  /\ pc[r] = "start" /\ call[r].endpoint \in {"refresh", "logout"}
  /\ \E t \in sent :
       /\ presented' = [presented EXCEPT ![r] = t]
       /\ lapsed' = [lapsed EXCEPT ![r] = token[t] # Null /\ token[t].expired]
  /\ Goto(r, IF call[r].endpoint = "refresh" THEN "claim" ELSE "find")
  /\ UNCHANGED <<token, family, targets>>

\* No cookie: 401 on refresh, 204 on logout.
PresentNothing(r) ==
  /\ pc[r] = "start" /\ call[r].endpoint \in {"refresh", "logout"}
  /\ Answer(r, IF call[r].endpoint = "refresh" THEN "UNAUTHENTICATED" ELSE "NO_CONTENT")
  /\ UNCHANGED token

(***************************************************************************)
(* signup: one INSERT, by itself a transaction, refused by the unique      *)
(* index.  Nothing deletes an account.                                     *)
(***************************************************************************)

CreateAccount(r) ==
  /\ Awaits(r, "signup", "start")
  /\ account[call[r].user] = Null
  /\ account' = [account EXCEPT ![call[r].user] = r]
  /\ pc' = [pc EXCEPT ![r] = "respond"]
  /\ UNCHANGED <<token, call, reply>> /\ unchangedLocals

EmailTaken(r) ==
  /\ Awaits(r, "signup", "start")
  /\ account[call[r].user] # Null
  /\ Answer(r, "EMAIL_TAKEN") /\ UNCHANGED token

(***************************************************************************)
(* login.                                                                  *)
(***************************************************************************)

\* An unknown address or a wrong password, told apart by nothing.
InvalidCredentials(r) ==
  Awaits(r, "login", "start") /\ Answer(r, "INVALID_CREDENTIALS") /\ UNCHANGED token

\* The INSERT is a transaction of its own.
issueSession(r) ==
  /\ Awaits(r, "login", "start") /\ account[call[r].user] # Null
  /\ token' = [token EXCEPT ![r] =
       [user |-> call[r].user, family |-> r, revokedAt |-> Null, expired |-> FALSE]]
  /\ Goto(r, "prune")
  /\ unchangedLocals

\* One DELETE, which waits for a row that is being rotated; its failure is
\* swallowed.
pruneExpiredRefreshTokens(r) ==
  /\ Awaits(r, "login", "prune")
  /\ LET expired == {t \in Requests : token[t] # Null /\ token[t].user = call[r].user /\ token[t].expired}
     IN  \/ /\ \A t \in expired : ~locked(t)
            /\ token' = [t \in Requests |-> IF t \in expired THEN Null ELSE token[t]]
         \/ UNCHANGED token
  /\ Goto(r, "respond")
  /\ unchangedLocals

(***************************************************************************)
(* refresh.                                                                *)
(***************************************************************************)

\* Mutant: a read ahead of a write by id, which waits for nobody.
claimableByRead(r) == matches(r)

claimable(r) == matches(r) /\ ~locked(presented[r])

Claim(r) ==
  /\ Awaits(r, "refresh", "claim")
  /\ claimable(r)
  /\ Goto(r, "mint")
  /\ UNCHANGED token /\ unchangedLocals

ClaimMisses(r) ==
  /\ Awaits(r, "refresh", "claim")
  /\ ~matches(r)
  /\ Goto(r, "why")
  /\ UNCHANGED token /\ unchangedLocals

\* A second statement, so a second snapshot: 'unknown', 'reused' or 'expired'.
Explain(r) ==
  /\ Awaits(r, "refresh", "why")
  /\ IF token[presented[r]] # Null /\ ~live(presented[r])
     THEN /\ family' = [family EXCEPT ![r] = token[presented[r]].family]
          /\ Goto(r, "snapshot")
          /\ UNCHANGED <<token, presented, lapsed, targets>>
     ELSE Answer(r, "UNAUTHENTICATED") /\ UNCHANGED token

\* The read of the claimed row and the INSERT of its successor.
Mint(r) == Awaits(r, "refresh", "mint") /\ Goto(r, "commit") /\ UNCHANGED token /\ unchangedLocals

\* Mutant: the successor inserted, the presented token left live.
rotatedWithoutRevoking(r) ==
  [token EXCEPT ![r] = [token[presented[r]] EXCEPT !.expired = FALSE]]

\* What the COMMIT publishes: the revocation and the successor, together.
rotated(r) ==
  [token EXCEPT ![presented[r]].revokedAt = r,
                ![r] = [token[presented[r]] EXCEPT !.expired = FALSE]]

CommitRotation(r) ==
  /\ Awaits(r, "refresh", "commit")
  /\ token' = rotated(r)
  /\ Goto(r, "respond")
  /\ unchangedLocals

(***************************************************************************)
(* logout, and the UPDATE it shares with a reused refresh.                 *)
(***************************************************************************)

FindFamily(r) ==
  /\ Awaits(r, "logout", "find")
  /\ IF token[presented[r]] = Null
     THEN Answer(r, "NO_CONTENT") /\ UNCHANGED token
     ELSE /\ family' = [family EXCEPT ![r] = token[presented[r]].family]
          /\ Goto(r, "snapshot")
          /\ UNCHANGED <<token, presented, lapsed, targets>>

\* Mutant: every session of the user.
familyRowsAll(r) == {t \in Requests : live(t) /\ family[r] \in Requests}

\* Mutant: the presented token's row alone.
familyRowsPresented(r) == {t \in Requests : live(t) /\ t = presented[r]}

familyRows(r) == {t \in Requests : live(t) /\ token[t].family = family[r]}

\* The statement finds its rows in the snapshot of its start ...
SnapshotFamily(r) ==
  /\ pc[r] = "snapshot"
  /\ targets' = [targets EXCEPT ![r] = familyRows(r)]
  /\ Goto(r, "revoke")
  /\ UNCHANGED <<token, presented, lapsed, family>>

\* ... waits for those being rotated, and updates the ones that still match.
\* A successor that was not committed at its start is not among them.
RevokeFamily(r) ==
  /\ pc[r] = "revoke"
  /\ \A t \in targets[r] : ~locked(t)
  /\ token' = [t \in Requests |->
       IF t \in targets[r] /\ live(t) THEN [token[t] EXCEPT !.revokedAt = r] ELSE token[t]]
  /\ Goto(r, "respond")
  /\ unchangedLocals

-----------------------------------------------------------------------------
\* Mutant: only the 'reused' outcome told apart, the other way round.
RespondUnlessReused(r) ==
  pc[r] = "respond" /\ Answer(r, IF family[r] # Null THEN "OK" ELSE "UNAUTHENTICATED") /\ UNCHANGED token

Respond(r) ==
  /\ pc[r] = "respond"
  /\ Answer(r, IF call[r].endpoint = "logout" THEN "NO_CONTENT"
               ELSE IF family[r] # Null THEN "UNAUTHENTICATED" ELSE "OK")
  /\ UNCHANGED token

\* A statement throws or the connection drops: an open transaction is undone,
\* and the response, with its cookie, does not reach the client.
Fail(r) == pc[r] # "done" /\ Answer(r, "INTERNAL_ERROR") /\ UNCHANGED token

signup(r) == CreateAccount(r) \/ EmailTaken(r)
login(r) == InvalidCredentials(r) \/ issueSession(r) \/ pruneExpiredRefreshTokens(r)
refresh(r) == Claim(r) \/ ClaimMisses(r) \/ Explain(r) \/ Mint(r) \/ CommitRotation(r)
logout(r) == FindFamily(r)

Handle(r) ==
  \/ Present(r) \/ PresentNothing(r)
  \/ signup(r) \/ login(r) \/ refresh(r) \/ logout(r)
  \/ SnapshotFamily(r) \/ RevokeFamily(r)
  \/ Respond(r)

AllServed == (\A r \in Requests : pc[r] = "done") /\ UNCHANGED vars

Next ==
  \/ \E r \in Requests : Handle(r) \/ Fail(r) \/ Expire(r)
  \/ AllServed

Spec == Init /\ [][Next]_vars

-----------------------------------------------------------------------------
TypeOK ==
  /\ account \in [Users -> Requests \cup {Script, Null}]
  /\ token \in [Requests -> TokenRow \cup {Null}]
  /\ call \in [Requests -> Calls]
  /\ pc \in [Requests -> {"start", "prune", "claim", "why", "mint", "commit", "find", "snapshot",
                          "revoke", "respond", "done"}]
  /\ reply \in [Requests -> Replies \cup {Null}]
  /\ presented \in [Requests -> Requests \cup {Null}]
  /\ lapsed \in [Requests -> BOOLEAN]
  /\ family \in [Requests -> Requests \cup {Null}]
  /\ targets \in [Requests -> SUBSET Requests]

\* AC-B21: the database contains no two simultaneously unrevoked tokens of one
\* family, however many refreshes carry the same token at once.
OneLiveToken ==
  \A t, u \in Requests : live(t) /\ live(u) /\ token[t].family = token[u].family => t = u

\* At most one refresh succeeds with one token, and the successor it sends is
\* of the presented token's user and family.
RotatedOnce ==
  \A r \in Requests : call[r].endpoint = "refresh" /\ reply[r] = "OK" =>
    /\ \A q \in Requests : q # r /\ call[q].endpoint = "refresh" /\ reply[q] = "OK" =>
         presented[q] # presented[r]
    /\ token[r] # Null /\ token[presented[r]] # Null =>
         /\ token[presented[r]].revokedAt # Null
         /\ token[r].family = token[presented[r]].family
         /\ token[r].user = token[presented[r]].user

\* A refused request has minted nothing; a refresh is refused either before it
\* revoked anything, or after it revoked a family and nothing of any other.  A
\* sign-up that succeeded created the account, the only one of its address, and
\* one that is refused found somebody else's; a session is an account's.
HonestAnswers ==
  \A r \in Requests :
    /\ reply[r] \in {"UNAUTHENTICATED", "INVALID_CREDENTIALS", "NO_CONTENT"} =>
         /\ token[r] = Null
         /\ \A t \in Requests : token[t] # Null /\ token[t].revokedAt = r => token[t].family = family[r]
    /\ reply[r] = "EMAIL_TAKEN" => account[call[r].user] \notin {Null, r}
    /\ reply[r] = "OK" /\ call[r].endpoint = "signup" => account[call[r].user] = r
    /\ token[r] # Null => account[token[r].user] # Null

\* A logout, or a refresh whose token had been replaced, leaves no live token
\* in the family, provided its UPDATE revoked what it found itself: no rotation
\* was under way when it started.
FamilyEnds ==
  \A r \in Requests :
    /\ family[r] # Null /\ reply[r] \in {"NO_CONTENT", "UNAUTHENTICATED"}
    /\ \A t \in targets[r] : token[t] # Null /\ token[t].revokedAt = r
    => \A t \in Requests : live(t) => token[t].family # family[r]

\* "A second login never disturbs a session already running on another device":
\* a row that was live is revoked only by a request whose cookie was of the
\* same family.
OtherSessionsUntouched ==
  [][\A t \in Requests :
       live(t) /\ token'[t] # Null /\ token'[t].revokedAt # Null =>
         LET r == token'[t].revokedAt
         IN  presented[r] # Null /\ (token[presented[r]] # Null =>
               token[presented[r]].family = token[t].family)]_vars

\* No deadlock: a claim, a family's UPDATE and a prune wait only for a rotation,
\* which waits for nobody.
NobodyStuck ==
  (\E r \in Requests : pc[r] # "done") => \E r \in Requests : ENABLED Handle(r)
=============================================================================
