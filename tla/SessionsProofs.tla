---------------------------- MODULE SessionsProofs ----------------------------
(***************************************************************************)
(* Theorems about Sessions, for every set of users and of requests: a      *)
(* family never has two live tokens, a token is exchanged once, and what a *)
(* request revokes is of its own family.  A row is held from its claim to  *)
(* its COMMIT, is named after who inserted it and never changes family;    *)
(* the inductive invariant says so of every statement of every request.    *)
(***************************************************************************)
EXTENDS Sessions, TLAPS

USE SessionNull, SessionScript, SessionReplies DEF Replies

\* The endpoints that present a cookie.
Rotates(r) == call[r].endpoint = "refresh"
Revokes(r) == call[r].endpoint \in {"refresh", "logout"}

\* The statements each handler awaits.
Places ==
  \A r \in Requests :
    /\ pc[r] = "prune" => call[r].endpoint = "login"
    /\ pc[r] \in {"claim", "why", "mint", "commit"} => Rotates(r)
    /\ pc[r] = "find" => call[r].endpoint = "logout"
    /\ pc[r] \in {"snapshot", "revoke"} => Revokes(r)
    /\ reply[r] # Null => pc[r] = "done"

\* A request past its INSERT: a login from there on, a refresh from its COMMIT.
Minted(r) ==
  \/ call[r].endpoint = "login" /\ (pc[r] \in {"prune", "respond"} \/ reply[r] \in {"OK", "INTERNAL_ERROR"})
  \/ Rotates(r) /\ family[r] = Null /\ (pc[r] = "respond" \/ reply[r] \in {"OK", "INTERNAL_ERROR"})

\* Every row was inserted by the request it is named after, and is of a family
\* that a login has started.
RowsAreMinted ==
  \A t \in Requests : token[t] # Null =>
    /\ Minted(t)
    /\ call[token[t].family].endpoint = "login" /\ Minted(token[t].family)
    /\ account[token[t].user] # Null

\* A cookie is one whose response was sent.
CookiesWereSent ==
  \A r \in Requests :
    /\ presented[r] # Null => Revokes(r) /\ pc[presented[r]] = "done"
    /\ pc[r] \in {"claim", "why", "mint", "commit", "find"} => presented[r] # Null

\* Between its claim and its COMMIT a refresh has its row to itself.
ClaimsHold ==
  \A r \in Requests : Rotates(r) /\ pc[r] \in {"mint", "commit"} =>
    /\ live(presented[r])
    /\ \A q \in Requests : Rotates(q) /\ pc[q] \in {"mint", "commit"} /\ presented[q] = presented[r] => q = r

\* A request finds the family it is to revoke by the token it presented,
FamiliesArePresented ==
  \A r \in Requests :
    /\ pc[r] \in {"start", "prune", "claim", "why", "mint", "commit", "find"} => family[r] = Null
    /\ pc[r] \in {"snapshot", "revoke"} => family[r] # Null
    /\ family[r] # Null => presented[r] # Null

\* which is of that family; and the rows it finds are of no other.
FamiliesMatch ==
  \A r \in Requests :
    /\ family[r] # Null => Minted(family[r])
    /\ family[r] # Null /\ token[presented[r]] # Null => token[presented[r]].family = family[r]
    /\ \A t \in targets[r] : Minted(t) /\ (token[t] # Null => token[t].family = family[r])

\* A refresh from its COMMIT to its answer.
Rotated(r) == Rotates(r) /\ family[r] = Null /\ (pc[r] = "respond" \/ reply[r] = "OK")

\* The token it presented is spent, by nobody else, and its own is of the same
\* family and user.
RotationsStand ==
  \A r \in Requests : Rotated(r) =>
    /\ presented[r] # Null /\ ~live(presented[r])
    /\ \A q \in Requests : Rotated(q) /\ presented[q] = presented[r] => q = r
    /\ token[r] # Null /\ token[presented[r]] # Null =>
         /\ token[r].family = token[presented[r]].family
         /\ token[r].user = token[presented[r]].user

\* Who revoked a row: the refresh that replaced it, or a request that revoked
\* its family.
RevocationsAreSigned ==
  \A t, r \in Requests : token[t] # Null /\ token[t].revokedAt = r =>
    \/ family[r] # Null /\ token[t].family = family[r]
    \/ Rotates(r) /\ Minted(r)

\* An address has the account of the sign-up that was told so.
AccountsAreSigned ==
  \A r \in Requests : call[r].endpoint = "signup" =>
    /\ pc[r] \in {"start", "respond", "done"}
    /\ pc[r] = "respond" \/ reply[r] = "OK" => account[call[r].user] = r
    /\ \A u \in Users : account[u] = r => pc[r] = "respond" \/ reply[r] \in {"OK", "INTERNAL_ERROR"}
    /\ reply[r] = "EMAIL_TAKEN" => account[call[r].user] # Null

\* An answer is one its endpoint gives, and a success is of nobody who had a
\* family to revoke.
AnswersFit ==
  \A r \in Requests :
    /\ reply[r] = "EMAIL_TAKEN" => call[r].endpoint = "signup"
    /\ reply[r] = "OK" => family[r] = Null

\* A request from its family-wide UPDATE on.
Revoked(r) ==
  family[r] # Null /\ (pc[r] = "respond" \/ reply[r] \in {"NO_CONTENT", "UNAUTHENTICATED"})

\* Somebody else was ahead of it on a row it found.
Beaten(r) == \E t \in targets[r] : token[t] = Null \/ token[t].revokedAt \notin {Null, r}

\* What a family still has to revoke.
LiveRowsOf(f) == {t \in Requests : live(t) /\ token[t].family = f}

\* An UPDATE has in its snapshot every live row of its family, unless a rotation
\* was ahead of it; and has left none.
FamiliesEnd ==
  \A r \in Requests :
    /\ pc[r] = "revoke" => LiveRowsOf(family[r]) \subseteq targets[r] \/ Beaten(r)
    /\ Revoked(r) => LiveRowsOf(family[r]) = {} \/ Beaten(r)

\* The inductive invariant: OneLiveToken is inductive only with who holds which
\* row (ClaimsHold), where rows come from (RowsAreMinted) and whose family a
\* request is about (FamiliesArePresented, FamiliesMatch).
IInv ==
  /\ TypeOK /\ Places /\ RowsAreMinted /\ CookiesWereSent /\ ClaimsHold
  /\ FamiliesArePresented /\ FamiliesMatch
  /\ RotationsStand /\ RevocationsAreSigned /\ AccountsAreSigned /\ AnswersFit
  /\ FamiliesEnd /\ OneLiveToken

-----------------------------------------------------------------------------

\* A row that is revoked, or whose clock has run, stays a row of its family and
\* user.
LEMMA RowRevoked ==
  ASSUME NEW row \in TokenRow, NEW q \in Requests
  PROVE  LET new == [row EXCEPT !.revokedAt = q]
         IN  /\ row # Null /\ new # Null /\ new \in TokenRow /\ new.revokedAt = q
             /\ new.family = row.family /\ new.user = row.user
BY DEF TokenRow

LEMMA RowExpires ==
  ASSUME NEW row \in TokenRow, NEW b \in BOOLEAN
  PROVE  LET new == [row EXCEPT !.expired = b]
         IN  /\ row # Null /\ new # Null /\ new \in TokenRow /\ new.revokedAt = row.revokedAt
             /\ new.family = row.family /\ new.user = row.user
BY DEF TokenRow

\* What a rotation's COMMIT does to the rows.
LEMMA RotationRows ==
  ASSUME TypeOK, NEW r \in Requests, CommitRotation(r),
         presented[r] \in Requests, live(presented[r]), token[r] = Null
  PROVE  LET p == presented[r]
         IN  /\ token' \in [Requests -> TokenRow \cup {Null}]
             /\ p # r /\ token'[p] # Null /\ token'[p].revokedAt = r
             /\ token'[p].family = token[p].family /\ token'[p].user = token[p].user
             /\ token'[r] # Null /\ token'[r].revokedAt = Null
             /\ token'[r].family = token[p].family /\ token'[r].user = token[p].user
             /\ \A t \in Requests \ {r, p} : token'[t] = token[t]
<1> DEFINE p == presented[r]
<1>1. token[p] \in TokenRow /\ token[p].revokedAt = Null /\ p # r
  BY DEF TypeOK, live
<1>2. [token[p] EXCEPT !.revokedAt = r] \in TokenRow /\ [token[p] EXCEPT !.expired = FALSE] \in TokenRow
  BY <1>1, RowRevoked, RowExpires
<1>3. token' = [token EXCEPT ![p] = [token[p] EXCEPT !.revokedAt = r],
                             ![r] = [token[p] EXCEPT !.expired = FALSE]]
  BY DEF CommitRotation, rotated
<1>4. /\ token' \in [Requests -> TokenRow \cup {Null}]
      /\ token'[p] = [token[p] EXCEPT !.revokedAt = r]
      /\ token'[r] = [token[p] EXCEPT !.expired = FALSE]
      /\ \A t \in Requests \ {r, p} : token'[t] = token[t]
  BY <1>1, <1>2, <1>3 DEF TypeOK
<1>5. token'[p] # Null /\ token'[p].revokedAt = r
      /\ token'[p].family = token[p].family /\ token'[p].user = token[p].user
  BY <1>1, <1>4, RowRevoked, RowExpires
<1>6. token'[r] # Null /\ token'[r].revokedAt = Null
      /\ token'[r].family = token[p].family /\ token'[r].user = token[p].user
  BY <1>1, <1>4, RowRevoked, RowExpires
<1> QED BY <1>1, <1>4, <1>5, <1>6

\* What a family-wide UPDATE does to them.
LEMMA RevocationRows ==
  ASSUME TypeOK, NEW r \in Requests, RevokeFamily(r)
  PROVE  /\ token' \in [Requests -> TokenRow \cup {Null}]
         /\ \A t \in targets[r] : live(t) =>
              /\ token'[t] # Null /\ token'[t].revokedAt = r
              /\ token'[t].family = token[t].family /\ token'[t].user = token[t].user
         /\ \A t \in Requests : t \notin targets[r] \/ ~live(t) => token'[t] = token[t]
<1> DEFINE new(t) == IF t \in targets[r] /\ live(t) THEN [token[t] EXCEPT !.revokedAt = r] ELSE token[t]
<1>1. token' = [t \in Requests |-> new(t)]
  BY DEF RevokeFamily
<1>2. \A t \in Requests : live(t) => token[t] \in TokenRow
  BY DEF TypeOK, live
<1>3. targets[r] \subseteq Requests
  BY DEF TypeOK
<1>4. \A t \in Requests : new(t) \in TokenRow \cup {Null}
  BY <1>2, RowRevoked, RowExpires DEF TypeOK
<1>5. token' \in [Requests -> TokenRow \cup {Null}]
  BY <1>1, <1>4
<1>6. ASSUME NEW t \in targets[r], live(t)
      PROVE  /\ token'[t] # Null /\ token'[t].revokedAt = r
             /\ token'[t].family = token[t].family /\ token'[t].user = token[t].user
  <2>1. t \in Requests /\ token'[t] = [token[t] EXCEPT !.revokedAt = r]
    BY <1>1, <1>3, <1>6
  <2> QED BY <2>1, <1>2, <1>6, RowRevoked, RowExpires
<1>7. ASSUME NEW t \in Requests, t \notin targets[r] \/ ~live(t) PROVE token'[t] = token[t]
  BY <1>1, <1>7
<1> QED BY <1>5, <1>6, <1>7

\* What the clock does to them.
LEMMA ExpiryRows ==
  ASSUME TypeOK, NEW t \in Requests, Expire(t)
  PROVE  /\ token' \in [Requests -> TokenRow \cup {Null}]
         /\ token'[t] # Null /\ token'[t].revokedAt = token[t].revokedAt
         /\ token'[t].family = token[t].family /\ token'[t].user = token[t].user
         /\ \A u \in Requests \ {t} : token'[u] = token[u]
<1>1. token[t] \in TokenRow /\ token' = [token EXCEPT ![t] = [token[t] EXCEPT !.expired = TRUE]]
  BY DEF Expire, TypeOK
<1>2. [token[t] EXCEPT !.expired = TRUE] \in TokenRow
  BY <1>1, RowRevoked, RowExpires
<1>3. token'[t] = [token[t] EXCEPT !.expired = TRUE]
  BY <1>1 DEF TypeOK
<1>4. /\ token' \in [Requests -> TokenRow \cup {Null}]
      /\ \A u \in Requests \ {t} : token'[u] = token[u]
  BY <1>1, <1>2 DEF TypeOK
<1> QED BY <1>1, <1>3, <1>4, RowRevoked, RowExpires

\* The INSERT of a login starts a family.
LEMMA LoginRows ==
  ASSUME TypeOK, NEW r \in Requests, issueSession(r)
  PROVE  /\ token' \in [Requests -> TokenRow \cup {Null}]
         /\ token'[r] # Null /\ token'[r].revokedAt = Null
         /\ token'[r].family = r /\ token'[r].user = call[r].user
         /\ \A t \in Requests \ {r} : token'[t] = token[t]
<1>1. call[r].user \in Users
  BY DEF TypeOK, Calls, issueSession, Awaits
<1> DEFINE new == [user |-> call[r].user, family |-> r, revokedAt |-> Null, expired |-> FALSE]
<1>2. new \in TokenRow /\ new # Null
  <2>1. FALSE \in BOOLEAN /\ r \in Requests /\ Null \in Requests \cup {Null}
    OBVIOUS
  <2>2. new \in TokenRow
    BY <1>1, <2>1, Zenon DEF TokenRow
  <2> QED BY <2>2
<1>3. token' = [token EXCEPT ![r] = new]
  BY DEF issueSession
<1>4. /\ token' \in [Requests -> TokenRow \cup {Null}] /\ token'[r] = new
      /\ \A t \in Requests \ {r} : token'[t] = token[t]
  BY <1>2, <1>3 DEF TypeOK
<1> QED BY <1>2, <1>4

\* The DELETE behind a login's INSERT takes no row that is being rotated.
LEMMA PrunedRows ==
  ASSUME TypeOK, NEW r \in Requests, pruneExpiredRefreshTokens(r)
  PROVE  /\ token' \in [Requests -> TokenRow \cup {Null}]
         /\ \A t \in Requests : token'[t] = token[t] \/ (token'[t] = Null /\ ~locked(t))
<1> DEFINE expired == {t \in Requests : token[t] # Null /\ token[t].user = call[r].user /\ token[t].expired}
<1>1. \/ /\ \A t \in expired : ~locked(t)
         /\ token' = [t \in Requests |-> IF t \in expired THEN Null ELSE token[t]]
      \/ UNCHANGED token
  BY DEF pruneExpiredRefreshTokens
<1>2. token \in [Requests -> TokenRow \cup {Null}]
  BY DEF TypeOK
<1>3. CASE UNCHANGED token
  BY <1>2, <1>3
<1>4. CASE /\ \A t \in expired : ~locked(t)
           /\ token' = [t \in Requests |-> IF t \in expired THEN Null ELSE token[t]]
  <2> HIDE DEF expired
  <2>1. token' \in [Requests -> TokenRow \cup {Null}]
    BY <1>2, <1>4
  <2>2. ASSUME NEW t \in Requests PROVE token'[t] = token[t] \/ (token'[t] = Null /\ ~locked(t))
    BY <1>4
  <2> QED BY <2>1, <2>2
<1> QED BY <1>1, <1>3, <1>4

\* At its COMMIT a refresh has its row, and no successor yet.
LEMMA RotationReady ==
  ASSUME IInv, NEW r \in Requests, CommitRotation(r)
  PROVE  /\ Rotates(r) /\ pc[r] = "commit" /\ family[r] = Null
         /\ presented[r] \in Requests /\ live(presented[r]) /\ ~Minted(r) /\ token[r] = Null
<1>1. Rotates(r) /\ pc[r] = "commit"
  BY DEF CommitRotation, Awaits, Rotates
<1>2. live(presented[r]) /\ presented[r] # Null /\ family[r] = Null
  BY <1>1 DEF IInv, ClaimsHold, CookiesWereSent, FamiliesArePresented
<1>3. ~Minted(r)
  BY <1>1 DEF IInv, TypeOK, Minted, Rotates, Places
<1> QED BY <1>1, <1>2, <1>3 DEF IInv, TypeOK, RowsAreMinted

\* At its INSERT a login has started no family.
LEMMA LoginReady ==
  ASSUME IInv, NEW r \in Requests, issueSession(r)
  PROVE  /\ token[r] = Null /\ \A t \in Requests : token[t] # Null => token[t].family # r
         /\ presented[r] = Null /\ family[r] = Null /\ ~Minted(r)
<1>1. ~Minted(r) /\ call[r].endpoint = "login" /\ pc[r] = "start"
  BY DEF IInv, TypeOK, Minted, Rotates, Places, issueSession, Awaits
<1>2. presented[r] = Null /\ family[r] = Null
  BY <1>1 DEF IInv, CookiesWereSent, FamiliesArePresented, Revokes
<1> QED BY <1>1, <1>2 DEF IInv, RowsAreMinted

\* Every variable keeps its type.
LEMMA TypesKept ==
  ASSUME IInv, [Next]_vars PROVE TypeOK'
<1>a. TypeOK /\ Places /\ RowsAreMinted /\ CookiesWereSent /\ ClaimsHold
  BY DEF IInv
<1> USE DEF TypeOK, Awaits, Goto, Answer, unchangedLocals, Calls, live, CookiesWereSent
<1>1. ASSUME NEW r \in Requests, Present(r) PROVE TypeOK'
  BY <1>a, <1>1 DEF Present, sent, TokenRow
<1>2. ASSUME NEW r \in Requests, PresentNothing(r) PROVE TypeOK'
  BY <1>a, <1>2 DEF PresentNothing
<1>3. ASSUME NEW r \in Requests, CreateAccount(r) \/ EmailTaken(r) \/ InvalidCredentials(r) \/ Fail(r)
      PROVE  TypeOK'
  BY <1>a, <1>3 DEF CreateAccount, EmailTaken, InvalidCredentials, Fail
<1>4. ASSUME NEW r \in Requests, issueSession(r) \/ pruneExpiredRefreshTokens(r) \/ Expire(r)
      PROVE  TypeOK'
  BY <1>a, <1>4, LoginReady, LoginRows, PrunedRows, ExpiryRows DEF issueSession, pruneExpiredRefreshTokens, Expire
<1>5. ASSUME NEW r \in Requests, Claim(r) \/ ClaimMisses(r) \/ Mint(r) \/ SnapshotFamily(r)
      PROVE  TypeOK'
  BY <1>a, <1>5 DEF Claim, claimable, matches, locked, ClaimMisses, Mint, SnapshotFamily, familyRows
<1>6. ASSUME NEW r \in Requests, Explain(r) PROVE TypeOK'
  BY <1>a, <1>6 DEF Explain, TokenRow
<1>7. ASSUME NEW r \in Requests, CommitRotation(r) PROVE TypeOK'
  BY <1>a, <1>7, RotationReady, RotationRows DEF CommitRotation
<1>8. ASSUME NEW r \in Requests, FindFamily(r) PROVE TypeOK'
  BY <1>a, <1>8 DEF FindFamily, TokenRow
<1>9. ASSUME NEW r \in Requests, RevokeFamily(r) PROVE TypeOK'
  BY <1>a, <1>9, RevocationRows DEF RevokeFamily
<1>10. ASSUME NEW r \in Requests, Respond(r) PROVE TypeOK'
  BY <1>a, <1>10 DEF Respond
<1>11. CASE UNCHANGED vars
  BY <1>a, <1>11 DEF vars
<1> QED
  BY <1>1, <1>2, <1>3, <1>4, <1>5, <1>6, <1>7, <1>8, <1>9, <1>10, <1>11
  DEF Next, Handle, signup, login, refresh, logout, AllServed

\* The statements of a handler follow each other.
LEMMA PlacesKept ==
  ASSUME IInv, [Next]_vars PROVE Places'
<1>a. TypeOK /\ Places
  BY DEF IInv
<1> USE DEF Places, TypeOK, Revokes, Rotates, Calls, Awaits, Goto, Answer
<1>1. ASSUME NEW r \in Requests, Present(r) \/ PresentNothing(r) \/ Explain(r) \/ FindFamily(r)
      PROVE  Places'
  BY <1>a, <1>1 DEF Present, sent, PresentNothing, Explain, FindFamily
<1>2. ASSUME NEW r \in Requests, CreateAccount(r) \/ EmailTaken(r) \/ InvalidCredentials(r) \/ Fail(r)
      PROVE  Places'
  BY <1>a, <1>2 DEF CreateAccount, EmailTaken, InvalidCredentials, Fail
<1>3. ASSUME NEW r \in Requests, issueSession(r) \/ pruneExpiredRefreshTokens(r) \/ Expire(r)
      PROVE  Places'
  BY <1>a, <1>3, LoginReady, LoginRows, PrunedRows, ExpiryRows DEF issueSession, pruneExpiredRefreshTokens, Expire
<1>4. ASSUME NEW r \in Requests, Claim(r) \/ ClaimMisses(r) \/ Mint(r) \/ SnapshotFamily(r)
      PROVE  Places'
  BY <1>a, <1>4 DEF Claim, claimable, matches, locked, ClaimMisses, Mint, SnapshotFamily, familyRows
<1>5. ASSUME NEW r \in Requests, CommitRotation(r) PROVE Places'
  BY <1>a, <1>5, RotationReady, RotationRows DEF CommitRotation
<1>6. ASSUME NEW r \in Requests, RevokeFamily(r) PROVE Places'
  BY <1>a, <1>6, RevocationRows DEF RevokeFamily
<1>7. ASSUME NEW r \in Requests, Respond(r) PROVE Places'
  BY <1>a, <1>7 DEF Respond
<1>8. CASE UNCHANGED vars
  BY <1>a, <1>8 DEF vars
<1> QED
  BY <1>1, <1>2, <1>3, <1>4, <1>5, <1>6, <1>7, <1>8
  DEF Next, Handle, signup, login, refresh, logout, AllServed

\* A response is sent once, so a cookie's sender is done for good.
LEMMA CookiesKept ==
  ASSUME IInv, [Next]_vars PROVE CookiesWereSent'
<1>a. TypeOK /\ Places /\ CookiesWereSent
  BY DEF IInv
<1> USE DEF CookiesWereSent, TypeOK, Places, Revokes, Rotates, Awaits, Goto, Answer, unchangedLocals
<1>1. ASSUME NEW r \in Requests, Present(r) \/ PresentNothing(r) \/ Explain(r) \/ FindFamily(r)
      PROVE  CookiesWereSent'
  BY <1>a, <1>1 DEF Present, sent, PresentNothing, Explain, FindFamily
<1>2. ASSUME NEW r \in Requests, CreateAccount(r) \/ EmailTaken(r) \/ InvalidCredentials(r) \/ Fail(r)
      PROVE  CookiesWereSent'
  BY <1>a, <1>2 DEF CreateAccount, EmailTaken, InvalidCredentials, Fail
<1>3. ASSUME NEW r \in Requests, issueSession(r) \/ pruneExpiredRefreshTokens(r) \/ Expire(r)
      PROVE  CookiesWereSent'
  BY <1>a, <1>3, LoginReady, LoginRows, PrunedRows, ExpiryRows DEF issueSession, pruneExpiredRefreshTokens, Expire
<1>4. ASSUME NEW r \in Requests, Claim(r) \/ ClaimMisses(r) \/ Mint(r) \/ SnapshotFamily(r)
      PROVE  CookiesWereSent'
  BY <1>a, <1>4 DEF Claim, claimable, matches, locked, ClaimMisses, Mint, SnapshotFamily, familyRows
<1>5. ASSUME NEW r \in Requests, CommitRotation(r) PROVE CookiesWereSent'
  BY <1>a, <1>5, RotationReady, RotationRows DEF CommitRotation
<1>6. ASSUME NEW r \in Requests, RevokeFamily(r) PROVE CookiesWereSent'
  BY <1>a, <1>6, RevocationRows DEF RevokeFamily
<1>7. ASSUME NEW r \in Requests, Respond(r) PROVE CookiesWereSent'
  BY <1>a, <1>7 DEF Respond
<1>8. CASE UNCHANGED vars
  BY <1>a, <1>8 DEF vars
<1> QED
  BY <1>1, <1>2, <1>3, <1>4, <1>5, <1>6, <1>7, <1>8
  DEF Next, Handle, signup, login, refresh, logout, AllServed

\* The row lock: a claimed row is neither pruned, revoked nor claimed again before
\* its COMMIT, and a COMMIT revokes the row of no other refresh.
LEMMA ClaimsKept ==
  ASSUME IInv, [Next]_vars PROVE ClaimsHold'
<1>a. TypeOK /\ Places /\ CookiesWereSent /\ ClaimsHold
  BY DEF IInv
<1> USE DEF ClaimsHold, TypeOK, Places, CookiesWereSent, live, Revokes, Rotates, Awaits, Goto,
  Answer, unchangedLocals
<1>1. ASSUME NEW r \in Requests, Present(r) \/ PresentNothing(r) \/ Explain(r) \/ FindFamily(r)
      PROVE  ClaimsHold'
  BY <1>a, <1>1 DEF Present, sent, PresentNothing, Explain, FindFamily
<1>2. ASSUME NEW r \in Requests, CreateAccount(r) \/ EmailTaken(r) \/ InvalidCredentials(r) \/ Fail(r)
      PROVE  ClaimsHold'
  BY <1>a, <1>2 DEF CreateAccount, EmailTaken, InvalidCredentials, Fail
<1>3. ASSUME NEW r \in Requests, issueSession(r) PROVE ClaimsHold'
  BY <1>a, <1>3, LoginReady, LoginRows DEF issueSession
<1>4. ASSUME NEW r \in Requests, pruneExpiredRefreshTokens(r) PROVE ClaimsHold'
  <2>1. /\ call' = call /\ presented' = presented
        /\ \A q \in Requests : pc'[q] \in {"mint", "commit"} => pc[q] = pc'[q]
    BY <1>a, <1>4 DEF pruneExpiredRefreshTokens
  <2>2. ASSUME NEW q \in Requests, Rotates(q), pc'[q] \in {"mint", "commit"}
        PROVE  live(presented[q])'
    <3>1. presented[q] \in Requests /\ live(presented[q]) /\ pc[q] \in {"mint", "commit"}
      BY <1>a, <2>1, <2>2
    <3>2. locked(presented[q])
      BY <2>2, <3>1 DEF locked
    <3> QED BY <1>a, <1>4, <2>1, <3>1, <3>2, PrunedRows
  <2> QED BY <1>a, <2>1, <2>2
<1>5. ASSUME NEW r \in Requests, Claim(r) \/ ClaimMisses(r) \/ Mint(r) \/ SnapshotFamily(r)
      PROVE  ClaimsHold'
  BY <1>a, <1>5 DEF Claim, claimable, matches, locked, ClaimMisses, Mint, SnapshotFamily, familyRows
<1>6. ASSUME NEW r \in Requests, CommitRotation(r) PROVE ClaimsHold'
  <2>1. /\ call' = call /\ presented' = presented
        /\ \A q \in Requests : pc'[q] \in {"mint", "commit"} => pc[q] = pc'[q] /\ q # r
    BY <1>a, <1>6 DEF CommitRotation
  <2>2. ASSUME NEW q \in Requests, Rotates(q), pc'[q] \in {"mint", "commit"}
        PROVE  live(presented[q])'
    <3>1. presented[q] \in Requests /\ live(presented[q]) /\ pc[q] \in {"mint", "commit"}
      BY <1>a, <2>1, <2>2
    <3>2. presented[q] # presented[r] /\ presented[q] # r
      BY <1>a, <1>6, <2>1, <2>2, <3>1, RotationReady
    <3> QED BY <1>a, <1>6, <2>1, <3>1, <3>2, RotationReady, RotationRows
  <2> QED BY <1>a, <2>1, <2>2
<1>7. ASSUME NEW r \in Requests, RevokeFamily(r) PROVE ClaimsHold'
  <2>1. /\ call' = call /\ presented' = presented
        /\ \A q \in Requests : pc'[q] \in {"mint", "commit"} => pc[q] = pc'[q]
    BY <1>a, <1>7 DEF RevokeFamily
  <2>2. ASSUME NEW q \in Requests, Rotates(q), pc'[q] \in {"mint", "commit"}
        PROVE  live(presented[q])'
    <3>1. presented[q] \in Requests /\ live(presented[q]) /\ pc[q] \in {"mint", "commit"}
      BY <1>a, <2>1, <2>2
    <3>2. locked(presented[q])
      BY <2>2, <3>1 DEF locked
    <3>3. presented[q] \notin targets[r]
      BY <1>7, <3>2 DEF RevokeFamily
    <3> QED BY <1>a, <1>7, <2>1, <3>1, <3>3, RevocationRows
  <2> QED BY <1>a, <2>1, <2>2
<1>8. ASSUME NEW r \in Requests, Respond(r) PROVE ClaimsHold'
  BY <1>a, <1>8 DEF Respond
<1>9. ASSUME NEW r \in Requests, Expire(r) PROVE ClaimsHold'
  <2>1. /\ call' = call /\ presented' = presented
        /\ \A q \in Requests : pc'[q] \in {"mint", "commit"} => pc[q] = pc'[q]
    BY <1>a, <1>9 DEF Expire
  <2>2. ASSUME NEW q \in Requests, Rotates(q), pc'[q] \in {"mint", "commit"}
        PROVE  live(presented[q])'
    <3>1. presented[q] \in Requests /\ live(presented[q]) /\ pc[q] \in {"mint", "commit"}
      BY <1>a, <2>1, <2>2
    <3> QED BY <1>a, <1>9, <2>1, <3>1, ExpiryRows
  <2> QED BY <1>a, <2>1, <2>2
<1>10. CASE UNCHANGED vars
  BY <1>a, <1>10 DEF vars
<1> QED
  BY <1>1, <1>2, <1>3, <1>4, <1>5, <1>6, <1>7, <1>8, <1>9, <1>10
  DEF Next, Handle, signup, login, refresh, logout, AllServed

\* What Respond answers, by endpoint.
LEMMA ResponseTold ==
  ASSUME IInv, NEW r \in Requests, Respond(r)
  PROVE  /\ pc[r] = "respond" /\ pc' = [pc EXCEPT ![r] = "done"]
         /\ call[r].endpoint = "logout" => reply' = [reply EXCEPT ![r] = "NO_CONTENT"]
         /\ call[r].endpoint # "logout" /\ family[r] # Null =>
              reply' = [reply EXCEPT ![r] = "UNAUTHENTICATED"]
         /\ call[r].endpoint # "logout" /\ family[r] = Null => reply' = [reply EXCEPT ![r] = "OK"]
         /\ ~Revokes(r) => family[r] = Null
         /\ UNCHANGED <<account, token, call, presented, lapsed, family, targets>>
<1>1. pc[r] = "respond" /\ pc' = [pc EXCEPT ![r] = "done"]
      /\ UNCHANGED <<account, token, call, presented, lapsed, family, targets>>
  BY DEF Respond, Answer
<1>2. ~Revokes(r) => family[r] = Null
  BY DEF IInv, FamiliesArePresented, CookiesWereSent
<1>3. CASE call[r].endpoint = "logout"
  BY <1>1, <1>2, <1>3 DEF Respond, Answer
<1>4. CASE call[r].endpoint # "logout" /\ family[r] # Null
  BY <1>1, <1>2, <1>4 DEF Respond, Answer
<1>5. CASE call[r].endpoint # "logout" /\ family[r] = Null
  BY <1>1, <1>2, <1>5 DEF Respond, Answer
<1> QED BY <1>3, <1>4, <1>5

\* A request that has inserted its row goes on to answer, and no later step undoes
\* its INSERT.
LEMMA MintedKept ==
  ASSUME IInv, [Next]_vars, NEW t \in Requests, Minted(t) PROVE Minted(t)'
<1>a. TypeOK /\ Places /\ FamiliesArePresented
  BY DEF IInv
<1> USE DEF TypeOK, Places, FamiliesArePresented, Minted, Revokes, Rotates, Awaits, Goto,
  Answer, unchangedLocals
<1>1. ASSUME NEW r \in Requests, Present(r) \/ PresentNothing(r) \/ Explain(r) \/ FindFamily(r)
      PROVE  Minted(t)'
  BY <1>a, <1>1 DEF Present, sent, PresentNothing, Explain, FindFamily
<1>2. ASSUME NEW r \in Requests, CreateAccount(r) \/ EmailTaken(r) \/ InvalidCredentials(r) \/ Fail(r)
      PROVE  Minted(t)'
  BY <1>a, <1>2 DEF CreateAccount, EmailTaken, InvalidCredentials, Fail
<1>3. ASSUME NEW r \in Requests, issueSession(r) \/ pruneExpiredRefreshTokens(r) \/ Expire(r)
      PROVE  Minted(t)'
  BY <1>a, <1>3, LoginReady, LoginRows, PrunedRows, ExpiryRows DEF issueSession, pruneExpiredRefreshTokens, Expire
<1>4. ASSUME NEW r \in Requests, Claim(r) \/ ClaimMisses(r) \/ Mint(r) \/ SnapshotFamily(r)
      PROVE  Minted(t)'
  BY <1>a, <1>4 DEF Claim, claimable, matches, locked, ClaimMisses, Mint, SnapshotFamily, familyRows
<1>5. ASSUME NEW r \in Requests, CommitRotation(r) PROVE Minted(t)'
  BY <1>a, <1>5, RotationReady, RotationRows DEF CommitRotation
<1>6. ASSUME NEW r \in Requests, RevokeFamily(r) PROVE Minted(t)'
  BY <1>a, <1>6, RevocationRows DEF RevokeFamily
<1>7. ASSUME NEW r \in Requests, Respond(r) PROVE Minted(t)'
  <2>1. CASE t # r
    BY <1>a, <1>7, <2>1, ResponseTold
  <2>2. CASE t = r
    <3>1. call[r].endpoint # "logout" /\ family[r] = Null
      BY <1>a, <1>7, <2>2, ResponseTold
    <3>2. reply' = [reply EXCEPT ![r] = "OK"]
      BY <1>7, <3>1, ResponseTold
    <3>3. call' = call /\ family' = family
      BY <1>7, ResponseTold
    <3>4. reply'[r] = "OK"
      BY <1>a, <1>7, <3>2
    <3> QED BY <2>2, <3>1, <3>3, <3>4
  <2> QED BY <2>1, <2>2
<1>8. CASE UNCHANGED vars
  BY <1>a, <1>8 DEF vars
<1> QED
  BY <1>1, <1>2, <1>3, <1>4, <1>5, <1>6, <1>7, <1>8
  DEF Next, Handle, signup, login, refresh, logout, AllServed

\* The row of t is the one it was, untouched or revoked by a rotation of it or
\* by an UPDATE of its family.
Same(t) ==
  /\ token[t] # Null
  /\ token'[t].family = token[t].family /\ token'[t].user = token[t].user
  /\ \/ token'[t].revokedAt = token[t].revokedAt
     \/ token[t].revokedAt = Null /\ \E r \in Requests :
          /\ token'[t].revokedAt = r
          /\ (CommitRotation(r) /\ t = presented[r]) \/ (RevokeFamily(r) /\ t \in targets[r])

\* A row after a step is an old one, a login's or a rotation's.
LEMMA RowsFrom ==
  ASSUME IInv, [Next]_vars, NEW t \in Requests, token'[t] # Null
  PROVE  Same(t) \/ issueSession(t) \/ CommitRotation(t)
<1>a. TypeOK /\ Places /\ FamiliesArePresented
  BY DEF IInv
<1> USE DEF Same, live, Awaits, Goto, Answer, unchangedLocals
<1>1. ASSUME NEW r \in Requests, Present(r) \/ PresentNothing(r) \/ Explain(r) \/ FindFamily(r)
      PROVE  Same(t) \/ issueSession(t) \/ CommitRotation(t)
  BY <1>a, <1>1 DEF Present, sent, PresentNothing, Explain, FindFamily
<1>2. ASSUME NEW r \in Requests, CreateAccount(r) \/ EmailTaken(r) \/ InvalidCredentials(r) \/ Fail(r)
      PROVE  Same(t) \/ issueSession(t) \/ CommitRotation(t)
  BY <1>a, <1>2 DEF CreateAccount, EmailTaken, InvalidCredentials, Fail
<1>3. ASSUME NEW r \in Requests, issueSession(r) \/ pruneExpiredRefreshTokens(r) \/ Expire(r)
      PROVE  Same(t) \/ issueSession(t) \/ CommitRotation(t)
  BY <1>a, <1>3, LoginReady, LoginRows, PrunedRows, ExpiryRows DEF issueSession, pruneExpiredRefreshTokens, Expire
<1>4. ASSUME NEW r \in Requests, Claim(r) \/ ClaimMisses(r) \/ Mint(r) \/ SnapshotFamily(r)
      PROVE  Same(t) \/ issueSession(t) \/ CommitRotation(t)
  BY <1>a, <1>4 DEF Claim, claimable, matches, locked, ClaimMisses, Mint, SnapshotFamily, familyRows
<1>5. ASSUME NEW r \in Requests, CommitRotation(r) PROVE Same(t) \/ issueSession(t) \/ CommitRotation(t)
  <2>1. CASE t = r
    BY <1>5, <2>1
  <2>2. CASE t = presented[r]
    BY <1>a, <1>5, <2>2, RotationReady, RotationRows
  <2>3. CASE t # r /\ t # presented[r]
    BY <1>a, <1>5, <2>3, RotationReady, RotationRows
  <2> QED BY <2>1, <2>2, <2>3
<1>6. ASSUME NEW r \in Requests, RevokeFamily(r) PROVE Same(t) \/ issueSession(t) \/ CommitRotation(t)
  BY <1>a, <1>6, RevocationRows DEF RevokeFamily
<1>7. ASSUME NEW r \in Requests, Respond(r) PROVE Same(t) \/ issueSession(t) \/ CommitRotation(t)
  BY <1>a, <1>7, ResponseTold DEF Respond
<1>8. CASE UNCHANGED vars
  BY <1>a, <1>8 DEF vars
<1> QED
  BY <1>1, <1>2, <1>3, <1>4, <1>5, <1>6, <1>7, <1>8
  DEF Next, Handle, signup, login, refresh, logout, AllServed

\* Nothing changes what a request asked for, and an account stays.
LEMMA AccountsStay ==
  ASSUME IInv, [Next]_vars
  PROVE  call' = call /\ \A u \in Users : account[u] # Null => account'[u] = account[u]
<1>a. TypeOK
  BY DEF IInv
<1>1. ASSUME NEW r \in Requests, CreateAccount(r)
      PROVE  call' = call /\ \A u \in Users : account[u] # Null => account'[u] = account[u]
  BY <1>a, <1>1 DEF CreateAccount, TypeOK
<1>2. ASSUME NEW r \in Requests, Handle(r) \/ Fail(r) \/ Expire(r), ~CreateAccount(r)
      PROVE  UNCHANGED <<call, account>>
  BY <1>2 DEF Handle, signup, login, refresh, logout, Fail, Expire, Present, PresentNothing, EmailTaken,
    InvalidCredentials, issueSession, pruneExpiredRefreshTokens, Claim, ClaimMisses, Explain, Mint,
    CommitRotation, FindFamily, SnapshotFamily, RevokeFamily, Respond, Goto, Answer
<1> QED BY <1>1, <1>2 DEF Next, AllServed, vars

\* Rows keep being minted by their own request, for an account and a login that
\* were there before them.
LEMMA RowsMintedKept ==
  ASSUME IInv, [Next]_vars
  PROVE  RowsAreMinted'
<1>a. TypeOK /\ RowsAreMinted /\ TypeOK' /\ call' = call
      /\ \A u \in Users : account[u] # Null => account'[u] = account[u]
  BY TypesKept, AccountsStay DEF IInv
<1> SUFFICES ASSUME NEW t \in Requests, token'[t] # Null
             PROVE  /\ Minted(t)'
                    /\ (call[token[t].family].endpoint = "login")' /\ Minted(token[t].family)'
                    /\ (account[token[t].user] # Null)'
  BY DEF RowsAreMinted
<1>b. ASSUME NEW u \in Requests, token[u] # Null
      PROVE  token[u].family \in Requests /\ token[u].user \in Users
  BY <1>a, <1>b DEF TypeOK, TokenRow
<1>c. ASSUME NEW u \in Requests, token[u] # Null, Minted(t)',
             token'[t].family = token[u].family, token'[t].user = token[u].user
      PROVE  /\ Minted(t)'
             /\ (call[token[t].family].endpoint = "login")' /\ Minted(token[t].family)'
             /\ (account[token[t].user] # Null)'
  <2>1. PICK f \in Requests : f = token[u].family /\ Minted(f) /\ call[f].endpoint = "login"
    BY <1>a, <1>b, <1>c DEF RowsAreMinted
  <2>2. Minted(f)'
    BY <2>1, MintedKept
  <2>3. Minted(token[t].family)'
    BY <1>c, <2>1, <2>2 DEF Minted, Rotates
  <2>4. account[token[u].user] # Null /\ token[u].user \in Users
    BY <1>a, <1>b, <1>c DEF RowsAreMinted
  <2> QED BY <1>a, <1>c, <2>1, <2>3, <2>4
<1>1. CASE Same(t)
  <2>1. Minted(t)'
    BY <1>a, <1>1, MintedKept DEF Same, RowsAreMinted
  <2> QED BY <1>1, <1>c, <2>1 DEF Same
<1>2. CASE issueSession(t)
  <2>1. call[t].endpoint = "login" /\ call[t].user \in Users /\ account[call[t].user] # Null
    BY <1>a, <1>2 DEF issueSession, Awaits, TypeOK, Calls
  <2>2. Minted(t)'
    BY <1>a, <1>2, <2>1 DEF Minted, issueSession, Goto, TypeOK
  <2>3. token'[t].family = t /\ token'[t].user = call[t].user
    BY <1>a, <1>2, LoginRows
  <2>4. Minted(token[t].family)'
    BY <2>2, <2>3 DEF Minted, Rotates
  <2> QED BY <1>a, <2>1, <2>2, <2>3, <2>4
<1>3. CASE CommitRotation(t)
  <2>1. Rotates(t) /\ family[t] = Null /\ pc' = [pc EXCEPT ![t] = "respond"] /\ family' = family
    BY <1>3, RotationReady DEF CommitRotation, Goto, unchangedLocals
  <2>2. Minted(t)'
    BY <1>a, <2>1 DEF Minted, Rotates, TypeOK
  <2>3. presented[t] \in Requests /\ token[presented[t]] # Null
    BY <1>3, RotationReady DEF live
  <2>4. token'[t].family = token[presented[t]].family /\ token'[t].user = token[presented[t]].user
    BY <1>a, <1>3, RotationReady, RotationRows
  <2> QED BY <1>c, <2>2, <2>3, <2>4
<1> QED BY <1>1, <1>2, <1>3, RowsFrom

\* A request past its INSERT, or done, inserts nothing.
LEMMA OldRows ==
  ASSUME IInv, [Next]_vars, NEW t \in Requests, Minted(t) \/ pc[t] = "done", token'[t] # Null
  PROVE  Same(t)
<1>1. ~issueSession(t)
  BY LoginReady DEF issueSession, Awaits
<1>2. ~CommitRotation(t)
  BY RotationReady
<1> QED BY <1>1, <1>2, RowsFrom

\* One INSERT creates the account of an address; the others find it taken.
LEMMA AccountsSignedKept ==
  ASSUME IInv, [Next]_vars PROVE AccountsAreSigned'
<1>a. TypeOK /\ Places /\ AccountsAreSigned
  BY DEF IInv
<1> USE DEF AccountsAreSigned, TypeOK, Places, Revokes, Rotates, Awaits, Goto, Answer,
  unchangedLocals
<1>1. ASSUME NEW r \in Requests, Present(r) \/ PresentNothing(r) \/ Explain(r) \/ FindFamily(r)
      PROVE  AccountsAreSigned'
  BY <1>a, <1>1 DEF Present, sent, PresentNothing, Explain, FindFamily
<1>2. ASSUME NEW r \in Requests, CreateAccount(r) PROVE AccountsAreSigned'
  <2>1. /\ call[r].endpoint = "signup" /\ call[r].user \in Users /\ pc[r] = "start" /\ r # Null
        /\ pc' = [pc EXCEPT ![r] = "respond"] /\ account' = [account EXCEPT ![call[r].user] = r]
        /\ account[call[r].user] = Null /\ UNCHANGED <<call, reply>>
    BY <1>a, <1>2 DEF CreateAccount, Calls
  <2>2. reply[r] = Null
    BY <1>a, <2>1
  <2>3. ASSUME NEW q \in Requests, call[q].endpoint = "signup", q # r
        PROVE  /\ pc'[q] = pc[q] /\ reply'[q] = reply[q] /\ call[q].user \in Users /\ q # Null
               /\ \A u \in Users : account'[u] = q => account[u] = q
               /\ \A u \in Users : account[u] # Null => account'[u] = account[u]
    BY <1>a, <2>1, <2>3 DEF Calls
  <2>4. account'[call[r].user] = r /\ pc'[r] = "respond" /\ reply'[r] = Null
    BY <1>a, <2>1, <2>2
  <2> QED BY <1>a, <2>1, <2>3, <2>4
<1>3. ASSUME NEW r \in Requests, EmailTaken(r) \/ InvalidCredentials(r) \/ Fail(r)
      PROVE  AccountsAreSigned'
  BY <1>a, <1>3 DEF EmailTaken, InvalidCredentials, Fail
<1>4. ASSUME NEW r \in Requests, issueSession(r) \/ pruneExpiredRefreshTokens(r) \/ Expire(r)
      PROVE  AccountsAreSigned'
  BY <1>a, <1>4, LoginReady, LoginRows, PrunedRows, ExpiryRows DEF issueSession, pruneExpiredRefreshTokens, Expire
<1>5. ASSUME NEW r \in Requests, Claim(r) \/ ClaimMisses(r) \/ Mint(r) \/ SnapshotFamily(r)
      PROVE  AccountsAreSigned'
  BY <1>a, <1>5 DEF Claim, claimable, matches, locked, ClaimMisses, Mint, SnapshotFamily, familyRows
<1>6. ASSUME NEW r \in Requests, CommitRotation(r) PROVE AccountsAreSigned'
  BY <1>a, <1>6, RotationReady, RotationRows DEF CommitRotation
<1>7. ASSUME NEW r \in Requests, RevokeFamily(r) PROVE AccountsAreSigned'
  BY <1>a, <1>7, RevocationRows DEF RevokeFamily
<1>8. ASSUME NEW r \in Requests, Respond(r) PROVE AccountsAreSigned'
  <2>1. call[r].endpoint = "signup" => reply' = [reply EXCEPT ![r] = "OK"]
    BY <1>8, ResponseTold
  <2>2. call[r].endpoint # "signup" => \A q \in Requests : q # r => reply'[q] = reply[q]
    BY <1>a, <1>8, ResponseTold
  <2> QED BY <1>a, <1>8, <2>1, <2>2, ResponseTold
<1>9. CASE UNCHANGED vars
  BY <1>a, <1>9 DEF vars
<1> QED
  BY <1>1, <1>2, <1>3, <1>4, <1>5, <1>6, <1>7, <1>8, <1>9
  DEF Next, Handle, signup, login, refresh, logout, AllServed

\* A request that has a family to revoke answers 204 or 401.
LEMMA AnswersFitKept ==
  ASSUME IInv, [Next]_vars PROVE AnswersFit'
<1>a. TypeOK /\ Places /\ FamiliesArePresented /\ CookiesWereSent /\ AnswersFit
  BY DEF IInv
<1> USE DEF AnswersFit, TypeOK, FamiliesArePresented, CookiesWereSent, Places, Revokes,
  Rotates, Awaits, Goto, Answer, unchangedLocals
<1>1. ASSUME NEW r \in Requests, Present(r) \/ PresentNothing(r) \/ Explain(r) \/ FindFamily(r)
      PROVE  AnswersFit'
  BY <1>a, <1>1 DEF Present, sent, PresentNothing, Explain, FindFamily
<1>2. ASSUME NEW r \in Requests, CreateAccount(r) \/ EmailTaken(r) \/ InvalidCredentials(r) \/ Fail(r)
      PROVE  AnswersFit'
  BY <1>a, <1>2 DEF CreateAccount, EmailTaken, InvalidCredentials, Fail
<1>3. ASSUME NEW r \in Requests, issueSession(r) \/ pruneExpiredRefreshTokens(r) \/ Expire(r)
      PROVE  AnswersFit'
  BY <1>a, <1>3, LoginReady, LoginRows, PrunedRows, ExpiryRows DEF issueSession, pruneExpiredRefreshTokens, Expire
<1>4. ASSUME NEW r \in Requests, Claim(r) \/ ClaimMisses(r) \/ Mint(r) \/ SnapshotFamily(r)
      PROVE  AnswersFit'
  BY <1>a, <1>4 DEF Claim, claimable, matches, locked, ClaimMisses, Mint, SnapshotFamily, familyRows
<1>5. ASSUME NEW r \in Requests, CommitRotation(r) PROVE AnswersFit'
  BY <1>a, <1>5, RotationReady, RotationRows DEF CommitRotation
<1>6. ASSUME NEW r \in Requests, RevokeFamily(r) PROVE AnswersFit'
  BY <1>a, <1>6, RevocationRows DEF RevokeFamily
<1>7. ASSUME NEW r \in Requests, Respond(r) PROVE AnswersFit'
  BY <1>a, <1>7, ResponseTold DEF Respond
<1>8. CASE UNCHANGED vars
  BY <1>a, <1>8 DEF vars
<1> QED
  BY <1>1, <1>2, <1>3, <1>4, <1>5, <1>6, <1>7, <1>8
  DEF Next, Handle, signup, login, refresh, logout, AllServed

\* A family is found by a cookie's row, and only then revoked.
LEMMA FamiliesPresentedKept ==
  ASSUME IInv, [Next]_vars PROVE FamiliesArePresented'
<1>a. TypeOK /\ Places /\ CookiesWereSent /\ RowsAreMinted /\ FamiliesArePresented
  BY DEF IInv
<1> USE DEF FamiliesArePresented, Places, Revokes, Rotates, Awaits, Goto, Answer,
  unchangedLocals, TypeOK, CookiesWereSent
<1>1. ASSUME NEW r \in Requests, Present(r) \/ PresentNothing(r) PROVE FamiliesArePresented'
  BY <1>a, <1>1 DEF Present, sent, PresentNothing
<1>2. ASSUME NEW r \in Requests, CreateAccount(r) \/ EmailTaken(r) \/ InvalidCredentials(r) \/ Fail(r)
      PROVE  FamiliesArePresented'
  BY <1>a, <1>2 DEF CreateAccount, EmailTaken, InvalidCredentials, Fail
<1>3. ASSUME NEW r \in Requests, issueSession(r) \/ pruneExpiredRefreshTokens(r) \/ Expire(r)
      PROVE  FamiliesArePresented'
  BY <1>a, <1>3, LoginReady, LoginRows, PrunedRows, ExpiryRows DEF issueSession, pruneExpiredRefreshTokens, Expire
<1>4. ASSUME NEW r \in Requests, Claim(r) \/ ClaimMisses(r) \/ Mint(r) \/ SnapshotFamily(r)
      PROVE  FamiliesArePresented'
  BY <1>a, <1>4 DEF Claim, claimable, matches, locked, ClaimMisses, Mint, SnapshotFamily, familyRows
<1>5. ASSUME NEW r \in Requests, Explain(r) PROVE FamiliesArePresented'
  <2>1. token[presented[r]] # Null => token[presented[r]].family # Null
    BY <1>a, <1>5 DEF Explain, TokenRow
  <2> QED BY <1>a, <1>5, <2>1 DEF Explain, live
<1>6. ASSUME NEW r \in Requests, CommitRotation(r) PROVE FamiliesArePresented'
  BY <1>a, <1>6, RotationReady, RotationRows DEF CommitRotation
<1>7. ASSUME NEW r \in Requests, FindFamily(r) PROVE FamiliesArePresented'
  <2>1. token[presented[r]] # Null => token[presented[r]].family # Null
    BY <1>a, <1>7 DEF FindFamily, TokenRow
  <2> QED BY <1>a, <1>7, <2>1 DEF FindFamily
<1>8. ASSUME NEW r \in Requests, RevokeFamily(r) PROVE FamiliesArePresented'
  BY <1>a, <1>8, RevocationRows DEF RevokeFamily
<1>9. ASSUME NEW r \in Requests, Respond(r) PROVE FamiliesArePresented'
  BY <1>a, <1>9, ResponseTold DEF Respond
<1>10. CASE UNCHANGED vars
  BY <1>a, <1>10 DEF vars
<1> QED
  BY <1>1, <1>2, <1>3, <1>4, <1>5, <1>6, <1>7, <1>8, <1>9, <1>10
  DEF Next, Handle, signup, login, refresh, logout, AllServed

\* The statements that change what a request remembers.
LEMMA MemoriesChange ==
  ASSUME [Next]_vars
  PROVE  \/ UNCHANGED <<presented, family, targets>>
         \/ \E r \in Requests : Present(r) \/ Explain(r) \/ FindFamily(r) \/ SnapshotFamily(r)
<1>1. ASSUME NEW r \in Requests, Handle(r) \/ Fail(r) \/ Expire(r),
             ~Present(r), ~Explain(r), ~FindFamily(r), ~SnapshotFamily(r)
      PROVE  UNCHANGED <<presented, family, targets>>
  BY <1>1 DEF Handle, signup, login, refresh, logout, Fail, Expire, PresentNothing, CreateAccount, EmailTaken,
    InvalidCredentials, issueSession, pruneExpiredRefreshTokens, Claim, ClaimMisses, Mint,
    CommitRotation, RevokeFamily, Respond, Goto, Answer, unchangedLocals
<1> QED BY <1>1 DEF Next, AllServed, vars

\* A family once found, the cookie it was found by and the snapshot stay.
LEMMA MemoriesStay ==
  ASSUME IInv, [Next]_vars, NEW r \in Requests
  PROVE  /\ family[r] # Null => family'[r] = family[r]
         /\ pc[r] # "start" => presented'[r] = presented[r]
         /\ pc[r] # "snapshot" => targets'[r] = targets[r]
<1>a. TypeOK /\ FamiliesArePresented
  BY DEF IInv
<1>1. CASE UNCHANGED <<presented, family, targets>>
  BY <1>1
<1>2. ASSUME NEW q \in Requests, Present(q) \/ Explain(q) \/ FindFamily(q) \/ SnapshotFamily(q)
      PROVE  /\ family[r] # Null => family'[r] = family[r]
             /\ pc[r] # "start" => presented'[r] = presented[r]
             /\ pc[r] # "snapshot" => targets'[r] = targets[r]
  BY <1>a, <1>2 DEF TypeOK, FamiliesArePresented, Present, Explain, FindFamily, SnapshotFamily, Awaits, Answer
<1> QED BY <1>1, <1>2, MemoriesChange

\* Rows never move between families, so a family found, and the rows found by it,
\* stay what they were.
LEMMA FamiliesMatchKept ==
  ASSUME IInv, [Next]_vars
  PROVE  FamiliesMatch'
<1>a. TypeOK /\ CookiesWereSent /\ FamiliesArePresented /\ FamiliesMatch /\ RowsAreMinted
      /\ TypeOK' /\ FamiliesArePresented' /\ CookiesWereSent'
  BY TypesKept, FamiliesPresentedKept, CookiesKept DEF IInv
<1> SUFFICES ASSUME NEW r \in Requests
             PROVE  /\ (family[r] # Null => Minted(family[r]))'
                    /\ (family[r] # Null /\ token[presented[r]] # Null =>
                          token[presented[r]].family = family[r])'
                    /\ \A t \in targets'[r] :
                         Minted(t)' /\ (token'[t] # Null => token'[t].family = family'[r])
  BY DEF FamiliesMatch
<1>b. family'[r] = family[r] \/ (family[r] = Null /\ token' = token /\ token[presented[r]] # Null
        /\ presented'[r] = presented[r] /\ presented[r] \in Requests /\ family'[r] = token[presented[r]].family)
  <2>1. CASE UNCHANGED <<presented, family, targets>>
    BY <2>1
  <2>2. ASSUME NEW q \in Requests, Present(q) \/ SnapshotFamily(q)
        PROVE  family' = family
    BY <2>2 DEF Present, SnapshotFamily
  <2>3. ASSUME NEW q \in Requests, Explain(q)
        PROVE  family'[r] = family[r] \/ (family[r] = Null /\ token' = token /\ token[presented[r]] # Null
          /\ presented'[r] = presented[r] /\ presented[r] \in Requests /\ family'[r] = token[presented[r]].family)
    BY <1>a, <2>3 DEF Explain, Answer, Awaits, TypeOK, FamiliesArePresented, CookiesWereSent
  <2>4. ASSUME NEW q \in Requests, FindFamily(q)
        PROVE  family'[r] = family[r] \/ (family[r] = Null /\ token' = token /\ token[presented[r]] # Null
          /\ presented'[r] = presented[r] /\ presented[r] \in Requests /\ family'[r] = token[presented[r]].family)
    BY <1>a, <2>4 DEF FindFamily, Answer, Awaits, TypeOK, FamiliesArePresented, CookiesWereSent
  <2> QED BY <2>1, <2>2, <2>3, <2>4, MemoriesChange
<1>1. (family[r] # Null => Minted(family[r]))'
  <2> SUFFICES ASSUME family'[r] # Null PROVE Minted(family[r])'
    OBVIOUS
  <2>1. PICK f \in Requests : f = family'[r]
    BY <1>a DEF TypeOK
  <2>2. Minted(f)
    BY <1>a, <1>b, <2>1 DEF FamiliesMatch, RowsAreMinted
  <2>3. Minted(f)'
    BY <2>2, MintedKept
  <2> QED BY <2>1, <2>3 DEF Minted, Rotates
<1>2. (family[r] # Null /\ token[presented[r]] # Null => token[presented[r]].family = family[r])'
  <2> SUFFICES ASSUME family'[r] # Null, token'[presented'[r]] # Null
               PROVE  token'[presented'[r]].family = family'[r]
    OBVIOUS
  <2>1. CASE family'[r] # family[r]
    BY <1>b, <2>1
  <2>2. CASE family'[r] = family[r]
    <3>1. presented[r] \in Requests /\ presented'[r] = presented[r] /\ pc[presented[r]] = "done"
      BY <1>a, <2>2, MemoriesStay DEF FamiliesArePresented, CookiesWereSent, TypeOK
    <3>2. Same(presented[r])
      BY <3>1, OldRows
    <3> QED BY <1>a, <2>2, <3>1, <3>2 DEF Same, FamiliesMatch
  <2> QED BY <2>1, <2>2
<1>3. ASSUME NEW t \in targets'[r]
      PROVE  Minted(t)' /\ (token'[t] # Null => token'[t].family = family'[r])
  <2>1. CASE SnapshotFamily(r)
    <3>1. t \in Requests /\ token[t] # Null /\ token[t].family = family[r]
      BY <1>3, <2>1, <1>a DEF SnapshotFamily, familyRows, live, TypeOK
    <3>2. token' = token /\ family' = family
      BY <2>1 DEF SnapshotFamily
    <3> QED BY <1>a, <3>1, <3>2, MintedKept DEF RowsAreMinted
  <2>2. CASE ~SnapshotFamily(r)
    <3>1. targets'[r] = targets[r]
      <4>1. ASSUME NEW q \in Requests, Present(q) \/ Explain(q) \/ FindFamily(q) \/ (SnapshotFamily(q) /\ q # r)
            PROVE  targets'[r] = targets[r]
        BY <1>a, <4>1 DEF TypeOK, Present, Explain, FindFamily, SnapshotFamily, Answer
      <4> QED BY <2>2, <4>1, MemoriesChange
    <3>2. t \in Requests /\ Minted(t) /\ (token[t] # Null => token[t].family = family[r])
      BY <1>a, <1>3, <3>1 DEF FamiliesMatch, TypeOK
    <3>3. Minted(t)'
      BY <3>2, MintedKept
    <3>4. ASSUME token'[t] # Null PROVE token[t] # Null /\ token'[t].family = token[t].family
      BY <3>2, <3>4, OldRows DEF Same
    <3>5. token[t] # Null => family'[r] = family[r]
      BY <1>a, <3>2, MemoriesStay DEF TypeOK, TokenRow
    <3> QED BY <3>2, <3>3, <3>4, <3>5
  <2> QED BY <2>1, <2>2
<1> QED BY <1>1, <1>2, <1>3

\* A refresh that has rotated its token did so at its COMMIT.
LEMMA RotatedFrom ==
  ASSUME IInv, [Next]_vars, NEW t \in Requests, Rotated(t)'
  PROVE  Rotated(t) \/ CommitRotation(t)
<1>a. TypeOK /\ Places /\ FamiliesArePresented
  BY DEF IInv
<1> USE DEF TypeOK, Places, FamiliesArePresented, Rotated, Rotates, Awaits, Goto, Answer,
  unchangedLocals
<1>1. ASSUME NEW r \in Requests, Present(r) \/ PresentNothing(r) \/ Explain(r) \/ FindFamily(r)
      PROVE  Rotated(t) \/ CommitRotation(t)
  BY <1>a, <1>1 DEF Present, sent, PresentNothing, Explain, FindFamily
<1>2. ASSUME NEW r \in Requests, CreateAccount(r) \/ EmailTaken(r) \/ InvalidCredentials(r) \/ Fail(r)
      PROVE  Rotated(t) \/ CommitRotation(t)
  BY <1>a, <1>2 DEF CreateAccount, EmailTaken, InvalidCredentials, Fail
<1>3. ASSUME NEW r \in Requests, issueSession(r) \/ pruneExpiredRefreshTokens(r) \/ Expire(r)
      PROVE  Rotated(t) \/ CommitRotation(t)
  BY <1>a, <1>3, LoginReady, LoginRows, PrunedRows, ExpiryRows DEF issueSession, pruneExpiredRefreshTokens, Expire
<1>4. ASSUME NEW r \in Requests, Claim(r) \/ ClaimMisses(r) \/ Mint(r) \/ SnapshotFamily(r)
      PROVE  Rotated(t) \/ CommitRotation(t)
  BY <1>a, <1>4 DEF Claim, claimable, matches, locked, ClaimMisses, Mint, SnapshotFamily, familyRows
<1>5. ASSUME NEW r \in Requests, CommitRotation(r) PROVE Rotated(t) \/ CommitRotation(t)
  <2>1. CASE t = r
    BY <1>5, <2>1
  <2>2. CASE t # r
    <3>1. CommitRotation(r)
      BY <1>5
    <3> QED BY <1>a, <2>2, <3>1 DEF CommitRotation
  <2> QED BY <2>1, <2>2
<1>6. ASSUME NEW r \in Requests, RevokeFamily(r) PROVE Rotated(t) \/ CommitRotation(t)
  BY <1>a, <1>6, RevocationRows DEF RevokeFamily
<1>7. ASSUME NEW r \in Requests, Respond(r) PROVE Rotated(t) \/ CommitRotation(t)
  BY <1>a, <1>7, ResponseTold DEF Respond
<1>8. CASE UNCHANGED vars
  BY <1>a, <1>8 DEF vars
<1> QED
  BY <1>1, <1>2, <1>3, <1>4, <1>5, <1>6, <1>7, <1>8
  DEF Next, Handle, signup, login, refresh, logout, AllServed

\* A request that has revoked its family did so by its UPDATE.
LEMMA RevokedFrom ==
  ASSUME IInv, [Next]_vars, NEW t \in Requests, Revoked(t)'
  PROVE  Revoked(t) \/ RevokeFamily(t)
<1>a. TypeOK /\ Places /\ FamiliesArePresented
  BY DEF IInv
<1> USE DEF TypeOK, Places, FamiliesArePresented, Revoked, Awaits, Goto, Answer, unchangedLocals
<1>1. ASSUME NEW r \in Requests, Present(r) \/ PresentNothing(r) \/ Explain(r) \/ FindFamily(r)
      PROVE  Revoked(t) \/ RevokeFamily(t)
  BY <1>a, <1>1 DEF Present, sent, PresentNothing, Explain, FindFamily
<1>2. ASSUME NEW r \in Requests, CreateAccount(r) \/ EmailTaken(r) \/ InvalidCredentials(r) \/ Fail(r)
      PROVE  Revoked(t) \/ RevokeFamily(t)
  BY <1>a, <1>2 DEF CreateAccount, EmailTaken, InvalidCredentials, Fail
<1>3. ASSUME NEW r \in Requests, issueSession(r) \/ pruneExpiredRefreshTokens(r) \/ Expire(r)
      PROVE  Revoked(t) \/ RevokeFamily(t)
  BY <1>a, <1>3, LoginReady, LoginRows, PrunedRows, ExpiryRows DEF issueSession, pruneExpiredRefreshTokens, Expire
<1>4. ASSUME NEW r \in Requests, Claim(r) \/ ClaimMisses(r) \/ Mint(r) \/ SnapshotFamily(r)
      PROVE  Revoked(t) \/ RevokeFamily(t)
  BY <1>a, <1>4 DEF Claim, claimable, matches, locked, ClaimMisses, Mint, SnapshotFamily, familyRows
<1>5. ASSUME NEW r \in Requests, CommitRotation(r) PROVE Revoked(t) \/ RevokeFamily(t)
  BY <1>a, <1>5, RotationReady, RotationRows DEF CommitRotation
<1>6. ASSUME NEW r \in Requests, RevokeFamily(r) PROVE Revoked(t) \/ RevokeFamily(t)
  <2>1. CASE t = r
    BY <1>6, <2>1
  <2>2. CASE t # r
    <3>1. RevokeFamily(r)
      BY <1>6
    <3> QED BY <1>a, <2>2, <3>1 DEF RevokeFamily
  <2> QED BY <2>1, <2>2
<1>7. ASSUME NEW r \in Requests, Respond(r) PROVE Revoked(t) \/ RevokeFamily(t)
  BY <1>a, <1>7, ResponseTold DEF Respond
<1>8. CASE UNCHANGED vars
  BY <1>a, <1>8 DEF vars
<1> QED
  BY <1>1, <1>2, <1>3, <1>4, <1>5, <1>6, <1>7, <1>8
  DEF Next, Handle, signup, login, refresh, logout, AllServed

\* The UPDATE follows its snapshot.
LEMMA RevokeFrom ==
  ASSUME IInv, [Next]_vars, NEW t \in Requests, pc'[t] = "revoke"
  PROVE  pc[t] = "revoke" \/ SnapshotFamily(t)
<1>a. TypeOK /\ Places
  BY DEF IInv
<1> USE DEF TypeOK, Places, Awaits, Goto, Answer, unchangedLocals
<1>1. ASSUME NEW r \in Requests, Present(r) \/ PresentNothing(r) \/ Explain(r) \/ FindFamily(r)
      PROVE  pc[t] = "revoke" \/ SnapshotFamily(t)
  BY <1>a, <1>1 DEF Present, sent, PresentNothing, Explain, FindFamily
<1>2. ASSUME NEW r \in Requests, CreateAccount(r) \/ EmailTaken(r) \/ InvalidCredentials(r) \/ Fail(r)
      PROVE  pc[t] = "revoke" \/ SnapshotFamily(t)
  BY <1>a, <1>2 DEF CreateAccount, EmailTaken, InvalidCredentials, Fail
<1>3. ASSUME NEW r \in Requests, issueSession(r) \/ pruneExpiredRefreshTokens(r) \/ Expire(r)
      PROVE  pc[t] = "revoke" \/ SnapshotFamily(t)
  BY <1>a, <1>3, LoginReady, LoginRows, PrunedRows, ExpiryRows DEF issueSession, pruneExpiredRefreshTokens, Expire
<1>4. ASSUME NEW r \in Requests, Claim(r) \/ ClaimMisses(r) \/ Mint(r) PROVE pc[t] = "revoke" \/ SnapshotFamily(t)
  BY <1>a, <1>4 DEF Claim, claimable, matches, locked, ClaimMisses, Mint
<1>5. ASSUME NEW r \in Requests, CommitRotation(r) PROVE pc[t] = "revoke" \/ SnapshotFamily(t)
  BY <1>a, <1>5, RotationReady, RotationRows DEF CommitRotation
<1>6. ASSUME NEW r \in Requests, SnapshotFamily(r) PROVE pc[t] = "revoke" \/ SnapshotFamily(t)
  <2>1. CASE t = r
    BY <1>6, <2>1
  <2>2. CASE t # r
    <3>1. SnapshotFamily(r)
      BY <1>6
    <3> QED BY <1>a, <2>2, <3>1 DEF SnapshotFamily
  <2> QED BY <2>1, <2>2
<1>7. ASSUME NEW r \in Requests, RevokeFamily(r) PROVE pc[t] = "revoke" \/ SnapshotFamily(t)
  BY <1>a, <1>7, RevocationRows DEF RevokeFamily
<1>8. ASSUME NEW r \in Requests, Respond(r) PROVE pc[t] = "revoke" \/ SnapshotFamily(t)
  BY <1>a, <1>8, ResponseTold DEF Respond
<1>9. CASE UNCHANGED vars
  BY <1>a, <1>9 DEF vars
<1> QED
  BY <1>1, <1>2, <1>3, <1>4, <1>5, <1>6, <1>7, <1>8, <1>9
  DEF Next, Handle, signup, login, refresh, logout, AllServed

\* A COMMIT finds its token live, so no earlier refresh has rotated it.
LEMMA RotationsKept ==
  ASSUME IInv, [Next]_vars
  PROVE  RotationsStand'
<1>a. TypeOK /\ Places /\ CookiesWereSent /\ RotationsStand /\ RowsAreMinted
  BY DEF IInv
<1>b. ASSUME NEW r \in Requests, Rotated(r)
      PROVE  /\ Minted(r) /\ presented'[r] = presented[r] /\ presented[r] \in Requests
             /\ pc[presented[r]] = "done" /\ ~live(presented[r])
             /\ (~live(presented[r]))'
  <2>1. Minted(r) /\ pc[r] # "start"
    BY <1>a, <1>b DEF Rotated, Minted, Places, TypeOK
  <2>2. presented'[r] = presented[r]
    BY <2>1, MemoriesStay
  <2>3. presented[r] \in Requests /\ pc[presented[r]] = "done" /\ ~live(presented[r])
    BY <1>a, <1>b DEF RotationsStand, CookiesWereSent, TypeOK
  <2>4. token'[presented[r]] # Null => Same(presented[r])
    BY <2>3, OldRows
  <2>5. token'[presented[r]] # Null => token'[presented[r]].revokedAt # Null
    BY <2>3, <2>4 DEF Same, live
  <2> QED BY <2>1, <2>2, <2>3, <2>5 DEF live
<1>c. ASSUME NEW r \in Requests, CommitRotation(r)
      PROVE  /\ presented'[r] = presented[r] /\ presented[r] \in Requests /\ live(presented[r])
             /\ (~live(presented[r]))'
             /\ pc' = [pc EXCEPT ![r] = "respond"] /\ pc[r] = "commit"
             /\ token'[r].family = token'[presented[r]].family
             /\ token'[r].user = token'[presented[r]].user
  <2>1. presented[r] \in Requests /\ live(presented[r]) /\ token[r] = Null /\ pc[r] = "commit"
    BY <1>c, RotationReady
  <2>2. presented' = presented /\ pc' = [pc EXCEPT ![r] = "respond"]
    BY <1>c DEF CommitRotation, Goto, unchangedLocals
  <2>3. /\ token'[presented[r]].revokedAt = r
        /\ token'[r].family = token'[presented[r]].family
        /\ token'[r].user = token'[presented[r]].user
    BY <1>a, <1>c, <2>1, RotationRows
  <2> QED BY <2>1, <2>2, <2>3 DEF live
<1> SUFFICES ASSUME NEW r \in Requests, Rotated(r)'
             PROVE  /\ presented'[r] # Null /\ (~live(presented[r]))'
                    /\ \A q \in Requests : Rotated(q)' /\ presented'[q] = presented'[r] => q = r
                    /\ token'[r] # Null /\ token'[presented'[r]] # Null =>
                         /\ token'[r].family = token'[presented'[r]].family
                         /\ token'[r].user = token'[presented'[r]].user
  BY DEF RotationsStand
<1>d. Rotated(r) \/ CommitRotation(r)
  BY RotatedFrom
<1>1. presented'[r] # Null /\ (~live(presented[r]))'
  BY <1>b, <1>c, <1>d
<1>2. ASSUME NEW q \in Requests, Rotated(q)', presented'[q] = presented'[r]
      PROVE  q = r
  <2>1. Rotated(q) \/ CommitRotation(q)
    BY <1>2, RotatedFrom
  <2>2. CASE Rotated(q) /\ Rotated(r)
    BY <1>a, <1>b, <1>2, <2>2 DEF RotationsStand
  <2>3. CASE Rotated(q) /\ CommitRotation(r)
    BY <1>b, <1>c, <1>2, <2>3
  <2>4. CASE CommitRotation(q) /\ Rotated(r)
    BY <1>b, <1>c, <1>2, <2>4
  <2>5. CASE CommitRotation(q) /\ CommitRotation(r)
    BY <1>a, <1>c, <2>5 DEF TypeOK
  <2> QED BY <1>d, <2>1, <2>2, <2>3, <2>4, <2>5
<1>3. ASSUME token'[r] # Null, token'[presented'[r]] # Null
      PROVE  /\ token'[r].family = token'[presented'[r]].family
             /\ token'[r].user = token'[presented'[r]].user
  <2>1. CASE Rotated(r)
    <3>1. Same(r) /\ Same(presented[r])
      BY <1>b, <1>3, <2>1, OldRows
    <3> QED BY <1>a, <1>b, <2>1, <3>1 DEF Same, RotationsStand
  <2>2. CASE CommitRotation(r)
    BY <1>c, <2>2
  <2> QED BY <1>d, <2>1, <2>2
<1> QED BY <1>1, <1>2, <1>3

\* Only a COMMIT and an UPDATE revoke, each in its own family.
LEMMA RevocationsKept ==
  ASSUME IInv, [Next]_vars
  PROVE  RevocationsAreSigned'
<1>a. TypeOK /\ RowsAreMinted /\ FamiliesArePresented /\ FamiliesMatch /\ RevocationsAreSigned /\ call' = call
  BY AccountsStay DEF IInv
<1> SUFFICES ASSUME NEW t \in Requests, NEW r \in Requests, token'[t] # Null, token'[t].revokedAt = r
             PROVE  \/ family'[r] # Null /\ token'[t].family = family'[r]
                    \/ Rotates(r) /\ Minted(r)'
  BY <1>a DEF RevocationsAreSigned, Rotates
<1>1. Same(t)
  BY <1>a, RowsFrom, LoginRows, RotationRows, RotationReady
<1>2. CASE token'[t].revokedAt = token[t].revokedAt
  BY <1>a, <1>1, <1>2, MemoriesStay, MintedKept DEF Same, RevocationsAreSigned
<1>3. CASE CommitRotation(r)
  <2>1. Rotates(r) /\ family[r] = Null /\ pc' = [pc EXCEPT ![r] = "respond"] /\ family' = family
    BY <1>3, RotationReady DEF CommitRotation, Goto, unchangedLocals
  <2> QED BY <1>a, <2>1 DEF Minted, Rotates, TypeOK
<1>4. CASE RevokeFamily(r) /\ t \in targets[r]
  <2>1. family[r] # Null
    BY <1>a, <1>4 DEF RevokeFamily, FamiliesArePresented
  <2> QED BY <1>a, <1>1, <1>4, <2>1, MemoriesStay DEF FamiliesMatch, Same
<1> QED BY <1>1, <1>2, <1>3, <1>4 DEF Same

\* A family that was started gets a live row by a rotation alone, which takes one
\* away.
LEMMA LiveRowsFrom ==
  ASSUME IInv, [Next]_vars, NEW f \in Requests, Minted(f), NEW t \in LiveRowsOf(f)'
  PROVE  t \in LiveRowsOf(f) \/ (CommitRotation(t) /\ presented[t] \in LiveRowsOf(f))
<1>a. TypeOK
  BY DEF IInv
<1>b. t \in Requests /\ token'[t] # Null /\ token'[t].revokedAt = Null /\ token'[t].family = f
  BY DEF LiveRowsOf, live
<1>1. CASE Same(t)
  BY <1>b, <1>1 DEF Same, LiveRowsOf, live
<1>2. CASE issueSession(t)
  BY <1>a, <1>b, <1>2, LoginReady, LoginRows
<1>3. CASE CommitRotation(t)
  BY <1>a, <1>b, <1>3, RotationReady, RotationRows DEF LiveRowsOf
<1> QED BY <1>b, <1>1, <1>2, <1>3, RowsFrom

\* A rotation that escapes an UPDATE's snapshot has spent a row of it.
LEMMA FamiliesEndKept ==
  ASSUME IInv, [Next]_vars
  PROVE  FamiliesEnd'
<1>a. TypeOK /\ FamiliesArePresented /\ FamiliesMatch /\ FamiliesEnd /\ Places
  BY DEF IInv
<1>b. ASSUME NEW r \in Requests, Beaten(r), pc[r] # "snapshot"
      PROVE  Beaten(r)'
  <2>1. PICK t \in targets[r] : token[t] = Null \/ token[t].revokedAt \notin {Null, r}
    BY <1>b DEF Beaten
  <2>2. targets'[r] = targets[r] /\ t \in Requests /\ Minted(t)
    BY <1>a, <1>b, MemoriesStay DEF FamiliesMatch, TypeOK
  <2>3. token'[t] # Null => Same(t)
    BY <2>2, OldRows
  <2>4. token'[t] = Null \/ token'[t].revokedAt \notin {Null, r}
    BY <2>1, <2>3 DEF Same
  <2> QED BY <2>2, <2>4 DEF Beaten
<1>c. ASSUME NEW r \in Requests, family[r] # Null
      PROVE  family'[r] = family[r] /\ family[r] \in Requests /\ Minted(family[r])
  BY <1>a, <1>c, MemoriesStay DEF FamiliesMatch, TypeOK
<1> SUFFICES ASSUME NEW r \in Requests
             PROVE  /\ pc'[r] = "revoke" => (LiveRowsOf(family[r]) \subseteq targets[r])' \/ Beaten(r)'
                    /\ Revoked(r)' => (LiveRowsOf(family[r]) = {})' \/ Beaten(r)'
  BY DEF FamiliesEnd
<1>1. ASSUME pc'[r] = "revoke"
      PROVE  (LiveRowsOf(family[r]) \subseteq targets[r])' \/ Beaten(r)'
  <2>1. CASE SnapshotFamily(r)
    <3>1. token' = token /\ family' = family /\ targets'[r] = familyRows(r)
      BY <1>a, <2>1 DEF SnapshotFamily, TypeOK
    <3> QED BY <3>1 DEF LiveRowsOf, familyRows, live
  <2>2. CASE pc[r] = "revoke"
    <3>1. family[r] # Null /\ targets'[r] = targets[r]
      BY <1>a, <2>2, MemoriesStay DEF FamiliesArePresented
    <3>2. CASE Beaten(r)
      BY <1>b, <2>2, <3>2
    <3>3. ASSUME ~Beaten(r), NEW t \in LiveRowsOf(family[r])', t \notin targets[r]
          PROVE  Beaten(r)'
      <4>1. PICK f \in Requests : f = family[r] /\ f = family'[r] /\ Minted(f)
        BY <1>c, <3>1
      <4>2. LiveRowsOf(f) \subseteq targets[r] /\ t \in LiveRowsOf(f)'
        BY <1>a, <2>2, <3>3, <4>1 DEF FamiliesEnd, LiveRowsOf
      <4>3. CommitRotation(t) /\ presented[t] \in targets[r] /\ t \in Requests
        BY <3>3, <4>1, <4>2, LiveRowsFrom DEF LiveRowsOf
      <4>4. t # r
        BY <2>2, <4>3, RotationReady
      <4>5. token'[presented[t]] # Null /\ token'[presented[t]].revokedAt = t
        BY <1>a, <4>3, RotationReady, RotationRows
      <4> QED BY <3>1, <4>3, <4>4, <4>5 DEF Beaten
    <3> QED BY <3>1, <3>2, <3>3
  <2> QED BY <1>1, <2>1, <2>2, RevokeFrom
<1>2. ASSUME Revoked(r)'
      PROVE  (LiveRowsOf(family[r]) = {})' \/ Beaten(r)'
  <2>1. CASE Revoked(r)
    <3>1. family[r] # Null /\ pc[r] # "snapshot"
      BY <1>a, <2>1 DEF Revoked, Places
    <3>2. CASE Beaten(r)
      BY <1>b, <3>1, <3>2
    <3>3. CASE LiveRowsOf(family[r]) = {}
      <4>1. PICK f \in Requests : f = family[r] /\ f = family'[r] /\ Minted(f)
        BY <1>c, <3>1
      <4>2. LiveRowsOf(f)' = {}
        BY <3>3, <4>1, LiveRowsFrom
      <4> QED BY <4>1, <4>2 DEF LiveRowsOf
    <3> QED BY <1>a, <2>1, <3>2, <3>3 DEF FamiliesEnd
  <2>2. CASE RevokeFamily(r)
    <3>1. family[r] # Null /\ pc[r] = "revoke"
      BY <1>a, <2>2 DEF FamiliesArePresented, RevokeFamily
    <3>2. CASE Beaten(r)
      BY <1>b, <3>1, <3>2
    <3>3. CASE LiveRowsOf(family[r]) \subseteq targets[r]
      <4>1. PICK f \in Requests : f = family[r] /\ f = family'[r] /\ Minted(f)
        BY <1>c, <3>1
      <4>2. ASSUME NEW t \in LiveRowsOf(f)' PROVE FALSE
        <5>1. t \in LiveRowsOf(f)
          <6>1. t \in Requests /\ ~CommitRotation(t)
            BY <1>a, <2>2, <3>1, <4>2, RotationReady
              DEF RevokeFamily, CommitRotation, Goto, TypeOK, LiveRowsOf
          <6> QED BY <4>1, <4>2, <6>1, LiveRowsFrom
        <5>2. t \in targets[r] /\ live(t)
          BY <3>3, <4>1, <5>1 DEF LiveRowsOf
        <5>3. token'[t].revokedAt = r
          BY <1>a, <2>2, <5>2, RevocationRows
        <5> QED BY <4>2, <5>3 DEF LiveRowsOf, live
      <4> QED BY <4>1, <4>2 DEF LiveRowsOf
    <3> QED BY <1>a, <3>1, <3>2, <3>3 DEF FamiliesEnd
  <2> QED BY <1>2, <2>1, <2>2, RevokedFrom
<1> QED BY <1>1, <1>2

\* A login starts its family with one live row; a COMMIT takes the family's only
\* live row and leaves its successor.
LEMMA OneLiveTokenKept ==
  ASSUME IInv, [Next]_vars
  PROVE  OneLiveToken'
<1>a. TypeOK /\ OneLiveToken /\ RowsAreMinted
  BY DEF IInv
<1>b. ASSUME NEW t \in Requests, live(t)'
      PROVE  /\ token'[t] # Null /\ token'[t].revokedAt = Null
             /\ \/ live(t) /\ token'[t].family = token[t].family
                \/ issueSession(t)
                \/ CommitRotation(t)
  BY <1>b, RowsFrom DEF live, Same
<1>c. ASSUME NEW t \in Requests, issueSession(t), NEW u \in Requests, live(u)', token'[u].family = token'[t].family
      PROVE  u = t
  <2>1. token' \in [Requests -> TokenRow \cup {Null}] /\ token'[t].family = t
        /\ \A q \in Requests \ {t} : token'[q] = token[q]
    BY <1>a, <1>c, LoginRows
  <2> QED BY <1>c, <2>1, LoginReady DEF live
<1>d. ASSUME NEW t \in Requests, CommitRotation(t), NEW u \in Requests, live(u)', token'[u].family = token'[t].family
      PROVE  u = t
  <2> DEFINE p == presented[t]
  <2>1. p \in Requests /\ live(p) /\ token[t] = Null
    BY <1>d, RotationReady
  <2>2. /\ token'[p].revokedAt = t /\ token'[t].family = token[p].family
        /\ \A q \in Requests \ {t, p} : token'[q] = token[q]
    BY <1>a, <1>d, <2>1, RotationRows
  <2>3. u # p
    BY <1>d, <2>2 DEF live
  <2>4. ASSUME u # t PROVE FALSE
    <3>1. live(u) /\ token[u].family = token[p].family
      BY <1>d, <2>2, <2>3, <2>4 DEF live
    <3> QED BY <1>a, <2>1, <2>3, <3>1 DEF OneLiveToken
  <2> QED BY <2>4
<1> SUFFICES ASSUME NEW t \in Requests, NEW u \in Requests, live(t)', live(u)',
                    token'[t].family = token'[u].family
             PROVE  t = u
  BY DEF OneLiveToken
<1>1. CASE issueSession(t) \/ CommitRotation(t)
  BY <1>1, <1>c, <1>d
<1>2. CASE issueSession(u) \/ CommitRotation(u)
  BY <1>2, <1>c, <1>d
<1>3. CASE live(t) /\ live(u) /\ token[t].family = token[u].family
  BY <1>a, <1>3 DEF OneLiveToken
<1> QED BY <1>1, <1>2, <1>3, <1>b

-----------------------------------------------------------------------------
\* Before the first statement there is no token.
LEMMA InitOK == Init => IInv
<1> SUFFICES ASSUME Init PROVE IInv
  OBVIOUS
<1>1. TypeOK
  BY DEF Init, TypeOK
<1>2. Places /\ RowsAreMinted /\ CookiesWereSent /\ ClaimsHold
  BY DEF Init, Places, RowsAreMinted, CookiesWereSent, ClaimsHold
<1>3. FamiliesArePresented /\ FamiliesMatch /\ AnswersFit
  BY DEF Init, FamiliesArePresented, FamiliesMatch, AnswersFit
<1>4. RotationsStand /\ RevocationsAreSigned /\ OneLiveToken
  BY DEF Init, RotationsStand, Rotated, RevocationsAreSigned, OneLiveToken, live
<1>5. AccountsAreSigned
  BY DEF Init, AccountsAreSigned, Calls
<1>6. FamiliesEnd
  BY DEF Init, FamiliesEnd, Revoked
<1> QED BY <1>1, <1>2, <1>3, <1>4, <1>5, <1>6 DEF IInv

\* Every step keeps every part.
LEMMA InvariantKept ==
  ASSUME IInv, [Next]_vars
  PROVE  IInv'
BY TypesKept, PlacesKept, RowsMintedKept, CookiesKept, ClaimsKept, FamiliesPresentedKept, FamiliesMatchKept,
   RotationsKept, RevocationsKept, AccountsSignedKept, AnswersFitKept, FamiliesEndKept, OneLiveTokenKept DEF IInv

\* The inductive invariant of login, refresh with rotation, logout, pruning and
\* sign-up, for any number of requests.
THEOREM InvariantTheorem == Spec => []IInv
<1>1. IInv /\ [Next]_vars => IInv'
  BY InvariantKept
<1> QED BY InitOK, <1>1, PTL DEF Spec

\* AC-B21 for any number of refreshes with one token: a family never has two
\* unrevoked tokens.
THEOREM LiveTokenTheorem == Spec => []OneLiveToken
<1>1. IInv => OneLiveToken
  BY DEF IInv
<1> QED BY InvariantTheorem, <1>1, PTL

\* A token is exchanged once, for a successor of its own family and user, however
\* many refreshes present it.
THEOREM RotationTheorem == Spec => []RotatedOnce
<1>1. IInv => RotatedOnce
  <2> SUFFICES ASSUME IInv, NEW r \in Requests, call[r].endpoint = "refresh", reply[r] = "OK"
               PROVE  /\ \A q \in Requests : q # r /\ call[q].endpoint = "refresh" /\ reply[q] = "OK" =>
                           presented[q] # presented[r]
                      /\ token[r] # Null /\ token[presented[r]] # Null =>
                           /\ token[presented[r]].revokedAt # Null
                           /\ token[r].family = token[presented[r]].family
                           /\ token[r].user = token[presented[r]].user
    BY DEF RotatedOnce
  <2>1. ASSUME NEW q \in Requests, call[q].endpoint = "refresh", reply[q] = "OK" PROVE Rotated(q)
    BY <2>1 DEF IInv, AnswersFit, Rotated, Rotates
  <2>2. Rotated(r)
    BY <2>1
  <2> QED BY <2>1, <2>2 DEF IInv, RotationsStand, live
<1> QED BY InvariantTheorem, <1>1, PTL

\* A refused request has minted nothing and revoked nothing of another family; an
\* address has the account of the one sign-up that was told so.
THEOREM HonestyTheorem == Spec => []HonestAnswers
<1>1. IInv => HonestAnswers
  <2> SUFFICES ASSUME IInv, NEW r \in Requests
               PROVE  /\ reply[r] \in {"UNAUTHENTICATED", "INVALID_CREDENTIALS", "NO_CONTENT"} =>
                           /\ token[r] = Null
                           /\ \A t \in Requests : token[t] # Null /\ token[t].revokedAt = r =>
                                token[t].family = family[r]
                      /\ reply[r] = "EMAIL_TAKEN" => account[call[r].user] \notin {Null, r}
                      /\ reply[r] = "OK" /\ call[r].endpoint = "signup" => account[call[r].user] = r
                      /\ token[r] # Null => account[token[r].user] # Null
    BY DEF HonestAnswers
  <2>1. ASSUME reply[r] \in {"UNAUTHENTICATED", "INVALID_CREDENTIALS", "NO_CONTENT"}
        PROVE  /\ token[r] = Null
               /\ \A t \in Requests : token[t] # Null /\ token[t].revokedAt = r =>
                    token[t].family = family[r]
    <3>1. ~Minted(r)
      BY <2>1 DEF IInv, Minted, Places, TypeOK
    <3> QED BY <3>1 DEF IInv, RowsAreMinted, RevocationsAreSigned
  <2>2. ASSUME reply[r] = "EMAIL_TAKEN" PROVE account[call[r].user] \notin {Null, r}
    <3>1. call[r].endpoint = "signup" /\ call[r].user \in Users /\ pc[r] = "done"
      BY <2>2 DEF IInv, AnswersFit, TypeOK, Calls, Places
    <3> QED BY <2>2, <3>1 DEF IInv, AccountsAreSigned
  <2>3. ASSUME reply[r] = "OK", call[r].endpoint = "signup" PROVE account[call[r].user] = r
    BY <2>3 DEF IInv, AccountsAreSigned
  <2>4. ASSUME token[r] # Null PROVE account[token[r].user] # Null
    BY <2>4 DEF IInv, RowsAreMinted
  <2> QED BY <2>1, <2>2, <2>3, <2>4
<1> QED BY InvariantTheorem, <1>1, PTL

\* A logout, or a refresh whose token had been replaced, leaves its family without
\* a live token, unless a rotation was ahead of it.
THEOREM FamilyTheorem == Spec => []FamilyEnds
<1>1. IInv => FamilyEnds
  <2> SUFFICES ASSUME IInv, NEW r \in Requests, family[r] # Null,
                      reply[r] \in {"NO_CONTENT", "UNAUTHENTICATED"},
                      \A t \in targets[r] : token[t] # Null /\ token[t].revokedAt = r,
                      NEW t \in Requests, live(t)
               PROVE  token[t].family # family[r]
    BY DEF FamilyEnds
  <2>1. Revoked(r) /\ ~Beaten(r)
    BY DEF Revoked, Beaten
  <2>2. LiveRowsOf(family[r]) = {}
    BY <2>1 DEF IInv, FamiliesEnd
  <2> QED BY <2>2 DEF LiveRowsOf
<1> QED BY InvariantTheorem, <1>1, PTL

\* A row is revoked by the rotation of itself, or by an UPDATE of its family.
LEMMA OthersUntouched ==
  ASSUME IInv, [Next]_vars, NEW t \in Requests, live(t), token'[t] # Null, token'[t].revokedAt # Null
  PROVE  LET r == token'[t].revokedAt
         IN  presented[r] # Null /\ (token[presented[r]] # Null =>
               token[presented[r]].family = token[t].family)
<1>1. Minted(t)
  BY DEF IInv, RowsAreMinted, live
<1>2. Same(t)
  BY <1>1, OldRows
<1>3. PICK r \in Requests :
        /\ token'[t].revokedAt = r
        /\ (CommitRotation(r) /\ t = presented[r]) \/ (RevokeFamily(r) /\ t \in targets[r])
  BY <1>2 DEF Same, live
<1>4. CASE CommitRotation(r) /\ t = presented[r]
  BY <1>3, <1>4, RotationReady
<1>5. CASE RevokeFamily(r) /\ t \in targets[r]
  <2>1. family[r] # Null /\ token[t].family = family[r]
    BY <1>5 DEF IInv, FamiliesArePresented, FamiliesMatch, RevokeFamily, live
  <2> QED BY <1>3, <2>1 DEF IInv, FamiliesArePresented, FamiliesMatch
<1> QED BY <1>3, <1>4, <1>5

\* No request ever revokes a token of a session other than its cookie's.
THEOREM OtherSessionsTheorem == Spec => OtherSessionsUntouched
<1>1. IInv /\ [Next]_vars =>
        [\A t \in Requests :
           live(t) /\ token'[t] # Null /\ token'[t].revokedAt # Null =>
             LET r == token'[t].revokedAt
             IN  presented[r] # Null /\ (token[presented[r]] # Null =>
                   token[presented[r]].family = token[t].family)]_vars
  BY OthersUntouched
<1> QED BY InvariantTheorem, <1>1, PTL DEF Spec, OtherSessionsUntouched

===============================================================================
